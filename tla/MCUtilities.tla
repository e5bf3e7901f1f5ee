---------------------------- MODULE MCUtilities ----------------------------
(* The library's passive objects, one at a time: the timer wheel, the      *)
(* connection pools, the object pool, the load balancer, the etcd client,  *)
(* and what guards calls to a service (breaker, limiters, lock, id         *)
(* generator).  subject says which one a behaviour is about; the others    *)
(* stay in their initial state.                                            *)
(* "deadlines" is the wheel again, with one timer and a longer clock.      *)
EXTENDS TimerQueue, ConnectionPool, ObjectPool, CircuitBreaker, RateLimiter,
        Snowflake, Redlock, LoadBalancer, EtcdClient

CONSTANTS LongDelays, LongIntervals, LongTime

VARIABLE subject

D == INSTANCE TimerQueue
       WITH Threads <- {}, Delays <- LongDelays, Intervals <- LongIntervals,
            MaxTimers <- 1, MaxTime <- LongTime

guardVars == <<breakerVars, limiterVars, flakeVars, lockVars,
              balancerVars, etcdVars>>
mcVars == <<vars, poolVars, objectVars, guardVars, subject>>

Subjects == {"timers", "deadlines", "objects", "breaker", "limiter", "ids", "lock",
             "balancer", "etcd"}

MCInit ==
    /\ subject \in Subjects \cup Kinds
    /\ IF subject = "deadlines" THEN D!Init ELSE Init
    /\ IF subject \in Kinds THEN PoolInit(subject) ELSE PoolOff
    /\ ObjectInit /\ BreakerInit /\ LimiterInit /\ FlakeInit /\ LockInit
    /\ EtcdInit /\ BalancerInit /\ (subject # "balancer" => strategy = "Random")

MCNext ==
    \/ /\ (subject = "timers" /\ Next) \/ (subject = "deadlines" /\ D!Next)
       /\ UNCHANGED <<poolVars, objectVars, guardVars, subject>>
    \/ /\ subject \in Kinds /\ PoolNext
       /\ UNCHANGED <<vars, objectVars, guardVars, subject>>
    \/ /\ subject = "objects" /\ ObjectNext
       /\ UNCHANGED <<vars, poolVars, guardVars, subject>>
    \/ /\ subject = "breaker" /\ BreakerNext
       /\ UNCHANGED <<vars, poolVars, objectVars, limiterVars, flakeVars, lockVars, balancerVars, etcdVars, subject>>
    \/ /\ subject = "limiter" /\ LimiterNext
       /\ UNCHANGED <<vars, poolVars, objectVars, breakerVars, flakeVars, lockVars, balancerVars, etcdVars, subject>>
    \/ /\ subject = "ids" /\ FlakeNext
       /\ UNCHANGED <<vars, poolVars, objectVars, breakerVars, limiterVars, lockVars, balancerVars, etcdVars, subject>>
    \/ /\ subject = "lock" /\ LockNext
       /\ UNCHANGED <<vars, poolVars, objectVars, breakerVars, limiterVars, flakeVars, balancerVars, etcdVars, subject>>
    \/ /\ subject = "balancer" /\ BalancerNext
       /\ UNCHANGED <<vars, poolVars, objectVars, breakerVars, limiterVars, flakeVars, lockVars, etcdVars, subject>>
    \/ /\ subject = "etcd" /\ EtcdNext
       /\ UNCHANGED <<vars, poolVars, objectVars, breakerVars, limiterVars, flakeVars, lockVars, balancerVars, subject>>

MCSpec == MCInit /\ [][MCNext]_mcVars

-----------------------------------------------------------------------------
\* The timer table and the wheel hold the same timers, and one that cancelTimer
\* found never runs again, not even out of the batch a tick has collected.
TimersConsistent == TableMatchesWheel /\ CancelStops

\* A timer runs neither before its time nor much after it, whatever the rounding to
\* ticks and the lateness of the loop (addTimer, tick).
Punctual == NeverEarly /\ OnTime

\* A pool neither loses a slot nor frees one behind the back of the threads that
\* wait for it in acquire().
SlotsKept == SlotsAccounted /\ FreedSlotAnnounced
=============================================================================
