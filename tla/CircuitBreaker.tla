--------------------------- MODULE CircuitBreaker ---------------------------
(* util/CircuitBreaker.h.  Callers run execute() concurrently: each asks   *)
(* allow(), performs its call outside the mutex, and reports the outcome   *)
(* to whatever state the breaker is in by then.                            *)
EXTENDS Integers

CONSTANTS
    Callers,
    failureThreshold,
    successThreshold,
    timeoutMs            \* of the Open state, in units of the clock

ASSUME BreakerAssumption ==
    {failureThreshold, successThreshold, timeoutMs} \subseteq Int

VARIABLES
    bstate,              \* state_
    failureCount,
    successCount,
    quiet,               \* time since lastFailureTime_, at most timeoutMs
    inCall,              \* callers whose call was admitted and is under way
    streak               \* ghost: successes reported since the last failure

breakerVars == <<bstate, failureCount, successCount, quiet, inCall, streak>>

BreakerInit ==
    /\ bstate = "Closed"
    /\ failureCount = 0 /\ successCount = 0
    /\ quiet = timeoutMs           \* lastFailureTime_ is 0
    /\ inCall = {}
    /\ streak = 0

BreakerTick ==
    /\ quiet < timeoutMs
    /\ quiet' = quiet + 1
    /\ UNCHANGED <<bstate, failureCount, successCount, inCall, streak>>

\* The time-out of Open, seen by state() or allow().
Probe == bstate = "Open" /\ quiet >= timeoutMs

BreakerState ==
    /\ Probe
    /\ bstate' = "HalfOpen"
    /\ successCount' = 0
    /\ UNCHANGED <<failureCount, quiet, inCall, streak>>

\* Mutant of BreakerAllow: the count of an earlier probe is kept.
BreakerAllowKeepsCount(c) ==
    /\ c \notin inCall
    /\ bstate # "Open" \/ Probe
    /\ bstate' = IF Probe THEN "HalfOpen" ELSE bstate
    /\ inCall' = inCall \cup {c}
    /\ UNCHANGED <<failureCount, successCount, quiet, streak>>

\* allow() answers true; when it answers false nothing changes.
BreakerAllow(c) ==
    /\ c \notin inCall
    /\ bstate # "Open" \/ Probe
    /\ bstate' = IF Probe THEN "HalfOpen" ELSE bstate
    /\ successCount' = IF Probe THEN 0 ELSE successCount
    /\ inCall' = inCall \cup {c}
    /\ UNCHANGED <<failureCount, quiet, streak>>

RecordSuccess(c) ==
    LET closes == bstate = "HalfOpen" /\ successCount + 1 >= successThreshold IN
    /\ c \in inCall
    /\ inCall' = inCall \ {c}
    /\ bstate' = IF closes THEN "Closed" ELSE bstate
    /\ failureCount' = IF bstate = "Closed" \/ closes THEN 0 ELSE failureCount
    /\ successCount' = IF closes THEN 0
                       ELSE IF bstate = "HalfOpen" THEN successCount + 1
                       ELSE successCount
    /\ streak' = IF streak < successThreshold THEN streak + 1 ELSE streak
    /\ UNCHANGED quiet

RecordFailure(c) ==
    /\ c \in inCall
    /\ inCall' = inCall \ {c}
    /\ quiet' = 0
    /\ failureCount' = IF bstate = "Closed" THEN failureCount + 1 ELSE failureCount
    /\ bstate' = IF \/ bstate = "Closed" /\ failureCount + 1 >= failureThreshold
                    \/ bstate = "HalfOpen"
                 THEN "Open" ELSE bstate
    /\ streak' = 0
    /\ UNCHANGED successCount

BreakerNext ==
    \/ BreakerTick \/ BreakerState
    \/ \E c \in Callers : BreakerAllow(c) \/ RecordSuccess(c) \/ RecordFailure(c)

BreakerSpec == BreakerInit /\ [][BreakerNext]_breakerVars

(* A tripped breaker closes only after successThreshold successes with no  *)
(* failure between them and a full time-out since the last failure, and it *)
(* trips only on failureThreshold failures or on a failed probe: also when *)
(* calls admitted before it tripped report late, in any order.             *)
BreakerSound ==
    [][/\ bstate # "Closed" /\ bstate' = "Closed" =>
             streak' >= successThreshold /\ quiet >= timeoutMs
       /\ bstate = "Closed" /\ bstate' # "Closed" =>
             bstate' = "Open" /\ failureCount' >= failureThreshold /\ streak' = 0
       /\ bstate = "Open" /\ inCall \subseteq inCall' /\ inCall # inCall' =>
             quiet >= timeoutMs]_breakerVars
=============================================================================
