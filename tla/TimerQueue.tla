----------------------------- MODULE TimerQueue -----------------------------
(***************************************************************************)
(* timer/TimerQueue and timer/Timer, driven by the timerfd of              *)
(* net/EventLoop: runAfter, runEvery and cancel, from the loop's thread    *)
(* and from others, and tick().  Time is counted in units finer than a     *)
(* tick.  The timerfd expires every tickMs_; the loop reads it at most     *)
(* MaxLate units later, as it may be busy with handlers.                   *)
(***************************************************************************)
EXTENDS Integers, Sequences, FiniteSets, SequencesExt

CONSTANTS
    buckets_,    \* size of the wheel
    tickMs_,     \* units of time between two expirations of the timerfd
    Delays,      \* delays given to runAfter
    Intervals,   \* intervals given to runEvery
    Threads,     \* threads other than the loop's, each makes one timer
    MaxTimers,   \* bound on the timers made
    MaxTime,     \* bound on the clock
    MaxLate      \* how late the loop may read the timerfd

ASSUME TimerAssumption ==
    /\ buckets_ \in Nat \ {0} /\ tickMs_ \in Nat \ {0}
    /\ Delays \subseteq Nat /\ Intervals \subseteq Nat \ {0}
    /\ {MaxTimers, MaxTime, MaxLate} \subseteq Nat

VARIABLES
    now,       \* Timer::now()
    due,       \* next expiration of the timerfd
    howmany,   \* expirations of the timerfd not read yet
    cur,       \* currentBucket_
    wheel,     \* wheel_, buckets of timer ids
    timers,    \* ids in timers_
    timer,     \* the Timer objects, by id
    batch,     \* expiredTimers of the tick under way, not run yet
    appCode,   \* application code may run in the loop's thread
    queue,     \* functors other threads queued on the loop
    idPtr,     \* *idPtr of each thread's call
    call,      \* where each thread is: "new", "wait", "have", "cancelled"
    handle     \* the TimerId each thread got

vars == <<now, due, howmany, cur, wheel, timers, timer, batch, appCode, queue,
          idPtr, call, handle>>

Ids == 1..Len(timer)

Init ==
    /\ now = 0
    /\ due = tickMs_
    /\ howmany = 0
    /\ cur = 0
    /\ wheel = [b \in 0..(buckets_ - 1) |-> <<>>]
    /\ timers = {}
    /\ timer = <<>>
    /\ batch = <<>>
    /\ appCode = TRUE
    /\ queue = <<>>
    /\ idPtr = [t \in Threads |-> -1]
    /\ call = [t \in Threads |-> "new"]
    /\ handle = [t \in Threads |-> -1]

-----------------------------------------------------------------------------
(* Time and the timerfd.  The time spent in handlers and callbacks is time    *)
(* the timerfd waits.                                                        *)

Advance ==
    /\ now < MaxTime
    /\ batch = <<>>
    /\ howmany > 0 => now < (due - howmany * tickMs_) + MaxLate
    /\ now' = now + 1
    /\ IF now + 1 = due
       THEN howmany' = howmany + 1 /\ due' = due + tickMs_
       ELSE UNCHANGED <<howmany, due>>
    /\ UNCHANGED <<cur, wheel, timers, timer, batch, appCode, queue, idPtr, call,
                   handle>>

-----------------------------------------------------------------------------
(* TimerQueue *)

\* ceil(ms / tickMs_)
Ticks(ms) == (ms + tickMs_ - 1) \div tickMs_

\* Mutant of Slot: the division rounds down.
SlotFloor(ms) ==
    LET ticks == IF ms \div tickMs_ = 0 THEN 1 ELSE ms \div tickMs_
    IN  (cur + ticks - 1) % buckets_

\* The bucket addTimer puts a timer in.
Slot(ms) ==
    LET ticks == IF Ticks(ms) = 0 THEN 1 ELSE Ticks(ms)
    IN  (cur + ticks) % buckets_

\* addTimer.  "by" is the thread that asked, "since" when the timer was made or
\* last ran, "lagged" that it was put on the wheel while the hand was late,
\* "revoked" whether cancelTimer was called for it and found it, and "zombie"
\* that it ran all the same.
AddTimer(ms, interval, by) ==
    LET id == Len(timer) + 1
    IN  /\ id <= MaxTimers
        /\ timer' = Append(timer, [expiration |-> now + ms, interval |-> interval,
                                   cancelled |-> FALSE, by |-> by, since |-> now,
                                   lagged |-> howmany > 0, revoked |-> "no", zombie |-> FALSE])
        /\ wheel' = [wheel EXCEPT ![Slot(ms)] = Append(@, id)]
        /\ timers' = timers \cup {id}

Revoked(id) == IF id \in timers THEN "found" ELSE "missed"

\* Mutant of CancelTimer: the timer leaves the table and is not marked.
CancelTimerUnmarked(id) ==
    /\ timers' = timers \ {id}
    /\ timer' = [timer EXCEPT ![id].revoked = Revoked(id)]
    /\ UNCHANGED wheel

\* cancelTimer
CancelTimer(id) ==
    /\ timers' = timers \ {id}
    /\ timer' = [timer EXCEPT ![id].cancelled = @ \/ id \in timers,
                              ![id].revoked = Revoked(id)]
    /\ UNCHANGED wheel

\* What tick() takes out of a bucket to run.
Expired(id) == timer[id].expiration <= now /\ ~timer[id].cancelled

Repeats(id) == timer[id].interval > 0

\* What tick() takes out of the table.
Erased(s) == {id \in ToSet(s) : timer[id].cancelled \/ (Expired(id) /\ ~Repeats(id))}

NextBucket == (cur + 1) % buckets_

\* The locked part of tick(): the bucket under the hand is emptied of what has
\* expired (periodic timers are put in again, counted from this bucket) and of
\* what was cancelled; what has not expired stays for the next revolution.
Collect ==
    LET bucket  == wheel[cur]
        run     == SelectSeq(bucket, Expired)
        stay    == SelectSeq(bucket, LAMBDA id : ~Expired(id) /\ ~timer[id].cancelled)
        again(b) == SelectSeq(run, LAMBDA id :
                       Repeats(id) /\ (cur + Ticks(timer[id].interval)) % buckets_ = b)
    IN  /\ batch' = run
        /\ wheel' = [b \in DOMAIN wheel |->
                        (IF b = cur THEN stay ELSE wheel[b]) \o again(b)]
        /\ timer' = [id \in Ids |->
                        IF id \in ToSet(run) /\ Repeats(id)
                        THEN [timer[id] EXCEPT !.expiration = now + timer[id].interval,
                                               !.lagged = now # due - tickMs_]
                        ELSE timer[id]]
        /\ timers' = timers \ Erased(bucket)
        /\ cur' = NextBucket

-----------------------------------------------------------------------------
(* The loop's thread *)

\* handleTimerRead: however many expirations were read, one tick.
HandleTimerRead ==
    /\ batch = <<>>
    /\ howmany > 0
    /\ howmany' = 0
    /\ Collect
    /\ appCode' = (batch' = <<>>)
    /\ UNCHANGED <<now, due, queue, idPtr, call, handle>>

\* Timer::run, outside the lock.
RunTimer ==
    /\ batch # <<>>
    /\ batch' = Tail(batch)
    /\ LET id == Head(batch)
       IN  IF timer[id].cancelled
           THEN UNCHANGED timer /\ appCode' = (batch' = <<>>)
           ELSE /\ timer' = [timer EXCEPT ![id].since = now,
                                          ![id].zombie = timer[id].revoked # "no"]
                /\ appCode' = TRUE
    /\ UNCHANGED <<now, due, howmany, cur, wheel, timers, queue, idPtr, call, handle>>

\* Application code in the loop's thread - the callback of a timer, a handler, a
\* functor - calls runAfter, runEvery or cancel.
RunAfterHere == \E d \in Delays : AddTimer(d, 0, "loop")
RunEveryHere == \E i \in Intervals : AddTimer(i, i, "loop")
CancelHere ==
    \E id \in Ids : /\ timer[id].by = "loop"
                    /\ timer[id].revoked = "no"
                    /\ CancelTimer(id)

Here ==
    /\ appCode
    /\ RunAfterHere \/ RunEveryHere \/ CancelHere
    /\ UNCHANGED <<now, due, howmany, cur, batch, appCode, queue, idPtr, call, handle>>

\* The loop runs a functor another thread queued.
RunFunctor ==
    /\ batch = <<>>
    /\ queue # <<>>
    /\ queue' = Tail(queue)
    /\ LET f == Head(queue)
       IN  \/ /\ f.op = "add"
              /\ AddTimer(f.arg, f.interval, f.by)
              /\ idPtr' = [idPtr EXCEPT ![f.by] = Len(timer) + 1]
           \/ /\ f.op = "cancel"
              /\ CancelTimer(f.arg)
              /\ UNCHANGED idPtr
    /\ UNCHANGED <<now, due, howmany, cur, batch, appCode, call, handle>>

-----------------------------------------------------------------------------
(* Another thread *)

Functor(op, arg, interval, t) ==
    [op |-> op, arg |-> arg, interval |-> interval, by |-> t]

\* runAfter and runEvery queue the functor that will set *idPtr ...
Ask(t, ms, interval) ==
    /\ call[t] = "new"
    /\ queue' = Append(queue, Functor("add", ms, interval, t))
    /\ call' = [call EXCEPT ![t] = "wait"]
    /\ UNCHANGED <<now, due, howmany, cur, wheel, timers, timer, batch, appCode,
                   idPtr, handle>>

RunAfter(t) == \E d \in Delays : Ask(t, d, 0)
RunEvery(t) == \E i \in Intervals : Ask(t, i, i)

\* ... and return whatever *idPtr is by then.
AskReturns(t) ==
    /\ call[t] = "wait"
    /\ handle' = [handle EXCEPT ![t] = idPtr[t]]
    /\ call' = [call EXCEPT ![t] = "have"]
    /\ UNCHANGED <<now, due, howmany, cur, wheel, timers, timer, batch, appCode,
                   queue, idPtr>>

\* cancel(timerId): nothing for an invalid id, else a functor.
Cancel(t) ==
    /\ call[t] = "have"
    /\ queue' = IF handle[t] < 0 THEN queue
                ELSE Append(queue, Functor("cancel", handle[t], 0, t))
    /\ call' = [call EXCEPT ![t] = "cancelled"]
    /\ UNCHANGED <<now, due, howmany, cur, wheel, timers, timer, batch, appCode,
                   idPtr, handle>>

\* The bound on the clock.
TimeIsUp == now = MaxTime /\ UNCHANGED vars

Next ==
    \/ Advance \/ HandleTimerRead \/ RunTimer \/ Here \/ RunFunctor
    \/ \E t \in Threads : RunAfter(t) \/ RunEvery(t) \/ AskReturns(t) \/ Cancel(t)
    \/ TimeIsUp

Spec == Init /\ [][Next]_vars

-----------------------------------------------------------------------------
(* Properties *)

\* Types; the hand stays on the wheel and ids stay in range.
TypeOK ==
    /\ {now, due, howmany} \subseteq Nat
    /\ cur \in 0..(buckets_ - 1)
    /\ wheel \in [0..(buckets_ - 1) -> Seq(Ids)]
    /\ timers \subseteq Ids
    /\ batch \in Seq(Ids)
    /\ appCode \in BOOLEAN
    /\ \A id \in Ids : timer[id].expiration \in Nat
    /\ \A t \in Threads : idPtr[t] \in Ids \cup {-1} /\ handle[t] \in {idPtr[t], -1}

OnWheel(id) == {<<b, i>> \in (DOMAIN wheel) \X (1..MaxTimers) :
                   i <= Len(wheel[b]) /\ wheel[b][i] = id}

\* timers_ and wheel_ hold the same timers, each once: a timer can be cancelled
\* as long as it is going to run (again), and cancelled ones do not pile up in
\* the table.  (A cancelled timer may stay on the wheel until the hand passes.)
TableMatchesWheel ==
    \A id \in Ids :
        /\ id \in timers => Cardinality(OnWheel(id)) = 1
        /\ id \notin timers => (OnWheel(id) = {} \/ timer[id].cancelled)

\* A one-shot timer is never run before its time, even when the hand passes its
\* bucket in an earlier revolution.
NeverEarly ==
    \A i \in 1..Len(batch) :
        ~Repeats(batch[i]) => now >= timer[batch[i]].expiration

Deadline(id) == IF Repeats(id) THEN timer[id].since + timer[id].interval
                ELSE timer[id].expiration

\* A timer that is not cancelled runs at the latest two ticks and the loop's
\* lateness after its time, however many revolutions its delay is; one that was
\* put on the wheel while the hand was late may miss its turn, but is never lost:
\* it runs one revolution later (addTimer, tick, restart).
OnTime ==
    \A id \in timers :
        now <= Deadline(id) + MaxLate
                 + tickMs_ * (IF timer[id].lagged THEN buckets_ + 2 ELSE 2)

\* A timer that cancelTimer found in the table does not run afterwards, not even
\* when the tick under way has already collected it (Timer::run tests the mark).
CancelStops ==
    \A id \in Ids : timer[id].zombie => timer[id].revoked = "missed"
=============================================================================
