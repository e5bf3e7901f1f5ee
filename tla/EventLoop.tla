----------------------------- MODULE EventLoop -----------------------------
(***************************************************************************)
(* The task queue of net/EventLoop: the loop thread alternates between     *)
(* epoll_wait, the handlers of the active channels and the functors other  *)
(* threads (or its own handlers) left in pendingFunctors_.  A thread that  *)
(* queues a functor pushes it under the mutex and then, in a separate      *)
(* step, writes to the eventfd that makes epoll_wait return.               *)
(*                                                                         *)
(* Functors are numbered in the order the mutex admits them.  The bodies   *)
(* of handlers and functors are arbitrary code run by the loop thread:     *)
(* they may do nothing, queue another functor, or quit the loop.           *)
(***************************************************************************)
EXTENDS Naturals, Sequences, FiniteSets

CONSTANTS
    Threads,      \* threads other than the loop's own
    MaxFunctors,  \* bound on the calls of queueInLoop
    MaxQuits      \* bound on the calls of quit

ASSUME BoundsAssumption == MaxFunctors \in Nat /\ MaxQuits \in Nat

VARIABLES
    pc,           \* where the loop thread is
    looping,      \* looping_
    quit,         \* quit_
    calling,      \* callingPendingFunctors_
    pending,      \* pendingFunctors_
    functors,     \* the local vector of doPendingFunctors, minus what has run
    active,       \* activeChannels_ not yet handled
    eventfd,      \* counter of the wakeup eventfd
    tpc,          \* what each other thread still has to do
    pushed,       \* functors pushed so far
    quits,        \* calls of quit so far
    preloop,      \* functors the loop's own thread queued before loop()
    executed      \* functors run so far, in order

vars == <<pc, looping, quit, calling, pending, functors, active, eventfd, tpc,
          pushed, quits, preloop, executed>>

LoopPC == {"init", "test", "poll", "events", "swap", "run", "done"}

Init ==
    /\ pc = "init"
    /\ looping = FALSE
    /\ quit = FALSE
    /\ calling = FALSE
    /\ pending = <<>>
    /\ functors = <<>>
    /\ active = {}
    /\ eventfd = 0
    /\ tpc = [t \in Threads |-> "idle"]
    /\ pushed = 0
    /\ quits = 0
    /\ preloop = {}
    /\ executed = <<>>

-----------------------------------------------------------------------------
(* Operations of other threads *)

\* The critical section of queueInLoop.
Push ==
    /\ pushed < MaxFunctors
    /\ pending' = Append(pending, pushed + 1)
    /\ pushed' = pushed + 1

\* queueInLoop, and runInLoop from a thread that is not the loop's.
QueueInLoop(t) ==
    /\ tpc[t] = "idle"
    /\ Push
    /\ tpc' = [tpc EXCEPT ![t] = "wakeup"]
    /\ UNCHANGED <<pc, looping, quit, calling, functors, active, eventfd, quits,
                   preloop, executed>>

\* The write to the eventfd that ends queueInLoop and quit.
Wakeup(t) ==
    /\ tpc[t] = "wakeup"
    /\ eventfd' = eventfd + 1
    /\ tpc' = [tpc EXCEPT ![t] = "idle"]
    /\ UNCHANGED <<pc, looping, quit, calling, pending, functors, active, pushed,
                   quits, preloop, executed>>

Quit(t) ==
    /\ tpc[t] = "idle"
    /\ quits < MaxQuits
    /\ quits' = quits + 1
    /\ quit' = TRUE
    /\ tpc' = [tpc EXCEPT ![t] = "wakeup"]
    /\ UNCHANGED <<pc, looping, calling, pending, functors, active, eventfd,
                   pushed, preloop, executed>>

-----------------------------------------------------------------------------
(* The loop thread *)

\* Mutant of QueueInLoopHere: without "|| callingPendingFunctors_".
QueueInLoopHereSilent ==
    /\ Push
    /\ UNCHANGED <<quit, quits, eventfd>>

\* queueInLoop called by the loop thread: it writes to the eventfd only while
\* doPendingFunctors is running functors.
QueueInLoopHere ==
    /\ Push
    /\ eventfd' = IF calling THEN eventfd + 1 ELSE eventfd
    /\ UNCHANGED <<quit, quits>>

\* quit called by the loop thread: no wakeup.
QuitHere ==
    /\ quits < MaxQuits
    /\ quits' = quits + 1
    /\ quit' = TRUE
    /\ UNCHANGED <<pending, pushed, eventfd>>

\* What the code of a handler or of a functor may do to the loop.
Body ==
    \/ UNCHANGED <<pending, pushed, eventfd, quit, quits>>
    \/ QueueInLoopHere
    \/ QuitHere

\* The loop's thread may queue functors between the constructor and loop(),
\* as the thread-initialisation callback of EventLoopThread does.
BeforeLoop ==
    /\ pc = "init"
    /\ QueueInLoopHere
    /\ preloop' = preloop \cup {pushed + 1}
    /\ UNCHANGED <<pc, looping, calling, functors, active, tpc, executed>>

\* loop(): it resets quit_, whatever was written to it before.
LoopEnter ==
    /\ pc = "init"
    /\ looping' = TRUE
    /\ quit' = FALSE
    /\ pc' = "test"
    /\ UNCHANGED <<calling, pending, functors, active, eventfd, tpc, pushed,
                   quits, preloop, executed>>

\* Mutant of LoopTest: quit_ is not tested.
LoopTestForever ==
    /\ pc = "test"
    /\ pc' = "poll"
    /\ UNCHANGED <<looping, quit, calling, pending, functors, active, eventfd, tpc,
                   pushed, quits, preloop, executed>>

\* while (!quit_)
LoopTest ==
    /\ pc = "test"
    /\ pc' = IF quit THEN "done" ELSE "poll"
    /\ looping' = ~quit
    /\ UNCHANGED <<quit, calling, pending, functors, active, eventfd, tpc,
                   pushed, quits, preloop, executed>>

\* epoll_wait returns: the wakeup channel is active exactly when the eventfd is
\* positive; other channels ("io") may be active too.
PollReturns(io) ==
    /\ pc = "poll"
    /\ active' = io \cup (IF eventfd > 0 THEN {"wakeup"} ELSE {})
    /\ pc' = "events"
    /\ UNCHANGED <<looping, quit, calling, pending, functors, eventfd, tpc,
                   pushed, quits, preloop, executed>>

PollWakeup == eventfd > 0 /\ PollReturns({})

PollIO == PollReturns({"io"})

PollTimeout == eventfd = 0 /\ PollReturns({})

\* handleRead: reading an eventfd resets it.
HandleRead ==
    /\ pc = "events"
    /\ "wakeup" \in active
    /\ active' = active \ {"wakeup"}
    /\ eventfd' = 0
    /\ UNCHANGED <<pc, looping, quit, calling, pending, functors, tpc, pushed,
                   quits, preloop, executed>>

\* The handler of any other channel.
HandleIO ==
    /\ pc = "events"
    /\ "io" \in active
    /\ active' = active \ {"io"}
    /\ Body
    /\ UNCHANGED <<pc, looping, calling, functors, tpc, preloop, executed>>

\* doPendingFunctors: first callingPendingFunctors_ = true ...
EnterPending ==
    /\ pc = "events"
    /\ active = {}
    /\ calling' = TRUE
    /\ pc' = "swap"
    /\ UNCHANGED <<looping, quit, pending, functors, active, eventfd, tpc,
                   pushed, quits, preloop, executed>>

\* Mutant of SwapFunctors: a copy instead of a swap.
CopyFunctors ==
    /\ pc = "swap"
    /\ functors' = pending
    /\ pc' = "run"
    /\ UNCHANGED <<looping, quit, calling, pending, active, eventfd, tpc,
                   pushed, quits, preloop, executed>>

\* ... then the swap under the mutex ...
SwapFunctors ==
    /\ pc = "swap"
    /\ functors' = pending
    /\ pending' = <<>>
    /\ pc' = "run"
    /\ UNCHANGED <<looping, quit, calling, active, eventfd, tpc, pushed, quits,
                   preloop, executed>>

\* Mutant of RunFunctor: the newest functor first.
RunNewestFunctor ==
    /\ pc = "run"
    /\ functors # <<>>
    /\ executed' = Append(executed, functors[Len(functors)])
    /\ functors' = SubSeq(functors, 1, Len(functors) - 1)
    /\ Body
    /\ UNCHANGED <<pc, looping, calling, active, tpc, preloop>>

\* ... then each functor in turn ...
RunFunctor ==
    /\ pc = "run"
    /\ functors # <<>>
    /\ executed' = Append(executed, Head(functors))
    /\ functors' = Tail(functors)
    /\ Body
    /\ UNCHANGED <<pc, looping, calling, active, tpc, preloop>>

\* ... then callingPendingFunctors_ = false.
LeavePending ==
    /\ pc = "run"
    /\ functors = <<>>
    /\ calling' = FALSE
    /\ pc' = "test"
    /\ UNCHANGED <<looping, quit, pending, functors, active, eventfd, tpc,
                   pushed, quits, preloop, executed>>

\* loop() has returned and nothing is left for the thread to do.
Stopped == pc = "done" /\ UNCHANGED vars

-----------------------------------------------------------------------------
\* The steps of the loop thread that need neither a timeout nor a socket.
LoopStep ==
    \/ LoopEnter \/ LoopTest \/ PollWakeup \/ HandleRead \/ HandleIO
    \/ EnterPending \/ SwapFunctors \/ RunFunctor \/ LeavePending

OtherStep(t) == QueueInLoop(t) \/ Wakeup(t) \/ Quit(t)

Next ==
    \/ LoopStep
    \/ BeforeLoop
    \/ PollIO
    \/ PollTimeout
    \/ Stopped
    \/ \E t \in Threads : OtherStep(t)

Spec == Init /\ [][Next]_vars

\* The loop thread is scheduled and a thread that is between its push and its
\* wakeup goes on.  Neither a socket event nor the poll timeout is assumed.
FairSpec ==
    /\ Spec
    /\ WF_vars(LoopStep)
    /\ \A t \in Threads : WF_vars(Wakeup(t))
-----------------------------------------------------------------------------
(* Properties *)

\* Every variable has its type, and the flags agree with the place of the loop
\* thread: looping_ inside loop(), callingPendingFunctors_ inside
\* doPendingFunctors, no unhandled channel outside the handler phase.
TypeOK ==
    /\ pc \in LoopPC
    /\ looping \in BOOLEAN /\ (looping <=> pc \notin {"init", "done"})
    /\ calling \in BOOLEAN /\ (calling <=> pc \in {"swap", "run"})
    /\ quit \in BOOLEAN
    /\ pending \in Seq(Nat)
    /\ functors \in Seq(Nat)
    /\ executed \in Seq(Nat)
    /\ active \subseteq {"wakeup", "io"}
    /\ pc # "events" => active = {}
    /\ pc # "run" => functors = <<>>
    /\ eventfd \in Nat
    /\ tpc \in [Threads -> {"idle", "wakeup"}]
    /\ pushed \in 0..MaxFunctors
    /\ quits \in 0..MaxQuits
    /\ preloop \subseteq 1..MaxFunctors

\* Every functor given to queueInLoop is, exactly once, run, in the batch that
\* is being run, or still queued, and functors run in the order in which the
\* mutex admitted them: the swap of doPendingFunctors neither loses, repeats
\* nor reorders anything, whoever pushes meanwhile.
ExecutionOrder ==
    /\ pushed = Len(executed) + Len(functors) + Len(pending)
    /\ \A i \in 1..Len(executed) : executed[i] = i
    /\ \A i \in 1..Len(functors) : functors[i] = Len(executed) + i
    /\ \A i \in 1..Len(pending) :
            pending[i] = Len(executed) + Len(functors) + i

Waking == eventfd > 0 \/ \E t \in Threads : tpc[t] = "wakeup"

\* queueInLoop never leaves a functor to the poll timeout: while the loop
\* thread is in epoll_wait and a functor is queued, the eventfd is readable or
\* a thread is about to write to it.  (The exception is what the loop's own
\* thread queued before it called loop(): no wakeup is written for it.)
NoLostWakeup ==
    pc = "poll" /\ (\E i \in 1..Len(pending) : pending[i] \notin preloop)
        => Waking

\* The same for quit(): the loop never blocks in epoll_wait with quit_ set
\* unless a wakeup is on its way.
NoLostQuit == pc = "poll" /\ quit => Waking

\* Every functor queued runs, without the help of the poll timeout or of a
\* socket event, unless the loop is made to quit.
EveryFunctorRuns ==
    \A i \in 1..MaxFunctors :
        (pushed >= i /\ i \notin preloop) ~> (Len(executed) >= i \/ pc = "done")

\* Once the loop has been entered, quit() ends it.
QuitEndsLoop == (quit /\ pc # "init") ~> (pc = "done")

\* The loop is a serial executor: what queueInLoop promises its callers.
Executor == INSTANCE SerialExecutor
              WITH queue <- functors \o pending, done <- executed,
                   submitted <- pushed

ImplementsExecutor == Executor!Spec
=============================================================================
