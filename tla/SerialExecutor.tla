--------------------------- MODULE SerialExecutor ---------------------------
(***************************************************************************)
(* What EventLoop::queueInLoop promises: functors are taken in some order  *)
(* and run one at a time, each once, in that order.  A functor may queue   *)
(* further functors while it runs.                                         *)
(***************************************************************************)
EXTENDS Naturals, Sequences

VARIABLES
    queue,      \* accepted, not yet run
    done,       \* run, in order
    submitted   \* how many functors were accepted: the next one's name

svars == <<queue, done, submitted>>

Init ==
    /\ queue = <<>>
    /\ done = <<>>
    /\ submitted = 0

\* queueInLoop
Submit ==
    /\ submitted' = submitted + 1
    /\ queue' = Append(queue, submitted + 1)
    /\ UNCHANGED done

\* One functor runs; what it queues goes behind everything accepted before.
Execute ==
    /\ queue # <<>>
    /\ done' = Append(done, Head(queue))
    /\ \/ queue' = Tail(queue) /\ UNCHANGED submitted
       \/ /\ queue' = Append(Tail(queue), submitted + 1)
          /\ submitted' = submitted + 1

Next == Submit \/ Execute

Spec == Init /\ [][Next]_svars
=============================================================================
