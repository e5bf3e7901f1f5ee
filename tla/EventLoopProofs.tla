-------------------------- MODULE EventLoopProofs --------------------------
(***************************************************************************)
(* What EventLoop promises, for any number of threads, functors and calls  *)
(* of quit.  The inductive invariant is IInv: the type invariant, the      *)
(* order of the functors, and WakeInv, which extends NoLostWakeup from     *)
(* epoll_wait to every place of the loop thread except the ones between    *)
(* the read of the eventfd and the swap.                                   *)
(***************************************************************************)
EXTENDS EventLoop, SequenceTheorems, TLAPS

Fresh == \E i \in 1..Len(pending) : pending[i] \notin preloop

\* A functor queued outside "events" and "swap" has a wakeup on its way; queued
\* there, it is taken by the swap that follows.
WakeInv ==
    /\ pc \notin {"events", "swap"} /\ Fresh => Waking
    /\ NoLostQuit

IInv == TypeOK /\ ExecutionOrder /\ WakeInv

\* Tail and Append on the sequences of functor numbers.
LEMMA TailNat ==
    ASSUME NEW s \in Seq(Nat), s # <<>>
    PROVE  /\ Head(s) \in Nat /\ Head(s) = s[1]
           /\ Tail(s) \in Seq(Nat)
           /\ Len(s) \in Nat \ {0}
           /\ Len(Tail(s)) = Len(s) - 1
           /\ \A i \in 1..Len(Tail(s)) : Tail(s)[i] = s[i + 1]
  OBVIOUS

\* The push of queueInLoop keeps the sequence typed.
LEMMA AppendNat ==
    ASSUME NEW s \in Seq(Nat), NEW x \in Nat
    PROVE  /\ Append(s, x) \in Seq(Nat)
           /\ Len(Append(s, x)) = Len(s) + 1
           /\ \A i \in 1..Len(s) : Append(s, x)[i] = s[i]
           /\ Append(s, x)[Len(s) + 1] = x
  OBVIOUS

\* A loop that has just been constructed satisfies the invariant.
LEMMA InitInv == Init => IInv
<1> SUFFICES ASSUME Init PROVE IInv
  OBVIOUS
<1> USE DEF Init
<1>1. {looping, calling, quit} \subseteq BOOLEAN
  BY Zenon
<1>2. TypeOK
  BY <1>1, BoundsAssumption DEF TypeOK, LoopPC
<1>3. ExecutionOrder
  BY DEF ExecutionOrder
<1>4. WakeInv
  BY DEF WakeInv, Fresh, NoLostQuit
<1> QED
  BY <1>2, <1>3, <1>4 DEF IInv

\* The type invariant is inductive by itself.
LEMMA TypeStep == TypeOK /\ [Next]_vars => TypeOK'
<1> SUFFICES ASSUME TypeOK, [Next]_vars PROVE TypeOK'
  OBVIOUS
<1> USE BoundsAssumption DEF TypeOK, LoopPC
<1>a. ASSUME Push PROVE pending' \in Seq(Nat) /\ pushed' \in 0..MaxFunctors
  BY <1>a, AppendNat DEF Push
<1>b. ASSUME Body
      PROVE /\ pending' \in Seq(Nat) /\ pushed' \in 0..MaxFunctors
            /\ eventfd' \in Nat /\ quit' \in BOOLEAN /\ quits' \in 0..MaxQuits
  <2>1. quit' \in BOOLEAN
    BY <1>b, Zenon DEF Body, QueueInLoopHere, QuitHere
  <2>2. CASE QueueInLoopHere
    BY <2>1, <2>2, <1>a DEF QueueInLoopHere
  <2>3. CASE QuitHere
    BY <2>1, <2>3 DEF QuitHere
  <2> QED
    BY <2>1, <2>2, <2>3, <1>b DEF Body
<1>1. CASE LoopEnter
  <2>1. quit' \in BOOLEAN /\ looping' \in BOOLEAN
    BY <1>1, Zenon DEF LoopEnter
  <2> QED
    BY <1>1, <2>1 DEF LoopEnter
<1>2. CASE LoopTest
  BY <1>2 DEF LoopTest
<1>3. ASSUME NEW io \in SUBSET {"io"}, PollReturns(io) PROVE TypeOK'
  BY <1>3 DEF PollReturns
<1>4. CASE PollWakeup \/ PollIO \/ PollTimeout
  BY <1>3, <1>4 DEF PollWakeup, PollIO, PollTimeout
<1>5. CASE HandleRead
  BY <1>5 DEF HandleRead
<1>6. CASE HandleIO
  BY <1>6, <1>b DEF HandleIO
<1>7. CASE EnterPending
  BY <1>7 DEF EnterPending
<1>8. CASE SwapFunctors
  BY <1>8 DEF SwapFunctors
<1>9. CASE RunFunctor
  <2>1. Tail(functors) \in Seq(Nat) /\ Head(functors) \in Nat
    BY <1>9, TailNat DEF RunFunctor
  <2>2. executed' \in Seq(Nat) /\ functors' \in Seq(Nat)
    BY <1>9, <2>1, AppendNat DEF RunFunctor
  <2> QED
    BY <1>9, <1>b, <2>2 DEF RunFunctor
<1>10. CASE LeavePending
  <2>1. calling' \in BOOLEAN
    BY <1>10, Zenon DEF LeavePending
  <2> QED
    BY <1>10, <2>1 DEF LeavePending
<1>11. CASE BeforeLoop
  <2>1. eventfd' \in Nat
    BY <1>11 DEF BeforeLoop, QueueInLoopHere
  <2>2. preloop' \subseteq 1..MaxFunctors
    BY <1>11 DEF BeforeLoop, QueueInLoopHere, Push
  <2> QED
    BY <1>11, <1>a, <2>1, <2>2 DEF BeforeLoop, QueueInLoopHere
<1>12. CASE Stopped \/ UNCHANGED vars
  <2>1. UNCHANGED vars
    BY <1>12 DEF Stopped
  <2> QED
    BY <2>1, Zenon DEF vars
<1>13. ASSUME NEW t \in Threads, QueueInLoop(t) PROVE TypeOK'
  BY <1>13, <1>a DEF QueueInLoop
<1>14. ASSUME NEW t \in Threads, Wakeup(t) PROVE TypeOK'
  BY <1>14 DEF Wakeup
<1>15. ASSUME NEW t \in Threads, Quit(t) PROVE TypeOK'
  BY <1>15 DEF Quit
<1> QED
  BY <1>1, <1>2, <1>4, <1>5, <1>6, <1>7, <1>8, <1>9, <1>10, <1>11, <1>12,
     <1>13, <1>14, <1>15 DEF Next, LoopStep, OtherStep

\* So is the order of the functors, given the types.
LEMMA OrderStep == TypeOK /\ ExecutionOrder /\ [Next]_vars => ExecutionOrder'
<1> SUFFICES ASSUME TypeOK, ExecutionOrder, [Next]_vars PROVE ExecutionOrder'
  OBVIOUS
<1>0. /\ pending \in Seq(Nat) /\ functors \in Seq(Nat) /\ executed \in Seq(Nat)
      /\ pushed \in Nat
  BY BoundsAssumption DEF TypeOK
<1>l. Len(pending) \in Nat /\ Len(functors) \in Nat /\ Len(executed) \in Nat
  BY <1>0
<1>s. pushed = Len(executed) + Len(functors) + Len(pending)
  BY DEF ExecutionOrder
<1>p. ASSUME Push
      PROVE /\ pushed' = pushed + 1 /\ Len(pending') = Len(pending) + 1
            /\ \A i \in 1..Len(pending') :
                    pending'[i] = Len(executed) + Len(functors) + i
  <2>1. pending' = Append(pending, pushed + 1) /\ pushed' = pushed + 1
    BY <1>p DEF Push
  <2>2. Len(pending') = Len(pending) + 1
    BY <1>0, <2>1, AppendNat
  <2>4. ASSUME NEW i \in 1..Len(pending')
        PROVE  pending'[i] = Len(executed) + Len(functors) + i
    <3>1. CASE i = Len(pending) + 1
      BY <1>0, <1>l, <1>s, <2>1, <3>1, AppendNat
    <3>2. CASE i \in 1..Len(pending)
      BY <1>0, <2>1, <3>2, AppendNat DEF ExecutionOrder
    <3> QED
      BY <1>l, <2>2, <3>1, <3>2
  <2> QED
    BY <2>1, <2>2, <2>4
<1>a. ASSUME Push, UNCHANGED <<functors, executed>> PROVE ExecutionOrder'
  <2>1. pushed' = Len(executed') + Len(functors') + Len(pending')
    BY <1>l, <1>s, <1>p, <1>a
  <2>2. \A i \in 1..Len(pending') : pending'[i] = Len(executed') + Len(functors') + i
    BY <1>p, <1>a
  <2> QED
    BY <2>1, <2>2, <1>a DEF ExecutionOrder
<1>1. CASE SwapFunctors
  <2>1. functors = <<>>
    BY <1>1 DEF SwapFunctors, TypeOK
  <2> QED
    BY <1>0, <1>1, <2>1 DEF SwapFunctors, ExecutionOrder
<1>2. CASE RunFunctor
  <2>1. /\ executed' = Append(executed, functors[1])
        /\ functors # <<>> /\ functors' = Tail(functors)
    BY <1>0, <1>2, TailNat DEF RunFunctor
  <2>2. functors[1] = Len(executed) + 1
    BY <1>0, <2>1, TailNat DEF ExecutionOrder
  <2>3. /\ Len(executed') = Len(executed) + 1
        /\ Len(functors') = Len(functors) - 1
        /\ Len(functors) \in Nat /\ Len(executed) \in Nat /\ Len(pending) \in Nat
    BY <1>0, <2>1, <2>2, TailNat, AppendNat
  <2>4. \A i \in 1..Len(executed') : executed'[i] = i
    BY <1>0, <2>1, <2>2, <2>3, AppendNat DEF ExecutionOrder
  <2>5. \A i \in 1..Len(functors') : functors'[i] = Len(executed') + i
    BY <1>0, <2>1, <2>3, TailNat DEF ExecutionOrder
  <2>6. CASE UNCHANGED <<pending, pushed>>
    BY <2>3, <2>4, <2>5, <2>6 DEF ExecutionOrder
  <2>7. CASE Push
    <3>1. \A i \in 1..Len(pending') : pending'[i] = Len(executed') + Len(functors') + i
      BY <1>p, <2>3, <2>7
    <3>2. pushed' = Len(executed') + Len(functors') + Len(pending')
      BY <1>p, <1>s, <2>3, <2>7
    <3> QED
      BY <2>4, <2>5, <3>1, <3>2 DEF ExecutionOrder
  <2> QED
    BY <1>2, <2>6, <2>7 DEF RunFunctor, Body, QueueInLoopHere, QuitHere
<1>3. CASE UNCHANGED <<functors, executed, pending, pushed>>
  BY <1>3 DEF ExecutionOrder
<1>4. ASSUME NEW t \in Threads, OtherStep(t) PROVE ExecutionOrder'
  BY <1>4, <1>a, <1>3 DEF OtherStep, QueueInLoop, Wakeup, Quit
<1>5. CASE HandleIO
  BY <1>5, <1>a, <1>3 DEF HandleIO, Body, QueueInLoopHere, QuitHere
<1>6. CASE BeforeLoop
  BY <1>6, <1>a DEF BeforeLoop, QueueInLoopHere
<1>7. CASE LoopEnter \/ LoopTest \/ HandleRead \/ EnterPending \/ LeavePending
  BY <1>7, <1>3 DEF LoopEnter, LoopTest, HandleRead, EnterPending, LeavePending
<1>8. CASE PollWakeup \/ PollIO \/ PollTimeout
  BY <1>8, <1>3 DEF PollWakeup, PollIO, PollTimeout, PollReturns
<1>9. CASE Stopped \/ UNCHANGED vars
  BY <1>9, <1>3 DEF Stopped, vars
<1> QED
  BY <1>1, <1>2, <1>4, <1>5, <1>6, <1>7, <1>8, <1>9 DEF Next, LoopStep

\* WakeInv: a functor or a quit is never left to the poll timeout.
LEMMA WakeStep == TypeOK /\ WakeInv /\ [Next]_vars => WakeInv'
<1> SUFFICES ASSUME TypeOK, WakeInv, [Next]_vars PROVE WakeInv'
  OBVIOUS
<1>0. eventfd \in Nat /\ pending \in Seq(Nat) /\ tpc \in [Threads -> {"idle", "wakeup"}]
  BY DEF TypeOK
<1>a. ASSUME UNCHANGED <<eventfd, tpc, pending, preloop>>
      PROVE (Waking' <=> Waking) /\ (Fresh' <=> Fresh)
  BY <1>a DEF Waking, Fresh
<1>b. ASSUME Waking' PROVE WakeInv'
  BY <1>b DEF WakeInv, NoLostQuit
<1>c. ASSUME pc' \in {"events", "swap"} PROVE WakeInv'
  BY <1>c DEF WakeInv, NoLostQuit
<1>1. CASE LoopEnter
  BY <1>1, <1>a DEF LoopEnter, WakeInv, NoLostQuit
<1>2. CASE LoopTest
  BY <1>2, <1>a DEF LoopTest, WakeInv, NoLostQuit
<1>3. CASE PollWakeup \/ PollIO \/ PollTimeout
  BY <1>3, <1>c DEF PollWakeup, PollIO, PollTimeout, PollReturns
<1>4. CASE HandleRead \/ HandleIO \/ EnterPending
  BY <1>4, <1>c DEF HandleRead, HandleIO, EnterPending
<1>5. CASE SwapFunctors
  <2>1. ~Fresh'
    BY <1>5 DEF SwapFunctors, Fresh
  <2> QED
    BY <1>5, <2>1 DEF SwapFunctors, WakeInv, NoLostQuit
<1>6. CASE RunFunctor
  <2>1. pc = "run" /\ pc' = "run" /\ calling /\ UNCHANGED <<tpc, preloop>>
    BY <1>6 DEF RunFunctor, TypeOK
  <2>2. CASE QueueInLoopHere
    <3>1. eventfd' = eventfd + 1
      BY <2>1, <2>2 DEF QueueInLoopHere
    <3> QED
      BY <1>0, <3>1, <1>b DEF Waking
  <2>3. CASE UNCHANGED <<pending, eventfd>>
    BY <2>1, <2>3, <1>a DEF WakeInv, NoLostQuit
  <2> QED
    BY <1>6, <2>2, <2>3 DEF RunFunctor, Body, QuitHere
<1>7. CASE LeavePending
  BY <1>7, <1>a DEF LeavePending, WakeInv, NoLostQuit
<1>8. CASE BeforeLoop
  <2>1. pc = "init" /\ pc' = "init" /\ ~calling
    BY <1>8 DEF BeforeLoop, TypeOK
  <2>2. /\ UNCHANGED <<eventfd, tpc>> /\ preloop' = preloop \cup {pushed + 1}
        /\ pending' = Append(pending, pushed + 1)
    BY <1>8, <2>1 DEF BeforeLoop, QueueInLoopHere, Push
  <2>3. pushed + 1 \in Nat
    BY BoundsAssumption DEF TypeOK
  <2>4. Fresh' => Fresh
    <3> SUFFICES ASSUME NEW i \in 1..Len(pending'), pending'[i] \notin preloop'
                 PROVE  Fresh
      BY DEF Fresh
    <3>1. i # Len(pending) + 1
      BY <1>0, <2>2, <2>3, AppendNat
    <3>2. i \in 1..Len(pending) /\ pending[i] \notin preloop
      BY <1>0, <2>2, <2>3, <3>1, AppendNat
    <3> QED
      BY <3>2 DEF Fresh
  <2>5. Waking' <=> Waking
    BY <2>2 DEF Waking
  <2> QED
    BY <2>1, <2>4, <2>5 DEF WakeInv, NoLostQuit
<1>9. CASE Stopped \/ UNCHANGED vars
  <2>1. UNCHANGED <<pc, quit, eventfd, tpc, pending, preloop>>
    BY <1>9 DEF Stopped, vars
  <2> QED
    BY <2>1, <1>a DEF WakeInv, NoLostQuit
<1>10. ASSUME NEW t \in Threads, QueueInLoop(t) \/ Quit(t) PROVE WakeInv'
  <2>1. tpc'[t] = "wakeup"
    BY <1>0, <1>10 DEF QueueInLoop, Quit
  <2> QED
    BY <2>1, <1>b DEF Waking
<1>11. ASSUME NEW t \in Threads, Wakeup(t) PROVE WakeInv'
  <2>1. eventfd' > 0
    BY <1>0, <1>11 DEF Wakeup
  <2> QED
    BY <2>1, <1>b DEF Waking
<1> QED
  BY <1>1, <1>2, <1>3, <1>4, <1>5, <1>6, <1>7, <1>8, <1>9, <1>10, <1>11
     DEF Next, LoopStep, OtherStep

\* The invariant holds in every state of the loop.
LEMMA InductiveInv == Spec => []IInv
<1>1. IInv /\ [Next]_vars => IInv'
  BY TypeStep, OrderStep, WakeStep DEF IInv
<1> QED
  BY <1>1, InitInv, PTL DEF Spec

\* looping_, callingPendingFunctors_ and the phases of loop() agree, whatever the
\* threads and their number.
THEOREM TypeCorrect == Spec => []TypeOK
<1>1. IInv => TypeOK
  BY DEF IInv
<1> QED
  BY <1>1, InductiveInv, PTL

\* doPendingFunctors loses, repeats and reorders nothing.
THEOREM FunctorsInOrder == Spec => []ExecutionOrder
<1>1. IInv => ExecutionOrder
  BY DEF IInv
<1> QED
  BY <1>1, InductiveInv, PTL

\* queueInLoop never leaves a functor to the poll timeout of epoll_wait.
THEOREM WakeupNotLost == Spec => []NoLostWakeup
<1>1. IInv => NoLostWakeup
  BY DEF IInv, WakeInv, Fresh, NoLostWakeup
<1> QED
  BY <1>1, InductiveInv, PTL

\* Nor does quit(), once loop() has been entered.
THEOREM QuitNotLost == Spec => []NoLostQuit
<1>1. IInv => NoLostQuit
  BY DEF IInv, WakeInv
<1> QED
  BY <1>1, InductiveInv, PTL

-----------------------------------------------------------------------------
(* The loop implements SerialExecutor *)

\* A push at the end of pendingFunctors_, seen through the refinement mapping.
LEMMA ConcatAppend ==
    ASSUME NEW s \in Seq(Nat), NEW t \in Seq(Nat), NEW x \in Nat
    PROVE  s \o Append(t, x) = Append(s \o t, x)
<1>1. s \o t \in Seq(Nat)
  BY ConcatProperties
<1>2. <<x>> \in Seq(Nat)
  OBVIOUS
<1>3. Append(t, x) = t \o <<x>> /\ Append(s \o t, x) = (s \o t) \o <<x>>
  BY <1>1, AppendIsConcat
<1> QED
  BY <1>2, <1>3, ConcatAssociative

\* A functor run from the front of the batch, seen through the mapping.
LEMMA ConcatHeadTail ==
    ASSUME NEW s \in Seq(Nat), s # <<>>, NEW t \in Seq(Nat)
    PROVE  /\ s \o t # <<>>
           /\ Head(s \o t) = Head(s)
           /\ Tail(s \o t) = Tail(s) \o t
<1>1. /\ s \o t \in Seq(Nat) /\ Len(s \o t) = Len(s) + Len(t)
      /\ \A i \in 1..(Len(s) + Len(t)) :
            (s \o t)[i] = IF i <= Len(s) THEN s[i] ELSE t[i - Len(s)]
  BY ConcatProperties
<1>2. Len(s) \in Nat \ {0} /\ Len(t) \in Nat
  BY TailNat
<1>3. s \o t # <<>>
  BY <1>1, <1>2
<1>4. Head(s \o t) = Head(s)
  BY <1>1, <1>2, <1>3, TailNat
<1>5. /\ Tail(s) \in Seq(Nat) /\ Len(Tail(s)) = Len(s) - 1
      /\ \A i \in 1..Len(Tail(s)) : Tail(s)[i] = s[i + 1]
  BY TailNat
<1>6. /\ Tail(s \o t) \in Seq(Nat) /\ Len(Tail(s \o t)) = Len(s) + Len(t) - 1
      /\ \A i \in 1..(Len(s) + Len(t) - 1) : Tail(s \o t)[i] = (s \o t)[i + 1]
  BY <1>1, <1>3, TailNat
<1>7. /\ Tail(s) \o t \in Seq(Nat) /\ Len(Tail(s) \o t) = Len(s) - 1 + Len(t)
      /\ \A i \in 1..(Len(s) - 1 + Len(t)) :
            (Tail(s) \o t)[i] = IF i <= Len(s) - 1 THEN Tail(s)[i]
                                ELSE t[i - (Len(s) - 1)]
  BY <1>5, ConcatProperties
<1>8. ASSUME NEW i \in 1..Len(Tail(s \o t))
      PROVE  Tail(s \o t)[i] = (Tail(s) \o t)[i]
  BY <1>1, <1>2, <1>5, <1>6, <1>7
<1>9. Tail(s \o t) = Tail(s) \o t
  BY <1>2, <1>6, <1>7, <1>8, SeqEqual
<1> QED
  BY <1>3, <1>4, <1>9

\* Every step of the loop and of its users is a step of the executor or none.
LEMMA StepSimulation ==
    TypeOK /\ [Next]_vars => [Executor!Next]_(Executor!svars)
<1> SUFFICES ASSUME TypeOK, [Next]_vars PROVE [Executor!Next]_(Executor!svars)
  OBVIOUS
<1>0. /\ pending \in Seq(Nat) /\ functors \in Seq(Nat) /\ executed \in Seq(Nat)
      /\ pushed + 1 \in Nat
  BY BoundsAssumption DEF TypeOK
<1>a. ASSUME Push, UNCHANGED <<functors, executed>> PROVE Executor!Next
  <2>1. functors' \o pending' = Append(functors \o pending, pushed + 1)
    BY <1>0, <1>a, ConcatAppend DEF Push
  <2> QED
    BY <1>a, <2>1 DEF Push, Executor!Next, Executor!Submit
<1>b. ASSUME UNCHANGED <<functors, executed, pending, pushed>>
      PROVE  UNCHANGED Executor!svars
  BY <1>b DEF Executor!svars
<1>1. CASE SwapFunctors
  <2>1. functors = <<>>
    BY <1>1 DEF SwapFunctors, TypeOK
  <2>2. functors' \o pending' = functors \o pending
    BY <1>0, <1>1, <2>1, ConcatEmptySeq DEF SwapFunctors
  <2> QED
    BY <1>1, <2>2 DEF SwapFunctors, Executor!svars
<1>2. CASE RunFunctor
  <2>1. /\ functors # <<>> /\ functors' = Tail(functors)
        /\ executed' = Append(executed, Head(functors))
    BY <1>2 DEF RunFunctor
  <2>2. Tail(functors) \in Seq(Nat)
    BY <1>0, <2>1, TailNat
  <2>3. /\ functors \o pending # <<>>
        /\ executed' = Append(executed, Head(functors \o pending))
        /\ functors' \o pending = Tail(functors \o pending)
    BY <1>0, <2>1, ConcatHeadTail
  <2>4. CASE UNCHANGED <<pending, pushed>>
    BY <2>3, <2>4 DEF Executor!Next, Executor!Execute
  <2>5. CASE Push
    <3>1. pending' = Append(pending, pushed + 1)
      BY <2>5 DEF Push
    <3>2. Tail(functors) \o Append(pending, pushed + 1)
            = Append(Tail(functors) \o pending, pushed + 1)
      BY <1>0, <2>2, ConcatAppend
    <3>3. functors' \o pending' = Append(Tail(functors \o pending), pushed + 1)
      BY <2>1, <2>3, <3>1, <3>2
    <3> QED
      BY <2>3, <2>5, <3>3 DEF Push, Executor!Next, Executor!Execute
  <2> QED
    BY <1>2, <2>4, <2>5 DEF RunFunctor, Body, QueueInLoopHere, QuitHere
<1>4. ASSUME NEW t \in Threads, OtherStep(t) PROVE [Executor!Next]_(Executor!svars)
  BY <1>4, <1>a, <1>b DEF OtherStep, QueueInLoop, Wakeup, Quit
<1>5. CASE HandleIO
  BY <1>5, <1>a, <1>b DEF HandleIO, Body, QueueInLoopHere, QuitHere
<1>6. CASE BeforeLoop
  BY <1>6, <1>a DEF BeforeLoop, QueueInLoopHere
<1>7. CASE LoopEnter \/ LoopTest \/ HandleRead \/ EnterPending \/ LeavePending
  BY <1>7, <1>b DEF LoopEnter, LoopTest, HandleRead, EnterPending, LeavePending
<1>8. CASE PollWakeup \/ PollIO \/ PollTimeout
  BY <1>8, <1>b DEF PollWakeup, PollIO, PollTimeout, PollReturns
<1>9. CASE Stopped \/ UNCHANGED vars
  BY <1>9, <1>b DEF Stopped, vars
<1> QED
  BY <1>1, <1>2, <1>4, <1>5, <1>6, <1>7, <1>8, <1>9 DEF Next, LoopStep

\* queueInLoop, doPendingFunctors and the swap between them make a serial
\* executor: a functor is accepted once, behind all others, and run once.
THEOREM LoopImplementsExecutor == Spec => ImplementsExecutor
<1>1. Init => Executor!Init
  BY ConcatEmptySeq DEF Init, Executor!Init
<1> QED
  BY <1>1, TypeCorrect, StepSimulation, PTL
     DEF Spec, ImplementsExecutor, Executor!Spec
=============================================================================
