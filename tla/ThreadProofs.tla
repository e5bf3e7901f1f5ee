---------------------------- MODULE ThreadProofs ----------------------------
(***************************************************************************)
(* What the logger and the worker pool promise, for any number of threads, *)
(* entries and tasks.  The logger's invariant follows one entry through    *)
(* the two buffers.  The pool's invariant says of every accepted task that *)
(* it is in one place (a queue, a worker or the past) and that seq, the    *)
(* order of acceptance, grows along each of them.                          *)
(***************************************************************************)
EXTENDS ThreadPool, AsyncLogger, SequenceTheorems, FiniteSetTheorems, TLAPS

-----------------------------------------------------------------------------
(* Sequences *)

\* Appending to the last of two sequences appends to both.
LEMMA ConcatAppend ==
    ASSUME NEW S, NEW s \in Seq(S), NEW t \in Seq(S), NEW e \in S
    PROVE  s \o Append(t, e) = Append(s \o t, e)
<1>1. /\ Len(s) \in Nat /\ Len(t) \in Nat
      /\ s \o t \in Seq(S) /\ Len(s \o t) = Len(s) + Len(t)
      /\ \A i \in 1..(Len(s) + Len(t)) :
            (s \o t)[i] = IF i <= Len(s) THEN s[i] ELSE t[i - Len(s)]
  BY ConcatProperties, LenProperties
<1>2. /\ Append(t, e) \in Seq(S) /\ Len(Append(t, e)) = Len(t) + 1
      /\ \A i \in 1..Len(t) : Append(t, e)[i] = t[i]
      /\ Append(t, e)[Len(t) + 1] = e
  BY AppendProperties
<1>3. /\ Append(s \o t, e) \in Seq(S)
      /\ Len(Append(s \o t, e)) = Len(s) + Len(t) + 1
      /\ \A i \in 1..(Len(s) + Len(t)) : Append(s \o t, e)[i] = (s \o t)[i]
      /\ Append(s \o t, e)[Len(s) + Len(t) + 1] = e
  BY <1>1, AppendProperties
<1>4. /\ s \o Append(t, e) \in Seq(S)
      /\ Len(s \o Append(t, e)) = Len(s) + Len(t) + 1
      /\ \A i \in 1..(Len(s) + Len(t) + 1) :
            (s \o Append(t, e))[i] = IF i <= Len(s) THEN s[i] ELSE Append(t, e)[i - Len(s)]
  BY <1>1, <1>2, ConcatProperties
<1>5. ASSUME NEW i \in 1..(Len(s) + Len(t) + 1)
      PROVE  (s \o Append(t, e))[i] = Append(s \o t, e)[i]
  <2>1. CASE i = Len(s) + Len(t) + 1
    BY <1>1, <1>2, <1>3, <1>4, <2>1
  <2>2. CASE i \in 1..(Len(s) + Len(t))
    BY <1>1, <1>2, <1>3, <1>4, <2>2
  <2>3. Len(s) \in Nat /\ Len(t) \in Nat
    BY <1>1
  <2> QED
    BY <2>1, <2>2, <2>3
<1> QED
  BY <1>3, <1>4, <1>5, SeqEqual

-----------------------------------------------------------------------------
(* AsyncLogger *)

LoggerTypeOK ==
    /\ buffer \in Seq(Nat) /\ flush \in Seq(Nat) /\ output \in Seq(Nat)
    /\ writer \in {"none", "test", "enter", "wait", "swap", "write"}
    /\ logged \in Nat /\ sealed \in Nat
    /\ logOwner \in {"out", "join"}

\* Only between the swap and the write does the writer's buffer hold entries; the
\* writer is there as long as the logger runs, and when it has left, everything
\* that stop() found was written.
LoggerInv ==
    /\ LoggerTypeOK
    /\ output \o flush \o buffer = [i \in 1 .. logged |-> i]
    /\ writer # "write" => flush = <<>>
    /\ sealed <= logged
    /\ logging => writer # "none"
    /\ logOwner = "out" /\ ~logging => writer = "none"
    /\ writer = "none" => Len(output) >= sealed

\* log(): the entry is the next number.
LEMMA LogNumbers ==
    ASSUME NEW n \in Nat, NEW s \in Seq(Nat), s = [i \in 1 .. n |-> i]
    PROVE  Append(s, n + 1) = [i \in 1 .. n + 1 |-> i]
<1>1. Len(s) = n /\ \A i \in 1 .. n : s[i] = i
  BY LenProperties
<1>2. /\ Append(s, n + 1) \in Seq(Nat) /\ Len(Append(s, n + 1)) = n + 1
      /\ \A i \in 1 .. n : Append(s, n + 1)[i] = i
      /\ Append(s, n + 1)[n + 1] = n + 1
  BY <1>1, AppendProperties
<1>3. \A i \in 1 .. n + 1 : Append(s, n + 1)[i] = [j \in 1 .. n + 1 |-> j][i]
  BY <1>2
<1>4. Append(s, n + 1) = [i \in 1 .. Len(Append(s, n + 1)) |-> Append(s, n + 1)[i]]
  BY <1>2, SeqDef
<1> QED
  BY <1>2, <1>3, <1>4

LEMMA LoggerStep == LoggerInv /\ [LoggerNext]_loggerVars => LoggerInv'
<1> SUFFICES ASSUME LoggerInv, [LoggerNext]_loggerVars PROVE LoggerInv'
  OBVIOUS
<1>0. /\ LoggerTypeOK
      /\ output \o flush \o buffer = [i \in 1 .. logged |-> i]
      /\ output \o flush \in Seq(Nat)
      /\ output \o flush \o buffer \in Seq(Nat)
      /\ Len(output \o flush) = Len(output) + Len(flush)
      /\ Len(output \o flush \o buffer) = Len(output) + Len(flush) + Len(buffer)
      /\ Len(output) \in Nat /\ Len(flush) \in Nat /\ Len(buffer) \in Nat
  <2>1. /\ LoggerTypeOK /\ output \in Seq(Nat) /\ flush \in Seq(Nat) /\ buffer \in Seq(Nat)
        /\ output \o flush \o buffer = [i \in 1 .. logged |-> i]
    BY DEF LoggerInv, LoggerTypeOK
  <2>2. Len(output) \in Nat /\ Len(flush) \in Nat /\ Len(buffer) \in Nat
    BY <2>1, LenProperties
  <2>3. output \o flush \in Seq(Nat) /\ Len(output \o flush) = Len(output) + Len(flush)
    BY <2>1, ConcatProperties
  <2>4. /\ output \o flush \o buffer \in Seq(Nat)
        /\ Len(output \o flush \o buffer) = Len(output \o flush) + Len(buffer)
    <3>1. ASSUME NEW s \in Seq(Nat), NEW t \in Seq(Nat)
          PROVE  s \o t \in Seq(Nat) /\ Len(s \o t) = Len(s) + Len(t)
      BY ConcatProperties
    <3> QED
      BY <2>1, <2>3, <3>1, Zenon
  <2> QED
    BY <2>1, <2>2, <2>3, <2>4
<1>1. CASE LoggerStart
  BY <1>1 DEF LoggerInv, LoggerTypeOK, LoggerStart
<1>2. CASE LoggerStop
  <2>1. /\ ~logging' /\ logOwner' = "join" /\ sealed' = logged
        /\ writer # "none" /\ writer' \in {writer, "swap"} /\ (writer' # writer => writer = "wait")
        /\ UNCHANGED <<buffer, flush, output, logged>>
    BY <1>2 DEF LoggerInv, LoggerStop
  <2>2. LoggerTypeOK' /\ sealed' <= logged'
    BY <2>1 DEF LoggerInv, LoggerTypeOK
  <2> QED
    BY <2>1, <2>2, Zenon DEF LoggerInv
<1>3. CASE LoggerJoin
  BY <1>3 DEF LoggerInv, LoggerTypeOK, LoggerJoin
<1>4. CASE Log
  <2>1. /\ logged' = logged + 1 /\ buffer' = Append(buffer, logged + 1)
        /\ writer' \in {writer, "swap"} /\ (writer' # writer => writer = "wait")
        /\ UNCHANGED <<logging, flush, output, sealed, logOwner>>
    BY <1>4 DEF Log
  <2>2. buffer' \in Seq(Nat) /\ logged + 1 \in Nat
    BY <1>0, <2>1, AppendProperties DEF LoggerTypeOK
  <2>3. output' \o flush' \o buffer' = Append(output \o flush \o buffer, logged + 1)
    <3>1. ASSUME NEW s \in Seq(Nat) PROVE s \o Append(buffer, logged + 1) = Append(s \o buffer, logged + 1)
      <4>1. buffer \in Seq(Nat)
        BY <1>0 DEF LoggerTypeOK
      <4> QED
        BY <2>2, <4>1, ConcatAppend, SMT
    <3> QED
      BY <1>0, <2>1, <3>1, Zenon
  <2>4. output' \o flush' \o buffer' = [i \in 1 .. logged' |-> i]
    BY <1>0, <2>1, <2>3, LogNumbers DEF LoggerTypeOK
  <2>5. LoggerTypeOK' /\ sealed' <= logged'
    BY <2>1, <2>2 DEF LoggerInv, LoggerTypeOK
  <2> QED
    BY <2>1, <2>4, <2>5, Zenon DEF LoggerInv
<1>5. CASE WriterTest
  <2>1. writer = "test" /\ writer' \in {"enter", "none"}
        /\ UNCHANGED <<logging, buffer, flush, output, logged, sealed, logOwner>>
        /\ (writer' = "none" => ~logging /\ buffer = <<>>)
    BY <1>5 DEF WriterTest
  <2>2. buffer = <<>> => Len(output) = logged
    <3>1. Len([i \in 1 .. logged |-> i]) = logged
      BY <1>0 DEF LoggerTypeOK
    <3>2. flush = <<>> /\ Len(<<>>) = 0
      BY <2>1, EmptySeq DEF LoggerInv
    <3>3. Len(output) + Len(flush) + Len(buffer) = logged
      BY <1>0, <3>1
    <3> QED
      BY <1>0, <3>2, <3>3
  <2> QED
    BY <2>1, <2>2 DEF LoggerInv, LoggerTypeOK
<1>6. CASE WriterEnter
  BY <1>6 DEF LoggerInv, LoggerTypeOK, WriterEnter
<1>7. CASE WriterTimeout
  BY <1>7 DEF LoggerInv, LoggerTypeOK, WriterTimeout
<1>8. CASE WriterSwap
  <2>1. /\ writer = "swap" /\ writer' = "write" /\ buffer' = <<>> /\ flush' = buffer /\ flush = <<>>
        /\ UNCHANGED <<logging, output, logged, sealed, logOwner>>
    BY <1>8 DEF WriterSwap, LoggerInv
  <2>2. output' \o flush' \o buffer' = output \o flush \o buffer
    <3>1. output \o buffer \in Seq(Nat) /\ output \o <<>> = output
      BY ConcatProperties, ConcatEmptySeq DEF LoggerInv, LoggerTypeOK
    <3>2. (output \o buffer) \o <<>> = output \o buffer
      BY <3>1, ConcatEmptySeq
    <3> QED
      BY <2>1, <3>1, <3>2
  <2> QED
    BY <2>1, <2>2, EmptySeq DEF LoggerInv, LoggerTypeOK
<1>9. CASE WriterWrite
  <2>1. /\ writer = "write" /\ writer' = "test" /\ output' = output \o flush /\ flush' = <<>>
        /\ UNCHANGED <<logging, buffer, logged, sealed, logOwner>>
    BY <1>9 DEF WriterWrite
  <2>2. output' \o flush' \o buffer' = output \o flush \o buffer
    BY <1>0, <2>1, ConcatEmptySeq
  <2> QED
    BY <1>0, <2>1, <2>2, EmptySeq DEF LoggerInv, LoggerTypeOK
<1>10. CASE UNCHANGED loggerVars
  BY <1>10 DEF LoggerInv, LoggerTypeOK, loggerVars
<1> QED
  BY <1>1, <1>2, <1>3, <1>4, <1>5, <1>6, <1>7, <1>8, <1>9, <1>10 DEF LoggerNext, WriterStep

\* No entry is lost, repeated or reordered by the exchange of the two buffers, and
\* when stop() returns, what was logged before it has been written.
THEOREM LogAlwaysComplete == LoggerSpec => []LogComplete
<1>1. LoggerInit => LoggerInv
  <2> SUFFICES ASSUME LoggerInit PROVE LoggerInv
    OBVIOUS
  <2>0. <<>> \in Seq(Nat) /\ Len(<<>>) = 0
    BY EmptySeq
  <2>1. <<>> \o <<>> \o <<>> = <<>>
    BY <2>0, ConcatEmptySeq
  <2>2. [i \in 1 .. 0 |-> i] = <<>>
    OBVIOUS
  <2>3. LoggerTypeOK /\ sealed <= logged /\ Len(output) >= sealed
    BY <2>0 DEF LoggerInit, LoggerTypeOK
  <2> QED
    BY <2>1, <2>2, <2>3, Zenon DEF LoggerInit, LoggerInv
<1>2. LoggerInv => LogComplete
  BY DEF LoggerInv, LogComplete
<1> QED
  BY <1>1, <1>2, LoggerStep, PTL DEF LoggerSpec

-----------------------------------------------------------------------------
(* ThreadPool: the inductive invariant *)

Task == [key : Nat, fate : {"passed", "accepted", "dropped"}, early : BOOLEAN, seq : Nat]

PoolTypeOK ==
    /\ queue \in [PoolWorkers -> Seq(Nat)]
    /\ wstate \in [PoolWorkers -> {"none", "check", "task", "dozing", "asleep", "gone"}]
    /\ current \in [PoolWorkers -> Nat]
    /\ submitter \in [Submitters -> [pc : {"idle", "enqueue", "notify"}, idx : Nat, task : Nat]]
    /\ robin \in Nat
    /\ task \in Seq(Task)
    /\ ran \in Seq(Nat)
    /\ stopping \in Nat

Elems(s) == {s[i] : i \in 1 .. Len(s)}
queued == [w \in PoolWorkers |-> Elems(queue[w])]

Known == 1 .. Len(task)
Accepted == {t \in Known : task[t].fate = "accepted"}

\* t's worker: the key chooses it.
OnWorker(t, w) == task[t].key # 0 => w = task[t].key % numThreads

\* Two tasks of one key, the first one accepted before the second one.
KeyBefore(r, t, u) == r[t].key = r[u].key /\ r[t].key # 0 => r[t].seq < r[u].seq

\* A call between its test of running_ and enqueue() has a task of its own, and
\* the worker it will ask.
SubmitInv ==
    /\ \A s \in Submitters :
          /\ submitter[s].pc # "idle" => submitter[s].idx \in PoolWorkers
          /\ submitter[s].pc = "enqueue" =>
                /\ submitter[s].task \in Known
                /\ task[submitter[s].task].fate = "passed"
                /\ OnWorker(submitter[s].task, submitter[s].idx)
    /\ \A s, r \in Submitters :
          s # r /\ submitter[s].pc = "enqueue" /\ submitter[r].pc = "enqueue" =>
             submitter[s].task # submitter[r].task

\* An accepted task is in one place, on the worker its key chooses.
PlaceInv ==
    /\ Elems(ran) \subseteq Accepted
    /\ \A w \in PoolWorkers :
          /\ queued[w] \subseteq Accepted
          /\ queued[w] \cap Elems(ran) = {}
          /\ \A t \in queued[w] : OnWorker(t, w)
          /\ current[w] # 0 => /\ current[w] \in Accepted \ Elems(ran)
                               /\ OnWorker(current[w], w)
    /\ \A w, v \in PoolWorkers :
          /\ current[w] # 0 => current[w] \notin queued[v]
          /\ w # v => queued[w] \cap queued[v] = {}
          /\ w # v /\ current[w] # 0 => current[w] # current[v]
    /\ \A t \in Accepted : \/ t \in Elems(ran)
                           \/ \E w \in PoolWorkers : t \in queued[w] \/ t = current[w]

Sorted(s, r) == \A i, j \in 1 .. Len(s) : i < j => r[s[i]].seq < r[s[j]].seq
KeySorted(s, r) ==
    \A i, j \in 1 .. Len(s) : i < j => s[i] # s[j] /\ KeyBefore(r, s[i], s[j])

\* Tasks leave a queue in the order of seq, and what ran was accepted before what
\* has the same key and has not.
SeqInv ==
    /\ \A t \in Accepted : task[t].seq < Cardinality(Accepted)
    /\ KeySorted(ran, task)
    /\ \A w \in PoolWorkers :
          /\ Sorted(queue[w], task)
          /\ \A u \in queued[w] : \A t \in Elems(ran) : KeyBefore(task, t, u)
          /\ current[w] # 0 =>
                /\ \A u \in queued[w] : task[current[w]].seq < task[u].seq
                /\ \A t \in Elems(ran) : KeyBefore(task, t, current[w])

\* A worker that is gone left nothing behind that stop() found.
StopInv ==
    /\ \A t \in Known : task[t].early => task[t].fate = "accepted"
    /\ \A w \in PoolWorkers :
          /\ wstate[w] = "task" <=> current[w] # 0
          /\ wstate[w] = "gone" => ~running /\ \A t \in queued[w] : ~task[t].early
          /\ wstate[w] = "none" => ~running /\ Known = {}
          /\ stopping = 0 /\ ~running => wstate[w] \in {"none", "gone"}

PoolInv == PoolTypeOK /\ SubmitInv /\ PlaceInv /\ SeqInv /\ StopInv

-----------------------------------------------------------------------------
(* Tasks in a sequence *)

LEMMA AppendElems ==
    ASSUME NEW s \in Seq(Nat), NEW e \in Nat
    PROVE  /\ Append(s, e) \in Seq(Nat)
           /\ Elems(Append(s, e)) = Elems(s) \cup {e}
           /\ \A r : Sorted(s, r) /\ (\A t \in Elems(s) : r[t].seq < r[e].seq)
                        => Sorted(Append(s, e), r)
           /\ \A r : KeySorted(s, r) /\ e \notin Elems(s) /\ (\A t \in Elems(s) : KeyBefore(r, t, e))
                        => KeySorted(Append(s, e), r)
<1> DEFINE a == Append(s, e)
           n == Len(s)
<1>1. /\ n \in Nat /\ a \in Seq(Nat) /\ Len(a) = n + 1 /\ a[n + 1] = e
      /\ \A i \in 1 .. n : a[i] = s[i]
  BY AppendProperties, LenProperties
<1> HIDE DEF a, n
<1>2. /\ \A i \in 1 .. Len(a) : i \in 1 .. n \/ i = n + 1
      /\ 1 .. n \subseteq 1 .. Len(a) /\ n + 1 \in 1 .. Len(a)
      /\ \A i, j \in 1 .. Len(a) : i < j => i \in 1 .. n
  BY <1>1
<1>3. Elems(a) = Elems(s) \cup {e}
  BY <1>1, <1>2, Zenon DEF Elems, n
<1>4. ASSUME NEW r, Sorted(s, r), \A t \in Elems(s) : r[t].seq < r[e].seq
      PROVE  Sorted(a, r)
  <2> SUFFICES ASSUME NEW i \in 1 .. Len(a), NEW j \in 1 .. Len(a), i < j
               PROVE  r[a[i]].seq < r[a[j]].seq
    BY DEF Sorted
  <2>1. i \in 1 .. n /\ a[i] = s[i] /\ s[i] \in Elems(s)
    BY <1>1, <1>2, Zenon DEF Elems, n
  <2>2. CASE j = n + 1
    BY <1>1, <1>4, <2>1, <2>2, Zenon
  <2>3. CASE j \in 1 .. n
    BY <1>1, <1>4, <2>1, <2>3, Zenon DEF Sorted, n
  <2> QED
    BY <1>2, <2>2, <2>3
<1>5. ASSUME NEW r, KeySorted(s, r), e \notin Elems(s), \A t \in Elems(s) : KeyBefore(r, t, e)
      PROVE  KeySorted(a, r)
  <2> SUFFICES ASSUME NEW i \in 1 .. Len(a), NEW j \in 1 .. Len(a), i < j
               PROVE  a[i] # a[j] /\ KeyBefore(r, a[i], a[j])
    BY DEF KeySorted
  <2>1. i \in 1 .. n /\ a[i] = s[i] /\ s[i] \in Elems(s)
    BY <1>1, <1>2, Zenon DEF Elems, n
  <2>2. CASE j = n + 1
    BY <1>1, <1>5, <2>1, <2>2, Zenon
  <2>3. CASE j \in 1 .. n
    BY <1>1, <1>5, <2>1, <2>3, Zenon DEF KeySorted, n
  <2> QED
    BY <1>2, <2>2, <2>3
<1> QED
  BY <1>1, <1>3, <1>4, <1>5, Zenon DEF a

LEMMA TailElems ==
    ASSUME NEW s \in Seq(Nat), s # <<>>
    PROVE  /\ Head(s) \in Nat /\ Tail(s) \in Seq(Nat)
           /\ Elems(s) = Elems(Tail(s)) \cup {Head(s)}
           /\ \A r : Sorted(s, r) => /\ Sorted(Tail(s), r)
                                     /\ \A t \in Elems(Tail(s)) : r[Head(s)].seq < r[t].seq
<1> DEFINE b == Tail(s)
           n == Len(s)
<1>1. /\ n \in Nat \ {0} /\ b \in Seq(Nat) /\ Len(b) = n - 1 /\ Head(s) = s[1] /\ Head(s) \in Nat
      /\ \A i \in 1 .. (n - 1) : b[i] = s[i + 1]
  BY HeadTailProperties, EmptySeq
<1> HIDE DEF b, n
<1>2. /\ 1 \in 1 .. n /\ \A i \in 1 .. (n - 1) : i + 1 \in 1 .. n /\ 1 < i + 1
      /\ \A i \in 1 .. n : i = 1 \/ (i - 1 \in 1 .. (n - 1) /\ b[i - 1] = s[i])
      /\ \A i, j \in 1 .. (n - 1) : i < j => i + 1 < j + 1
  BY <1>1
<1>3. Elems(s) = Elems(b) \cup {Head(s)}
  <2>1. ASSUME NEW i \in 1 .. n PROVE s[i] \in Elems(b) \cup {Head(s)}
    BY <1>1, <1>2 DEF Elems
  <2>2. ASSUME NEW i \in 1 .. Len(b) PROVE b[i] \in Elems(s)
    BY <1>1, <1>2 DEF Elems, n
  <2>3. Head(s) \in Elems(s)
    BY <1>1, <1>2 DEF Elems, n
  <2> QED
    BY <2>1, <2>2, <2>3, Zenon DEF Elems, n
<1>4. ASSUME NEW r, Sorted(s, r)
      PROVE  Sorted(b, r) /\ \A t \in Elems(b) : r[Head(s)].seq < r[t].seq
  <2>1. ASSUME NEW i \in 1 .. Len(b), NEW j \in 1 .. Len(b), i < j
        PROVE  r[b[i]].seq < r[b[j]].seq
    <3>1. i + 1 \in 1 .. n /\ j + 1 \in 1 .. n /\ i + 1 < j + 1 /\ b[i] = s[i + 1] /\ b[j] = s[j + 1]
      BY <1>1, <1>2, <2>1
    <3> QED
      BY <1>4, <3>1, Zenon DEF Sorted, n
  <2>2. \A t \in Elems(b) : r[Head(s)].seq < r[t].seq
    <3> SUFFICES ASSUME NEW i \in 1 .. Len(b)
                 PROVE  r[Head(s)].seq < r[b[i]].seq
      BY Zenon DEF Elems
    <3>1. 1 \in 1 .. n /\ i + 1 \in 1 .. n /\ 1 < i + 1 /\ b[i] = s[i + 1] /\ Head(s) = s[1]
      BY <1>1, <1>2
    <3> QED
      BY <1>4, <3>1, Zenon DEF Sorted, n
  <2> QED
    BY <2>1, <2>2, Zenon DEF Sorted
<1> QED
  BY <1>1, <1>3, <1>4, Zenon DEF b

-----------------------------------------------------------------------------
(* ThreadPool: the steps *)

LEMMA SubmitterRecord ==
    ASSUME NEW i \in Nat, NEW n \in Nat
    PROVE  [pc |-> "enqueue", idx |-> i, task |-> n]
              \in [pc : {"idle", "enqueue", "notify"}, idx : Nat, task : Nat]
  OBVIOUS

LEMMA FunctionSeq ==
    ASSUME NEW S, NEW n \in Nat, NEW s \in [1 .. n -> S]
    PROVE  s \in Seq(S) /\ Len(s) = n
  BY SeqDef

\* The tasks after an enqueue() that decided about t ...
LEMMA DecideTask ==
    ASSUME task \in Seq(Task), NEW t \in Known, NEW f \in {"accepted", "dropped"}, NEW n \in Nat,
           task' = [task EXCEPT ![t].fate = f, ![t].seq = n]
    PROVE  /\ task' \in Seq(Task) /\ Len(task') = Len(task)
           /\ \A u \in Known : u # t => task'[u] = task[u]
           /\ task'[t].key = task[t].key /\ task'[t].fate = f /\ task'[t].seq = n
           /\ task'[t].early = task[t].early
<1>1. Len(task) \in Nat /\ task \in [1 .. Len(task) -> Task]
  BY LenProperties
<1>2. task[t] \in Task
  BY <1>1 DEF Known
<1> DEFINE e == [task[t] EXCEPT !.fate = f, !.seq = n]
<1>3. e \in Task
  BY <1>2 DEF Task
<1>4. task' = [task EXCEPT ![t] = e]
  BY <1>1, <1>2 DEF Known, Task
<1>5. e.key = task[t].key /\ e.fate = f /\ e.seq = n /\ e.early = task[t].early
  BY <1>2 DEF Task
<1> HIDE DEF e
<1>6. /\ task' \in Seq(Task) /\ Len(task') = Len(task)
      /\ \A u \in Known : task'[u] = IF u = t THEN e ELSE task[u]
  <2>1. /\ task' \in [1 .. Len(task) -> Task]
        /\ \A u \in Known : task'[u] = IF u = t THEN e ELSE task[u]
    BY <1>1, <1>3, <1>4 DEF Known
  <2>2. task' \in Seq(Task) /\ Len(task') = Len(task)
    BY <1>1, <2>1, FunctionSeq, ZenonT(40)
  <2> QED
    BY <2>1, <2>2
<1> QED
  BY <1>5, <1>6

\* ... and after stop() marked the accepted ones.
LEMMA MarkTasks ==
    ASSUME task \in Seq(Task),
           task' = [i \in DOMAIN task |-> [task[i] EXCEPT !.early = task[i].fate = "accepted"]]
    PROVE  /\ task' \in Seq(Task) /\ Len(task') = Len(task)
           /\ \A u \in Known : /\ task'[u].key = task[u].key /\ task'[u].fate = task[u].fate
                               /\ task'[u].seq = task[u].seq
                               /\ task'[u].early = (task[u].fate = "accepted")
<1>1. Len(task) \in Nat /\ task \in [1 .. Len(task) -> Task] /\ DOMAIN task = 1 .. Len(task)
  BY LenProperties
<1>2. ASSUME NEW u \in Known
      PROVE  /\ task'[u] \in Task
             /\ task'[u].key = task[u].key /\ task'[u].fate = task[u].fate
             /\ task'[u].seq = task[u].seq /\ task'[u].early = (task[u].fate = "accepted")
  <2>1. PICK b \in BOOLEAN : b = (task[u].fate = "accepted")
    OBVIOUS
  <2>2. task[u] \in Task /\ task'[u] = [task[u] EXCEPT !.early = b]
    BY <1>1, <2>1, Zenon DEF Known
  <2>3. /\ [task[u] EXCEPT !.early = b] \in Task /\ [task[u] EXCEPT !.early = b].early = b
        /\ [task[u] EXCEPT !.early = b].key = task[u].key
        /\ [task[u] EXCEPT !.early = b].fate = task[u].fate
        /\ [task[u] EXCEPT !.early = b].seq = task[u].seq
    BY <2>2 DEF Task
  <2> QED
    BY <2>1, <2>2, <2>3
<1>3. task' \in [1 .. Len(task) -> Task]
  BY <1>1, <1>2 DEF Known
<1>4. task' \in Seq(Task) /\ Len(task') = Len(task)
  BY <1>1, <1>3, SeqDef
<1> QED
  BY <1>2, <1>4

\* Most leaves are first-order; the ones with arithmetic or records cite SMT.
USE Zenon

\* A step that decides about no task and moves none keeps their places and order.
LEMMA PoolFrame ==
    ASSUME PlaceInv, SeqInv, PoolTypeOK,
           queue' = queue, current' = current, ran' = ran, Accepted' = Accepted,
           \A t \in Accepted : task'[t].key = task[t].key /\ task'[t].seq = task[t].seq
    PROVE  PlaceInv' /\ SeqInv'
<1>1. queued' = queued
  BY DEF queued
<1>2. \A w \in PoolWorkers : queued[w] = Elems(queue[w]) /\ queue[w] \in Seq(Nat)
  BY DEF queued, PoolTypeOK
<1>3. PlaceInv'
  <2>1. \A w \in PoolWorkers : \A t \in queued[w] : OnWorker(t, w)'
    BY ZenonT(40) DEF PlaceInv, OnWorker
  <2>2. \A w \in PoolWorkers : current[w] # 0 => OnWorker(current[w], w)'
    BY DEF PlaceInv, OnWorker
  <2> QED
    BY <1>1, <2>1, <2>2 DEF PlaceInv
<1>4. ASSUME NEW s, Elems(s) \subseteq Accepted
      PROVE  (Sorted(s, task) => Sorted(s, task')) /\ (KeySorted(s, task) => KeySorted(s, task'))
  <2>1. \A i \in 1 .. Len(s) : s[i] \in Accepted
    BY <1>4 DEF Elems
  <2> QED
    BY <2>1 DEF Sorted, KeySorted, KeyBefore
<1>5. \A t, u \in Accepted : KeyBefore(task, t, u) => KeyBefore(task', t, u)
  BY DEF KeyBefore
<1>6. SeqInv'
  <2>1. \A t \in Accepted : task'[t].seq < Cardinality(Accepted)
    BY DEF SeqInv
  <2>2. KeySorted(ran, task')
    BY <1>4 DEF SeqInv, PlaceInv
  <2>3. ASSUME NEW w \in PoolWorkers
        PROVE  /\ Sorted(queue[w], task')
               /\ \A u \in queued[w] : \A t \in Elems(ran) : KeyBefore(task', t, u)
               /\ current[w] # 0 =>
                     /\ \A u \in queued[w] : task'[current[w]].seq < task'[u].seq
                     /\ \A t \in Elems(ran) : KeyBefore(task', t, current[w])
    <3>1. Sorted(queue[w], task')
      <4>1. queued[w] = Elems(queue[w]) /\ queued[w] \subseteq Accepted
        BY <1>2 DEF PlaceInv
      <4>2. Sorted(queue[w], task)
        BY DEF SeqInv
      <4> QED
        BY <1>4, <4>1, <4>2
    <3>2. \A u \in queued[w] : \A t \in Elems(ran) : KeyBefore(task', t, u)
      BY <1>5 DEF SeqInv, PlaceInv
    <3>3. ASSUME current[w] # 0
          PROVE  /\ \A u \in queued[w] : task'[current[w]].seq < task'[u].seq
                 /\ \A t \in Elems(ran) : KeyBefore(task', t, current[w])
      <4>1. current[w] \in Accepted /\ queued[w] \subseteq Accepted /\ Elems(ran) \subseteq Accepted
        BY <3>3 DEF PlaceInv
      <4>2. \A u \in queued[w] : task'[current[w]].seq < task'[u].seq
        <5>1. \A u \in queued[w] : task[current[w]].seq < task[u].seq
          BY <3>3 DEF SeqInv
        <5> QED
          BY <4>1, <5>1
      <4> QED
        BY <1>5, <3>3, <4>1, <4>2 DEF SeqInv
    <3> QED
      BY <3>1, <3>2, <3>3
  <2> QED
    BY <1>1, <2>1, <2>2, <2>3 DEF SeqInv
<1> QED
  BY <1>3, <1>6

\* The accepted tasks are few enough to be counted.
LEMMA AcceptedFinite ==
    ASSUME task \in Seq(Task)
    PROVE  IsFiniteSet(Accepted) /\ Cardinality(Accepted) \in Nat
<1>1. Len(task) \in Nat
  BY LenProperties
<1>2. IsFiniteSet(1 .. Len(task))
  BY SMT, <1>1, FS_Interval
<1>3. Accepted \subseteq 1 .. Len(task)
  BY DEF Accepted, Known
<1> QED
  BY <1>2, <1>3, FS_Subset, FS_CardinalityType

\* enqueue() takes the task: it is the last one of its queue and of its key.
LEMMA QueueTask ==
    ASSUME PlaceInv, SeqInv, NEW w \in PoolWorkers, NEW t \in Nat \ {0},
           IsFiniteSet(Accepted), t \notin Accepted, Accepted' = Accepted \cup {t},
           \A u \in Accepted : task'[u] = task[u] /\ task[u].seq \in Nat,
           OnWorker(t, w)', task'[t].seq = Cardinality(Accepted),
           queue \in [PoolWorkers -> Seq(Nat)],
           queue' = [queue EXCEPT ![w] = Append(queue[w], t)],
           current' = current, ran' = ran
    PROVE  /\ PlaceInv' /\ SeqInv'
           /\ queue' \in [PoolWorkers -> Seq(Nat)]
           /\ \A v \in PoolWorkers : queued'[v] = IF v = w THEN queued[v] \cup {t} ELSE queued[v]
<1>1. PICK m \in Nat : m = Cardinality(Accepted)
  BY FS_CardinalityType
<1>2. Cardinality(Accepted') = m + 1
  BY <1>1, FS_AddElement
<1>3. \A u \in Accepted : task[u].seq < m
  BY <1>1 DEF SeqInv
<1>4. /\ queue' \in [PoolWorkers -> Seq(Nat)]
      /\ queue'[w] = Append(queue[w], t)
      /\ \A v \in PoolWorkers : v # w => queue'[v] = queue[v]
      /\ \A v \in PoolWorkers : queue[v] \in Seq(Nat)
  <2>1. Append(queue[w], t) \in Seq(Nat)
    BY AppendElems
  <2> QED
    BY <2>1
<1>5. /\ \A v \in PoolWorkers : queued[v] = Elems(queue[v])
      /\ \A v \in PoolWorkers : queued'[v] = IF v = w THEN queued[v] \cup {t} ELSE queued[v]
  <2>1. Elems(Append(queue[w], t)) = Elems(queue[w]) \cup {t}
    BY <1>4, AppendElems
  <2> QED
    BY <1>4, <2>1 DEF queued
<1>6. /\ Elems(ran) \subseteq Accepted /\ t \notin Elems(ran)
      /\ \A v \in PoolWorkers : queued[v] \subseteq Accepted /\ t \notin queued[v] /\ t # current[v]
  BY DEF PlaceInv
<1>7. ASSUME NEW v \in PoolWorkers, NEW u \in queued'[v]
      PROVE  u \in queued[v] \/ (u = t /\ v = w)
  BY <1>5
<1>8. PlaceInv'
  <2>1. ASSUME NEW v \in PoolWorkers, NEW u \in queued'[v] PROVE OnWorker(u, v)'
    <3>1. CASE u \in queued[v]
      <4>1. OnWorker(u, v) /\ u \in Accepted
        BY <3>1 DEF PlaceInv
      <4> QED
        BY <4>1 DEF OnWorker
    <3>2. CASE u = t /\ v = w
      BY <3>2 DEF OnWorker
    <3> QED
      BY <1>7, <3>1, <3>2
  <2>2. ASSUME NEW v \in PoolWorkers, current[v] # 0
        PROVE  current[v] \in Accepted' \ Elems(ran) /\ OnWorker(current[v], v)'
    <3>1. current[v] \in Accepted \ Elems(ran) /\ OnWorker(current[v], v)
      BY <2>2 DEF PlaceInv
    <3> QED
      BY <3>1 DEF OnWorker
  <2>3. ASSUME NEW v \in PoolWorkers
        PROVE  queued'[v] \subseteq Accepted' /\ queued'[v] \cap Elems(ran) = {}
    <3>1. queued[v] \subseteq Accepted /\ queued[v] \cap Elems(ran) = {}
      BY DEF PlaceInv
    <3> QED
      BY <1>6, <1>7, <3>1
  <2>4. ASSUME NEW v \in PoolWorkers, NEW x \in PoolWorkers
        PROVE  /\ current[v] # 0 => current[v] \notin queued'[x]
               /\ v # x => queued'[v] \cap queued'[x] = {}
               /\ v # x /\ current[v] # 0 => current[v] # current[x]
    <3>1. /\ current[v] # 0 => current[v] \notin queued[x]
          /\ v # x => queued[v] \cap queued[x] = {}
          /\ v # x /\ current[v] # 0 => current[v] # current[x]
      BY DEF PlaceInv
    <3> QED
      BY <1>6, <1>7, <3>1, ZenonT(40)
  <2>5. ASSUME NEW u \in Accepted'
        PROVE  u \in Elems(ran) \/ \E v \in PoolWorkers : u \in queued'[v] \/ u = current[v]
    <3>1. CASE u = t
      BY <1>5, <3>1
    <3>2. CASE u \in Accepted
      <4>1. u \in Elems(ran) \/ \E v \in PoolWorkers : u \in queued[v] \/ u = current[v]
        BY <3>2 DEF PlaceInv
      <4>2. \A v \in PoolWorkers : u \in queued[v] => u \in queued'[v]
        BY <1>5
      <4> QED
        BY <4>1, <4>2
    <3> QED
      BY <3>1, <3>2
  <2>6. Elems(ran) \subseteq Accepted'
    BY <1>6
  <2> QED
    BY <2>1, <2>2, <2>3, <2>4, <2>5, <2>6 DEF PlaceInv
<1>9. SeqInv'
  <2>1. \A u \in Accepted' : task'[u].seq < Cardinality(Accepted')
    <3>1. \A u \in Accepted : task[u].seq < m + 1
      BY SMT, <1>3
    <3>2. m < m + 1
      BY SMT
    <3> QED
      BY <1>1, <1>2, <3>1, <3>2
  <2>2. ASSUME NEW u \in Accepted
        PROVE  task'[u].seq < task'[t].seq /\ KeyBefore(task', u, t)
    BY <1>1, <1>3 DEF KeyBefore
  <2>3. ASSUME NEW u \in Accepted, NEW x \in Accepted, KeyBefore(task, u, x)
        PROVE  KeyBefore(task', u, x)
    BY <2>3 DEF KeyBefore
  <2>4. KeySorted(ran, task')
    <3>1. KeySorted(ran, task) /\ \A i \in 1 .. Len(ran) : ran[i] \in Accepted
      BY <1>6 DEF SeqInv, Elems
    <3> QED
      BY <2>3, <3>1 DEF KeySorted
  <2>5. ASSUME NEW v \in PoolWorkers PROVE Sorted(queue'[v], task')
    <3>1. Sorted(queue[v], task) /\ \A i \in 1 .. Len(queue[v]) : queue[v][i] \in Accepted
      BY <1>5, <1>6 DEF SeqInv, Elems
    <3>2. Sorted(queue[v], task')
      BY <3>1 DEF Sorted
    <3>3. CASE v = w
      <4>1. \A u \in Elems(queue[w]) : task'[u].seq < task'[t].seq
        BY <1>5, <1>6, <2>2
      <4> QED
        BY <1>4, <3>2, <3>3, <4>1, AppendElems
    <3> QED
      BY <1>4, <3>2, <3>3
  <2>6. ASSUME NEW v \in PoolWorkers, NEW u \in queued'[v], NEW x \in Elems(ran)
        PROVE  KeyBefore(task', x, u)
    <3>1. u \in queued[v] => KeyBefore(task, x, u)
      BY DEF SeqInv
    <3> QED
      BY <1>6, <1>7, <2>2, <2>3, <3>1
  <2>7. ASSUME NEW v \in PoolWorkers, current[v] # 0
        PROVE  /\ \A u \in queued'[v] : task'[current[v]].seq < task'[u].seq
               /\ \A x \in Elems(ran) : KeyBefore(task', x, current[v])
    <3>1. /\ current[v] \in Accepted
          /\ \A u \in queued[v] : task[current[v]].seq < task[u].seq
          /\ \A x \in Elems(ran) : KeyBefore(task, x, current[v])
      BY <2>7 DEF PlaceInv, SeqInv
    <3>2. ASSUME NEW u \in queued'[v] PROVE task'[current[v]].seq < task'[u].seq
      <4>1. CASE u \in queued[v]
        BY <1>6, <3>1, <4>1
      <4>2. CASE u = t
        BY <2>2, <3>1, <4>2
      <4> QED
        BY <1>7, <4>1, <4>2
    <3> QED
      BY <1>6, <2>3, <3>1, <3>2
  <2> QED
    BY <2>1, <2>4, <2>5, <2>6, <2>7 DEF SeqInv
<1> QED
  BY <1>4, <1>5, <1>8, <1>9

\* A worker takes the first task of its queue ...
LEMMA TakeTask ==
    ASSUME PlaceInv, SeqInv, NEW w \in PoolWorkers, PoolTypeOK,
           current[w] = 0, queue[w] # <<>>,
           current' = [current EXCEPT ![w] = Head(queue[w])],
           queue' = [queue EXCEPT ![w] = Tail(queue[w])],
           task' = task, ran' = ran
    PROVE  /\ PlaceInv' /\ SeqInv'
           /\ queue' \in [PoolWorkers -> Seq(Nat)] /\ current' \in [PoolWorkers -> Nat]
           /\ current'[w] # 0 /\ \A v \in PoolWorkers : v # w => current'[v] = current[v]
           /\ \A v \in PoolWorkers : queued'[v] \subseteq queued[v]
<1>1. /\ queue[w] \in Seq(Nat) /\ queue \in [PoolWorkers -> Seq(Nat)]
      /\ current \in [PoolWorkers -> Nat] /\ \A v \in PoolWorkers : queue[v] \in Seq(Nat)
  BY DEF PoolTypeOK
<1>2. PICK h \in Nat : h = Head(queue[w])
  BY <1>1, TailElems
<1>3. PICK q \in Seq(Nat) : q = Tail(queue[w])
  BY <1>1, TailElems
<1>4. /\ queue' \in [PoolWorkers -> Seq(Nat)] /\ current' \in [PoolWorkers -> Nat]
      /\ queue'[w] = q /\ current'[w] = h
      /\ \A v \in PoolWorkers : v # w => queue'[v] = queue[v] /\ current'[v] = current[v]
  BY SMT, <1>1, <1>2, <1>3
<1>5. Sorted(queue[w], task) /\ Elems(queue[w]) = Elems(q) \cup {h}
  BY <1>1, <1>2, <1>3, TailElems DEF SeqInv
<1>6. Sorted(q, task) /\ \A t \in Elems(q) : task[h].seq < task[t].seq
  BY <1>1, <1>2, <1>3, <1>5, TailElems
<1>7. /\ queued[w] = queued'[w] \cup {h} /\ queued'[w] = Elems(q)
      /\ \A v \in PoolWorkers : v # w => queued'[v] = queued[v]
  BY <1>4, <1>5 DEF queued
<1>8. /\ h \in Accepted /\ h \in queued[w] /\ h # 0 /\ h \notin Elems(ran)
      /\ Accepted' = Accepted /\ 0 \notin Accepted
  <2>1. h \in queued[w] /\ Accepted' = Accepted
    BY <1>7 DEF Accepted, Known
  <2>2. h \in Accepted /\ h \notin Elems(ran)
    BY <2>1 DEF PlaceInv
  <2>3. Len(task) \in Nat /\ 0 \notin 1 .. Len(task)
    BY SMT, LenProperties DEF PoolTypeOK
  <2> QED
    BY <2>1, <2>2, <2>3 DEF Accepted, Known
<1>9. task[h].seq \in Nat /\ ~(task[h].seq < task[h].seq)
  <2>1. task[h] \in Task
    BY <1>8, ElementOfSeq DEF Accepted, Known, PoolTypeOK
  <2> QED
    BY SMT, <2>1 DEF Task
<1>10. h \notin queued'[w]
  BY <1>6, <1>7, <1>9
<1>11. PlaceInv'
  <2>1. ASSUME NEW v \in PoolWorkers
        PROVE  /\ queued'[v] \subseteq Accepted
               /\ queued'[v] \cap Elems(ran) = {}
               /\ \A t \in queued'[v] : OnWorker(t, v)'
    <3>1. /\ queued[v] \subseteq Accepted /\ queued[v] \cap Elems(ran) = {}
          /\ \A t \in queued[v] : OnWorker(t, v)
      BY DEF PlaceInv
    <3>2. queued'[v] \subseteq queued[v]
      BY <1>7
    <3> QED
      BY <3>1, <3>2 DEF OnWorker
  <2>2. ASSUME NEW v \in PoolWorkers, current'[v] # 0
        PROVE  current'[v] \in Accepted \ Elems(ran) /\ OnWorker(current[v], v)'
    <3>1. CASE v = w
      <4>1. OnWorker(h, w)
        BY <1>8 DEF PlaceInv
      <4> QED
        BY <1>4, <1>8, <3>1, <4>1 DEF OnWorker
    <3>2. CASE v # w
      BY <1>4, <2>2, <3>2 DEF PlaceInv, OnWorker
    <3> QED
      BY <3>1, <3>2
  <2>3. ASSUME NEW v \in PoolWorkers, NEW x \in PoolWorkers
        PROVE  /\ current'[v] # 0 => current'[v] \notin queued'[x]
               /\ v # x => queued'[v] \cap queued'[x] = {}
               /\ v # x /\ current'[v] # 0 => current'[v] # current'[x]
    <3>1. /\ current[v] # 0 => current[v] \notin queued[x] /\ current[v] \notin queued[w]
          /\ current[x] # 0 => current[x] \notin queued[v] /\ current[x] \notin queued[w]
          /\ v # x => queued[v] \cap queued[x] = {}
          /\ w # x => queued[w] \cap queued[x] = {}
          /\ v # x /\ current[v] # 0 => current[v] # current[x]
      BY DEF PlaceInv
    <3>2. queued'[x] \subseteq queued[x] /\ queued'[v] \subseteq queued[v]
      BY <1>7
    <3>3. current'[v] # 0 => current'[v] \notin queued'[x]
      BY <1>4, <1>7, <1>8, <1>10, <3>1, <3>2
    <3>4. v # x /\ current'[v] # 0 => current'[v] # current'[x]
      BY <1>4, <1>8, <3>1
    <3> QED
      BY <3>1, <3>2, <3>3, <3>4
  <2>4. ASSUME NEW t \in Accepted
        PROVE  t \in Elems(ran) \/ \E v \in PoolWorkers : t \in queued'[v] \/ t = current'[v]
    <3>1. CASE t = h
      BY <1>4, <3>1
    <3>2. CASE t # h
      <4>1. t \in Elems(ran) \/ \E v \in PoolWorkers : t \in queued[v] \/ t = current[v]
        BY DEF PlaceInv
      <4>2. t # 0
        BY <1>8
      <4>3. ASSUME NEW v \in PoolWorkers, t \in queued[v] PROVE t \in queued'[v]
        BY <1>7, <3>2, <4>3
      <4>4. ASSUME NEW v \in PoolWorkers, t = current[v] PROVE t = current'[v]
        BY <1>4, <4>2, <4>4
      <4> QED
        BY <4>1, <4>3, <4>4
    <3> QED
      BY <3>1, <3>2
  <2> QED
    BY <1>8, <2>1, <2>2, <2>3, <2>4 DEF PlaceInv
<1>12. SeqInv'
  <2>1. ASSUME NEW v \in PoolWorkers PROVE Sorted(queue'[v], task)
    BY <1>4, <1>6 DEF SeqInv
  <2>2. ASSUME NEW v \in PoolWorkers, NEW u \in queued'[v], NEW t \in Elems(ran)
        PROVE  KeyBefore(task, t, u)
    <3>1. u \in queued[v]
      BY <1>7
    <3> QED
      BY <3>1 DEF SeqInv
  <2>3. ASSUME NEW v \in PoolWorkers, current'[v] # 0
        PROVE  /\ \A u \in queued'[v] : task[current'[v]].seq < task[u].seq
               /\ \A t \in Elems(ran) : KeyBefore(task, t, current'[v])
    <3>1. CASE v = w
      <4>1. current'[v] = h /\ h \in queued[v] /\ queued'[v] = Elems(q)
        BY <1>4, <1>7, <1>8, <3>1, Zenon
      <4>2. \A t \in Elems(ran) : KeyBefore(task, t, h)
        BY <4>1, Zenon DEF SeqInv
      <4> QED
        BY <1>6, <4>1, <4>2, Zenon
    <3>2. CASE v # w
      BY <1>4, <1>7, <2>3, <3>2 DEF SeqInv
    <3> QED
      BY <3>1, <3>2
  <2> QED
    BY <1>8, <2>1, <2>2, <2>3 DEF SeqInv
<1> QED
  BY <1>4, <1>7, <1>8, <1>11, <1>12

\* ... and has run it.
LEMMA RunTask ==
    ASSUME PlaceInv, SeqInv, NEW w \in PoolWorkers, PoolTypeOK, current[w] # 0,
           current' = [current EXCEPT ![w] = 0], ran' = Append(ran, current[w]),
           queue' = queue, task' = task
    PROVE  /\ PlaceInv' /\ SeqInv'
           /\ ran' \in Seq(Nat) /\ current' \in [PoolWorkers -> Nat]
           /\ current'[w] = 0 /\ \A v \in PoolWorkers : v # w => current'[v] = current[v]
<1>1. ran \in Seq(Nat) /\ current \in [PoolWorkers -> Nat]
  BY DEF PoolTypeOK
<1>2. PICK c \in Nat : c = current[w]
  BY <1>1
<1>3. /\ current' \in [PoolWorkers -> Nat] /\ current'[w] = 0
      /\ \A v \in PoolWorkers : v # w => current'[v] = current[v]
  BY SMT, <1>1
<1>4. /\ ran' \in Seq(Nat) /\ Elems(ran') = Elems(ran) \cup {c}
      /\ \A r : KeySorted(ran, r) /\ c \notin Elems(ran) /\ (\A t \in Elems(ran) : KeyBefore(r, t, c))
                   => KeySorted(ran', r)
  BY <1>1, <1>2, AppendElems
<1>5. /\ queued' = queued /\ Accepted' = Accepted /\ Known' = Known /\ 0 \notin Accepted
      /\ c # 0 /\ c \in Accepted \ Elems(ran)
      /\ OnWorker(c, w) /\ \A v \in PoolWorkers : c \notin queued[v] /\ (v # w => c # current[v])
      /\ \A u \in queued[w] : task[c].seq < task[u].seq
      /\ \A t \in Elems(ran) : KeyBefore(task, t, c)
  <2>1. queued' = queued /\ Accepted' = Accepted /\ Known' = Known /\ c # 0
    BY <1>2 DEF queued, Accepted, Known
  <2>2. c \in Accepted \ Elems(ran) /\ OnWorker(c, w)
    BY <1>2, <2>1 DEF PlaceInv
  <2>3. \A v \in PoolWorkers : c \notin queued[v] /\ (v # w => c # current[v])
    BY <1>2, <2>1 DEF PlaceInv
  <2>4. 0 \notin Accepted
    BY SMT DEF Accepted, Known
  <2> QED
    BY <1>2, <2>1, <2>2, <2>3, <2>4 DEF SeqInv
<1>6. PlaceInv'
  <2>1. ASSUME NEW v \in PoolWorkers
        PROVE  /\ queued[v] \subseteq Accepted /\ queued[v] \cap Elems(ran') = {}
               /\ \A t \in queued[v] : OnWorker(t, v)'
    <3>1. /\ queued[v] \subseteq Accepted /\ queued[v] \cap Elems(ran) = {}
          /\ \A t \in queued[v] : OnWorker(t, v)
      BY DEF PlaceInv
    <3> QED
      BY <1>4, <1>5, <3>1 DEF OnWorker
  <2>2. ASSUME NEW v \in PoolWorkers, current'[v] # 0
        PROVE  /\ current'[v] = current[v] /\ current'[v] \in Accepted \ Elems(ran')
               /\ OnWorker(current[v], v)'
    <3>1. v # w /\ current'[v] = current[v]
      BY <1>3, <2>2
    <3>2. current[v] \in Accepted \ Elems(ran) /\ OnWorker(current[v], v) /\ current[v] # c
      BY <1>5, <2>2, <3>1 DEF PlaceInv
    <3> QED
      BY <1>4, <3>1, <3>2 DEF OnWorker
  <2>3. ASSUME NEW v \in PoolWorkers, NEW x \in PoolWorkers
        PROVE  /\ current'[v] # 0 => current'[v] \notin queued[x]
               /\ v # x => queued[v] \cap queued[x] = {}
               /\ v # x /\ current'[v] # 0 => current'[v] # current'[x]
    <3>1. /\ current[v] # 0 => current[v] \notin queued[x]
          /\ v # x => queued[v] \cap queued[x] = {}
          /\ v # x /\ current[v] # 0 => current[v] # current[x]
      BY DEF PlaceInv
    <3> QED
      BY <1>3, <3>1
  <2>4. ASSUME NEW t \in Accepted
        PROVE  t \in Elems(ran') \/ \E v \in PoolWorkers : t \in queued[v] \/ t = current'[v]
    <3>1. t \in Elems(ran) \/ \E v \in PoolWorkers : t \in queued[v] \/ t = current[v]
      BY DEF PlaceInv
    <3>2. ASSUME NEW v \in PoolWorkers, t = current[v] PROVE t = c \/ t = current'[v]
      BY <1>2, <1>3, <3>2
    <3> QED
      BY <1>4, <3>1, <3>2
  <2>5. Elems(ran') \subseteq Accepted
    BY <1>4, <1>5 DEF PlaceInv
  <2> QED
    BY <1>5, <2>1, <2>2, <2>3, <2>4, <2>5, ZenonT(40) DEF PlaceInv
<1>7. SeqInv'
  <2>1. ASSUME NEW u \in Accepted, u # c, \E v \in PoolWorkers : u \in queued[v] \/ u = current[v]
        PROVE  KeyBefore(task, c, u)
    <3> SUFFICES ASSUME task[c].key = task[u].key, task[c].key # 0
                 PROVE  task[c].seq < task[u].seq
      BY DEF KeyBefore
    <3>1. PICK v \in PoolWorkers : u \in queued[v] \/ u = current[v]
      BY <2>1
    <3>2. v = w
      <4>1. OnWorker(u, v)
        BY <1>5, <2>1, <3>1 DEF PlaceInv
      <4> QED
        BY <1>5, <4>1 DEF OnWorker
    <3> QED
      BY <1>2, <1>5, <2>1, <3>1, <3>2
  <2>2. KeySorted(ran', task)
    BY <1>4, <1>5 DEF SeqInv
  <2>3. ASSUME NEW v \in PoolWorkers, NEW u \in queued[v], NEW t \in Elems(ran')
        PROVE  KeyBefore(task, t, u)
    <3>1. u \in Accepted /\ u # c
      BY <1>5 DEF PlaceInv
    <3>2. CASE t = c
      BY <2>1, <3>1, <3>2
    <3>3. CASE t \in Elems(ran)
      BY <3>3 DEF SeqInv
    <3> QED
      BY <1>4, <3>2, <3>3
  <2>4. ASSUME NEW v \in PoolWorkers, current'[v] # 0
        PROVE  /\ \A u \in queued[v] : task[current'[v]].seq < task[u].seq
               /\ \A t \in Elems(ran') : KeyBefore(task, t, current'[v])
    <3>1. v # w /\ current'[v] = current[v] /\ current[v] # c
      BY <1>3, <1>5, <2>4
    <3>2. current[v] \in Accepted
      BY <2>4, <3>1 DEF PlaceInv
    <3>3. KeyBefore(task, c, current[v])
      BY <2>1, <3>1, <3>2
    <3>4. /\ \A u \in queued[v] : task[current[v]].seq < task[u].seq
          /\ \A t \in Elems(ran) : KeyBefore(task, t, current[v])
      BY <2>4, <3>1 DEF SeqInv
    <3> QED
      BY <1>4, <3>1, <3>3, <3>4
  <2>5. /\ \A t \in Accepted : task[t].seq < Cardinality(Accepted)
        /\ \A v \in PoolWorkers : Sorted(queue[v], task)
    BY DEF SeqInv
  <2> QED
    BY <1>5, <2>2, <2>3, <2>4, <2>5 DEF SeqInv
<1> QED
  BY <1>3, <1>4, <1>6, <1>7

\* A step of no submitting thread leaves what they hold alone.
LEMMA SubmitFrame ==
    ASSUME SubmitInv, submitter' = submitter, Known' = Known,
           \A t \in Known : task'[t].key = task[t].key /\ task'[t].fate = task[t].fate
    PROVE  SubmitInv'
<1>1. ASSUME NEW s \in Submitters
      PROVE  /\ submitter[s].pc # "idle" => submitter[s].idx \in PoolWorkers
             /\ submitter[s].pc = "enqueue" =>
                   /\ submitter[s].task \in Known
                   /\ task'[submitter[s].task].fate = "passed"
                   /\ OnWorker(submitter[s].task, submitter[s].idx)'
  BY DEF SubmitInv, OnWorker
<1>2. \A s, r \in Submitters :
         s # r /\ submitter[s].pc = "enqueue" /\ submitter[r].pc = "enqueue" =>
            submitter[s].task # submitter[r].task
  BY DEF SubmitInv
<1> QED
  BY <1>1, <1>2 DEF SubmitInv

LEMMA StartStep ==
    ASSUME PoolInv, Start
    PROVE  PoolInv'
<1>1. /\ stopping = 0 /\ ~running /\ running' = TRUE
      /\ wstate' = [w \in PoolWorkers |-> "check"]
      /\ queue' = queue /\ current' = current /\ submitter' = submitter /\ robin' = robin
      /\ task' = task /\ ran' = ran /\ stopping' = stopping
  BY DEF Start
<1>2. PoolTypeOK'
  BY <1>1 DEF PoolInv, PoolTypeOK
<1>3. queued' = queued /\ Known' = Known /\ Accepted' = Accepted
  BY <1>1 DEF queued, Known, Accepted
<1>4. PlaceInv' /\ SeqInv'
  BY <1>1, <1>3, PoolFrame DEF PoolInv
<1>5. SubmitInv'
  BY <1>1, <1>3, SubmitFrame DEF PoolInv
<1>6. \A w \in PoolWorkers : current[w] = 0
  BY <1>1 DEF PoolInv, StopInv
<1>7. \A w \in PoolWorkers : wstate'[w] = "check"
  BY <1>1
<1>8. StopInv'
  BY <1>1, <1>3, <1>6, <1>7 DEF PoolInv, StopInv
<1> QED
  BY <1>2, <1>4, <1>5, <1>8 DEF PoolInv

LEMMA StopStep ==
    ASSUME PoolInv, Stop
    PROVE  PoolInv'
<1>1. /\ stopping = 0 /\ running /\ running' = FALSE /\ stopping' = 1
      /\ queue' = queue /\ wstate' = wstate /\ current' = current /\ submitter' = submitter
      /\ robin' = robin /\ ran' = ran
  BY DEF Stop
<1>2. /\ task' \in Seq(Task) /\ Len(task') = Len(task)
      /\ \A u \in Known : /\ task'[u].key = task[u].key /\ task'[u].fate = task[u].fate
                          /\ task'[u].seq = task[u].seq
                          /\ task'[u].early = (task[u].fate = "accepted")
  BY MarkTasks DEF PoolInv, PoolTypeOK, Stop
<1>3. PoolTypeOK'
  <2>1. 1 \in Nat
    BY SMT
  <2> QED
    BY <1>1, <1>2, <2>1 DEF PoolInv, PoolTypeOK
<1>4. queued' = queued /\ Known' = Known /\ Accepted' = Accepted /\ Accepted \subseteq Known
  BY <1>1, <1>2 DEF queued, Known, Accepted
<1>5. PlaceInv' /\ SeqInv'
  BY <1>1, <1>2, <1>4, PoolFrame DEF PoolInv
<1>6. SubmitInv'
  BY <1>1, <1>2, <1>4, SubmitFrame DEF PoolInv
<1>7. ASSUME NEW w \in PoolWorkers
      PROVE  wstate[w] # "gone" /\ wstate[w] # "none" /\ (wstate[w] = "task" <=> current[w] # 0)
  BY <1>1 DEF PoolInv, StopInv
<1>8. \A t \in Known : task'[t].early => task'[t].fate = "accepted"
  BY <1>2
<1>9. stopping' # 0
  BY SMT, <1>1
<1>10. StopInv'
  BY <1>1, <1>4, <1>7, <1>8, <1>9 DEF StopInv
<1> QED
  BY <1>3, <1>5, <1>6, <1>10 DEF PoolInv

\* What a step that only moves worker threads must respect.
LEMMA WakeFrame ==
    ASSUME PoolInv, UNCHANGED <<queue, current, task, ran, running>>,
           wstate' \in [PoolWorkers -> {"none", "check", "task", "dozing", "asleep", "gone"}],
           stopping' \in Nat,
           \A w \in PoolWorkers :
              wstate'[w] = wstate[w]
              \/ {wstate[w], wstate'[w]} \subseteq {"check", "dozing", "asleep"},
           stopping' = 0 /\ ~running => \A w \in PoolWorkers : wstate'[w] \in {"none", "gone"}
    PROVE  /\ PlaceInv' /\ SeqInv' /\ StopInv'
           /\ submitter' = submitter /\ robin' = robin => PoolInv'
<1>1. queued' = queued /\ Known' = Known /\ Accepted' = Accepted /\ Accepted \subseteq Known
  BY DEF queued, Known, Accepted
<1>2. PlaceInv' /\ SeqInv'
  BY <1>1, PoolFrame DEF PoolInv
<1>3. ASSUME NEW w \in PoolWorkers
      PROVE  /\ wstate'[w] = "task" <=> current[w] # 0
             /\ wstate'[w] = "gone" => ~running /\ \A t \in queued[w] : ~task[t].early
             /\ wstate'[w] = "none" => ~running /\ Known = {}
  <2>1. /\ wstate[w] = "task" <=> current[w] # 0
        /\ wstate[w] = "gone" => ~running /\ \A t \in queued[w] : ~task[t].early
        /\ wstate[w] = "none" => ~running /\ Known = {}
    BY DEF PoolInv, StopInv
  <2>2. CASE wstate'[w] = wstate[w]
    BY <2>1, <2>2
  <2>3. CASE {wstate[w], wstate'[w]} \subseteq {"check", "dozing", "asleep"}
    <3>1. wstate'[w] \notin {"task", "gone", "none"} /\ wstate[w] \notin {"task", "gone", "none"}
      BY SMT, <2>3
    <3> QED
      BY <2>1, <3>1
  <2> QED
    BY <2>2, <2>3
<1>4. StopInv'
  <2>1. \A t \in Known : task[t].early => task[t].fate = "accepted"
    BY DEF PoolInv, StopInv
  <2> QED
    BY <1>1, <1>3, <2>1 DEF StopInv
<1>5. ASSUME submitter' = submitter, robin' = robin PROVE PoolTypeOK' /\ SubmitInv'
  <2>1. SubmitInv'
    BY <1>1, <1>5, SubmitFrame DEF PoolInv
  <2> QED
    BY <1>5, <2>1 DEF PoolInv, PoolTypeOK
<1> QED
  BY <1>2, <1>4, <1>5 DEF PoolInv

LEMMA StopNotifyStep ==
    ASSUME PoolInv, StopNotify
    PROVE  PoolInv'
<1>1. PICK w \in PoolWorkers : w = stopping - 1
  BY SMT, ThreadPoolAssumption DEF StopNotify, PoolWorkers
<1>2. /\ wstate' = [wstate EXCEPT ![w] = IF wstate[w] = "asleep" THEN "check" ELSE wstate[w]]
      /\ stopping' = stopping + 1 /\ stopping \in Nat
      /\ UNCHANGED <<running, queue, current, submitter, robin, task, ran>>
  BY <1>1 DEF StopNotify, PoolInv, PoolTypeOK
<1>3. stopping' \in Nat /\ stopping' # 0
  BY SMT, <1>2
<1>4. wstate \in [PoolWorkers -> {"none", "check", "task", "dozing", "asleep", "gone"}]
  BY DEF PoolInv, PoolTypeOK
<1>5. /\ wstate' \in [PoolWorkers -> {"none", "check", "task", "dozing", "asleep", "gone"}]
      /\ \A v \in PoolWorkers :
              wstate'[v] = wstate[v]
              \/ {wstate[v], wstate'[v]} \subseteq {"check", "dozing", "asleep"}
  BY SMT, <1>2, <1>4
<1> QED
  BY <1>2, <1>3, <1>5, WakeFrame

LEMMA StopJoinStep ==
    ASSUME PoolInv, StopJoin
    PROVE  PoolInv'
<1>1. /\ \A w \in PoolWorkers : wstate[w] = "gone"
      /\ stopping' = 0
      /\ UNCHANGED <<running, queue, wstate, current, submitter, robin, task, ran>>
  BY DEF StopJoin
<1>2. 0 \in Nat /\ wstate' \in [PoolWorkers -> {"none", "check", "task", "dozing", "asleep", "gone"}]
  BY SMT, <1>1 DEF PoolInv, PoolTypeOK
<1> QED
  BY <1>1, <1>2, WakeFrame

\* Both submitting calls register a task and choose a worker for it.
LEMMA NewTaskStep ==
    ASSUME PoolInv, NEW s \in Submitters, NEW key \in Nat, NEW idx \in PoolWorkers,
           NewTask(s, key, idx), key # 0 => idx = key % numThreads, robin' \in Nat,
           UNCHANGED <<running, queue, wstate, current, ran, stopping>>
    PROVE  PoolInv'
<1> DEFINE e == [key |-> key, fate |-> "passed", early |-> FALSE, seq |-> 0]
<1>1. e \in Task /\ e.key = key /\ e.fate = "passed" /\ e.early = FALSE
  BY SMT DEF Task
<1>2. PICK n \in Nat : n = Len(task) + 1
  BY SMT, LenProperties DEF PoolInv, PoolTypeOK
<1>3. PICK b \in [pc : {"idle", "enqueue", "notify"}, idx : Nat, task : Nat] :
         b = [pc |-> "enqueue", idx |-> idx, task |-> n]
  <2>1. idx \in Nat
    BY SMT, ThreadPoolAssumption DEF PoolWorkers
  <2> QED
    BY <2>1, SubmitterRecord
<1>4. b.pc = "enqueue" /\ b.idx = idx /\ b.task = n
  BY SMT, <1>3
<1>5. task' = Append(task, e) /\ running /\ submitter' = [submitter EXCEPT ![s] = b]
  BY <1>2, <1>3 DEF NewTask
<1> HIDE DEF e
<1>6. /\ task' \in Seq(Task) /\ Len(task') = n /\ task'[n] = e
      /\ \A t \in Known : task'[t] = task[t]
  <2>1. task \in Seq(Task)
    BY DEF PoolInv, PoolTypeOK
  <2>2. /\ Append(task, e) \in Seq(Task) /\ Len(Append(task, e)) = Len(task) + 1
        /\ Append(task, e)[Len(task) + 1] = e
        /\ \A t \in 1 .. Len(task) : Append(task, e)[t] = task[t]
    BY SMT, <1>1, <2>1, AppendProperties
  <2> QED
    BY <1>2, <1>5, <2>2 DEF Known
<1>7. Known' = Known \cup {n} /\ n \notin Known
  <2>1. Len(task) \in Nat
    BY LenProperties DEF PoolInv, PoolTypeOK
  <2>2. 1 .. n = (1 .. Len(task)) \cup {n} /\ n \notin 1 .. Len(task)
    BY SMT, <1>2, <2>1
  <2> QED
    BY <1>6, <2>2 DEF Known
<1>8. Accepted' = Accepted /\ Accepted \subseteq Known
  <2>1. "passed" # "accepted"
    BY SMT
  <2>2. \A t \in Known' : (task'[t].fate = "accepted" <=> (t \in Known /\ task[t].fate = "accepted"))
    BY <1>1, <1>6, <1>7, <2>1
  <2> QED
    BY <1>7, <2>2 DEF Accepted
<1>9. PlaceInv' /\ SeqInv'
  BY <1>6, <1>8, PoolFrame DEF PoolInv
<1>10. /\ submitter' \in [Submitters -> [pc : {"idle", "enqueue", "notify"}, idx : Nat, task : Nat]]
       /\ submitter'[s] = b /\ \A r \in Submitters : r # s => submitter'[r] = submitter[r]
  BY SMT, <1>5 DEF PoolInv, PoolTypeOK
<1>11. SubmitInv'
  <2>1. /\ submitter'[s].idx \in PoolWorkers /\ submitter'[s].task = n
        /\ task'[n].fate = "passed" /\ OnWorker(submitter[s].task, submitter[s].idx)'
    BY <1>1, <1>4, <1>6, <1>10 DEF OnWorker
  <2>2. ASSUME NEW r \in Submitters, r # s
        PROVE  /\ submitter'[r].pc # "idle" => submitter'[r].idx \in PoolWorkers
               /\ submitter'[r].pc = "enqueue" =>
                     /\ submitter'[r].task \in Known
                     /\ task'[submitter'[r].task].fate = "passed"
                     /\ OnWorker(submitter[r].task, submitter[r].idx)'
    <3>1. /\ submitter[r].pc # "idle" => submitter[r].idx \in PoolWorkers
          /\ submitter[r].pc = "enqueue" =>
                /\ submitter[r].task \in Known
                /\ task[submitter[r].task].fate = "passed"
                /\ OnWorker(submitter[r].task, submitter[r].idx)
      BY DEF PoolInv, SubmitInv
    <3> QED
      BY <1>6, <1>10, <2>2, <3>1, ZenonT(40) DEF OnWorker
  <2>3. ASSUME NEW x \in Submitters, NEW r \in Submitters, x # r,
               submitter'[x].pc = "enqueue", submitter'[r].pc = "enqueue"
        PROVE  submitter'[x].task # submitter'[r].task
    <3>1. CASE x # s /\ r # s
      <4>1. submitter'[x] = submitter[x] /\ submitter'[r] = submitter[r]
        BY <1>10, <3>1, Zenon
      <4>2. submitter[x].pc = "enqueue" /\ submitter[r].pc = "enqueue"
        BY <2>3, <4>1, Zenon
      <4>3. submitter[x].task # submitter[r].task
        BY <2>3, <4>2, Zenon DEF PoolInv, SubmitInv
      <4> QED
        BY <4>1, <4>3, Zenon
    <3>2. CASE x = s
      BY <1>7, <2>1, <2>2, <2>3, <3>2
    <3>3. CASE r = s
      BY <1>7, <2>1, <2>2, <2>3, <3>3
    <3> QED
      BY <3>1, <3>2, <3>3
  <2> QED
    BY <1>7, <2>1, <2>2, <2>3 DEF SubmitInv
<1>12. StopInv'
  <2>1. ASSUME NEW w \in PoolWorkers
        PROVE  wstate[w] # "gone" /\ wstate[w] # "none" /\ (wstate[w] = "task" <=> current[w] # 0)
    BY <1>5 DEF PoolInv, StopInv
  <2>2. \A t \in Known : task[t].early => task[t].fate = "accepted"
    BY DEF PoolInv, StopInv
  <2>3. \A t \in Known' : task'[t].early => task'[t].fate = "accepted"
    BY <1>1, <1>6, <1>7, <2>2
  <2> QED
    BY <1>5, <2>1, <2>3 DEF StopInv
<1>13. PoolTypeOK'
  BY <1>6, <1>10 DEF PoolInv, PoolTypeOK
<1> QED
  BY <1>9, <1>11, <1>12, <1>13 DEF PoolInv

LEMMA SubmitStep ==
    ASSUME PoolInv, NEW s \in Submitters, Submit(s) \/ \E key \in Keys : SubmitAffinity(s, key)
    PROVE  PoolInv'
<1>1. robin \in Nat
  BY DEF PoolInv, PoolTypeOK
<1>2. ASSUME numThreads # 0, NEW i \in Nat PROVE i % numThreads \in PoolWorkers
  BY SMT, <1>2, ThreadPoolAssumption DEF PoolWorkers
<1>3. CASE Submit(s)
  <2>1. numThreads # 0 /\ NewTask(s, 0, robin % numThreads) /\ robin' = robin + 1
        /\ UNCHANGED <<running, queue, wstate, current, ran, stopping>>
    BY <1>3 DEF Submit, NewTask
  <2>2. robin' \in Nat /\ 0 \in Nat
    BY SMT, <1>1, <2>1
  <2>3. PICK i \in PoolWorkers : i = robin % numThreads
    BY <1>1, <1>2, <2>1
  <2> QED
    BY <2>1, <2>2, <2>3, NewTaskStep
<1>4. ASSUME NEW key \in Keys, SubmitAffinity(s, key) PROVE PoolInv'
  <2>1. numThreads # 0 /\ NewTask(s, key, key % numThreads) /\ robin' = robin
        /\ UNCHANGED <<running, queue, wstate, current, ran, stopping>>
    BY <1>4 DEF SubmitAffinity, NewTask
  <2>2. key \in Nat
    BY SMT, ThreadPoolAssumption
  <2>3. PICK i \in PoolWorkers : i = key % numThreads
    BY <1>2, <2>1, <2>2
  <2> QED
    BY <1>1, <2>1, <2>2, <2>3, NewTaskStep
<1> QED
  BY <1>3, <1>4

\* enqueue() decides about the task of one call.
LEMMA DecideSubmit ==
    ASSUME SubmitInv, NEW s \in Submitters, submitter[s].pc = "enqueue",
           NEW p \in {"idle", "notify"}, submitter' = [submitter EXCEPT ![s].pc = p],
           submitter \in [Submitters -> [pc : {"idle", "enqueue", "notify"}, idx : Nat, task : Nat]],
           Known' = Known, \A u \in Known : u # submitter[s].task => task'[u] = task[u]
    PROVE  /\ SubmitInv'
           /\ submitter' \in [Submitters -> [pc : {"idle", "enqueue", "notify"}, idx : Nat, task : Nat]]
<1>1. /\ submitter' \in [Submitters -> [pc : {"idle", "enqueue", "notify"}, idx : Nat, task : Nat]]
      /\ submitter'[s].pc = p /\ submitter'[s].idx = submitter[s].idx
      /\ \A r \in Submitters : r # s => submitter'[r] = submitter[r]
  BY SMT
<1>2. p # "enqueue"
  BY SMT
<1>3. submitter'[s].idx \in PoolWorkers /\ submitter'[s].pc # "enqueue"
  BY <1>1, <1>2, SMT DEF SubmitInv
<1>4. ASSUME NEW r \in Submitters, r # s
      PROVE  /\ submitter'[r].pc # "idle" => submitter'[r].idx \in PoolWorkers
             /\ submitter'[r].pc = "enqueue" =>
                   /\ submitter'[r].task \in Known
                   /\ task'[submitter'[r].task].fate = "passed"
                   /\ OnWorker(submitter[r].task, submitter[r].idx)'
  <2>1. /\ submitter[r].pc # "idle" => submitter[r].idx \in PoolWorkers
        /\ submitter[r].pc = "enqueue" =>
              /\ submitter[r].task \in Known
              /\ submitter[r].task # submitter[s].task
              /\ task[submitter[r].task].fate = "passed"
              /\ OnWorker(submitter[r].task, submitter[r].idx)
    BY <1>4 DEF SubmitInv
  <2> QED
    BY <1>1, <1>4, <2>1 DEF OnWorker
<1>5. ASSUME NEW x \in Submitters, NEW r \in Submitters, x # r,
             submitter'[x].pc = "enqueue", submitter'[r].pc = "enqueue"
      PROVE  submitter'[x].task # submitter'[r].task
  <2>1. x # s /\ r # s
    BY <1>3, <1>5, Zenon
  <2>2. submitter'[x] = submitter[x] /\ submitter'[r] = submitter[r]
    BY <1>1, <2>1, Zenon
  <2>3. submitter[x].pc = "enqueue" /\ submitter[r].pc = "enqueue"
    BY <1>5, <2>2, Zenon
  <2>4. submitter[x].task # submitter[r].task
    BY <1>5, <2>3, Zenon DEF SubmitInv
  <2> QED
    BY <2>2, <2>4, Zenon
<1> QED
  BY <1>1, <1>3, <1>4, <1>5, ZenonT(40) DEF SubmitInv

LEMMA EnqueueStep ==
    ASSUME PoolInv, NEW s \in Submitters, Enqueue(s)
    PROVE  PoolInv'
<1>1. PICK w \in PoolWorkers : w = submitter[s].idx
  <2>1. submitter[s].pc = "enqueue" /\ "enqueue" # "idle"
    BY SMT DEF Enqueue
  <2>2. submitter[s].idx \in PoolWorkers
    BY <2>1, Zenon DEF PoolInv, SubmitInv
  <2> QED
    BY <2>2, Zenon
<1>2. PICK t \in Known : t = submitter[s].task
  BY DEF Enqueue, PoolInv, SubmitInv
<1>3. task[t].fate = "passed" /\ OnWorker(t, w) /\ submitter[s].pc = "enqueue"
  BY <1>1, <1>2 DEF Enqueue, PoolInv, SubmitInv
<1>4. PICK n \in Nat : n = Cardinality(Accepted)
  BY AcceptedFinite DEF PoolInv, PoolTypeOK
<1>5. DOMAIN task = Known /\ {i \in DOMAIN task : task[i].fate = "accepted"} = Accepted
  BY LenProperties DEF Accepted, Known, PoolInv, PoolTypeOK
<1>6. UNCHANGED <<running, wstate, current, robin, ran, stopping>>
  BY DEF Enqueue
<1>7. \/ /\ queue' = queue /\ submitter' = [submitter EXCEPT ![s].pc = "idle"]
         /\ task' = [task EXCEPT ![t].fate = "dropped", ![t].seq = n]
      \/ /\ queue' = [queue EXCEPT ![w] = Append(queue[w], t)]
         /\ submitter' = [submitter EXCEPT ![s].pc = "notify"]
         /\ task' = [task EXCEPT ![t].fate = "accepted", ![t].seq = n]
  BY <1>1, <1>2, <1>4, <1>5 DEF Enqueue
<1>8. PICK f \in {"accepted", "dropped"} : task' = [task EXCEPT ![t].fate = f, ![t].seq = n]
  BY <1>7
<1>9. /\ task' \in Seq(Task) /\ Len(task') = Len(task)
      /\ \A u \in Known : u # t => task'[u] = task[u]
      /\ task'[t].key = task[t].key /\ task'[t].fate = f /\ task'[t].seq = n
      /\ task'[t].early = task[t].early
  BY <1>8, DecideTask DEF PoolInv, PoolTypeOK
<1>10. Known' = Known /\ Accepted \subseteq Known /\ t \notin Accepted
  BY <1>3, <1>9, SMT DEF Known, Accepted
<1>11. SubmitInv' /\ submitter' \in [Submitters -> [pc : {"idle", "enqueue", "notify"}, idx : Nat, task : Nat]]
  <2>1. PICK p \in {"idle", "notify"} : submitter' = [submitter EXCEPT ![s].pc = p]
    BY <1>7
  <2>2. submitter \in [Submitters -> [pc : {"idle", "enqueue", "notify"}, idx : Nat, task : Nat]]
        /\ SubmitInv
    BY DEF PoolInv, PoolTypeOK
  <2> QED
    BY <1>2, <1>3, <1>9, <1>10, <2>1, <2>2, DecideSubmit
<1>12. ~task[t].early /\ \A u \in Known : task[u].early => task[u].fate = "accepted"
  BY <1>3, SMT DEF PoolInv, StopInv
<1>13. \A u \in Known : /\ task'[u].early = task[u].early
                        /\ task'[u].early => task'[u].fate = "accepted"
  <2>1. ASSUME NEW u \in Known
        PROVE  task'[u].early = task[u].early /\ (task'[u].early => task'[u].fate = "accepted")
    <3>1. CASE u = t
      BY <1>9, <1>12, <3>1
    <3>2. CASE u # t
      <4>1. task'[u] = task[u] /\ (task[u].early => task[u].fate = "accepted")
        BY <1>9, <1>12, <3>2
      <4> QED
        BY SMT, <4>1
    <3> QED
      BY <3>1, <3>2
  <2> QED
    BY <2>1
<1>14. PlaceInv' /\ SeqInv' /\ queue' \in [PoolWorkers -> Seq(Nat)]
       /\ \A v \in PoolWorkers : queued'[v] \subseteq queued[v] \cup {t}
  <2>1. /\ queue \in [PoolWorkers -> Seq(Nat)] /\ task \in Seq(Task)
        /\ PoolTypeOK /\ PlaceInv /\ SeqInv
    BY DEF PoolInv, PoolTypeOK
  <2>2. CASE f = "dropped"
    <3>1. Accepted' = Accepted
      <4>1. \A u \in Known : task'[u].fate = "accepted" <=> task[u].fate = "accepted"
        BY <1>3, <1>9, <2>2, SMT
      <4> QED
        BY <1>10, <4>1 DEF Accepted
    <3>2. queue' = queue
      <4>1. f # "accepted"
        BY SMT, <2>2
      <4>2. task'[t].fate # "accepted"
        BY <1>9, <4>1
      <4>3. CASE task' = [task EXCEPT ![t].fate = "accepted", ![t].seq = n]
        BY <2>1, <4>2, <4>3, DecideTask
      <4> QED
        BY <1>7, <4>3
    <3>3. queued' = queued
      BY <3>2 DEF queued
    <3>4. \A u \in Accepted : task'[u].key = task[u].key /\ task'[u].seq = task[u].seq
      BY <1>9, <1>10
    <3> QED
      BY <1>6, <2>1, <3>1, <3>2, <3>3, <3>4, PoolFrame
  <2>3. CASE f = "accepted"
    <3>1. Accepted' = Accepted \cup {t}
      <4>1. \A u \in Known : task'[u].fate = "accepted" <=> (task[u].fate = "accepted" \/ u = t)
        BY <1>9, <2>3
      <4> QED
        BY <1>10, <4>1 DEF Accepted
    <3>2. queue' = [queue EXCEPT ![w] = Append(queue[w], t)]
      <4>1. CASE task' = [task EXCEPT ![t].fate = "dropped", ![t].seq = n]
        <5>1. task'[t].fate = "dropped"
          BY <2>1, <4>1, DecideTask
        <5> QED
          BY SMT, <1>9, <2>3, <5>1
      <4> QED
        BY <1>7, <4>1
    <3>3. \A u \in Accepted : task'[u] = task[u] /\ task[u].seq \in Nat
      <4>1. \A u \in Known : task[u] \in Task
        BY <2>1, ElementOfSeq DEF Known
      <4>2. \A u \in Known : task[u].seq \in Nat
        BY SMT, <4>1 DEF Task
      <4> QED
        BY <1>9, <1>10, <4>2
    <3>4. t \in Nat \ {0}
      BY SMT DEF Known
    <3>5. OnWorker(t, w)'
      BY <1>3, <1>9 DEF OnWorker
    <3>6. IsFiniteSet(Accepted)
      BY <2>1, AcceptedFinite
    <3>7. task'[t].seq = Cardinality(Accepted) /\ current' = current /\ ran' = ran
      BY <1>4, <1>6, <1>9
    <3>8. /\ PlaceInv' /\ SeqInv' /\ queue' \in [PoolWorkers -> Seq(Nat)]
          /\ \A v \in PoolWorkers :
                queued'[v] = IF v = w THEN queued[v] \cup {t} ELSE queued[v]
      BY <1>10, <2>1, <3>1, <3>2, <3>3, <3>4, <3>5, <3>6, <3>7, QueueTask
    <3> QED
      BY <3>8
  <2> QED
    BY <2>2, <2>3
<1>15. StopInv'
  <2>1. ASSUME NEW v \in PoolWorkers
        PROVE  /\ wstate[v] = "task" <=> current[v] # 0
               /\ wstate[v] = "gone" => ~running /\ \A u \in queued'[v] : ~task'[u].early
               /\ wstate[v] = "none" => ~running /\ Known = {}
               /\ stopping = 0 /\ ~running => wstate[v] \in {"none", "gone"}
    <3>1. /\ wstate[v] = "task" <=> current[v] # 0
          /\ wstate[v] = "gone" => ~running /\ \A u \in queued[v] : ~task[u].early
          /\ wstate[v] = "none" => ~running /\ Known = {}
          /\ stopping = 0 /\ ~running => wstate[v] \in {"none", "gone"}
      BY DEF PoolInv, StopInv
    <3>2. \A u \in queued[v] : u \in Known
      BY <1>10 DEF PoolInv, PlaceInv
    <3> QED
      BY <1>12, <1>13, <1>14, <3>1, <3>2
  <2> QED
    BY <1>6, <1>10, <1>13, <2>1 DEF StopInv
<1>16. PoolTypeOK'
  BY <1>6, <1>9, <1>11, <1>14 DEF PoolInv, PoolTypeOK
<1> QED
  BY <1>11, <1>14, <1>15, <1>16 DEF PoolInv

LEMMA EnqueueNotifyStep ==
    ASSUME PoolInv, NEW s \in Submitters, EnqueueNotify(s)
    PROVE  PoolInv'
<1>1. PICK w \in PoolWorkers : w = submitter[s].idx
  BY SMT DEF EnqueueNotify, PoolInv, SubmitInv
<1>2. /\ submitter[s].pc = "notify" /\ submitter' = [submitter EXCEPT ![s].pc = "idle"]
      /\ wstate' = [wstate EXCEPT ![w] = IF wstate[w] = "asleep" THEN "check" ELSE wstate[w]]
      /\ UNCHANGED <<running, queue, current, robin, task, ran, stopping>>
  BY <1>1 DEF EnqueueNotify
<1>3. /\ wstate \in [PoolWorkers -> {"none", "check", "task", "dozing", "asleep", "gone"}]
      /\ stopping \in Nat
      /\ submitter \in [Submitters -> [pc : {"idle", "enqueue", "notify"}, idx : Nat, task : Nat]]
  BY DEF PoolInv, PoolTypeOK
<1>4. /\ wstate' \in [PoolWorkers -> {"none", "check", "task", "dozing", "asleep", "gone"}]
      /\ \A v \in PoolWorkers :
              wstate'[v] = wstate[v]
              \/ (wstate[v] = "asleep" /\ wstate'[v] = "check")
  BY SMT, <1>2, <1>3
<1>5. ASSUME NEW v \in PoolWorkers
      PROVE  /\ wstate'[v] = wstate[v]
                \/ {wstate[v], wstate'[v]} \subseteq {"check", "dozing", "asleep"}
             /\ stopping = 0 /\ ~running => wstate'[v] \in {"none", "gone"}
  <2>1. stopping = 0 /\ ~running => wstate[v] \in {"none", "gone"}
    BY DEF PoolInv, StopInv
  <2>2. "asleep" \notin {"none", "gone"}
    BY SMT
  <2> QED
    BY <1>4, <2>1, <2>2
<1>6. PlaceInv' /\ SeqInv' /\ StopInv'
  BY <1>2, <1>3, <1>4, <1>5, WakeFrame
<1>7. /\ submitter' \in [Submitters -> [pc : {"idle", "enqueue", "notify"}, idx : Nat, task : Nat]]
      /\ \A r \in Submitters : r # s => submitter'[r] = submitter[r]
      /\ submitter'[s].pc = "idle"
  BY SMT, <1>2, <1>3
<1>8. SubmitInv'
  <2>1. "idle" # "enqueue"
    BY SMT
  <2>2. ASSUME NEW r \in Submitters
        PROVE  /\ submitter'[r].pc # "idle" => submitter'[r].idx \in PoolWorkers
               /\ submitter'[r].pc = "enqueue" =>
                     /\ submitter'[r].task \in Known
                     /\ task[submitter'[r].task].fate = "passed"
                     /\ OnWorker(submitter[r].task, submitter[r].idx)'
    <3>1. /\ submitter[r].pc # "idle" => submitter[r].idx \in PoolWorkers
          /\ submitter[r].pc = "enqueue" =>
                /\ submitter[r].task \in Known
                /\ task[submitter[r].task].fate = "passed"
                /\ OnWorker(submitter[r].task, submitter[r].idx)
      BY DEF PoolInv, SubmitInv
    <3> QED
      BY <1>2, <1>7, <2>1, <3>1 DEF OnWorker
  <2>3. ASSUME NEW x \in Submitters, NEW r \in Submitters, x # r,
               submitter'[x].pc = "enqueue", submitter'[r].pc = "enqueue"
        PROVE  submitter'[x].task # submitter'[r].task
    <3>1. /\ submitter[x].pc = "enqueue" /\ submitter'[x].task = submitter[x].task
          /\ submitter[r].pc = "enqueue" /\ submitter'[r].task = submitter[r].task
      BY <1>7, <2>1, <2>3
    <3>2. submitter[x].task # submitter[r].task
      BY <2>3, <3>1, Zenon DEF PoolInv, SubmitInv
    <3> QED
      BY <3>1, <3>2, Zenon
  <2>4. Known' = Known
    BY <1>2 DEF Known
  <2> QED
    BY <1>2, <2>2, <2>3, <2>4 DEF SubmitInv
<1>9. PoolTypeOK'
  BY <1>2, <1>3, <1>4, <1>7 DEF PoolInv, PoolTypeOK
<1> QED
  BY <1>6, <1>8, <1>9 DEF PoolInv

LEMMA WorkerLoopStep ==
    ASSUME PoolInv, NEW w \in PoolWorkers, WorkerLoop(w)
    PROVE  PoolInv'
<1>1. /\ wstate[w] = "check"
      /\ UNCHANGED <<running, submitter, robin, task, ran, stopping>>
      /\ wstate \in [PoolWorkers -> {"none", "check", "task", "dozing", "asleep", "gone"}]
  BY DEF WorkerLoop, PoolInv, PoolTypeOK
<1>2. Known' = Known /\ Accepted' = Accepted /\ Accepted \subseteq Known
  BY <1>1 DEF Known, Accepted
<1>3. SubmitInv'
  BY <1>1, <1>2, SubmitFrame DEF PoolInv
<1>4. current[w] = 0 /\ ~(stopping = 0 /\ ~running)
  <2>1. "check" # "task" /\ "check" \notin {"none", "gone"}
    BY SMT
  <2> QED
    BY <1>1, <2>1 DEF PoolInv, StopInv
<1>5. ASSUME NEW v \in PoolWorkers
      PROVE  /\ wstate[v] = "task" <=> current[v] # 0
             /\ wstate[v] = "gone" => ~running /\ \A u \in queued[v] : ~task[u].early
             /\ wstate[v] = "none" => ~running /\ Known = {}
  BY DEF PoolInv, StopInv
<1>6. \A u \in Known : task[u].early => task[u].fate = "accepted"
  BY DEF PoolInv, StopInv
<1>7. CASE queue[w] # <<>>
  <2>1. /\ current' = [current EXCEPT ![w] = Head(queue[w])]
        /\ queue' = [queue EXCEPT ![w] = Tail(queue[w])]
        /\ wstate' = [wstate EXCEPT ![w] = "task"]
    BY <1>7 DEF WorkerLoop
  <2>2. /\ PlaceInv' /\ SeqInv'
        /\ queue' \in [PoolWorkers -> Seq(Nat)] /\ current' \in [PoolWorkers -> Nat]
        /\ current'[w] # 0 /\ \A v \in PoolWorkers : v # w => current'[v] = current[v]
        /\ \A v \in PoolWorkers : queued'[v] \subseteq queued[v]
    BY <1>1, <1>4, <1>7, <2>1, TakeTask DEF PoolInv
  <2>3. /\ wstate' \in [PoolWorkers -> {"none", "check", "task", "dozing", "asleep", "gone"}]
        /\ wstate'[w] = "task" /\ \A v \in PoolWorkers : v # w => wstate'[v] = wstate[v]
    BY SMT, <1>1, <2>1
  <2>4. "task" # "gone" /\ "task" # "none"
    BY SMT
  <2>5. ASSUME NEW v \in PoolWorkers
        PROVE  /\ wstate'[v] = "task" <=> current'[v] # 0
               /\ wstate'[v] = "gone" => ~running /\ \A u \in queued'[v] : ~task[u].early
               /\ wstate'[v] = "none" => ~running /\ Known = {}
    BY <1>5, <2>2, <2>3, <2>4
  <2>6. StopInv'
    BY <1>1, <1>2, <1>4, <1>6, <2>5 DEF StopInv
  <2>7. PoolTypeOK'
    BY <1>1, <2>2, <2>3 DEF PoolInv, PoolTypeOK
  <2> QED
    BY <1>3, <2>2, <2>6, <2>7 DEF PoolInv
<1>8. CASE queue[w] = <<>>
  <2>1. /\ queue' = queue /\ current' = current
        /\ wstate' = [wstate EXCEPT ![w] = IF running THEN "dozing" ELSE "gone"]
    BY <1>8 DEF WorkerLoop
  <2>2. queued' = queued /\ queued[w] = {}
    <3>1. 1 .. Len(<<>>) = {}
      BY SMT
    <3> QED
      BY <1>8, <2>1, <3>1 DEF queued, Elems
  <2>3. PlaceInv' /\ SeqInv'
    BY <1>1, <1>2, <2>1, PoolFrame DEF PoolInv
  <2>4. PICK x \in {"dozing", "gone"} : x = (IF running THEN "dozing" ELSE "gone")
    OBVIOUS
  <2>5. /\ wstate' \in [PoolWorkers -> {"none", "check", "task", "dozing", "asleep", "gone"}]
        /\ wstate'[w] = x /\ \A v \in PoolWorkers : v # w => wstate'[v] = wstate[v]
    BY SMT, <1>1, <2>1, <2>4
  <2>6. x # "task" /\ x # "none" /\ (x = "gone" => ~running)
    <3>1. "dozing" # "task" /\ "gone" # "task" /\ "dozing" # "none" /\ "gone" # "none" /\ "dozing" # "gone"
      BY SMT
    <3> QED
      BY <2>4, <3>1
  <2>7. ASSUME NEW v \in PoolWorkers
        PROVE  /\ wstate'[v] = "task" <=> current[v] # 0
               /\ wstate'[v] = "gone" => ~running /\ \A u \in queued[v] : ~task[u].early
               /\ wstate'[v] = "none" => ~running /\ Known = {}
    BY <1>4, <1>5, <2>2, <2>5, <2>6
  <2>8. StopInv'
    BY <1>1, <1>2, <1>4, <1>6, <2>1, <2>2, <2>7 DEF StopInv
  <2>9. PoolTypeOK'
    BY <1>1, <2>1, <2>5 DEF PoolInv, PoolTypeOK
  <2> QED
    BY <1>3, <2>3, <2>8, <2>9 DEF PoolInv
<1> QED
  BY <1>7, <1>8

LEMMA WorkerSleepStep ==
    ASSUME PoolInv, NEW w \in PoolWorkers, WorkerSleep(w)
    PROVE  PoolInv'
<1>1. /\ wstate[w] = "dozing" /\ wstate' = [wstate EXCEPT ![w] = "asleep"]
      /\ UNCHANGED <<running, queue, current, submitter, robin, task, ran, stopping>>
      /\ wstate \in [PoolWorkers -> {"none", "check", "task", "dozing", "asleep", "gone"}]
      /\ stopping \in Nat
  BY DEF WorkerSleep, PoolInv, PoolTypeOK
<1>2. /\ wstate' \in [PoolWorkers -> {"none", "check", "task", "dozing", "asleep", "gone"}]
      /\ \A v \in PoolWorkers :
              wstate'[v] = wstate[v]
              \/ {wstate[v], wstate'[v]} \subseteq {"check", "dozing", "asleep"}
  BY SMT, <1>1
<1>3. ~(stopping = 0 /\ ~running)
  <2>1. "dozing" \notin {"none", "gone"}
    BY SMT
  <2> QED
    BY <1>1, <2>1 DEF PoolInv, StopInv
<1> QED
  BY <1>1, <1>2, <1>3, WakeFrame

LEMMA WorkerTaskStep ==
    ASSUME PoolInv, NEW w \in PoolWorkers, WorkerTask(w)
    PROVE  PoolInv'
<1>1. /\ wstate[w] = "task" /\ ran' = Append(ran, current[w])
      /\ current' = [current EXCEPT ![w] = 0] /\ wstate' = [wstate EXCEPT ![w] = "check"]
      /\ UNCHANGED <<running, queue, submitter, robin, task, stopping>>
      /\ wstate \in [PoolWorkers -> {"none", "check", "task", "dozing", "asleep", "gone"}]
  BY DEF WorkerTask, PoolInv, PoolTypeOK
<1>2. queued' = queued /\ Known' = Known /\ Accepted' = Accepted /\ Accepted \subseteq Known
  BY <1>1 DEF queued, Known, Accepted
<1>3. SubmitInv'
  BY <1>1, <1>2, SubmitFrame DEF PoolInv
<1>4. current[w] # 0 /\ ~(stopping = 0 /\ ~running)
  <2>1. "task" \notin {"none", "gone"}
    BY SMT
  <2> QED
    BY <1>1, <2>1 DEF PoolInv, StopInv
<1>5. /\ PlaceInv' /\ SeqInv'
      /\ ran' \in Seq(Nat) /\ current' \in [PoolWorkers -> Nat]
      /\ current'[w] = 0 /\ \A v \in PoolWorkers : v # w => current'[v] = current[v]
  BY <1>1, <1>4, RunTask DEF PoolInv
<1>6. /\ wstate' \in [PoolWorkers -> {"none", "check", "task", "dozing", "asleep", "gone"}]
      /\ wstate'[w] = "check" /\ \A v \in PoolWorkers : v # w => wstate'[v] = wstate[v]
  BY SMT, <1>1
<1>7. ASSUME NEW v \in PoolWorkers
      PROVE  /\ wstate'[v] = "task" <=> current'[v] # 0
             /\ wstate'[v] = "gone" => ~running /\ \A u \in queued[v] : ~task[u].early
             /\ wstate'[v] = "none" => ~running /\ Known = {}
  <2>1. /\ wstate[v] = "task" <=> current[v] # 0
        /\ wstate[v] = "gone" => ~running /\ \A u \in queued[v] : ~task[u].early
        /\ wstate[v] = "none" => ~running /\ Known = {}
    BY DEF PoolInv, StopInv
  <2>2. "check" # "task" /\ "check" # "gone" /\ "check" # "none"
    BY SMT
  <2> QED
    BY <1>5, <1>6, <2>1, <2>2
<1>8. StopInv'
  <2>1. \A u \in Known : task[u].early => task[u].fate = "accepted"
    BY DEF PoolInv, StopInv
  <2> QED
    BY <1>1, <1>2, <1>4, <1>7, <2>1 DEF StopInv
<1>9. PoolTypeOK'
  BY <1>1, <1>5, <1>6 DEF PoolInv, PoolTypeOK
<1> QED
  BY <1>3, <1>5, <1>8, <1>9 DEF PoolInv

LEMMA PoolStart == ThreadPoolInit => PoolInv
<1> SUFFICES ASSUME ThreadPoolInit PROVE PoolInv
  OBVIOUS
<1>1. /\ running = FALSE /\ stopping = 0 /\ task = <<>> /\ ran = <<>> /\ robin = 0
      /\ queue = [w \in PoolWorkers |-> <<>>] /\ wstate = [w \in PoolWorkers |-> "none"]
      /\ current = [w \in PoolWorkers |-> 0]
      /\ submitter = [s \in Submitters |-> [pc |-> "idle", idx |-> 0, task |-> 0]]
  BY DEF ThreadPoolInit
<1>2. 1 .. Len(<<>>) = {} /\ 0 \in Nat /\ <<>> \in Seq(Nat) /\ <<>> \in Seq(Task) /\ "none" # "task"
  BY SMT
<1>3. PoolTypeOK
  <2>1. submitter \in [Submitters -> [pc : {"idle", "enqueue", "notify"}, idx : Nat, task : Nat]]
    BY SMT, <1>1
  <2> QED
    BY <1>1, <1>2, <2>1 DEF PoolTypeOK
<1>4. /\ Known = {} /\ Accepted = {} /\ Elems(ran) = {}
      /\ \A w \in PoolWorkers : queued[w] = {} /\ current[w] = 0 /\ wstate[w] = "none" /\ queue[w] = <<>>
  BY <1>1, <1>2 DEF Known, Accepted, Elems, queued
<1>5. \A s \in Submitters : submitter[s].pc = "idle"
  BY SMT, <1>1
<1>6. SubmitInv
  <2>1. "idle" # "enqueue"
    BY SMT
  <2> QED
    BY <1>5, <2>1 DEF SubmitInv
<1>7. PlaceInv
  BY <1>4 DEF PlaceInv
<1>8. SeqInv
  BY <1>1, <1>2, <1>4 DEF SeqInv, Sorted, KeySorted
<1>9. StopInv
  BY <1>1, <1>2, <1>4 DEF StopInv
<1> QED
  BY <1>3, <1>6, <1>7, <1>8, <1>9 DEF PoolInv

LEMMA PoolStep == PoolInv /\ [ThreadPoolNext]_threadPoolVars => PoolInv'
<1> SUFFICES ASSUME PoolInv, [ThreadPoolNext]_threadPoolVars PROVE PoolInv'
  OBVIOUS
<1>1. CASE Start
  BY <1>1, StartStep
<1>2. CASE Stop
  BY <1>2, StopStep
<1>3. CASE StopNotify
  BY <1>3, StopNotifyStep
<1>4. CASE StopJoin
  BY <1>4, StopJoinStep
<1>5. ASSUME NEW s \in Submitters, Submit(s) \/ \E key \in Keys : SubmitAffinity(s, key)
      PROVE  PoolInv'
  BY <1>5, SubmitStep
<1>6. ASSUME NEW s \in Submitters, Enqueue(s) PROVE PoolInv'
  BY <1>6, EnqueueStep
<1>7. ASSUME NEW s \in Submitters, EnqueueNotify(s) PROVE PoolInv'
  BY <1>7, EnqueueNotifyStep
<1>8. ASSUME NEW w \in PoolWorkers, WorkerStep(w) PROVE PoolInv'
  BY <1>8, WorkerLoopStep, WorkerSleepStep, WorkerTaskStep DEF WorkerStep
<1>9. CASE UNCHANGED threadPoolVars
  <2>1. UNCHANGED <<running, queue, wstate, current, submitter, robin, task, ran, stopping>>
    BY <1>9 DEF threadPoolVars
  <2>2. /\ stopping \in Nat
        /\ wstate \in [PoolWorkers -> {"none", "check", "task", "dozing", "asleep", "gone"}]
        /\ stopping = 0 /\ ~running => \A w \in PoolWorkers : wstate[w] \in {"none", "gone"}
    BY DEF PoolInv, PoolTypeOK, StopInv
  <2> QED
    BY <2>1, <2>2, WakeFrame
<1> QED
  BY <1>1, <1>2, <1>3, <1>4, <1>5, <1>6, <1>7, <1>8, <1>9 DEF ThreadPoolNext

-----------------------------------------------------------------------------
(* ThreadPool: the theorems *)

\* What the pool's locks and the test of running_ keep true, for any number of
\* workers, submitting threads and keys.
THEOREM PoolInvariant == ThreadPoolSpec => []PoolInv
  BY PoolStart, PoolStep, PTL DEF ThreadPoolSpec

\* submitAffinity() keeps its promise: the tasks of one key never run at the same
\* time, run in the order in which enqueue() accepted them, and no task runs twice,
\* also across stop() and start(); when stop() has joined the workers, every task
\* accepted before it cleared running_ has run.
THEOREM PoolAlwaysOrdered == ThreadPoolSpec => []PoolOrdered
<1>1. PoolInv => PoolOrdered
  <2> SUFFICES ASSUME PoolInv PROVE PoolOrdered
    OBVIOUS
  <2>1. DOMAIN ran = 1 .. Len(ran) /\ DOMAIN task = Known /\ Accepted \subseteq Known
    BY LenProperties DEF PoolInv, PoolTypeOK, Known, Accepted
  <2>2. \A i, j \in DOMAIN ran : i < j =>
           /\ ran[i] # ran[j]
           /\ task[ran[i]].key = task[ran[j]].key /\ task[ran[i]].key # 0 =>
                 task[ran[i]].seq < task[ran[j]].seq
    BY <2>1 DEF PoolInv, SeqInv, KeySorted, KeyBefore
  <2>3. ASSUME NEW w \in PoolWorkers, NEW v \in PoolWorkers,
               w # v, current[w] # 0, current[v] # 0, task[current[w]].key # 0
        PROVE  task[current[w]].key # task[current[v]].key
    <3>1. OnWorker(current[w], w) /\ OnWorker(current[v], v)
      BY <2>3 DEF PoolInv, PlaceInv
    <3> QED
      BY <2>3, <3>1 DEF OnWorker
  <2>4. ASSUME stopping = 0, ~running, NEW t \in Known, task[t].early PROVE Ran(t)
    <3>1. t \in Accepted
      BY <2>4 DEF PoolInv, StopInv, Accepted
    <3>2. ASSUME NEW w \in PoolWorkers PROVE t \notin queued[w] /\ current[w] = 0
      <4>1. wstate[w] \in {"none", "gone"}
        BY <2>4 DEF PoolInv, StopInv
      <4>2. wstate[w] # "task"
        BY SMT, <4>1
      <4>3. wstate[w] = "gone" => t \notin queued[w]
        BY <2>4 DEF PoolInv, StopInv
      <4>4. wstate[w] # "none"
        BY <2>4 DEF PoolInv, StopInv
      <4> QED
        BY <4>1, <4>2, <4>3, <4>4 DEF PoolInv, StopInv
    <3>3. t # 0
      BY SMT DEF Known
    <3>4. t \in Elems(ran)
      BY <3>1, <3>2, <3>3 DEF PoolInv, PlaceInv
    <3> QED
      BY <2>1, <3>4 DEF Elems, Ran
  <2> QED
    BY <2>1, <2>2, <2>3, <2>4 DEF PoolOrdered, KeyOrder, StopDrains
<1> QED
  BY <1>1, PoolInvariant, PTL
=============================================================================
