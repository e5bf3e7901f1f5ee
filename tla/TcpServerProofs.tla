-------------------------- MODULE TcpServerProofs --------------------------
(***************************************************************************)
(* What TcpServer promises of its connections, for any set of clients and  *)
(* any number of I/O threads.  A connection is held by connections_ or by  *)
(* the functor connectDestroyed on its way to the connection's loop.  The  *)
(* inductive invariant IInv says so of every connection and says, of every *)
(* functor that is queued or about to run, what it will find: pending[l]   *)
(* is the sequence of the functors loop l has yet to run.                  *)
(***************************************************************************)
EXTENDS TcpServer, SequenceTheorems, TLAPS

pending == [l \in Loops |-> batch[l] \o queue[l]]

Est(c) == Functor("connectEstablished", c)
Des(c) == Functor("connectDestroyed", c)
Rem(c) == Functor("removeConnectionInLoop", c)

\* Functors of a sequence: one that occurs, none that occurs twice, the order of two.
At(s, f) == \E i \in 1..Len(s) : s[i] = f
Once(s) == \A i, j \in 1..Len(s) : s[i] = s[j] => i = j
Before(s, f, g) == \A i, j \in 1..Len(s) : s[i] = f /\ s[j] = g => i < j

\* The callbacks and the channel of a connection follow its state.
StateInv(c) ==
    /\ state[c] \in {"none", "kConnecting"} =>
          channel[c] = "none" /\ ups[c] = 0 /\ downs[c] = 0 /\ destroyed[c] = 0
    /\ state[c] = "none" \/ channel[c] = "removed" => c \notin connections
    /\ state[c] = "kConnecting" => loopOf[c] # base
    /\ state[c] = "kConnected" =>
          channel[c] = "on" /\ ups[c] = 1 /\ downs[c] = 0 /\ destroyed[c] = 0
    /\ state[c] = "kDisconnected" =>
          /\ ups[c] = 1 /\ downs[c] = 1
          /\ \/ channel[c] = "off" /\ destroyed[c] = 0
             \/ channel[c] = "removed" /\ destroyed[c] = 1

\* What its functors will find when they run.
FunctorInv(c) ==
    \A l \in Loops :
        /\ At(pending[l], Est(c)) =>
              l = loopOf[c] /\ l # base /\ state[c] = "kConnecting"
        /\ At(pending[l], Des(c)) =>
              /\ l = loopOf[c] /\ c \notin connections
              /\ state[c] # "none" /\ channel[c] # "removed"
              /\ l = base => state[c] = "kDisconnected"
        /\ At(pending[l], Rem(c)) =>
              /\ l = base /\ loopOf[c] # base /\ state[c] = "kDisconnected"
              /\ lpc[base] # "done" => c \in connections

\* Unless its loop has ended, a connection that is not in connections_ has its
\* connectDestroyed coming, and one that was just accepted its connectEstablished;
\* until ~TcpServer begins, connections_ has every connection that is up.
HeldInv(c) ==
    /\ loopOf[c] = base \/ lpc[loopOf[c]] # "done" =>
          /\ (state[c] # "none" /\ channel[c] # "removed" /\ c \notin connections)
                => At(pending[loopOf[c]], Des(c))
          /\ state[c] = "kConnecting" => At(pending[loopOf[c]], Est(c))
    /\ server = "up" /\ state[c] \in {"kConnecting", "kConnected"} => c \in connections

ConnInv(c) == StateInv(c) /\ FunctorInv(c) /\ HeldInv(c)

\* No functor is queued twice, and connectEstablished comes before connectDestroyed.
OrderInv ==
    \A l \in Loops :
        /\ Once(pending[l])
        /\ \A c \in Conns : Before(pending[l], Est(c), Des(c))

\* The loops and the destructor.
PhaseInv ==
    /\ \A l \in Loops : lpc[l] # "run" => batch[l] = <<>>
    /\ server # "up" => lpc[base] = "done"
    /\ server \in {"join", "gone"} => connections = {}
    /\ (numThreads = 0 /\ lpc[base] # "poll") => queue[base] = <<>>

Inv == (\A c \in Conns : ConnInv(c)) /\ OrderInv /\ PhaseInv
IInv == ServerTypeOK /\ Inv

-----------------------------------------------------------------------------
\* Most leaves are first-order; the ones with arithmetic cite SMT.
USE Zenon

-----------------------------------------------------------------------------
(* Sequences of functors *)

\* The functors TcpServer queues are told apart by what they do and for whom.
LEMMA FunctorFacts ==
    /\ \A c \in Conns : {Est(c), Des(c), Rem(c)} \subseteq Functors
    /\ \A c, d \in Conns : /\ Est(c) # Des(d) /\ Est(c) # Rem(d) /\ Des(c) # Rem(d)
                           /\ Est(c) = Est(d) => c = d
                           /\ Des(c) = Des(d) => c = d
                           /\ Rem(c) = Rem(d) => c = d
    /\ \A f \in Functors : /\ f.conn \in Conns
                           /\ f.op = "connectEstablished" => f = Est(f.conn)
                           /\ f.op = "connectDestroyed" => f = Des(f.conn)
                           /\ f.op = "removeConnectionInLoop" => f = Rem(f.conn)
  BY SMT DEF Est, Des, Rem, Functor, Functors

\* queueInLoop: a functor at the end of the queue is the last one to run.
LEMMA AppendPending ==
    ASSUME NEW s \in Seq(Functors), NEW t \in Seq(Functors), NEW f \in Functors
    PROVE  s \o Append(t, f) = Append(s \o t, f)
<1>1. /\ Len(s) \in Nat /\ Len(t) \in Nat
      /\ s \o t \in Seq(Functors) /\ Len(s \o t) = Len(s) + Len(t)
      /\ \A i \in 1..(Len(s) + Len(t)) :
            (s \o t)[i] = IF i <= Len(s) THEN s[i] ELSE t[i - Len(s)]
  BY ConcatProperties, LenProperties
<1>2. /\ Append(t, f) \in Seq(Functors) /\ Len(Append(t, f)) = Len(t) + 1
      /\ \A i \in 1..Len(t) : Append(t, f)[i] = t[i]
      /\ Append(t, f)[Len(t) + 1] = f
  BY SMT, AppendProperties
<1>3. /\ Append(s \o t, f) \in Seq(Functors)
      /\ Len(Append(s \o t, f)) = Len(s) + Len(t) + 1
      /\ \A i \in 1..(Len(s) + Len(t)) : Append(s \o t, f)[i] = (s \o t)[i]
      /\ Append(s \o t, f)[Len(s) + Len(t) + 1] = f
  BY SMT, <1>1, AppendProperties
<1>4. /\ s \o Append(t, f) \in Seq(Functors)
      /\ Len(s \o Append(t, f)) = Len(s) + Len(t) + 1
      /\ \A i \in 1..(Len(s) + Len(t) + 1) :
            (s \o Append(t, f))[i] = IF i <= Len(s) THEN s[i] ELSE Append(t, f)[i - Len(s)]
  BY SMT, <1>1, <1>2, ConcatProperties
<1>5. ASSUME NEW i \in 1..(Len(s) + Len(t) + 1)
      PROVE  (s \o Append(t, f))[i] = Append(s \o t, f)[i]
  <2>1. CASE i = Len(s) + Len(t) + 1
    BY SMT, <1>1, <1>2, <1>3, <1>4, <2>1
  <2>2. CASE i \in 1..(Len(s) + Len(t))
    BY SMT, <1>1, <1>2, <1>3, <1>4, <2>2
  <2>3. i = Len(s) + Len(t) + 1 \/ i \in 1..(Len(s) + Len(t))
    <3>1. Len(s) \in Nat /\ Len(t) \in Nat
      BY <1>1
    <3> QED
      BY SMT, <3>1
  <2> QED
    BY <2>1, <2>2, <2>3
<1> QED
  BY <1>3, <1>4, <1>5, SeqEqual

\* doPendingFunctors: the functor that runs is the first one that is pending.
LEMMA TailPending ==
    ASSUME NEW s \in Seq(Functors), NEW t \in Seq(Functors), s # <<>>
    PROVE  /\ Tail(s) \o t = Tail(s \o t)
           /\ s \o t # <<>>
           /\ Head(s) = Head(s \o t)
<1>0. s \o t \in Seq(Functors) /\ Len(s) \in Nat \ {0} /\ Len(s \o t) = Len(s) + Len(t)
      /\ Len(t) \in Nat
  BY ConcatProperties, EmptySeq, LenProperties
<1>1. s \o t # <<>>
  BY SMT, <1>0, EmptySeq
<1>2. Tail(s) \in Seq(Functors) /\ Len(Tail(s)) = Len(s) - 1
      /\ \A i \in 1..Len(Tail(s)) : Tail(s)[i] = s[i + 1]
  BY HeadTailProperties
<1>3. Tail(s \o t) \in Seq(Functors) /\ Len(Tail(s \o t)) = Len(s \o t) - 1
      /\ \A i \in 1..Len(Tail(s \o t)) : Tail(s \o t)[i] = (s \o t)[i + 1]
  BY <1>0, <1>1, HeadTailProperties
<1>4. Tail(s) \o t \in Seq(Functors) /\ Len(Tail(s) \o t) = Len(s) - 1 + Len(t)
  BY <1>0, <1>2, ConcatProperties
<1>5. \A i \in 1..Len(Tail(s) \o t) : (Tail(s) \o t)[i] = Tail(s \o t)[i]
  BY SMT, <1>0, <1>2, <1>3, <1>4, ConcatProperties
<1>6. Tail(s) \o t = Tail(s \o t)
  BY SMT, <1>0, <1>3, <1>4, <1>5, SeqEqual
<1>7. Head(s) = s[1] /\ Head(s \o t) = (s \o t)[1] /\ (s \o t)[1] = s[1]
  BY SMT, <1>0, <1>1, ConcatProperties
<1> QED
  BY <1>1, <1>6, <1>7

\* What a new functor changes for the others.
LEMMA AppendOccurs ==
    ASSUME NEW s \in Seq(Functors), NEW f \in Functors
    PROVE  /\ \A g : At(Append(s, f), g) <=> (At(s, g) \/ g = f)
           /\ Once(s) /\ ~At(s, f) => Once(Append(s, f))
           /\ \A g, h : Before(s, g, h) /\ (f # g \/ ~At(s, h)) /\ g # h
                           => Before(Append(s, f), g, h)
<1>1. /\ Len(Append(s, f)) = Len(s) + 1 /\ Len(s) \in Nat
      /\ \A i \in 1..Len(s) : Append(s, f)[i] = s[i]
      /\ Append(s, f)[Len(s) + 1] = f
  BY SMT, AppendProperties, LenProperties
<1> DEFINE a == Append(s, f)
           n == Len(s)
<1> HIDE DEF a
<1>2. Len(a) = n + 1 /\ n \in Nat /\ a[n + 1] = f /\ \A i \in 1..n : a[i] = s[i]
  BY <1>1 DEF a
<1>3. \A i \in 1..Len(a) : i \in 1..n \/ i = n + 1
  BY SMT, <1>2
<1>4. 1..n \subseteq 1..Len(a) /\ n + 1 \in 1..Len(a) /\ \A i \in 1..n : i < n + 1
  BY SMT, <1>2
<1>5. \A g : At(a, g) <=> (At(s, g) \/ g = f)
  BY <1>2, <1>3, <1>4 DEF At
<1>6. Once(s) /\ ~At(s, f) => Once(a)
  BY <1>2, <1>3 DEF Once, At
<1>7. \A g, h : Before(s, g, h) /\ (f # g \/ ~At(s, h)) /\ g # h => Before(a, g, h)
  BY <1>2, <1>3, <1>4 DEF Before, At
<1> QED
  BY <1>5, <1>6, <1>7 DEF a

\* What taking the first functor changes for the others.
LEMMA TailOccurs ==
    ASSUME NEW s \in Seq(Functors), s # <<>>
    PROVE  /\ At(s, Head(s))
           /\ \A g : At(Tail(s), g) => At(s, g)
           /\ \A g : At(s, g) /\ g # Head(s) => At(Tail(s), g)
           /\ Once(s) => Once(Tail(s)) /\ ~At(Tail(s), Head(s))
           /\ \A g, h : Before(s, g, h) => Before(Tail(s), g, h)
           /\ \A g : Before(s, g, Head(s)) => ~At(s, g)
<1> DEFINE r == Tail(s)
           n == Len(s)
<1>1. /\ n \in Nat \ {0} /\ Len(r) = n - 1 /\ Head(s) = s[1]
      /\ \A i \in 1..(n - 1) : r[i] = s[i + 1]
  BY SMT, HeadTailProperties, EmptySeq
<1> HIDE DEF r
<1>2. /\ 1 \in 1..n /\ \A i \in 1..(n - 1) : i + 1 \in 1..n
      /\ \A i \in 1..n : i = 1 \/ (i - 1 \in 1..(n - 1) /\ r[i - 1] = s[i])
  BY SMT, <1>1
<1>3. At(s, Head(s))
  BY <1>1, <1>2 DEF At
<1>4. \A g : At(r, g) => At(s, g)
  BY <1>1, <1>2 DEF At
<1>5. \A g : At(s, g) /\ g # Head(s) => At(r, g)
  BY <1>1, <1>2 DEF At
<1>6. Once(s) => Once(r) /\ ~At(r, Head(s))
  BY SMT, <1>1, <1>2 DEF Once, At
<1>7. \A g, h : Before(s, g, h) => Before(r, g, h)
  BY SMT, <1>1, <1>2 DEF Before
<1>8. \A g : Before(s, g, Head(s)) => ~At(s, g)
  BY SMT, <1>1, <1>2 DEF Before, At
<1> QED
  BY <1>3, <1>4, <1>5, <1>6, <1>7, <1>8 DEF r

-----------------------------------------------------------------------------
(* The invariant *)

\* A server that has just started satisfies the invariant.
LEMMA InitInv == ServerInit => IInv
<1> SUFFICES ASSUME ServerInit PROVE IInv
  OBVIOUS
<1>0. numThreads \in Nat /\ base \in Loops /\ <<>> \in Seq(Functors)
  BY SMT, ServerAssumption, EmptySeq DEF ServerInit, Loops, base
<1>1. ServerTypeOK
  BY SMT, <1>0 DEF ServerInit, ServerTypeOK
<1>2. \A l \in Loops : pending[l] = <<>> /\ Len(pending[l]) = 0
  BY <1>0, ConcatEmptySeq, EmptySeq DEF ServerInit, pending
<1>3. \A l \in Loops : \A f : ~At(pending[l], f)
  BY SMT, <1>2 DEF At
<1>4. \A c \in Conns : FunctorInv(c)
  BY <1>3 DEF FunctorInv
<1>5. OrderInv
  BY SMT, <1>2 DEF OrderInv, Once, Before
<1>6. PhaseInv /\ \A c \in Conns : StateInv(c) /\ HeldInv(c)
  BY <1>0 DEF StateInv, HeldInv, PhaseInv, ServerInit
<1> QED
  BY <1>1, <1>4, <1>5, <1>6 DEF IInv, Inv, ConnInv

\* What a loop has yet to run are functors ...
LEMMA PendingType ==
    ASSUME ServerTypeOK
    PROVE  \A l \in Loops : pending[l] \in Seq(Functors)
<1> SUFFICES ASSUME NEW l \in Loops PROVE pending[l] \in Seq(Functors)
  OBVIOUS
<1>1. batch[l] \in Seq(Functors) /\ queue[l] \in Seq(Functors) /\ pending[l] = batch[l] \o queue[l]
  BY DEF ServerTypeOK, pending
<1> QED
  BY <1>1, ConcatProperties

\* ... and queueInLoop adds one at the end.
LEMMA QueueInLoop ==
    ASSUME ServerTypeOK, NEW k \in Loops, NEW f \in Functors,
           numThreads' = numThreads, batch' = batch,
           queue' = [queue EXCEPT ![k] = Append(@, f)]
    PROVE  /\ pending'[k] = Append(pending[k], f)
           /\ \A l \in Loops \ {k} : pending'[l] = pending[l]
<1>1. Loops' = Loops
  BY DEF Loops
<1>2. \A l \in Loops : /\ pending[l] = batch[l] \o queue[l] /\ pending'[l] = batch[l] \o queue'[l]
                      /\ batch[l] \in Seq(Functors) /\ queue[l] \in Seq(Functors)
  BY <1>1 DEF pending, ServerTypeOK
<1>3. queue'[k] = Append(queue[k], f) /\ \A l \in Loops \ {k} : queue'[l] = queue[l]
  BY DEF ServerTypeOK
<1>4. batch[k] \o Append(queue[k], f) = Append(batch[k] \o queue[k], f)
  BY <1>2, AppendPending
<1> QED
  BY <1>2, <1>3, <1>4

\* The loops there are, and the one getNextLoop returns.
LEMMA LoopFacts ==
    ASSUME ServerTypeOK
    PROVE  /\ numThreads \in Nat /\ base \in Loops /\ base = 0
           /\ numThreads # 0 => next_ + 1 \in Loops /\ next_ + 1 # base /\ NextIndex \in 0..numThreads
           /\ NextIndex = 0 \/ NextIndex < numThreads
           /\ numThreads = 0 => Loops = {base}
           /\ \A c \in Conns : loopOf[c] \in Loops
  BY SMT, ServerAssumption DEF ServerTypeOK, Loops, base, NextIndex

\* The type invariant is inductive by itself.
LEMMA TypeStep == ServerTypeOK /\ [ServerNext]_vars => ServerTypeOK'
<1> SUFFICES ASSUME ServerTypeOK, [ServerNext]_vars PROVE ServerTypeOK'
  OBVIOUS
<1> USE DEF ServerTypeOK
<1>a. /\ numThreads \in Nat /\ base \in Loops
      /\ numThreads # 0 => next_ + 1 \in Loops /\ NextIndex \in 0..numThreads
      /\ NextIndex = 0 \/ NextIndex < numThreads
      /\ \A c \in Conns : loopOf[c] \in Loops
      /\ \A c \in Conns : {Est(c), Des(c), Rem(c)} \subseteq Functors
  BY LoopFacts, FunctorFacts
<1>b. ASSUME NEW k \in Loops, NEW f \in Functors,
             queue' = [queue EXCEPT ![k] = Append(@, f)]
      PROVE  queue' \in [Loops -> Seq(Functors)]
  BY <1>b, AppendProperties
<1>c. ASSUME NEW c \in Conns, ConnectEstablished(c) \/ ConnectDestroyed(c)
      PROVE  /\ state' \in [Conns -> {"none", "kConnecting", "kConnected", "kDisconnected"}]
             /\ channel' \in [Conns -> {"none", "on", "off", "removed"}]
             /\ ups' \in [Conns -> Nat] /\ downs' \in [Conns -> Nat]
             /\ destroyed' \in [Conns -> Nat]
  <2>1. CASE ConnectEstablished(c)
    BY SMT, <2>1 DEF ConnectEstablished
  <2>2. CASE ConnectDestroyed(c)
    BY SMT, <2>2 DEF ConnectDestroyed
  <2> QED
    BY <1>c, <2>1, <2>2
<1>1. ASSUME NEW c \in Conns, NewConnection(c) PROVE ServerTypeOK'
  <2>1. CASE numThreads = 0
    <3>1. /\ connections' = connections \cup {c} /\ UNCHANGED <<queue, next_, loopOf, downs, destroyed>>
          /\ state' = [state EXCEPT ![c] = "kConnected"]
          /\ channel' = [channel EXCEPT ![c] = "on"]
          /\ ups' = [ups EXCEPT ![c] = @ + 1]
          /\ UNCHANGED <<numThreads, lpc, batch, quit, peerClosed, server>>
      BY <1>1, <2>1 DEF NewConnection, ConnectEstablished
    <3> QED
      BY SMT, <3>1 DEF Loops
  <2>2. CASE numThreads # 0
    <3>0. queue' = [queue EXCEPT ![next_ + 1] = Append(@, Est(c))]
      BY <1>1, <2>2 DEF NewConnection, Est
    <3>1. queue' \in [Loops -> Seq(Functors)]
      BY <1>a, <1>b, <2>2, <3>0
    <3> QED
      <4>1. /\ loopOf' = [loopOf EXCEPT ![c] = next_ + 1] /\ next_' = NextIndex
            /\ state' = [state EXCEPT ![c] = "kConnecting"] /\ connections' = connections \cup {c}
            /\ UNCHANGED <<channel, ups, downs, destroyed, numThreads, lpc, batch, quit, peerClosed, server>>
        BY <1>1, <2>2, Zenon DEF NewConnection
      <4>2. next_ + 1 \in Loops /\ next_' \in 0 .. numThreads /\ (next_' = 0 \/ next_' < numThreads)
        BY <1>a, <2>2, <4>1
      <4>3. /\ Loops' = Loops /\ loopOf' \in [Conns -> Loops]
            /\ state' \in [Conns -> {"none", "kConnecting", "kConnected", "kDisconnected"}]
        BY <4>1, <4>2, SMT DEF Loops
      <4> QED
        BY <3>1, <4>1, <4>2, <4>3, Zenon
  <2> QED
    BY <2>1, <2>2
<1>2. ASSUME NEW c \in Conns, ClientCloses(c) PROVE ServerTypeOK'
  BY <1>2 DEF ClientCloses, Loops
<1>3. ASSUME NEW c \in Conns, HandleClose(c) PROVE ServerTypeOK'
  <2>0. \/ queue' = [queue EXCEPT ![loopOf[c]] = Append(@, Des(c))]
        \/ queue' = [queue EXCEPT ![base] = Append(@, Rem(c))]
    BY <1>3 DEF HandleClose, RemoveConnectionInLoop, Des, Rem
  <2>1. queue' \in [Loops -> Seq(Functors)]
    <3>1. CASE queue' = [queue EXCEPT ![loopOf[c]] = Append(@, Des(c))]
      BY <1>a, <1>b, <3>1
    <3>2. CASE queue' = [queue EXCEPT ![base] = Append(@, Rem(c))]
      BY <1>a, <1>b, <3>2
    <3> QED
      BY <2>0, <3>1, <3>2
  <2>2. /\ state' = [state EXCEPT ![c] = "kDisconnected"]
        /\ channel' = [channel EXCEPT ![c] = "off"]
        /\ downs' = [downs EXCEPT ![c] = @ + 1]
        /\ connections' \subseteq connections
        /\ UNCHANGED <<numThreads, lpc, batch, quit, next_, loopOf, peerClosed, ups, destroyed, server>>
    BY <1>3 DEF HandleClose, RemoveConnectionInLoop
  <2> QED
    BY SMT, <2>1, <2>2 DEF Loops
<1>4. ASSUME NEW l \in Loops, SwapFunctors(l) PROVE ServerTypeOK'
  BY <1>4, EmptySeq DEF SwapFunctors, Loops
<1>5. ASSUME NEW l \in Loops, RunFunctor(l) PROVE ServerTypeOK'
  <2> DEFINE f == Head(batch[l])
  <2>1. f \in Functors /\ f.conn \in Conns /\ batch' \in [Loops -> Seq(Functors)]
    BY <1>5, HeadTailProperties, FunctorFacts DEF RunFunctor
  <2>a. \/ queue' = queue
        \/ queue' = [queue EXCEPT ![loopOf[f.conn]] = Append(@, Des(f.conn))]
    BY <1>5 DEF RunFunctor, RemoveConnectionInLoop, Des
  <2> HIDE DEF f
  <2>2. queue' \in [Loops -> Seq(Functors)]
    <3>1. CASE queue' = queue
      BY <3>1
    <3>2. CASE queue' = [queue EXCEPT ![loopOf[f.conn]] = Append(@, Des(f.conn))]
      BY <1>a, <1>b, <2>1, <3>2
    <3> QED
      BY <2>a, <3>1, <3>2
  <2>3. \/ (ConnectEstablished(f.conn) \/ ConnectDestroyed(f.conn)) /\ UNCHANGED connections
        \/ /\ connections' = connections \ {f.conn}
           /\ UNCHANGED <<state, channel, ups, downs, destroyed>>
    BY <1>5 DEF RunFunctor, RemoveConnectionInLoop, f
  <2>4. UNCHANGED <<numThreads, lpc, quit, next_, loopOf, peerClosed, server>>
    BY <1>5 DEF RunFunctor
  <2>5. CASE (ConnectEstablished(f.conn) \/ ConnectDestroyed(f.conn)) /\ UNCHANGED connections
    BY <1>c, <2>1, <2>2, <2>4, <2>5 DEF Loops
  <2>6. CASE /\ connections' = connections \ {f.conn}
             /\ UNCHANGED <<state, channel, ups, downs, destroyed>>
    BY <2>1, <2>2, <2>4, <2>6 DEF Loops
  <2> QED
    BY <2>3, <2>5, <2>6
<1>6. ASSUME NEW l \in Loops, LoopTest(l) PROVE ServerTypeOK'
  BY <1>6, EmptySeq DEF LoopTest, Loops
<1>7. CASE QuitBase
  BY <1>7 DEF QuitBase, Loops
<1>8. CASE DtorBegins \/ DtorBodyEnds \/ DtorEnds
  BY <1>8 DEF DtorBegins, DtorBodyEnds, DtorEnds, Loops
<1>9. ASSUME NEW c \in Conns, DtorDestroys(c) PROVE ServerTypeOK'
  <2>0. \/ queue' = queue
        \/ queue' = [queue EXCEPT ![loopOf[c]] = Append(@, Des(c))]
    BY <1>9 DEF DtorDestroys, Des
  <2>1. queue' \in [Loops -> Seq(Functors)]
    <3>1. CASE queue' = queue
      BY <3>1
    <3>2. CASE queue' = [queue EXCEPT ![loopOf[c]] = Append(@, Des(c))]
      BY <1>a, <1>b, <3>2
    <3> QED
      BY <2>0, <3>1, <3>2
  <2> QED
    BY <1>9, <1>c, <2>1 DEF DtorDestroys, Loops
<1>10. ASSUME NEW l \in Loops, QuitAndJoin(l) PROVE ServerTypeOK'
  BY <1>10 DEF QuitAndJoin, Loops
<1>11. CASE Gone \/ UNCHANGED vars
  BY <1>11 DEF Gone, vars, Loops
<1> QED
  BY <1>1, <1>2, <1>3, <1>4, <1>5, <1>6, <1>7, <1>8, <1>9, <1>10, <1>11
  DEF ServerNext, LoopStep, DtorStep

\* queueInLoop on loop k: only f is new ...
LEMMA AppendStep ==
    ASSUME ServerTypeOK, NEW k \in Loops, NEW f \in Functors,
           pending'[k] = Append(pending[k], f),
           \A l \in Loops \ {k} : pending'[l] = pending[l],
           NEW l \in Loops, NEW g
    PROVE  At(pending'[l], g) <=> (At(pending[l], g) \/ (l = k /\ g = f))
<1>1. At(Append(pending[k], f), g) <=> (At(pending[k], g) \/ g = f)
  BY PendingType, AppendOccurs
<1>2. CASE l = k
  BY <1>1, <1>2
<1>3. CASE l # k
  BY <1>3
<1> QED
  BY <1>2, <1>3

\* ... and the order of the functors is kept if f was not pending and is no
\* connectEstablished behind a connectDestroyed.
LEMMA AppendOrder ==
    ASSUME ServerTypeOK, OrderInv, NEW k \in Loops, NEW f \in Functors,
           numThreads' = numThreads, pending'[k] = Append(pending[k], f),
           \A l \in Loops \ {k} : pending'[l] = pending[l],
           ~At(pending[k], f), \A c \in Conns : f = Est(c) => ~At(pending[k], Des(c))
    PROVE  OrderInv'
<1>0. pending[k] \in Seq(Functors)
  BY PendingType
<1>1. Once(pending'[k])
  BY <1>0, AppendOccurs DEF OrderInv
<1>2. ASSUME NEW c \in Conns PROVE Before(pending'[k], Est(c), Des(c))
  BY SMT, <1>0, AppendOccurs, FunctorFacts DEF OrderInv
<1>3. \A l \in Loops : Once(pending'[l]) /\ \A c \in Conns : Before(pending'[l], Est(c), Des(c))
  BY <1>1, <1>2 DEF OrderInv
<1>4. Loops' = Loops
  BY DEF Loops
<1> QED
  BY <1>3, <1>4 DEF OrderInv

\* Loop l takes its first functor f: the others stay, in their order, and nothing
\* that must come before f was pending.
LEMMA RunStep ==
    ASSUME ServerTypeOK, OrderInv, NEW l \in Loops, batch[l] # <<>>,
           numThreads' = numThreads,
           batch' = [batch EXCEPT ![l] = Tail(@)], queue'[l] = queue[l]
    PROVE  LET f == Head(batch[l])
           IN  /\ f \in Functors /\ At(pending[l], f)
               /\ Once(pending'[l]) /\ \A c \in Conns : Before(pending'[l], Est(c), Des(c))
               /\ \A g : At(pending'[l], g) <=> (At(pending[l], g) /\ g # f)
               /\ \A c \in Conns : f = Des(c) => ~At(pending[l], Est(c))
<1> DEFINE f == Head(batch[l])
<1>1. batch[l] \in Seq(Functors) /\ queue[l] \in Seq(Functors) /\ pending[l] \in Seq(Functors)
  BY PendingType DEF ServerTypeOK
<1>2. pending'[l] = Tail(pending[l]) /\ pending[l] # <<>> /\ f = Head(pending[l])
  <2>1. pending[l] = batch[l] \o queue[l] /\ pending'[l] = Tail(batch[l]) \o queue[l]
    BY DEF pending, ServerTypeOK, Loops
  <2> QED
    BY <1>1, <2>1, TailPending
<1>3. f \in Functors
  BY <1>1, HeadTailProperties
<1> HIDE DEF f
<1> DEFINE p == pending[l]
<1>4. p \in Seq(Functors) /\ p # <<>> /\ f = Head(p) /\ pending'[l] = Tail(p)
  BY <1>1, <1>2
<1>5. Once(p) /\ \A c \in Conns : Before(p, Est(c), Des(c))
  BY DEF OrderInv
<1> HIDE DEF p
<1>6. /\ At(p, f) /\ Once(Tail(p)) /\ ~At(Tail(p), f)
      /\ \A g : At(Tail(p), g) => At(p, g)
      /\ \A g : At(p, g) /\ g # f => At(Tail(p), g)
      /\ \A g, h : Before(p, g, h) => Before(Tail(p), g, h)
      /\ \A g : Before(p, g, f) => ~At(p, g)
  BY <1>4, <1>5, TailOccurs
<1> QED
  BY <1>3, <1>4, <1>5, <1>6 DEF p, f

\* What a step does not touch keeps the invariant of a connection.
Same(c) ==
    /\ state'[c] = state[c] /\ channel'[c] = channel[c] /\ loopOf'[c] = loopOf[c]
    /\ ups'[c] = ups[c] /\ downs'[c] = downs[c] /\ destroyed'[c] = destroyed[c]
    /\ (c \in connections') <=> (c \in connections)

SameFunctors(c) ==
    \A l \in Loops :
        /\ At(pending'[l], Est(c)) <=> At(pending[l], Est(c))
        /\ At(pending'[l], Des(c)) <=> At(pending[l], Des(c))
        /\ At(pending'[l], Rem(c)) <=> At(pending[l], Rem(c))

SameLoops ==
    /\ numThreads' = numThreads
    /\ \A l \in Loops : lpc'[l] = "done" <=> lpc[l] = "done"
    /\ server' = "up" => server = "up"

\* A step that is about another connection.
LEMMA Frame ==
    ASSUME ServerTypeOK, NEW c \in Conns, ConnInv(c), Same(c), SameFunctors(c), SameLoops
    PROVE  ConnInv(c)'
<1>0. Loops' = Loops /\ loopOf[c] \in Loops /\ base \in Loops
  BY LoopFacts DEF Loops, SameLoops
<1>1. StateInv(c)'
  BY DEF ConnInv, StateInv, Same
<1>2. FunctorInv(c)'
  BY <1>0 DEF ConnInv, FunctorInv, Same, SameFunctors, SameLoops
<1>3. HeldInv(c)'
  BY <1>0 DEF ConnInv, HeldInv, Same, SameFunctors, SameLoops
<1> QED
  BY <1>1, <1>2, <1>3 DEF ConnInv

\* A functor that is queued or run for c leaves those of the others alone.
LEMMA AppendOthers ==
    ASSUME ServerTypeOK, NEW k \in Loops, NEW c \in Conns, NEW f \in {Est(c), Des(c), Rem(c)},
           pending'[k] = Append(pending[k], f),
           \A l \in Loops \ {k} : pending'[l] = pending[l],
           NEW d \in Conns, d # c
    PROVE  SameFunctors(d)
<1> SUFFICES ASSUME NEW l \in Loops
             PROVE  /\ At(pending'[l], Est(d)) <=> At(pending[l], Est(d))
                    /\ At(pending'[l], Des(d)) <=> At(pending[l], Des(d))
                    /\ At(pending'[l], Rem(d)) <=> At(pending[l], Rem(d))
  BY DEF SameFunctors
<1>1. f \in Functors /\ Est(d) # f /\ Des(d) # f /\ Rem(d) # f
  BY FunctorFacts
<1>2. \A g : At(pending'[l], g) <=> (At(pending[l], g) \/ (l = k /\ g = f))
  BY <1>1, AppendStep
<1> QED
  BY <1>1, <1>2

\* Acceptor::handleRead and newConnection.
LEMMA NewConnectionStep ==
    ASSUME IInv, ServerTypeOK', NEW c \in Conns, NewConnection(c)
    PROVE  Inv'
<1>0. ServerTypeOK /\ OrderInv /\ PhaseInv /\ ConnInv(c)
  BY DEF IInv, Inv
<1>1. /\ numThreads' = numThreads /\ lpc' = lpc /\ batch' = batch /\ server' = server
      /\ state[c] = "none" /\ connections' = connections \cup {c} /\ lpc[base] = "poll"
  BY DEF NewConnection
<1>2. /\ Loops' = Loops /\ base \in Loops /\ numThreads \in Nat /\ SameLoops
      /\ numThreads # 0 => next_ + 1 \in Loops /\ next_ + 1 # base
      /\ numThreads = 0 => Loops = {base}
  BY <1>0, <1>1, LoopFacts DEF Loops, SameLoops
<1>3. \A l \in Loops : ~At(pending[l], Est(c)) /\ ~At(pending[l], Des(c)) /\ ~At(pending[l], Rem(c))
  BY <1>0, <1>1 DEF ConnInv, FunctorInv
<1>4. channel[c] = "none" /\ ups[c] = 0 /\ downs[c] = 0 /\ destroyed[c] = 0
  BY <1>0, <1>1 DEF ConnInv, StateInv
<1>5. PhaseInv'
  BY <1>0, <1>1, <1>2 DEF PhaseInv, NewConnection
<1>6. CASE numThreads = 0
  <2>1. /\ queue' = queue /\ loopOf' = loopOf
        /\ state' = [state EXCEPT ![c] = "kConnected"]
        /\ channel' = [channel EXCEPT ![c] = "on"]
        /\ ups' = [ups EXCEPT ![c] = @ + 1] /\ downs' = downs /\ destroyed' = destroyed
    BY <1>6 DEF NewConnection, ConnectEstablished
  <2>2. pending' = pending
    BY <1>1, <1>2, <2>1 DEF pending
  <2>3. ASSUME NEW d \in Conns, d # c PROVE ConnInv(d)'
    <3>1. Same(d) /\ SameFunctors(d) /\ ConnInv(d)
      BY SMT, <1>1, <2>1, <2>2, <2>3 DEF Same, SameFunctors, ServerTypeOK, IInv, Inv
    <3> QED
      BY <1>0, <1>2, <3>1, Frame
  <2>4. /\ state'[c] = "kConnected" /\ channel'[c] = "on" /\ ups'[c] = 1
        /\ downs'[c] = 0 /\ destroyed'[c] = 0 /\ c \in connections'
    BY SMT, <1>0, <1>1, <1>4, <2>1 DEF ServerTypeOK
  <2>5. StateInv(c)' /\ HeldInv(c)'
    BY <2>4 DEF StateInv, HeldInv
  <2>6. FunctorInv(c)'
    BY <1>2, <1>3, <2>2 DEF FunctorInv
  <2>7. OrderInv'
    BY <1>0, <1>2, <2>2 DEF OrderInv
  <2> QED
    BY <1>5, <2>3, <2>5, <2>6, <2>7 DEF Inv, ConnInv
<1>7. CASE numThreads # 0
  <2>0. PICK k \in Loops : k = next_ + 1 /\ k # base
    BY <1>2, <1>7
  <2>1. /\ loopOf' = [loopOf EXCEPT ![c] = k]
        /\ queue' = [queue EXCEPT ![k] = Append(@, Est(c))]
        /\ state' = [state EXCEPT ![c] = "kConnecting"]
        /\ UNCHANGED <<channel, ups, downs, destroyed>>
    BY <1>7, <2>0 DEF NewConnection, Est
  <2>2. Est(c) \in Functors /\ Est(c) \in {Est(c), Des(c), Rem(c)}
    BY FunctorFacts
  <2>3. pending'[k] = Append(pending[k], Est(c)) /\ \A l \in Loops \ {k} : pending'[l] = pending[l]
    BY <1>0, <1>1, <2>1, <2>2, QueueInLoop
  <2>4. ASSUME NEW d \in Conns, d # c PROVE ConnInv(d)'
    <3>1. Same(d) /\ ConnInv(d)
      BY SMT, <1>0, <1>1, <2>1, <2>4 DEF Same, ServerTypeOK, IInv, Inv
    <3>2. SameFunctors(d)
      BY <1>0, <2>2, <2>3, <2>4, AppendOthers
    <3> QED
      BY <1>0, <1>2, <3>1, <3>2, Frame
  <2>5. /\ state'[c] = "kConnecting" /\ channel'[c] = "none" /\ ups'[c] = 0
        /\ downs'[c] = 0 /\ destroyed'[c] = 0 /\ c \in connections' /\ loopOf'[c] = k
    BY <1>0, <1>1, <1>4, <2>1 DEF ServerTypeOK
  <2>6. ASSUME NEW l \in Loops
        PROVE  /\ At(pending'[l], Est(c)) <=> l = k
               /\ ~At(pending'[l], Des(c)) /\ ~At(pending'[l], Rem(c))
    <3>1. \A g : At(pending'[l], g) <=> (At(pending[l], g) \/ (l = k /\ g = Est(c)))
      BY <1>0, <2>2, <2>3, AppendStep
    <3> QED
      BY <1>3, <3>1, FunctorFacts
  <2>7. StateInv(c)' /\ HeldInv(c)'
    BY <2>0, <2>5, <2>6 DEF StateInv, HeldInv
  <2>8. FunctorInv(c)'
    BY <1>2, <2>0, <2>5, <2>6 DEF FunctorInv
  <2>9. OrderInv'
    <3>1. \A d \in Conns : Est(c) = Est(d) => ~At(pending[k], Des(d))
      BY <1>3, FunctorFacts
    <3> QED
      BY <1>0, <1>1, <1>3, <2>2, <2>3, <3>1, AppendOrder
  <2> QED
    BY <1>5, <2>4, <2>7, <2>8, <2>9 DEF Inv, ConnInv
<1> QED
  BY <1>6, <1>7

\* TcpConnection::handleClose with removeConnection, in the base loop or from an I/O loop.
LEMMA HandleCloseStep ==
    ASSUME IInv, ServerTypeOK', NEW c \in Conns, HandleClose(c)
    PROVE  Inv'
<1>0. ServerTypeOK /\ OrderInv /\ PhaseInv /\ ConnInv(c)
  BY DEF IInv, Inv
<1>1. /\ numThreads' = numThreads /\ lpc' = lpc /\ batch' = batch /\ server' = server
      /\ loopOf' = loopOf /\ ups' = ups /\ destroyed' = destroyed
      /\ state' = [state EXCEPT ![c] = "kDisconnected"]
      /\ channel' = [channel EXCEPT ![c] = "off"]
      /\ downs' = [downs EXCEPT ![c] = @ + 1]
      /\ lpc[loopOf[c]] = "poll" /\ channel[c] = "on"
  BY DEF HandleClose
<1>2. Loops' = Loops /\ base \in Loops /\ loopOf[c] \in Loops /\ SameLoops
  BY <1>0, <1>1, LoopFacts DEF Loops, SameLoops
<1>3. state[c] = "kConnected" /\ ups[c] = 1 /\ downs[c] = 0 /\ destroyed[c] = 0
  BY SMT, <1>0, <1>1 DEF ConnInv, StateInv, ServerTypeOK
<1>4. lpc[base] # "done" => c \in connections
  BY <1>0, <1>3 DEF ConnInv, HeldInv, PhaseInv, ServerTypeOK
<1>5. \A l \in Loops : /\ ~At(pending[l], Est(c)) /\ ~At(pending[l], Rem(c))
                       /\ At(pending[l], Des(c)) => l = loopOf[c] /\ c \notin connections
  BY <1>0, <1>3 DEF ConnInv, FunctorInv
<1>6. /\ state'[c] = "kDisconnected" /\ channel'[c] = "off" /\ ups'[c] = 1
      /\ downs'[c] = 1 /\ destroyed'[c] = 0 /\ loopOf'[c] = loopOf[c]
  BY SMT, <1>0, <1>1, <1>3 DEF ServerTypeOK
<1>7. StateInv(c)'
  BY <1>6 DEF StateInv
<1>8. \A d \in Conns \ {c} : /\ state'[d] = state[d] /\ channel'[d] = channel[d]
                             /\ downs'[d] = downs[d] /\ ConnInv(d)
  BY SMT, <1>0, <1>1 DEF ServerTypeOK, IInv, Inv
<1>9. CASE loopOf[c] = base
  <2>1. /\ connections' = connections \ {c}
        /\ queue' = [queue EXCEPT ![base] = Append(@, Des(c))]
    BY <1>9 DEF HandleClose, RemoveConnectionInLoop, Des
  <2>2. Des(c) \in Functors /\ Des(c) \in {Est(c), Des(c), Rem(c)}
    BY FunctorFacts
  <2>3. /\ pending'[base] = Append(pending[base], Des(c))
        /\ \A l \in Loops \ {base} : pending'[l] = pending[l]
    BY <1>0, <1>1, <1>2, <2>1, <2>2, QueueInLoop
  <2>4. ASSUME NEW d \in Conns, d # c PROVE ConnInv(d)'
    <3>1. Same(d) /\ ConnInv(d)
      BY <1>1, <1>8, <2>1, <2>4 DEF Same
    <3>2. SameFunctors(d)
      BY <1>0, <1>2, <2>2, <2>3, <2>4, AppendOthers
    <3> QED
      BY <1>0, <1>2, <3>1, <3>2, Frame
  <2>5. ASSUME NEW l \in Loops
        PROVE  /\ ~At(pending'[l], Est(c)) /\ ~At(pending'[l], Rem(c))
               /\ At(pending'[l], Des(c)) <=> l = base
    <3>1. \A g : At(pending'[l], g) <=> (At(pending[l], g) \/ (l = base /\ g = Des(c)))
      BY <1>0, <1>2, <2>2, <2>3, AppendStep
    <3> QED
      BY <1>1, <1>4, <1>5, <1>9, <3>1, FunctorFacts
  <2>6. FunctorInv(c)' /\ HeldInv(c)'
    BY <1>2, <1>6, <1>9, <2>1, <2>5 DEF FunctorInv, HeldInv
  <2>7. OrderInv'
    <3>1. ~At(pending[base], Des(c)) /\ \A d \in Conns : Des(c) # Est(d)
      BY <1>1, <1>2, <1>4, <1>5, <1>9, FunctorFacts
    <3> QED
      BY <1>0, <1>1, <1>2, <2>2, <2>3, <3>1, AppendOrder
  <2>8. PhaseInv'
    BY <1>0, <1>1, <1>2, <1>9, <2>1 DEF PhaseInv
  <2> QED
    BY <1>7, <2>4, <2>6, <2>7, <2>8 DEF Inv, ConnInv
<1>10. CASE loopOf[c] # base
  <2>1. /\ connections' = connections
        /\ queue' = [queue EXCEPT ![base] = Append(@, Rem(c))]
    BY <1>10 DEF HandleClose, Rem
  <2>2. Rem(c) \in Functors /\ Rem(c) \in {Est(c), Des(c), Rem(c)}
    BY FunctorFacts
  <2>3. /\ pending'[base] = Append(pending[base], Rem(c))
        /\ \A l \in Loops \ {base} : pending'[l] = pending[l]
    BY <1>0, <1>1, <1>2, <2>1, <2>2, QueueInLoop
  <2>4. ASSUME NEW d \in Conns, d # c PROVE ConnInv(d)'
    <3>1. Same(d) /\ ConnInv(d)
      BY <1>1, <1>8, <2>1, <2>4 DEF Same
    <3>2. SameFunctors(d)
      BY <1>0, <1>2, <2>2, <2>3, <2>4, AppendOthers
    <3> QED
      BY <1>0, <1>2, <3>1, <3>2, Frame
  <2>5. ASSUME NEW l \in Loops
        PROVE  /\ ~At(pending'[l], Est(c))
               /\ At(pending'[l], Rem(c)) <=> l = base
               /\ At(pending'[l], Des(c)) <=> At(pending[l], Des(c))
    <3>1. \A g : At(pending'[l], g) <=> (At(pending[l], g) \/ (l = base /\ g = Rem(c)))
      BY <1>0, <1>2, <2>2, <2>3, AppendStep
    <3> QED
      BY SMT, <1>5, <3>1, FunctorFacts
  <2>6. FunctorInv(c)'
    BY <1>1, <1>2, <1>4, <1>5, <1>6, <1>10, <2>1, <2>5 DEF FunctorInv
  <2>7. HeldInv(c)'
    BY <1>0, <1>1, <1>2, <1>3, <1>6, <1>10, <2>1, <2>5 DEF ConnInv, HeldInv
  <2>8. OrderInv'
    <3>1. ~At(pending[base], Rem(c)) /\ \A d \in Conns : Rem(c) # Est(d)
      BY <1>2, <1>5, FunctorFacts
    <3> QED
      BY <1>0, <1>1, <1>2, <2>2, <2>3, <3>1, AppendOrder
  <2>9. numThreads # 0
    BY SMT, <1>0, <1>2, <1>10, LoopFacts
  <2>10. PhaseInv'
    BY <1>0, <1>1, <1>2, <2>1, <2>9 DEF PhaseInv
  <2> QED
    BY <1>7, <2>4, <2>6, <2>7, <2>8, <2>10 DEF Inv, ConnInv
<1> QED
  BY <1>9, <1>10

\* doPendingFunctors swaps the queue out: the same functors are pending.
LEMMA SwapStep ==
    ASSUME IInv, ServerTypeOK', NEW l \in Loops, SwapFunctors(l)
    PROVE  Inv'
<1>0. ServerTypeOK /\ OrderInv /\ PhaseInv
  BY DEF IInv, Inv
<1>1. /\ lpc[l] = "poll" /\ lpc' = [lpc EXCEPT ![l] = "run"]
      /\ batch' = [batch EXCEPT ![l] = queue[l]] /\ queue' = [queue EXCEPT ![l] = <<>>]
      /\ UNCHANGED <<numThreads, connections, loopOf, state, channel, ups, downs, destroyed, server>>
  BY DEF SwapFunctors
<1>2. Loops' = Loops /\ SameLoops /\ base \in Loops /\ (numThreads = 0 => l = base)
  BY SMT, <1>0, <1>1, LoopFacts DEF Loops, SameLoops, ServerTypeOK
<1>3. \A k \in Loops : pending'[k] = pending[k]
  <2>1. /\ pending[l] = batch[l] \o queue[l] /\ pending'[l] = queue[l] \o <<>>
        /\ batch[l] = <<>> /\ queue[l] \in Seq(Functors)
    BY SMT, <1>0, <1>1, <1>2 DEF pending, ServerTypeOK, PhaseInv
  <2>2. pending'[l] = pending[l]
    BY <2>1, ConcatEmptySeq
  <2>3. \A k \in Loops \ {l} : pending'[k] = pending[k]
    BY SMT, <1>0, <1>1, <1>2 DEF pending, ServerTypeOK
  <2> QED
    BY <2>2, <2>3
<1>4. ASSUME NEW c \in Conns PROVE ConnInv(c)'
  <2>1. Same(c) /\ SameFunctors(c) /\ ConnInv(c)
    BY <1>1, <1>3 DEF Same, SameFunctors, IInv, Inv
  <2> QED
    BY <1>0, <1>2, <2>1, Frame
<1>5. OrderInv'
  BY <1>0, <1>2, <1>3 DEF OrderInv
<1>6. PhaseInv'
  BY SMT, <1>0, <1>1, <1>2 DEF PhaseInv, ServerTypeOK
<1> QED
  BY <1>4, <1>5, <1>6 DEF Inv

\* The loop's test of quit_: an I/O loop that ends takes what is pending with it.
LEMMA LoopTestStep ==
    ASSUME IInv, ServerTypeOK', NEW l \in Loops, LoopTest(l)
    PROVE  Inv'
<1>0. ServerTypeOK /\ OrderInv /\ PhaseInv
  BY DEF IInv, Inv
<1>1. /\ lpc[l] = "run" /\ batch[l] = <<>> /\ batch' = batch
      /\ lpc' = [lpc EXCEPT ![l] = IF quit[l] THEN "done" ELSE "poll"]
      /\ queue' = IF quit[l] /\ l # base THEN [queue EXCEPT ![l] = <<>>] ELSE queue
      /\ UNCHANGED <<numThreads, connections, loopOf, state, channel, ups, downs, destroyed, server>>
  BY DEF LoopTest
<1>2. Loops' = Loops /\ base \in Loops /\ (numThreads = 0 => l = base)
  BY <1>0, <1>1, LoopFacts DEF Loops
<1>3. /\ \A k \in Loops \ {l} : lpc'[k] = lpc[k]
      /\ lpc'[l] \in {"poll", "done"} /\ (lpc'[l] = "done" <=> quit[l])
  BY <1>0, <1>1 DEF ServerTypeOK
<1>4. PhaseInv'
  <2>1. \A k \in Loops : lpc'[k] # "run" => batch'[k] = <<>>
    BY <1>0, <1>1, <1>3 DEF PhaseInv
  <2>2. (numThreads' = 0 /\ lpc'[base] # "poll") => queue'[base] = <<>>
    BY <1>0, <1>1, <1>2 DEF PhaseInv
  <2>3. server' # "up" => lpc'[base] = "done"
    BY <1>0, <1>1, <1>2, <1>3 DEF PhaseInv
  <2> QED
    BY <1>0, <1>1, <1>2, <2>1, <2>2, <2>3 DEF PhaseInv
<1>5. CASE quit[l] /\ l # base
  <2>1. \A k \in Loops \ {l} : pending'[k] = pending[k]
    BY SMT, <1>0, <1>1, <1>2, <1>5 DEF pending, ServerTypeOK
  <2>2. pending'[l] = <<>> /\ Len(pending'[l]) = 0
    <3>1. pending'[l] = <<>> \o <<>>
      BY <1>0, <1>1, <1>2, <1>5 DEF pending, ServerTypeOK
    <3> QED
      BY <3>1, ConcatEmptySeq, EmptySeq
  <2>3. \A g : ~At(pending'[l], g)
    BY SMT, <2>2 DEF At
  <2>4. ASSUME NEW c \in Conns PROVE ConnInv(c)'
    <3>1. ConnInv(c) /\ loopOf[c] \in Loops
      BY <1>0, LoopFacts DEF IInv, Inv
    <3>2. StateInv(c)'
      BY <1>1, <3>1 DEF ConnInv, StateInv
    <3>3. FunctorInv(c)'
      <4>1. lpc'[base] = lpc[base] /\ Loops' = Loops
        BY <1>0, <1>1, <1>2, <1>3, <1>5 DEF Loops
      <4>2. ASSUME NEW k \in Loops, NEW g, At(pending'[k], g)
            PROVE  At(pending[k], g)
        BY <2>1, <2>3, <4>2, Zenon
      <4> QED
        BY Zenon, <1>1, <3>1, <4>1, <4>2 DEF ConnInv, FunctorInv
    <3>4. HeldInv(c)'
      BY <1>1, <1>2, <1>3, <1>5, <2>1, <3>1 DEF ConnInv, HeldInv
    <3> QED
      BY <3>2, <3>3, <3>4 DEF ConnInv
  <2>5. OrderInv'
    <3>1. Once(pending'[l]) /\ \A c \in Conns : Before(pending'[l], Est(c), Des(c))
      BY SMT, <2>2 DEF Once, Before
    <3> QED
      BY <1>0, <1>2, <2>1, <3>1 DEF OrderInv
  <2> QED
    BY <1>4, <2>4, <2>5 DEF Inv
<1>6. CASE ~(quit[l] /\ l # base)
  <2>1. \A k \in Loops : pending'[k] = pending[k]
    BY <1>1, <1>2, <1>6 DEF pending
  <2>2. ASSUME NEW c \in Conns PROVE ConnInv(c)'
    <3>1. ConnInv(c) /\ loopOf[c] \in Loops
      BY <1>0, LoopFacts DEF IInv, Inv
    <3>2. StateInv(c)'
      BY <1>1, <3>1 DEF ConnInv, StateInv
    <3>3. FunctorInv(c)'
      BY <1>1, <1>2, <1>3, <2>1, <3>1 DEF ConnInv, FunctorInv
    <3>4. HeldInv(c)'
      BY SMT, <1>1, <1>2, <1>3, <1>6, <2>1, <3>1 DEF ConnInv, HeldInv
    <3> QED
      BY <3>2, <3>3, <3>4 DEF ConnInv
  <2>3. OrderInv'
    BY <1>0, <1>2, <2>1 DEF OrderInv
  <2> QED
    BY <1>4, <2>2, <2>3 DEF Inv
<1> QED
  BY <1>5, <1>6

\* doPendingFunctors runs connectEstablished, connectDestroyed or removeConnectionInLoop.
LEMMA RunFunctorStep ==
    ASSUME IInv, ServerTypeOK', NEW l \in Loops, RunFunctor(l)
    PROVE  Inv'
<1>0. ServerTypeOK /\ OrderInv /\ PhaseInv
  BY DEF IInv, Inv
<1>1. /\ batch[l] # <<>> /\ batch' = [batch EXCEPT ![l] = Tail(@)]
      /\ UNCHANGED <<numThreads, lpc, loopOf, server>>
  BY DEF RunFunctor
<1>2. Loops' = Loops /\ base \in Loops /\ SameLoops /\ lpc[l] = "run"
  BY <1>0, <1>1, LoopFacts DEF Loops, SameLoops, PhaseInv
<1>3. Head(batch[l]) \in Functors
  BY <1>0, <1>1, HeadTailProperties DEF ServerTypeOK
<1>4. PICK f \in Functors : f = Head(batch[l])
  BY <1>3
<1>5. PICK c \in Conns : c = f.conn
  BY FunctorFacts
<1>6. ConnInv(c) /\ loopOf[c] \in Loops
  BY <1>0, LoopFacts DEF IInv, Inv
<1>7. \A k \in Loops \ {l} : batch'[k] = batch[k]
  BY <1>0, <1>1 DEF ServerTypeOK
<1>8. \A k \in Loops : lpc'[k] # "run" => batch'[k] = <<>>
  BY <1>0, <1>1, <1>2, <1>7 DEF PhaseInv
<1>9. ASSUME queue' = queue, f \in {Est(c), Des(c)}, connections' = connections
      PROVE  /\ OrderInv' /\ PhaseInv'
             /\ At(pending[l], f)
             /\ f = Des(c) => ~At(pending[l], Est(c))
             /\ \A g : At(pending'[l], g) <=> (At(pending[l], g) /\ g # f)
             /\ \A k \in Loops \ {l} : pending'[k] = pending[k]
             /\ \A d \in Conns \ {c} : SameFunctors(d)
  <2>1. /\ At(pending[l], f) /\ Once(pending'[l])
        /\ \A d \in Conns : Before(pending'[l], Est(d), Des(d))
        /\ \A g : At(pending'[l], g) <=> (At(pending[l], g) /\ g # f)
        /\ f = Des(c) => ~At(pending[l], Est(c))
    BY <1>0, <1>1, <1>4, <1>9, RunStep
  <2>2. \A k \in Loops \ {l} : pending'[k] = pending[k]
    BY <1>2, <1>7, <1>9 DEF pending
  <2>3. OrderInv'
    BY <1>0, <1>2, <2>1, <2>2 DEF OrderInv
  <2>4. PhaseInv'
    BY <1>0, <1>1, <1>2, <1>8, <1>9 DEF PhaseInv
  <2>5. \A d \in Conns \ {c} : Est(d) # f /\ Des(d) # f /\ Rem(d) # f
    BY <1>9, FunctorFacts
  <2>6. \A d \in Conns \ {c} : SameFunctors(d)
    BY <2>1, <2>2, <2>5 DEF SameFunctors
  <2> QED
    BY <2>1, <2>2, <2>3, <2>4, <2>6
<1>10. CASE f.op = "connectEstablished"
  <2>1. /\ ConnectEstablished(c) /\ queue' = queue /\ connections' = connections
    BY <1>4, <1>5, <1>10 DEF RunFunctor
  <2>2. f = Est(c)
    BY <1>5, <1>10, FunctorFacts
  <2>3. /\ OrderInv' /\ PhaseInv' /\ At(pending[l], Est(c))
        /\ \A g : At(pending'[l], g) <=> (At(pending[l], g) /\ g # Est(c))
        /\ \A k \in Loops \ {l} : pending'[k] = pending[k]
        /\ \A d \in Conns \ {c} : SameFunctors(d)
    BY <1>9, <2>1, <2>2
  <2>4. ASSUME NEW d \in Conns, d # c PROVE ConnInv(d)'
    <3>1. Same(d)
      BY <1>0, <1>1, <2>1, <2>4 DEF Same, ServerTypeOK, ConnectEstablished
    <3>2. ConnInv(d) /\ SameFunctors(d)
      BY <2>3, <2>4 DEF IInv, Inv
    <3> QED
      BY <1>0, <1>2, <3>1, <3>2, Frame
  <2>5. l = loopOf[c] /\ l # base /\ state[c] = "kConnecting"
    BY <1>6, <2>3 DEF ConnInv, FunctorInv
  <2>6. /\ state'[c] = "kConnected" /\ channel'[c] = "on" /\ ups'[c] = 1
        /\ downs'[c] = 0 /\ destroyed'[c] = 0 /\ loopOf'[c] = l
    BY SMT, <1>0, <1>1, <1>6, <2>1, <2>5 DEF ConnectEstablished, ServerTypeOK, ConnInv, StateInv
  <2>7. \A k \in Loops : /\ ~At(pending'[k], Est(c)) /\ ~At(pending'[k], Rem(c))
                         /\ At(pending'[k], Des(c)) <=> At(pending[k], Des(c))
    <3>1. \A k \in Loops : /\ At(pending[k], Est(c)) => k = l
                           /\ ~At(pending[k], Rem(c))
      BY <1>6, <2>5 DEF ConnInv, FunctorInv
    <3> QED
      BY <2>3, <3>1, FunctorFacts
  <2>8. StateInv(c)'
    BY <2>6 DEF StateInv
  <2>9. FunctorInv(c)'
    BY <1>1, <1>2, <1>6, <2>1, <2>5, <2>6, <2>7 DEF ConnInv, FunctorInv
  <2>10. HeldInv(c)'
    BY <1>1, <1>2, <1>6, <2>1, <2>5, <2>6, <2>7 DEF ConnInv, HeldInv, StateInv
  <2> QED
    BY <2>3, <2>4, <2>8, <2>9, <2>10 DEF Inv, ConnInv
<1>11. CASE f.op = "connectDestroyed"
  <2>1. /\ ConnectDestroyed(c) /\ queue' = queue /\ connections' = connections
    BY <1>4, <1>5, <1>11 DEF RunFunctor
  <2>2. f = Des(c)
    BY <1>5, <1>11, FunctorFacts
  <2>3. /\ OrderInv' /\ PhaseInv' /\ At(pending[l], Des(c)) /\ ~At(pending[l], Est(c))
        /\ \A g : At(pending'[l], g) <=> (At(pending[l], g) /\ g # Des(c))
        /\ \A k \in Loops \ {l} : pending'[k] = pending[k]
        /\ \A d \in Conns \ {c} : SameFunctors(d)
    BY <1>9, <2>1, <2>2
  <2>4. ASSUME NEW d \in Conns, d # c PROVE ConnInv(d)'
    <3>1. Same(d)
      BY SMT, <1>0, <1>1, <2>1, <2>4 DEF Same, ServerTypeOK, ConnectDestroyed
    <3>2. ConnInv(d) /\ SameFunctors(d)
      BY <2>3, <2>4 DEF IInv, Inv
    <3> QED
      BY <1>0, <1>2, <3>1, <3>2, Frame
  <2>5. /\ l = loopOf[c] /\ c \notin connections /\ state[c] # "none"
        /\ channel[c] # "removed" /\ (l = base => state[c] = "kDisconnected")
    BY <1>6, <2>3 DEF ConnInv, FunctorInv
  <2>6. state[c] \in {"kConnected", "kDisconnected"}
    <3>1. state[c] \in {"none", "kConnecting", "kConnected", "kDisconnected"}
      BY <1>0, SMT DEF ServerTypeOK
    <3>2. state[c] # "kConnecting"
      BY <1>2, <1>6, <2>3, <2>5, Zenon DEF ConnInv, HeldInv
    <3> QED
      BY <2>5, <3>1, <3>2, SMT
  <2>7. /\ state'[c] = "kDisconnected" /\ channel'[c] = "removed" /\ ups'[c] = 1
        /\ downs'[c] = 1 /\ destroyed'[c] = 1 /\ loopOf'[c] = l /\ c \notin connections'
    <3>1. CASE state[c] = "kConnected"
      BY SMT, <1>0, <1>1, <1>6, <2>1, <2>5, <3>1 DEF ConnectDestroyed, ServerTypeOK, ConnInv, StateInv
    <3>2. CASE state[c] = "kDisconnected"
      BY SMT, <1>0, <1>1, <1>6, <2>1, <2>5, <3>2 DEF ConnectDestroyed, ServerTypeOK, ConnInv, StateInv
    <3> QED
      BY <2>6, <3>1, <3>2
  <2>8. \A k \in Loops : ~At(pending'[k], Est(c)) /\ ~At(pending'[k], Des(c))
    <3>1. \A k \in Loops : At(pending[k], Est(c)) \/ At(pending[k], Des(c)) => k = l
      BY <1>6, <2>5 DEF ConnInv, FunctorInv
    <3> QED
      BY <2>3, <3>1
  <2>9. \A k \in Loops : At(pending'[k], Rem(c)) => At(pending[k], Rem(c))
    BY <2>3
  <2>10. StateInv(c)'
    BY <2>7 DEF StateInv
  <2>11. FunctorInv(c)'
    BY <1>1, <1>2, <1>6, <2>1, <2>5, <2>7, <2>8, <2>9 DEF ConnInv, FunctorInv
  <2>12. HeldInv(c)'
    BY <2>7 DEF HeldInv
  <2> QED
    BY <2>3, <2>4, <2>10, <2>11, <2>12 DEF Inv, ConnInv
<1>12. CASE f.op = "removeConnectionInLoop"
  <2>0. PICK k \in Loops : k = loopOf[c]
    BY <1>6
  <2>1. /\ connections' = connections \ {c}
        /\ queue' = [queue EXCEPT ![k] = Append(@, Des(c))]
        /\ UNCHANGED <<state, channel, ups, downs, destroyed>>
    BY <1>4, <1>5, <1>12, <2>0 DEF RunFunctor, RemoveConnectionInLoop, Des
  <2>2. f = Rem(c) /\ Des(c) \in Functors
    BY <1>5, <1>12, FunctorFacts
  <2>3. At(pending[l], Rem(c))
    <3>1. batch[l] \in Seq(Functors) /\ queue[l] \in Seq(Functors) /\ pending[l] = batch[l] \o queue[l]
      BY <1>0 DEF ServerTypeOK, pending
    <3>2. pending[l] # <<>> /\ Head(pending[l]) = f /\ pending[l] \in Seq(Functors)
      BY <1>0, <1>1, <1>4, <3>1, TailPending, PendingType
    <3> QED
      BY <2>2, <3>2, TailOccurs
  <2>4. /\ l = base /\ k # base /\ state[c] = "kDisconnected" /\ c \in connections
        /\ channel[c] = "off" /\ ups[c] = 1 /\ downs[c] = 1 /\ destroyed[c] = 0
    BY <1>2, <1>6, <2>0, <2>3 DEF ConnInv, FunctorInv, StateInv
  <2>5. /\ Once(pending'[l]) /\ \A d \in Conns : Before(pending'[l], Est(d), Des(d))
        /\ \A g : At(pending'[l], g) <=> (At(pending[l], g) /\ g # Rem(c))
    <3>1. queue'[l] = queue[l]
      BY <1>0, <2>1, <2>4 DEF ServerTypeOK
    <3> QED
      BY <1>0, <1>1, <1>4, <2>2, <3>1, RunStep
  <2>6. pending[k] \in Seq(Functors) /\ pending'[k] = Append(pending[k], Des(c))
    <3>1. batch[k] \in Seq(Functors) /\ queue[k] \in Seq(Functors) /\ pending[k] = batch[k] \o queue[k]
      BY <1>0 DEF ServerTypeOK, pending
    <3>2. pending'[k] = batch[k] \o Append(queue[k], Des(c))
      BY <1>0, <1>2, <1>7, <2>1, <2>4 DEF ServerTypeOK, pending
    <3>3. batch[k] \o Append(queue[k], Des(c)) = Append(batch[k] \o queue[k], Des(c))
      BY <2>2, <3>1, AppendPending
    <3> QED
      BY <1>0, <3>1, <3>2, <3>3, PendingType
  <2>7. \A j \in Loops \ {l, k} : pending'[j] = pending[j]
    BY <1>0, <1>2, <1>7, <2>1 DEF ServerTypeOK, pending
  <2>8. \A j \in Loops : ~At(pending[j], Est(c)) /\ ~At(pending[j], Des(c))
    BY <1>6, <2>4 DEF ConnInv, FunctorInv
  <2>9. /\ \A g : At(pending'[k], g) <=> (At(pending[k], g) \/ g = Des(c))
        /\ Once(pending'[k]) /\ \A d \in Conns : Before(pending'[k], Est(d), Des(d))
    <3>1. Once(pending[k]) /\ \A d \in Conns : Before(pending[k], Est(d), Des(d))
      BY <1>0 DEF OrderInv
    <3>2. \A g : At(pending'[k], g) <=> (At(pending[k], g) \/ g = Des(c))
      BY SMT, <2>2, <2>6, AppendOccurs
    <3>3. Once(pending'[k])
      BY SMT, <2>2, <2>6, <2>8, <3>1, AppendOccurs
    <3>4. ASSUME NEW d \in Conns PROVE Before(pending'[k], Est(d), Des(d))
      BY SMT, <2>2, <2>6, <3>1, AppendOccurs, FunctorFacts
    <3> QED
      BY <3>2, <3>3, <3>4
  <2>10. OrderInv'
    BY <1>0, <1>2, <2>5, <2>7, <2>9 DEF OrderInv
  <2>11. PhaseInv'
    <3>1. numThreads # 0 /\ lpc[base] = "run" /\ server = "up"
      BY SMT, <1>0, <1>2, <2>4, LoopFacts DEF PhaseInv
    <3> QED
      BY <1>0, <1>1, <1>2, <1>8, <3>1 DEF PhaseInv
  <2>12. ASSUME NEW d \in Conns, d # c PROVE ConnInv(d)'
    <3>1. Same(d) /\ ConnInv(d)
      BY <1>1, <2>1, <2>12 DEF Same, IInv, Inv
    <3>2. SameFunctors(d)
      <4>1. /\ Est(d) # Des(c) /\ Des(d) # Des(c) /\ Rem(d) # Des(c)
            /\ Est(d) # Rem(c) /\ Des(d) # Rem(c) /\ Rem(d) # Rem(c)
        BY <2>12, FunctorFacts
      <4> QED
        BY <2>5, <2>7, <2>9, <4>1 DEF SameFunctors
    <3> QED
      BY <1>0, <1>2, <3>1, <3>2, Frame
  <2>13. \A j \in Loops : /\ ~At(pending'[j], Est(c)) /\ ~At(pending'[j], Rem(c))
                          /\ At(pending'[j], Des(c)) <=> j = k
    <3>1. \A j \in Loops : At(pending[j], Rem(c)) => j = l
      BY <1>6, <2>4 DEF ConnInv, FunctorInv
    <3> QED
      BY <2>4, <2>5, <2>7, <2>8, <2>9, <3>1, FunctorFacts
  <2>14. StateInv(c)'
    BY <2>1, <2>4 DEF StateInv
  <2>15. FunctorInv(c)'
    <3>1. /\ loopOf'[c] = k /\ c \notin connections' /\ k # base
          /\ state'[c] # "none" /\ channel'[c] # "removed"
      BY <1>1, <2>0, <2>1, <2>4
    <3> QED
      BY <1>2, <2>13, <3>1 DEF FunctorInv
  <2>16. HeldInv(c)'
    BY <1>1, <1>2, <2>0, <2>1, <2>4, <2>13 DEF HeldInv
  <2> QED
    BY <2>10, <2>11, <2>12, <2>14, <2>15, <2>16 DEF Inv, ConnInv
<1> QED
  BY <1>10, <1>11, <1>12 DEF Functors

\* One turn of ~TcpServer's loop over connections_.
LEMMA DtorDestroysStep ==
    ASSUME IInv, ServerTypeOK', NEW c \in Conns, DtorDestroys(c)
    PROVE  Inv'
<1>0. ServerTypeOK /\ OrderInv /\ PhaseInv /\ ConnInv(c)
  BY DEF IInv, Inv
<1>1. /\ UNCHANGED <<numThreads, lpc, batch, loopOf, server>>
      /\ server = "dtor" /\ c \in connections /\ connections' = connections \ {c}
  BY DEF DtorDestroys
<1>2. /\ Loops' = Loops /\ base \in Loops /\ loopOf[c] \in Loops /\ SameLoops
      /\ lpc[base] = "done"
  BY <1>0, <1>1, LoopFacts DEF Loops, SameLoops, PhaseInv
<1>3. /\ state[c] # "none" /\ channel[c] # "removed"
      /\ \A l \in Loops : ~At(pending[l], Des(c))
  BY <1>0, <1>1 DEF ConnInv, StateInv, FunctorInv
<1>4. CASE loopOf[c] = base
  <2>1. ConnectDestroyed(c) /\ queue' = queue
    BY <1>4 DEF DtorDestroys
  <2>2. \A l \in Loops : pending'[l] = pending[l]
    BY <1>1, <1>2, <2>1 DEF pending
  <2>3. ASSUME NEW d \in Conns, d # c PROVE ConnInv(d)'
    <3>1. Same(d) /\ SameFunctors(d) /\ ConnInv(d)
      <4>1. Same(d)
        BY SMT, <1>0, <1>1, <2>1, <2>3 DEF Same, ServerTypeOK, ConnectDestroyed
      <4> QED
        BY <2>2, <4>1 DEF SameFunctors, IInv, Inv
    <3> QED
      BY <1>0, <1>2, <3>1, Frame
  <2>4. \A l \in Loops : ~At(pending'[l], Est(c)) /\ ~At(pending'[l], Des(c)) /\ ~At(pending'[l], Rem(c))
    BY <1>0, <1>3, <1>4, <2>2 DEF ConnInv, FunctorInv
  <2>5. state[c] \in {"kConnected", "kDisconnected"}
    BY <1>0, <1>3, <1>4 DEF ConnInv, StateInv, ServerTypeOK
  <2>6. /\ state'[c] = "kDisconnected" /\ channel'[c] = "removed" /\ ups'[c] = 1
        /\ downs'[c] = 1 /\ destroyed'[c] = 1 /\ c \notin connections'
    <3>1. CASE state[c] = "kConnected"
      BY SMT, <1>0, <1>1, <1>3, <2>1, <3>1 DEF ConnectDestroyed, ServerTypeOK, ConnInv, StateInv
    <3>2. CASE state[c] = "kDisconnected"
      BY SMT, <1>0, <1>1, <1>3, <2>1, <3>2 DEF ConnectDestroyed, ServerTypeOK, ConnInv, StateInv
    <3> QED
      BY <2>5, <3>1, <3>2
  <2>7. StateInv(c)' /\ HeldInv(c)'
    BY <2>6 DEF StateInv, HeldInv
  <2>8. FunctorInv(c)'
    BY <1>2, <2>4 DEF FunctorInv
  <2>9. OrderInv'
    BY <1>0, <1>2, <2>2 DEF OrderInv
  <2>10. PhaseInv'
    BY <1>0, <1>1, <1>2, <2>1 DEF PhaseInv
  <2> QED
    BY <2>3, <2>7, <2>8, <2>9, <2>10 DEF Inv, ConnInv
<1>5. CASE loopOf[c] # base
  <2>0. PICK k \in Loops : k = loopOf[c] /\ k # base
    BY <1>2, <1>5
  <2>1. /\ queue' = [queue EXCEPT ![k] = Append(@, Des(c))]
        /\ UNCHANGED <<state, channel, ups, downs, destroyed>>
    BY <1>5, <2>0 DEF DtorDestroys, Des
  <2>2. Des(c) \in Functors /\ Des(c) \in {Est(c), Des(c), Rem(c)}
    BY FunctorFacts
  <2>3. pending'[k] = Append(pending[k], Des(c)) /\ \A l \in Loops \ {k} : pending'[l] = pending[l]
    BY <1>0, <1>1, <2>1, <2>2, QueueInLoop
  <2>4. ASSUME NEW d \in Conns, d # c PROVE ConnInv(d)'
    <3>1. Same(d) /\ ConnInv(d)
      BY <1>1, <2>1, <2>4 DEF Same, IInv, Inv
    <3>2. SameFunctors(d)
      BY <1>0, <2>2, <2>3, <2>4, AppendOthers
    <3> QED
      BY <1>0, <1>2, <3>1, <3>2, Frame
  <2>5. ASSUME NEW l \in Loops
        PROVE  /\ At(pending'[l], Est(c)) <=> At(pending[l], Est(c))
               /\ At(pending'[l], Rem(c)) <=> At(pending[l], Rem(c))
               /\ At(pending'[l], Des(c)) <=> l = k
    <3>1. \A g : At(pending'[l], g) <=> (At(pending[l], g) \/ (l = k /\ g = Des(c)))
      BY <1>0, <2>2, <2>3, AppendStep
    <3> QED
      BY SMT, <1>3, <3>1, FunctorFacts
  <2>6. StateInv(c)'
    BY <1>0, <1>1, <1>3, <2>1 DEF ConnInv, StateInv
  <2>7. FunctorInv(c)'
    <3>1. /\ loopOf'[c] = k /\ c \notin connections' /\ state'[c] = state[c] /\ lpc'[base] = "done"
          /\ state'[c] # "none" /\ channel'[c] # "removed"
      BY <1>1, <1>2, <1>3, <2>0, <2>1
    <3> QED
      BY <1>0, <1>2, <2>0, <2>5, <3>1 DEF ConnInv, FunctorInv
  <2>8. HeldInv(c)'
    BY <1>0, <1>1, <1>2, <2>0, <2>1, <2>5 DEF ConnInv, HeldInv
  <2>9. OrderInv'
    <3>1. ~At(pending[k], Des(c)) /\ \A d \in Conns : Des(c) # Est(d)
      BY <1>3, FunctorFacts
    <3> QED
      BY <1>0, <1>1, <2>2, <2>3, <3>1, AppendOrder
  <2>10. numThreads # 0
    BY <1>0, <2>0, LoopFacts
  <2>11. PhaseInv'
    BY <1>0, <1>1, <1>2, <2>10 DEF PhaseInv
  <2> QED
    BY <2>4, <2>6, <2>7, <2>8, <2>9, <2>11 DEF Inv, ConnInv
<1> QED
  BY <1>4, <1>5

\* A step that moves only the client, quit_ or the destructor's progress.
LEMMA QuietStep ==
    ASSUME IInv, ServerTypeOK',
           numThreads' = numThreads, lpc' = lpc, queue' = queue, batch' = batch,
           connections' = connections, loopOf' = loopOf, state' = state, channel' = channel,
           ups' = ups, downs' = downs, destroyed' = destroyed,
           server' = server \/ (server = "up" /\ lpc[base] = "done" /\ server' = "dtor")
           \/ (server # "up" /\ connections = {} /\ server' \in {"join", "gone"})
    PROVE  Inv'
<1>0. ServerTypeOK /\ OrderInv /\ PhaseInv
  BY DEF IInv, Inv
<1>1. Loops' = Loops /\ SameLoops /\ pending' = pending
  BY DEF Loops, SameLoops, pending
<1>2. ASSUME NEW c \in Conns PROVE ConnInv(c)'
  <2>1. Same(c) /\ SameFunctors(c) /\ ConnInv(c)
    BY <1>1 DEF Same, SameFunctors, IInv, Inv
  <2> QED
    BY <1>0, <1>1, <2>1, Frame
<1>3. OrderInv' /\ PhaseInv'
  BY <1>0, <1>1 DEF OrderInv, PhaseInv
<1> QED
  BY <1>2, <1>3 DEF Inv

LEMMA InvStep == IInv /\ [ServerNext]_vars => IInv'
<1> SUFFICES ASSUME IInv, [ServerNext]_vars PROVE IInv'
  OBVIOUS
<1>0. ServerTypeOK'
  BY TypeStep DEF IInv
<1>1. ASSUME NEW c \in Conns, NewConnection(c) PROVE Inv'
  BY <1>0, <1>1, NewConnectionStep
<1>2. ASSUME NEW c \in Conns, ClientCloses(c) PROVE Inv'
  BY <1>0, <1>2, QuietStep DEF ClientCloses
<1>3. ASSUME NEW c \in Conns, HandleClose(c) PROVE Inv'
  BY <1>0, <1>3, HandleCloseStep
<1>4. ASSUME NEW l \in Loops, LoopStep(l) PROVE Inv'
  BY <1>0, <1>4, SwapStep, RunFunctorStep, LoopTestStep DEF LoopStep
<1>5. CASE QuitBase
  BY <1>0, <1>5, QuietStep DEF QuitBase, IInv
<1>6. CASE DtorBegins
  BY <1>0, <1>6, QuietStep DEF DtorBegins, IInv
<1>7. ASSUME NEW c \in Conns, DtorDestroys(c) PROVE Inv'
  BY <1>0, <1>7, DtorDestroysStep
<1>8. CASE DtorBodyEnds
  BY <1>0, <1>8, QuietStep DEF DtorBodyEnds, IInv
<1>9. ASSUME NEW l \in Loops, QuitAndJoin(l) PROVE Inv'
  BY <1>0, <1>9, QuietStep DEF QuitAndJoin
<1>10. CASE DtorEnds
  <2>1. connections = {}
    BY <1>10 DEF DtorEnds, IInv, Inv, PhaseInv
  <2> QED
    BY <1>0, <1>10, <2>1, QuietStep DEF DtorEnds, IInv
<1>11. CASE Gone \/ UNCHANGED vars
  BY <1>0, <1>11, QuietStep DEF Gone, vars, IInv
<1> QED
  BY <1>0, <1>1, <1>2, <1>3, <1>4, <1>5, <1>6, <1>7, <1>8, <1>9, <1>10, <1>11
  DEF IInv, ServerNext, DtorStep

-----------------------------------------------------------------------------
(* Theorems *)

\* Every reachable state satisfies the inductive invariant.
THEOREM ServerInvariant == ServerSpec => []IInv
<1>1. ServerInit => IInv
  BY InitInv
<1>2. IInv /\ [ServerNext]_vars => IInv'
  BY InvStep
<1> QED
  BY <1>1, <1>2, PTL DEF ServerSpec

\* The variables of TcpServer keep their types; getNextLoop's next_ is always the
\* index of a loop of the pool, however many threads there are.
THEOREM ServerTypeCorrect == ServerSpec => []ServerTypeOK
<1>1. IInv => ServerTypeOK
  BY DEF IInv
<1> QED
  BY <1>1, ServerInvariant, PTL

\* A functor that is pending on loop l is held by its queue or by its batch.
LEMMA PendingHolds ==
    ASSUME ServerTypeOK, NEW l \in Loops, NEW c \in Conns, At(pending[l], Des(c))
    PROVE  Holds(queue[l], c) \/ Holds(batch[l], c)
<1>1. /\ batch[l] \in Seq(Functors) /\ queue[l] \in Seq(Functors)
      /\ pending[l] = batch[l] \o queue[l] /\ Des(c).conn = c
  BY DEF ServerTypeOK, pending, Des, Functor
<1> DEFINE b == batch[l]
           q == queue[l]
<1>2. /\ Len(b) \in Nat /\ Len(q) \in Nat /\ Len(b \o q) = Len(b) + Len(q)
      /\ \A i \in 1..(Len(b) + Len(q)) : (b \o q)[i] = IF i <= Len(b) THEN b[i] ELSE q[i - Len(b)]
  BY <1>1, ConcatProperties, LenProperties
<1> HIDE DEF b, q
<1>3. PICK i \in 1..(Len(b) + Len(q)) : (b \o q)[i] = Des(c)
  BY <1>1, <1>2 DEF At, b, q
<1>4. CASE i <= Len(b)
  <2>1. i \in 1..Len(b) /\ b[i] = Des(c)
    BY SMT, <1>2, <1>3, <1>4
  <2> QED
    BY <1>1, <2>1 DEF Holds, b, q
<1>5. CASE ~(i <= Len(b))
  <2>1. i - Len(b) \in 1..Len(q) /\ q[i - Len(b)] = Des(c)
    BY SMT, <1>2, <1>3, <1>5
  <2> QED
    BY <1>1, <2>1 DEF Holds, b, q
<1> QED
  BY <1>4, <1>5

\* A connection whose channel is in the poller of a live loop is never deleted:
\* connections_ or the functor connectDestroyed on its way to the loop holds it.
THEOREM NeverDangling == ServerSpec => []NoDanglingChannel
<1>1. ASSUME IInv PROVE NoDanglingChannel
  <2> SUFFICES ASSUME NEW c \in Conns, channel[c] \in {"on", "off"}, lpc[loopOf[c]] # "done"
               PROVE  Referenced(c)
    BY DEF NoDanglingChannel
  <2>1. ServerTypeOK /\ ConnInv(c) /\ loopOf[c] \in Loops
    BY <1>1, LoopFacts DEF IInv, Inv
  <2>2. CASE c \in connections
    BY <2>2 DEF Referenced
  <2>3. CASE c \notin connections
    <3>1. state[c] # "none" /\ channel[c] # "removed"
      BY <2>1 DEF ConnInv, StateInv
    <3>2. At(pending[loopOf[c]], Des(c))
      BY <2>1, <2>3, <3>1 DEF ConnInv, HeldInv
    <3> QED
      BY <2>1, <3>2, PendingHolds DEF Referenced
  <2> QED
    BY <2>2, <2>3
<1> QED
  BY <1>1, ServerInvariant, PTL

\* The connection callbacks pair up and connectDestroyed runs at most once, whichever
\* of handleClose and ~TcpServer comes first; without I/O threads ~TcpServer leaves
\* no connection behind that connectDestroyed has not run for.
THEOREM LifecycleAlways == ServerSpec => []LifecycleComplete
<1>1. ASSUME IInv PROVE Lifecycle
  <2> SUFFICES ASSUME NEW c \in Conns
               PROVE  /\ downs[c] <= ups[c] /\ ups[c] <= 1
                      /\ destroyed[c] <= downs[c]
                      /\ state[c] = "kConnected" => c \in connections \/ server # "up"
    BY DEF Lifecycle
  <2>1. /\ StateInv(c) /\ HeldInv(c)
        /\ state[c] \in {"none", "kConnecting", "kConnected", "kDisconnected"}
    BY <1>1 DEF IInv, Inv, ConnInv, ServerTypeOK
  <2>2. downs[c] <= ups[c] /\ ups[c] <= 1 /\ destroyed[c] <= downs[c]
    BY SMT, <2>1 DEF StateInv
  <2>3. state[c] = "kConnected" => c \in connections \/ server # "up"
    BY <2>1 DEF HeldInv
  <2> QED
    BY <2>2, <2>3
<1>2. ASSUME IInv PROVE AllDestroyedHere
  <2> SUFFICES ASSUME numThreads = 0, server = "gone", NEW c \in Conns, ups[c] = 1
               PROVE  destroyed[c] = 1
    BY DEF AllDestroyedHere, AllDestroyed
  <2>1. ServerTypeOK /\ PhaseInv /\ ConnInv(c) /\ loopOf[c] = base /\ base \in Loops
    BY <1>2, LoopFacts DEF IInv, Inv
  <2>2. connections = {} /\ batch[base] = <<>> /\ queue[base] = <<>>
    BY <2>1 DEF PhaseInv
  <2>3. pending[base] = <<>> \o <<>>
    BY <2>1, <2>2 DEF pending
  <2>4. Len(pending[base]) = 0
    BY <2>3, ConcatEmptySeq, EmptySeq
  <2>5. ~At(pending[base], Des(c))
    BY SMT, <2>4 DEF At
  <2>6. state[c] \in {"kConnected", "kDisconnected"}
    BY SMT, <2>1 DEF ServerTypeOK, ConnInv, StateInv
  <2>7. channel[c] = "removed"
    BY <2>1, <2>2, <2>5, <2>6 DEF ConnInv, HeldInv
  <2> QED
    BY <2>1, <2>6, <2>7 DEF ConnInv, StateInv
<1>3. IInv => LifecycleComplete
  BY <1>1, <1>2 DEF LifecycleComplete
<1> QED
  BY <1>3, ServerInvariant, PTL
=============================================================================
