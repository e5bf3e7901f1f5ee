------------------------ MODULE ChannelPollerProofs ------------------------
(***************************************************************************)
(* What EPollPoller guarantees of any sequence of Channel operations, for  *)
(* any set of channels and descriptors.  ViewsAgree is made inductive by   *)
(* Keyed (what a descriptor maps to has that descriptor) and by Registered *)
(* (a channel in the poller exists); NeverFatal and NoDanglingPointer      *)
(* follow from them.                                                       *)
(***************************************************************************)
EXTENDS ChannelPoller, TLAPS

PollerType ==
    [events : [Channels -> SUBSET Interest],
     index : [Channels -> {kNew, kAdded, kDeleted}],
     channels : [Fds -> Channels \cup {NoChannel}],
     ptr : [Fds -> Channels \cup {NoChannel}],
     mask : [Fds -> SUBSET Interest],
     fatal : BOOLEAN]

Keyed ==
    \A f \in Fds, c \in Channels :
        poller.ptr[f] = c \/ poller.channels[f] = c => fdOf[c] = f

Registered == \A c \in Channels : poller.index[c] # kNew => c \in alive

IInv == TypeOK /\ ViewsAgree /\ Keyed /\ Registered /\ NeverFatal

\* The outcome q of updateChannel or remove on p, field by field: the channel c
\* has index i and events e, its descriptor maps to m and the kernel to k.
Outcome(p, c, q, i, e, m, k) ==
    /\ q \in PollerType
    /\ q.events = [p.events EXCEPT ![c] = e]
    /\ q.index = [p.index EXCEPT ![c] = i]
    /\ q.channels = [p.channels EXCEPT ![fdOf[c]] = m]
    /\ q.ptr = [p.ptr EXCEPT ![fdOf[c]] = k]
    /\ \A f \in Fds \ {fdOf[c]} : q.mask[f] = p.mask[f]
    /\ k = c => q.mask[fdOf[c]] = e

\* The three epoll_ctl operations, field by field.
LEMMA AddFields ==
    ASSUME NEW p \in PollerType, NEW c \in Channels
    PROVE  /\ CtlAdd(p, c) \in PollerType
           /\ CtlAdd(p, c).events = p.events /\ CtlAdd(p, c).index = p.index
           /\ CtlAdd(p, c).channels = p.channels
           /\ CtlAdd(p, c).ptr = [p.ptr EXCEPT ![fdOf[c]] = c]
           /\ CtlAdd(p, c).mask = [p.mask EXCEPT ![fdOf[c]] = p.events[c]]
           /\ ~p.fatal /\ p.ptr[fdOf[c]] = NoChannel => ~CtlAdd(p, c).fatal
<1>0. fdOf[c] \in Fds /\ p.events[c] \in SUBSET Interest
  BY ChannelAssumption DEF PollerType
<1> QED
  BY <1>0 DEF CtlAdd, PollerType

\* EPOLL_CTL_MOD.
LEMMA ModFields ==
    ASSUME NEW p \in PollerType, NEW c \in Channels
    PROVE  /\ CtlMod(p, c) \in PollerType
           /\ CtlMod(p, c).events = p.events /\ CtlMod(p, c).index = p.index
           /\ CtlMod(p, c).channels = p.channels
           /\ CtlMod(p, c).ptr = [p.ptr EXCEPT ![fdOf[c]] = c]
           /\ CtlMod(p, c).mask = [p.mask EXCEPT ![fdOf[c]] = p.events[c]]
           /\ ~p.fatal /\ p.ptr[fdOf[c]] # NoChannel => ~CtlMod(p, c).fatal
<1>0. fdOf[c] \in Fds /\ p.events[c] \in SUBSET Interest
  BY ChannelAssumption DEF PollerType
<1> QED
  BY <1>0 DEF CtlMod, PollerType

\* EPOLL_CTL_DEL.
LEMMA DelFields ==
    ASSUME NEW p \in PollerType, NEW c \in Channels
    PROVE  /\ CtlDel(p, c) \in PollerType
           /\ CtlDel(p, c).events = p.events /\ CtlDel(p, c).index = p.index
           /\ CtlDel(p, c).channels = p.channels
           /\ CtlDel(p, c).ptr = [p.ptr EXCEPT ![fdOf[c]] = NoChannel]
           /\ CtlDel(p, c).mask = [p.mask EXCEPT ![fdOf[c]] = {}]
           /\ ~p.fatal => ~CtlDel(p, c).fatal
<1>0. fdOf[c] \in Fds /\ p.events[c] \in SUBSET Interest
  BY ChannelAssumption DEF PollerType
<1> QED
  BY <1>0 DEF CtlDel, PollerType

\* An enable or disable operation of a usable channel: it ends up registered with
\* its events, or known and out of epoll.
LEMMA SetEventsOutcome ==
    ASSUME IInv, NEW c \in Channels, Usable(c), NEW e \in SUBSET Interest
    PROVE  LET q == SetEvents(poller, c, e)
           IN  /\ ~q.fatal
               /\ \/ Outcome(poller, c, q, kAdded, e, c, c)
                  \/ Outcome(poller, c, q, kDeleted, e, c, NoChannel)
<1> DEFINE p == [poller EXCEPT !.events[c] = e]
           q == UpdateChannel(p, c)
<1> SUFFICES /\ ~q.fatal
             /\ \/ Outcome(poller, c, q, kAdded, e, c, c)
                \/ Outcome(poller, c, q, kDeleted, e, c, NoChannel)
  BY Zenon DEF SetEvents
<1> USE ChannelAssumption DEF kNew, kAdded, kDeleted
<1>0. poller \in PollerType /\ fdOf[c] \in Fds /\ c # NoChannel
  BY DEF IInv, TypeOK, PollerType
<1>1. /\ p \in PollerType /\ p.events = [poller.events EXCEPT ![c] = e]
      /\ p.index = poller.index /\ p.channels = poller.channels
      /\ p.ptr = poller.ptr /\ p.mask = poller.mask /\ p.fatal = poller.fatal
      /\ p.events[c] = e
  BY <1>0 DEF PollerType
<1> HIDE DEF p
<1>2. ~poller.fatal
  BY DEF IInv, NeverFatal
<1>a. ASSUME poller.index[c] # kAdded PROVE poller.ptr[fdOf[c]] = NoChannel
  <2> SUFFICES ASSUME poller.ptr[fdOf[c]] # NoChannel PROVE FALSE
    OBVIOUS
  <2>1. PICK d \in Channels : poller.ptr[fdOf[c]] = d
    BY <1>0 DEF PollerType
  <2>2. fdOf[d] = fdOf[c]
    BY <1>0, <2>1 DEF IInv, Keyed
  <2>3. poller.index[d] = kAdded
    BY <2>1, <2>2 DEF IInv, ViewsAgree
  <2> QED
    BY <1>a, <2>2, <2>3 DEF Usable
<1>b. ASSUME NEW r \in PollerType, r.events = p.events, r.ptr = p.ptr, r.mask = p.mask,
             r.fatal = p.fatal, r.index = [p.index EXCEPT ![c] = kAdded],
             r.channels = [p.channels EXCEPT ![fdOf[c]] = c],
             NEW a, a = CtlAdd(r, c), poller.index[c] # kAdded
      PROVE  ~a.fatal /\ Outcome(poller, c, a, kAdded, e, c, c)
  <2>1. /\ a \in PollerType /\ a.events = r.events /\ a.index = r.index
        /\ a.channels = r.channels /\ a.ptr = [r.ptr EXCEPT ![fdOf[c]] = c]
        /\ a.mask = [r.mask EXCEPT ![fdOf[c]] = r.events[c]]
        /\ ~r.fatal /\ r.ptr[fdOf[c]] = NoChannel => ~a.fatal
    BY <1>b, AddFields
  <2>2. ~a.fatal
    BY <1>1, <1>2, <1>a, <1>b, <2>1
  <2>3. /\ \A f \in Fds \ {fdOf[c]} : a.mask[f] = poller.mask[f]
        /\ a.mask[fdOf[c]] = e
    BY <1>0, <1>1, <1>b, <2>1 DEF PollerType
  <2>4. /\ a.events = [poller.events EXCEPT ![c] = e]
        /\ a.index = [poller.index EXCEPT ![c] = kAdded]
        /\ a.channels = [poller.channels EXCEPT ![fdOf[c]] = c]
        /\ a.ptr = [poller.ptr EXCEPT ![fdOf[c]] = c]
    BY <1>1, <1>b, <2>1
  <2> QED
    BY <2>1, <2>2, <2>3, <2>4 DEF Outcome
<1>3. CASE poller.index[c] = kNew
  <2> DEFINE r == [p EXCEPT !.channels[fdOf[c]] = c, !.index[c] = kAdded]
  <2>1. /\ r \in PollerType /\ r.events = p.events /\ r.ptr = p.ptr /\ r.mask = p.mask
        /\ r.fatal = p.fatal /\ r.index = [p.index EXCEPT ![c] = kAdded]
        /\ r.channels = [p.channels EXCEPT ![fdOf[c]] = c]
    BY <1>0, <1>1 DEF PollerType
  <2>2. q = CtlAdd(r, c)
    BY <1>1, <1>3 DEF UpdateChannel
  <2>3. poller.index[c] # kAdded
    BY <1>3
  <2> HIDE DEF r, q
  <2> QED
    BY <1>b, <2>1, <2>2, <2>3
<1>4. CASE poller.index[c] = kDeleted
  <2> DEFINE r == [p EXCEPT !.index[c] = kAdded]
  <2>1. /\ r \in PollerType /\ r.events = p.events /\ r.ptr = p.ptr /\ r.mask = p.mask
        /\ r.fatal = p.fatal /\ r.index = [p.index EXCEPT ![c] = kAdded]
        /\ r.channels = p.channels
    BY <1>0, <1>1 DEF PollerType
  <2>2. poller.channels[fdOf[c]] = c
    BY <1>4 DEF IInv, ViewsAgree
  <2>3. r.channels = [p.channels EXCEPT ![fdOf[c]] = c]
    BY <1>0, <1>1, <2>1, <2>2 DEF PollerType
  <2>4. q = CtlAdd(r, c)
    BY <1>1, <1>4 DEF UpdateChannel
  <2>5. poller.index[c] # kAdded
    BY <1>4
  <2> HIDE DEF r, q
  <2> QED
    BY <1>b, <2>1, <2>3, <2>4, <2>5
<1>5. CASE poller.index[c] = kAdded
  <2>0. poller.channels[fdOf[c]] = c /\ poller.ptr[fdOf[c]] = c
    BY <1>5 DEF IInv, ViewsAgree
  <2>1. CASE e = {}
    <3> DEFINE d == CtlDel(p, c)
    <3>1. q = [d EXCEPT !.index[c] = kDeleted]
      BY <1>1, <1>5, <2>1 DEF UpdateChannel
    <3>2. /\ d \in PollerType /\ d.events = p.events /\ d.index = p.index
          /\ d.channels = p.channels /\ d.ptr = [p.ptr EXCEPT ![fdOf[c]] = NoChannel]
          /\ d.mask = [p.mask EXCEPT ![fdOf[c]] = {}]
          /\ ~p.fatal => ~d.fatal
      BY <1>1, DelFields
    <3> HIDE DEF d, q
    <3>3. /\ q \in PollerType /\ q.events = d.events /\ q.channels = d.channels
          /\ q.ptr = d.ptr /\ q.mask = d.mask /\ q.fatal = d.fatal
          /\ q.index = [d.index EXCEPT ![c] = kDeleted]
      BY <3>1, <3>2 DEF PollerType
    <3>4. q.channels = [poller.channels EXCEPT ![fdOf[c]] = c]
      BY <1>0, <1>1, <2>0, <3>2, <3>3 DEF PollerType
    <3>5. \A f \in Fds \ {fdOf[c]} : q.mask[f] = poller.mask[f]
      BY <1>0, <1>1, <3>2, <3>3 DEF PollerType
    <3>6. ~q.fatal
      BY <1>1, <1>2, <3>2, <3>3
    <3>7. Outcome(poller, c, q, kDeleted, e, c, NoChannel)
      BY <1>0, <1>1, <3>2, <3>3, <3>4, <3>5 DEF Outcome
    <3> QED
      BY <3>6, <3>7
  <2>2. CASE e # {}
    <3>1. q = CtlMod(p, c)
      BY <1>1, <1>5, <2>2 DEF UpdateChannel
    <3> HIDE DEF q
    <3>2. /\ q \in PollerType /\ q.events = p.events /\ q.index = p.index
          /\ q.channels = p.channels /\ q.ptr = [p.ptr EXCEPT ![fdOf[c]] = c]
          /\ q.mask = [p.mask EXCEPT ![fdOf[c]] = p.events[c]]
          /\ ~p.fatal /\ p.ptr[fdOf[c]] # NoChannel => ~q.fatal
      BY <1>1, <3>1, ModFields
    <3>3. /\ q.channels = [poller.channels EXCEPT ![fdOf[c]] = c]
          /\ q.index = [poller.index EXCEPT ![c] = kAdded]
      BY <1>0, <1>1, <1>5, <2>0, <3>2 DEF PollerType
    <3>4. /\ \A f \in Fds \ {fdOf[c]} : q.mask[f] = poller.mask[f]
          /\ q.mask[fdOf[c]] = e
      BY <1>0, <1>1, <3>2 DEF PollerType
    <3>5. ~q.fatal
      BY <1>0, <1>1, <1>2, <2>0, <3>2
    <3>6. Outcome(poller, c, q, kAdded, e, c, c)
      BY <1>1, <3>2, <3>3, <3>4 DEF Outcome
    <3> QED
      BY <3>5, <3>6
  <2> QED
    BY <2>1, <2>2
<1>6. poller.index[c] \in {kNew, kAdded, kDeleted}
  BY <1>0 DEF PollerType
<1> QED
  BY <1>3, <1>4, <1>5, <1>6

\* remove() of a usable channel forgets it everywhere.
LEMMA RemoveOutcome ==
    ASSUME IInv, NEW c \in Channels, Usable(c)
    PROVE  /\ ~RemoveChannel(poller, c).fatal
           /\ Outcome(poller, c, RemoveChannel(poller, c), kNew, poller.events[c],
                      NoChannel, NoChannel)
<1> USE ChannelAssumption DEF kNew, kAdded, kDeleted
<1> DEFINE p == [poller EXCEPT !.channels[fdOf[c]] = NoChannel]
           r == IF poller.index[c] = kAdded THEN CtlDel(p, c) ELSE p
           q == [r EXCEPT !.index[c] = kNew]
<1> SUFFICES ~q.fatal /\ Outcome(poller, c, q, kNew, poller.events[c], NoChannel, NoChannel)
  BY Zenon DEF RemoveChannel
<1>0. poller \in PollerType /\ fdOf[c] \in Fds /\ c # NoChannel
  BY DEF IInv, TypeOK, PollerType
<1>1. /\ p \in PollerType /\ p.events = poller.events /\ p.index = poller.index
      /\ p.channels = [poller.channels EXCEPT ![fdOf[c]] = NoChannel]
      /\ p.ptr = poller.ptr /\ p.mask = poller.mask /\ p.fatal = poller.fatal
  BY <1>0 DEF PollerType
<1> HIDE DEF p
<1>2. ~poller.fatal
  BY DEF IInv, NeverFatal
<1>3. poller.index[c] # kAdded => poller.ptr[fdOf[c]] = NoChannel
  <2> SUFFICES ASSUME poller.index[c] # kAdded, poller.ptr[fdOf[c]] # NoChannel PROVE FALSE
    OBVIOUS
  <2>1. PICK d \in Channels : poller.ptr[fdOf[c]] = d
    BY <1>0 DEF PollerType
  <2>2. fdOf[d] = fdOf[c]
    BY <1>0, <2>1 DEF IInv, Keyed
  <2>3. poller.index[d] = kAdded
    BY <2>1, <2>2 DEF IInv, ViewsAgree
  <2> QED
    BY <2>2, <2>3 DEF Usable
<1>4. /\ r \in PollerType /\ r.events = p.events /\ r.index = p.index
      /\ r.channels = p.channels /\ r.ptr = [p.ptr EXCEPT ![fdOf[c]] = NoChannel]
      /\ \A f \in Fds \ {fdOf[c]} : r.mask[f] = p.mask[f]
      /\ ~r.fatal
  <2>1. CASE poller.index[c] = kAdded
    <3>1. r = CtlDel(p, c)
      BY <2>1
    <3> HIDE DEF r
    <3>2. /\ r \in PollerType /\ r.events = p.events /\ r.index = p.index
          /\ r.channels = p.channels /\ r.ptr = [p.ptr EXCEPT ![fdOf[c]] = NoChannel]
          /\ r.mask = [p.mask EXCEPT ![fdOf[c]] = {}]
      BY <1>1, <3>1, DelFields
    <3>3. ~r.fatal
      BY <1>1, <1>2, <3>1, DelFields
    <3> QED
      BY <1>0, <1>1, <3>2, <3>3 DEF PollerType
  <2>2. CASE poller.index[c] # kAdded
    <3>1. r = p
      BY <2>2
    <3> HIDE DEF r
    <3>2. p.ptr = [p.ptr EXCEPT ![fdOf[c]] = NoChannel]
      BY <1>0, <1>1, <1>3, <2>2 DEF PollerType
    <3> QED
      BY <1>1, <1>2, <3>1, <3>2
  <2> QED
    BY <2>1, <2>2
<1> HIDE DEF r
<1>5. /\ q \in PollerType /\ q.events = r.events /\ q.channels = r.channels
      /\ q.ptr = r.ptr /\ q.mask = r.mask /\ q.fatal = r.fatal
      /\ q.index = [r.index EXCEPT ![c] = kNew]
  BY <1>4 DEF PollerType
<1> HIDE DEF q
<1>6. q.events = [poller.events EXCEPT ![c] = poller.events[c]]
  BY <1>0, <1>1, <1>4, <1>5 DEF PollerType
<1>7. ~q.fatal
  BY <1>4, <1>5
<1>8. Outcome(poller, c, q, kNew, poller.events[c], NoChannel, NoChannel)
  BY <1>0, <1>1, <1>4, <1>5, <1>6 DEF Outcome
<1> QED
  BY <1>7, <1>8

\* A step on one usable channel with such an outcome keeps the invariant.
LEMMA OutcomeStep ==
    ASSUME IInv, NEW c \in Channels, Usable(c), UNCHANGED alive,
           NEW i \in {kNew, kAdded, kDeleted}, NEW e \in SUBSET Interest,
           NEW m, NEW k, Outcome(poller, c, poller', i, e, m, k), ~poller'.fatal,
           m = IF i = kNew THEN NoChannel ELSE c,
           k = IF i = kAdded THEN c ELSE NoChannel
    PROVE  IInv'
<1> USE ChannelAssumption DEF kNew, kAdded, kDeleted
<1>0. poller \in PollerType /\ poller' \in PollerType /\ fdOf[c] \in Fds
  BY DEF IInv, TypeOK, PollerType, Outcome
<1>1. /\ poller'.index[c] = i /\ poller'.events[c] = e
      /\ poller'.channels[fdOf[c]] = m /\ poller'.ptr[fdOf[c]] = k
      /\ k = c => poller'.mask[fdOf[c]] = e
  BY <1>0 DEF Outcome, PollerType
<1>2. \A d \in Channels \ {c} :
        poller'.index[d] = poller.index[d] /\ poller'.events[d] = poller.events[d]
  BY <1>0 DEF Outcome, PollerType
<1>3. \A f \in Fds \ {fdOf[c]} :
        /\ poller'.channels[f] = poller.channels[f] /\ poller'.ptr[f] = poller.ptr[f]
        /\ poller'.mask[f] = poller.mask[f]
  BY <1>0 DEF Outcome, PollerType
<1>4. TypeOK'
  BY <1>0 DEF IInv, TypeOK, PollerType
<1>5. ASSUME NEW d \in Channels
      PROVE  /\ (poller'.index[d] = kAdded) <=> (poller'.ptr[fdOf[d]] = d)
             /\ (poller'.index[d] # kNew) <=> (poller'.channels[fdOf[d]] = d)
             /\ poller'.index[d] = kAdded => poller'.mask[fdOf[d]] = poller'.events[d]
  <2>0. fdOf[d] \in Fds
    OBVIOUS
  <2>a. /\ (poller.index[d] = kAdded) <=> (poller.ptr[fdOf[d]] = d)
        /\ (poller.index[d] # kNew) <=> (poller.channels[fdOf[d]] = d)
        /\ poller.index[d] = kAdded => poller.mask[fdOf[d]] = poller.events[d]
    BY DEF IInv, ViewsAgree
  <2>1. CASE d = c
    BY <1>1, <2>1
  <2>2. CASE d # c /\ fdOf[d] = fdOf[c]
    <3>1. poller'.index[d] = kNew
      BY <1>2, <2>2 DEF Usable
    <3>2. poller'.ptr[fdOf[d]] # d /\ poller'.channels[fdOf[d]] # d
      BY <1>1, <2>2
    <3> QED
      BY <3>1, <3>2
  <2>3. CASE fdOf[d] # fdOf[c]
    BY <1>2, <1>3, <2>0, <2>a, <2>3
  <2> QED
    BY <2>1, <2>2, <2>3
<1>6. ViewsAgree'
  BY <1>5 DEF ViewsAgree
<1>7. Keyed'
  <2> SUFFICES ASSUME NEW f \in Fds, NEW d \in Channels,
                      poller'.ptr[f] = d \/ poller'.channels[f] = d
               PROVE  fdOf[d] = f
    BY DEF Keyed
  <2>1. CASE f = fdOf[c]
    BY <1>1, <2>1
  <2>2. CASE f # fdOf[c]
    BY <1>3, <2>2 DEF IInv, Keyed
  <2> QED
    BY <2>1, <2>2
<1>8. Registered'
  BY <1>1, <1>2 DEF IInv, Registered, Usable
<1> QED
  BY <1>4, <1>6, <1>7, <1>8 DEF IInv, NeverFatal

\* An empty poller satisfies the invariant.
LEMMA InitInv == Init => IInv
<1> SUFFICES ASSUME Init PROVE IInv
  OBVIOUS
<1> USE ChannelAssumption DEF Init, NewPoller, kNew, kAdded, kDeleted
<1>1. TypeOK
  BY DEF TypeOK
<1>2. ViewsAgree /\ Keyed /\ Registered /\ NeverFatal
  BY DEF ViewsAgree, Keyed, Registered, NeverFatal
<1> QED
  BY <1>1, <1>2 DEF IInv

\* Every operation on a channel keeps the invariant.
LEMMA NextInv == IInv /\ [Next]_pvars => IInv'
<1> SUFFICES ASSUME IInv, [Next]_pvars PROVE IInv'
  OBVIOUS
<1>0. poller \in PollerType /\ alive \subseteq Channels
  BY DEF IInv, TypeOK, PollerType
<1>1. ASSUME NEW c \in Channels, Create(c) PROVE IInv'
  <2>1. /\ poller' \in PollerType /\ poller'.index = poller.index
        /\ poller'.channels = poller.channels /\ poller'.ptr = poller.ptr
        /\ poller'.mask = poller.mask /\ poller'.fatal = poller.fatal
        /\ \A d \in Channels \ {c} : poller'.events[d] = poller.events[d]
    BY <1>0, <1>1 DEF Create, PollerType
  <2>2. poller.index[c] = kNew
    BY <1>1 DEF IInv, Registered, Create
  <2>3. TypeOK'
    BY <1>0, <1>1, <2>1 DEF Create, TypeOK, PollerType
  <2>4. ViewsAgree'
    BY <2>1, <2>2 DEF IInv, ViewsAgree, kNew, kAdded
  <2>5. Keyed' /\ Registered'
    BY <1>1, <2>1 DEF IInv, Keyed, Registered, Create
  <2>6. NeverFatal'
    BY <2>1 DEF IInv, NeverFatal
  <2> QED
    BY <2>3, <2>4, <2>5, <2>6 DEF IInv
<1>2. ASSUME NEW c \in Channels, Destroy(c) PROVE IInv'
  <2>1. TypeOK' /\ ViewsAgree' /\ Keyed' /\ NeverFatal'
    BY <1>2 DEF IInv, TypeOK, ViewsAgree, Keyed, NeverFatal, Destroy
  <2>2. Registered'
    BY <1>2 DEF IInv, Registered, Destroy
  <2> QED
    BY <2>1, <2>2 DEF IInv
<1>3. ASSUME NEW c \in Channels, Operate(c) PROVE IInv'
  <2>0. Usable(c) /\ UNCHANGED alive
    BY <1>3 DEF Operate
  <2>1. ASSUME NEW e \in SUBSET Interest, poller' = SetEvents(poller, c, e) PROVE IInv'
    <3>1. /\ ~poller'.fatal
          /\ \/ Outcome(poller, c, poller', kAdded, e, c, c)
             \/ Outcome(poller, c, poller', kDeleted, e, c, NoChannel)
      BY <2>0, <2>1, SetEventsOutcome
    <3>2. kAdded # kNew /\ kDeleted # kNew /\ kDeleted # kAdded
      BY DEF kNew, kAdded, kDeleted
    <3> QED
      BY <2>0, <3>1, <3>2, OutcomeStep
  <2>2. CASE poller' = Remove(poller, c)
    <3>1. /\ ~poller'.fatal
          /\ Outcome(poller, c, poller', kNew, poller.events[c], NoChannel, NoChannel)
      BY <2>0, <2>2, RemoveOutcome DEF Remove
    <3>2. kNew # kAdded /\ poller.events[c] \in SUBSET Interest
      BY <1>0 DEF kNew, kAdded, PollerType
    <3> QED
      BY <2>0, <3>1, <3>2, OutcomeStep
  <2>3. \/ \E e \in SUBSET Interest : poller' = SetEvents(poller, c, e)
        \/ poller' = Remove(poller, c)
    BY <1>0, <1>3 DEF Operate, EnableReading, DisableReading, EnableWriting,
       DisableWriting, DisableAll, PollerType, Interest
  <2> QED
    BY <2>1, <2>2, <2>3
<1>4. CASE UNCHANGED pvars
  BY <1>4 DEF pvars, IInv, TypeOK, ViewsAgree, Keyed, Registered, NeverFatal
<1> QED
  BY <1>1, <1>2, <1>3, <1>4 DEF Next

\* The invariant holds in every state of the poller.
LEMMA InductiveInv == Spec => []IInv
  BY InitInv, NextInv, PTL DEF Spec

\* Channel and EPollPoller keep their types, the index_ among its three values.
THEOREM PollerTypeCorrect == Spec => []TypeOK
<1>1. IInv => TypeOK
  BY DEF IInv
<1> QED
  BY <1>1, InductiveInv, PTL

\* index_, channels_ and the kernel's table agree after any calls of the enable
\* and disable operations and of remove, on any number of channels.
THEOREM ViewsAlwaysAgree == Spec => []ViewsAgree
<1>1. IInv => ViewsAgree
  BY DEF IInv
<1> QED
  BY <1>1, InductiveInv, PTL

\* EPollPoller::update never meets LOG_FATAL.
THEOREM EpollNeverFatal == Spec => []NeverFatal
<1>1. IInv => NeverFatal
  BY DEF IInv
<1> QED
  BY <1>1, InductiveInv, PTL

\* Neither epoll nor channels_ points to a channel that has been destroyed.
THEOREM PointersValid == Spec => []NoDanglingPointer
<1>1. IInv => NoDanglingPointer
  <2> SUFFICES ASSUME IInv, NEW f \in Fds,
                      NEW d \in {poller.ptr[f], poller.channels[f]}, d # NoChannel
               PROVE  d \in alive
    BY DEF NoDanglingPointer
  <2>1. d \in Channels
    BY DEF IInv, TypeOK
  <2>2. fdOf[d] = f
    BY <2>1 DEF IInv, Keyed
  <2>3. poller.index[d] # kNew
    BY <2>1, <2>2 DEF IInv, ViewsAgree, kNew, kAdded
  <2> QED
    BY <2>1, <2>3 DEF IInv, Registered
<1> QED
  BY <1>1, InductiveInv, PTL
=============================================================================
