--------------------------- MODULE UtilityProofs ---------------------------
(***************************************************************************)
(* What the small guards of a service keep true for every value of their   *)
(* constants: the breaker, the redis lock, the etcd watcher and the object *)
(* pool.                                                                   *)
(***************************************************************************)
EXTENDS CircuitBreaker, Redlock, EtcdClient, ObjectPool,
        SequenceTheorems, FiniteSetTheorems, TLAPS

-----------------------------------------------------------------------------
(* CircuitBreaker *)

\* In HalfOpen the successes counted are among those since the last failure, and
\* the time-out has passed since then.
BreakerInv ==
    /\ bstate \in {"Closed", "Open", "HalfOpen"}
    /\ {failureCount, successCount, quiet, streak} \subseteq Int
    /\ streak >= 0
    /\ bstate = "HalfOpen" =>
          /\ quiet >= timeoutMs
          /\ successCount <= streak

BreakerAction ==
    /\ bstate # "Closed" /\ bstate' = "Closed" =>
          streak' >= successThreshold /\ quiet >= timeoutMs
    /\ bstate = "Closed" /\ bstate' # "Closed" =>
          bstate' = "Open" /\ failureCount' >= failureThreshold /\ streak' = 0
    /\ bstate = "Open" /\ inCall \subseteq inCall' /\ inCall # inCall' =>
          quiet >= timeoutMs

LEMMA BreakerStep ==
    ASSUME BreakerInv, [BreakerNext]_breakerVars
    PROVE  BreakerInv' /\ [BreakerAction]_breakerVars
<1> USE BreakerAssumption DEF BreakerInv, BreakerAction
<1>1. CASE BreakerTick
  BY <1>1 DEF BreakerTick
<1>2. CASE BreakerState
  BY <1>2 DEF BreakerState, Probe
<1>3. ASSUME NEW c \in Callers, BreakerAllow(c)
      PROVE  BreakerInv' /\ [BreakerAction]_breakerVars
  BY <1>3 DEF BreakerAllow, Probe
<1>4. ASSUME NEW c \in Callers, RecordSuccess(c)
      PROVE  BreakerInv' /\ [BreakerAction]_breakerVars
  BY <1>4 DEF RecordSuccess
<1>5. ASSUME NEW c \in Callers, RecordFailure(c)
      PROVE  BreakerInv' /\ [BreakerAction]_breakerVars
  BY <1>5 DEF RecordFailure
<1>6. CASE UNCHANGED breakerVars
  BY <1>6 DEF breakerVars
<1> QED
  BY <1>1, <1>2, <1>3, <1>4, <1>5, <1>6 DEF BreakerNext

\* allow(), recordSuccess() and recordFailure() keep the breaker's promise whatever
\* the order in which late calls report: it closes only after successThreshold
\* successes in a row and a full time-out, trips only on failureThreshold failures
\* or a failed probe, and admits nothing while it is open and the time-out runs.
THEOREM BreakerAlwaysSound == BreakerSpec => BreakerSound
<1>1. BreakerInit => BreakerInv
  BY BreakerAssumption DEF BreakerInit, BreakerInv
<1>2. BreakerInv /\ [BreakerNext]_breakerVars => BreakerInv' /\ [BreakerAction]_breakerVars
  BY BreakerStep
<1> QED
  BY <1>1, <1>2, PTL DEF BreakerSpec, BreakerSound, BreakerAction

-----------------------------------------------------------------------------
(* Redlock *)

\* Each call of acquire has a token of its own, and the key of a client that holds
\* the lock is there until it expires.
LockInv ==
    /\ tokens \in Nat /\ store \in Nat
    /\ holder \in [Clients -> [pc : {"out", "try", "held"}, token : Nat]]
    /\ \A c \in Clients : holder[c].pc # "out" => holder[c].token \in 1 .. tokens
    /\ \A c, d \in Clients :
          c # d /\ holder[c].pc # "out" /\ holder[d].pc # "out" =>
             holder[c].token # holder[d].token
    /\ \A c \in Clients :
          holder[c].pc = "held" /\ holder[c].token \notin lapsed => store = holder[c].token

\* One client changes its place and keeps its token.
LEMMA HolderMoves ==
    ASSUME LockInv, NEW c \in Clients, NEW p \in {"try", "held"}, holder[c].pc # "out",
           holder' = [holder EXCEPT ![c].pc = p]
    PROVE  /\ holder' \in [Clients -> [pc : {"out", "try", "held"}, token : Nat]]
           /\ holder'[c].pc = p /\ holder'[c].token = holder[c].token
           /\ \A d \in Clients : d # c => holder'[d] = holder[d]
  BY DEF LockInv

\* One client leaves, and the key of every other one is as it should be.
LEMMA HolderLeaves ==
    ASSUME LockInv, NEW c \in Clients, holder' = [holder EXCEPT ![c] = Out],
           tokens' = tokens, lapsed' = lapsed, store' \in Nat,
           \A d \in Clients : d # c /\ holder[d].pc = "held" /\ holder[d].token \notin lapsed
                                => store' = holder[d].token
    PROVE  LockInv'
<1>1. Out \in [pc : {"out", "try", "held"}, token : Nat] /\ Out.pc = "out"
  BY DEF Out
<1>2. /\ holder' \in [Clients -> [pc : {"out", "try", "held"}, token : Nat]]
      /\ holder'[c].pc = "out" /\ "out" # "held"
      /\ \A d \in Clients : d # c => holder'[d] = holder[d]
  BY <1>1 DEF LockInv
<1>3. \A d \in Clients : holder'[d].pc # "out" => d # c /\ holder'[d] = holder[d]
  BY <1>2
<1>4. /\ \A d \in Clients : holder'[d].pc # "out" => holder'[d].token \in 1 .. tokens'
      /\ \A d, e \in Clients :
            d # e /\ holder'[d].pc # "out" /\ holder'[e].pc # "out" =>
               holder'[d].token # holder'[e].token
  BY <1>3, Zenon DEF LockInv
<1>5. \A d \in Clients :
         holder'[d].pc = "held" /\ holder'[d].token \notin lapsed' => store' = holder'[d].token
  BY <1>2, Zenon
<1> QED
  BY <1>2, <1>4, <1>5 DEF LockInv

LEMMA LockAcquireStep ==
    ASSUME LockInv, NEW c \in Clients, LockAcquire(c)
    PROVE  LockInv'
<1>1. /\ tokens' = tokens + 1 /\ store' = store /\ lapsed' = lapsed
      /\ holder' = [holder EXCEPT ![c] = [pc |-> "try", token |-> tokens + 1]]
  BY DEF LockAcquire, GenerateToken
<1>2. /\ holder' \in [Clients -> [pc : {"out", "try", "held"}, token : Nat]]
      /\ holder'[c].pc = "try" /\ holder'[c].token = tokens + 1
      /\ \A d \in Clients : d # c => holder'[d] = holder[d]
  BY <1>1 DEF LockInv
<1>3. \A d \in Clients : holder'[d].pc # "out" => holder'[d].token \in 1 .. tokens'
  BY <1>1, <1>2 DEF LockInv
<1>4. ASSUME NEW d \in Clients, NEW e \in Clients, d # e,
             holder'[d].pc # "out", holder'[e].pc # "out"
      PROVE  holder'[d].token # holder'[e].token
  BY <1>2, <1>4 DEF LockInv
<1>5. \A d \in Clients :
         holder'[d].pc = "held" /\ holder'[d].token \notin lapsed' => store' = holder'[d].token
  BY <1>1, <1>2 DEF LockInv
<1>6. tokens' \in Nat /\ store' \in Nat
  BY <1>1 DEF LockInv
<1> QED
  BY <1>2, <1>3, <1>4, <1>5, <1>6 DEF LockInv

LEMMA TrySetStep ==
    ASSUME LockInv, NEW c \in Clients, TrySet(c)
    PROVE  LockInv'
<1>1. PICK reached \in BOOLEAN, reply \in BOOLEAN :
         LET ok == reached /\ store = 0 IN
         /\ store' = IF ok THEN holder[c].token ELSE store
         /\ \/ ok /\ reply /\ holder' = [holder EXCEPT ![c].pc = "held"]
            \/ ~(ok /\ reply) /\ holder' = [holder EXCEPT ![c] = Out]
            \/ ~(ok /\ reply) /\ UNCHANGED holder
  BY DEF TrySet
<1>2. tokens' = tokens /\ lapsed' = lapsed /\ holder[c].pc = "try"
  BY DEF TrySet
<1>3. holder[c].token \in 1 .. tokens
  BY <1>2 DEF LockInv
<1>4. /\ store' = store \/ (store = 0 /\ store' = holder[c].token)
      /\ holder' = holder \/ holder' = [holder EXCEPT ![c] = Out]
         \/ (holder' = [holder EXCEPT ![c].pc = "held"] /\ store' = holder[c].token)
  BY <1>1
<1>5. store' \in Nat
  BY <1>3, <1>4 DEF LockInv
<1>6. ASSUME NEW d \in Clients, holder[d].pc = "held", holder[d].token \notin lapsed
      PROVE  store' = holder[d].token
  BY <1>4, <1>6 DEF LockInv
<1>7. CASE holder' = holder
  BY <1>2, <1>5, <1>6, <1>7 DEF LockInv
<1>8. CASE holder' = [holder EXCEPT ![c] = Out]
  BY <1>2, <1>5, <1>6, <1>8, HolderLeaves, Zenon
<1>9. CASE holder' = [holder EXCEPT ![c].pc = "held"] /\ store' = holder[c].token
  BY <1>2, <1>5, <1>6, <1>9, HolderMoves DEF LockInv
<1> QED
  BY <1>4, <1>7, <1>8, <1>9

LEMMA LockReleaseStep ==
    ASSUME LockInv, NEW c \in Clients, LockRelease(c)
    PROVE  LockInv'
<1>1. /\ store' = store \/ (store = holder[c].token /\ store' = 0)
      /\ holder[c].pc = "held" /\ holder' = [holder EXCEPT ![c] = Out]
      /\ tokens' = tokens /\ lapsed' = lapsed
  BY DEF LockRelease
<1>2. store' \in Nat
  BY <1>1 DEF LockInv
<1>3. ASSUME NEW d \in Clients, d # c, holder[d].pc = "held", holder[d].token \notin lapsed
      PROVE  store' = holder[d].token
  BY <1>1, <1>3 DEF LockInv
<1> QED
  BY <1>1, <1>2, <1>3, HolderLeaves, Zenon

\* The script of release() compares the token and SET NX writes only an absent key:
\* while the key of a holder has not expired nobody else can take the lock, whatever
\* commands and replies are lost, for any number of clients and attempts.
THEOREM LockAlwaysExclusive == LockSpec => []LockExclusive
<1>1. LockInit => LockInv
  BY DEF LockInit, LockInv, Out
<1>2. LockInv /\ [LockNext]_lockVars => LockInv'
  <2> SUFFICES ASSUME LockInv, [LockNext]_lockVars PROVE LockInv'
    OBVIOUS
  <2>1. CASE Expire
    BY <2>1 DEF Expire, LockInv
  <2>2. CASE UNCHANGED lockVars
    BY <2>2 DEF lockVars, LockInv
  <2> QED
    BY <2>1, <2>2, LockAcquireStep, TrySetStep, LockReleaseStep DEF LockNext
<1>3. LockInv => LockExclusive
  BY DEF LockInv, LockExclusive, IsHeldByMe
<1> QED
  BY <1>1, <1>2, <1>3, PTL DEF LockSpec

-----------------------------------------------------------------------------
(* EtcdClient *)

EtcdInv ==
    /\ kv \in [Keys -> [value : {0} \cup Values, lease : Nat]]
    /\ granted \in Nat /\ mine \in Nat /\ leases \subseteq Nat
    /\ lastSnapshot_ \in [Keys -> {0} \cup Values]
    /\ WatchAddsUp

LEMMA PollOnceStep ==
    ASSUME EtcdInv, PollOnce
    PROVE  EtcdInv'
<1>1. PICK cur \in GetPrefix :
         LET added   == {k \in Keys : lastSnapshot_[k] = 0 /\ cur[k] # 0}
             updated == {k \in Keys : lastSnapshot_[k] # 0 /\ cur[k] \notin {0, lastSnapshot_[k]}}
             removed == {k \in Keys : lastSnapshot_[k] # 0 /\ cur[k] = 0}
         IN  /\ view' = [k \in Keys |-> CASE k \in added \cup updated -> cur[k]
                                          [] k \in removed -> 0
                                          [] OTHER -> view[k]]
             /\ lastSnapshot_' = cur
  BY DEF PollOnce
<1>2. cur \in [Keys -> {0} \cup Values]
  BY DEF EtcdInv, GetPrefix, NoKeys
<1>3. ASSUME NEW k \in Keys PROVE view'[k] = cur[k]
  BY <1>1 DEF EtcdInv, WatchAddsUp
<1>4. view' = cur
  <2>1. view' = [k \in Keys |-> view'[k]]
    BY <1>1
  <2>2. cur = [k \in Keys |-> cur[k]]
    BY <1>2
  <2> QED
    BY <1>3, <2>1, <2>2, Zenon
<1>5. UNCHANGED <<kv, leases, granted, mine>>
  BY DEF PollOnce
<1> QED
  BY <1>1, <1>2, <1>4, <1>5 DEF EtcdInv, WatchAddsUp

LEMMA EtcdStep ==
    ASSUME EtcdInv, [EtcdNext]_etcdVars
    PROVE  EtcdInv'
<1> USE DEF EtcdInv, WatchAddsUp
<1>1. CASE GrantLease
  BY <1>1 DEF GrantLease
<1>2. CASE LeaseExpires
  <2>1. PICK l \in leases :
           /\ leases' = leases \ {l}
           /\ kv' = [k \in Keys |-> IF kv[k].lease = l THEN Absent ELSE kv[k]]
           /\ UNCHANGED <<granted, mine, lastSnapshot_, view>>
    BY <1>2 DEF LeaseExpires
  <2>2. \A k \in Keys : kv'[k] = IF kv[k].lease = l THEN Absent ELSE kv[k]
    BY <2>1
  <2>3. \A k \in Keys : kv'[k] # Absent => kv'[k].lease \in leases'
    BY <2>1, <2>2
  <2>4. kv' \in [Keys -> [value : {0} \cup Values, lease : Nat]]
    BY <2>1 DEF Absent
  <2> QED
    BY <2>1, <2>3, <2>4
<1>3. CASE Put
  <2>1. PICK k \in Keys, v \in Values : kv' = [kv EXCEPT ![k] = [value |-> v, lease |-> mine]]
    BY <1>3, Zenon DEF Put
  <2>2. mine \in leases /\ UNCHANGED <<leases, granted, mine, lastSnapshot_, view>>
    BY <1>3 DEF Put
  <2>3. /\ kv'[k].lease = mine /\ \A j \in Keys : j # k => kv'[j] = kv[j]
        /\ kv' \in [Keys -> [value : {0} \cup Values, lease : Nat]]
    BY <2>1
  <2> QED
    BY <2>2, <2>3
<1>4. CASE Del
  <2>1. PICK k \in Keys : kv' = [kv EXCEPT ![k] = Absent]
    BY <1>4, Zenon DEF Del
  <2>2. UNCHANGED <<leases, granted, mine, lastSnapshot_, view>>
    BY <1>4 DEF Del
  <2>3. kv'[k] = Absent /\ \A j \in Keys : j # k => kv'[j] = kv[j]
    BY <2>1
  <2>4. kv' \in [Keys -> [value : {0} \cup Values, lease : Nat]]
    BY <2>1 DEF Absent
  <2> QED
    BY <2>2, <2>3, <2>4
<1>5. CASE KeepAlive
  BY <1>5 DEF KeepAlive
<1>6. CASE PollOnce
  BY <1>6, PollOnceStep
<1>7. CASE UNCHANGED etcdVars
  BY <1>7 DEF etcdVars
<1> QED
  BY <1>1, <1>2, <1>3, <1>4, <1>5, <1>6, <1>7 DEF EtcdNext

\* The differences pollOnce() reports add up to the last result of getPrefix()
\* whatever requests fail and leases expire, and no key outlives its lease, for any
\* keys, values and number of leases.
THEOREM WatchAlwaysAddsUp == EtcdSpec => []WatchAddsUp
<1>1. EtcdInit => EtcdInv
  BY DEF EtcdInit, EtcdInv, WatchAddsUp, Absent, NoKeys
<1>2. EtcdInv /\ [EtcdNext]_etcdVars => EtcdInv'
  BY EtcdStep
<1>3. EtcdInv => WatchAddsUp
  BY DEF EtcdInv
<1> QED
  BY <1>1, <1>2, <1>3, PTL DEF EtcdSpec

-----------------------------------------------------------------------------
(* ObjectPool *)

In(s) == {s[i] : i \in 1 .. Len(s)}
Once(s) == \A i, j \in 1 .. Len(s) : s[i] = s[j] => i = j

Fates == {"none", "spare", "held", "returning", "deleted"}

\* The list holds each spare object once, and objects are made in order.
PlacesInv ==
    /\ objects \in [Objects -> Fates]
    /\ spare \in Seq(Objects) /\ Once(spare)
    /\ In(spare) = {o \in Objects : objects[o] = "spare"}
    /\ created \in Nat
    /\ {o \in Objects : objects[o] # "none"} = 1 .. created

\* The core is there while somebody uses it, and takes its spare objects along.
CoreInv ==
    /\ poolAlive \/ (\E o \in Objects : objects[o] = "returning") => coreAlive
    /\ ~coreAlive => \A o \in Objects : objects[o] \in {"none", "held", "deleted"}

ObjectInv == PlacesInv /\ CoreInv

LEMMA AppendOnce ==
    ASSUME NEW S, NEW s \in Seq(S), NEW e \in S
    PROVE  /\ Append(s, e) \in Seq(S) /\ In(Append(s, e)) = In(s) \cup {e}
           /\ Once(s) /\ e \notin In(s) => Once(Append(s, e))
<1>1. /\ Len(s) \in Nat /\ Len(Append(s, e)) = Len(s) + 1 /\ Append(s, e)[Len(s) + 1] = e
      /\ Append(s, e) \in Seq(S) /\ \A i \in 1 .. Len(s) : Append(s, e)[i] = s[i]
  BY AppendProperties, LenProperties
<1>2. 1 .. (Len(s) + 1) = (1 .. Len(s)) \cup {Len(s) + 1} /\ Len(s) + 1 \notin 1 .. Len(s)
  BY <1>1
<1>3. In(Append(s, e)) = In(s) \cup {e}
  BY <1>1, <1>2, Zenon DEF In
<1>4. ASSUME Once(s), e \notin In(s) PROVE Once(Append(s, e))
  <2> SUFFICES ASSUME NEW i \in 1 .. Len(Append(s, e)), NEW j \in 1 .. Len(Append(s, e)),
                      Append(s, e)[i] = Append(s, e)[j], i # j
               PROVE  FALSE
    BY Zenon DEF Once
  <2>1. \A k \in 1 .. Len(s) : s[k] # e
    BY <1>4, Zenon DEF In
  <2>2. i \in 1 .. Len(s) \/ i = Len(s) + 1
    BY <1>1, <1>2
  <2>3. j \in 1 .. Len(s) \/ j = Len(s) + 1
    BY <1>1, <1>2
  <2> QED
    BY <1>1, <1>4, <2>1, <2>2, <2>3, Zenon DEF Once
<1> QED
  BY <1>1, <1>3, <1>4

LEMMA FrontOnce ==
    ASSUME NEW S, NEW s \in Seq(S), s # <<>>, Once(s)
    PROVE  LET l == s[Len(s)]
               f == SubSeq(s, 1, Len(s) - 1)
           IN  /\ l \in S /\ f \in Seq(S) /\ Once(f)
               /\ l \in In(s) /\ In(f) = In(s) \ {l}
<1> DEFINE n == Len(s)
           f == SubSeq(s, 1, n - 1)
<1>1. n \in Nat \ {0} /\ \A i \in 1 .. n : s[i] \in S
  BY EmptySeq, LenProperties, ElementOfSeq
<1> HIDE DEF n
<1>2. \A i \in 1 .. (n - 1) : s[i] \in S
  BY <1>1
<1>3. f \in Seq(S) /\ Len(f) = n - 1 /\ \A i \in 1 .. (n - 1) : f[i] = s[i]
  <2>1. 1 \in Int /\ n - 1 \in Int
    BY <1>1
  <2>2. /\ f \in Seq(S)
        /\ Len(f) = IF 1 <= n - 1 THEN (n - 1) - 1 + 1 ELSE 0
        /\ \A i \in 1 .. (n - 1) - 1 + 1 : f[i] = s[1 + i - 1]
    BY <1>2, <2>1, SubSeqProperties
  <2> HIDE DEF f
  <2>3. (n - 1) - 1 + 1 = n - 1 /\ (IF 1 <= n - 1 THEN (n - 1) - 1 + 1 ELSE 0) = n - 1
    BY <1>1
  <2>4. \A i \in 1 .. (n - 1) : 1 + i - 1 = i
    BY <1>1
  <2> QED
    BY <2>2, <2>3, <2>4, Zenon
<1> HIDE DEF f
<1>4. 1 .. n = (1 .. (n - 1)) \cup {n} /\ n \notin 1 .. (n - 1) /\ n \in 1 .. n
  BY <1>1
<1>5. s[n] \in S /\ s[n] \in In(s)
  BY <1>1, <1>4 DEF In, n
<1>6. Once(f)
  BY <1>3, <1>4, Zenon DEF Once, n
<1>7. ASSUME NEW i \in 1 .. (n - 1) PROVE f[i] \in In(s) /\ f[i] # s[n]
  BY <1>3, <1>4, Zenon DEF Once, In, n
<1>8. ASSUME NEW i \in 1 .. n, s[i] # s[n] PROVE s[i] \in In(f)
  BY <1>3, <1>4, <1>8, Zenon DEF In, n
<1>9. In(f) = In(s) \ {s[n]}
  BY <1>3, <1>7, <1>8, Zenon DEF In, n
<1> QED
  BY <1>3, <1>5, <1>6, <1>9 DEF f, n

\* Objects are numbered in the order in which they are made.
LEMMA ObjectNumbers ==
    ASSUME ObjectInv
    PROVE  /\ Cardinality(Objects) \in Nat /\ Objects = 1 .. Cardinality(Objects)
           /\ \A o \in Objects : o \in Nat /\ (objects[o] # "none" <=> o <= created)
           /\ created <= Cardinality(Objects)
<1>1. PICK N \in Nat : Objects = 1 .. N /\ initialSize \in 0 .. N
  BY ObjectAssumption, FS_CardinalityType
<1>2. Cardinality(Objects) = N
  BY <1>1, FS_Interval
<1>3. created \in Nat /\ {o \in Objects : objects[o] # "none"} = 1 .. created
  BY DEF ObjectInv, PlacesInv
<1>4. ASSUME NEW o \in Objects PROVE o \in Nat /\ (objects[o] # "none" <=> o <= created)
  BY <1>1, <1>3
<1>5. created <= N
  <2>1. 1 .. created \subseteq 1 .. N
    BY <1>1, <1>3
  <2> QED
    BY <1>3, <2>1
<1> QED
  BY <1>1, <1>2, <1>4, <1>5

LEMMA ObjectAcquireStep ==
    ASSUME ObjectInv, ObjectAcquire
    PROVE  ObjectInv'
<1>1. poolAlive /\ coreAlive /\ UNCHANGED <<poolAlive, coreAlive>>
  BY DEF ObjectAcquire, ObjectInv, CoreInv
<1>2. /\ objects \in [Objects -> Fates] /\ spare \in Seq(Objects) /\ Once(spare)
      /\ In(spare) = {o \in Objects : objects[o] = "spare"} /\ created \in Nat
      /\ {o \in Objects : objects[o] # "none"} = 1 .. created
  BY DEF ObjectInv, PlacesInv
<1>3. CoreInv'
  BY <1>1, Zenon DEF CoreInv
<1>4. CASE /\ spare # <<>>
           /\ objects' = [objects EXCEPT ![spare[Len(spare)]] = "held"]
           /\ spare' = SubSeq(spare, 1, Len(spare) - 1) /\ created' = created
  <2>1. PICK l \in Objects : l = spare[Len(spare)]
    BY <1>2, <1>4, FrontOnce
  <2>2. /\ spare' \in Seq(Objects) /\ Once(spare')
        /\ l \in In(spare) /\ In(spare') = In(spare) \ {l}
    BY <1>2, <1>4, <2>1, FrontOnce
  <2>3. /\ objects' \in [Objects -> Fates] /\ objects'[l] = "held"
        /\ \A o \in Objects : o # l => objects'[o] = objects[o]
    BY <1>2, <1>4, <2>1 DEF Fates
  <2>4. objects[l] = "spare"
    BY <1>2, <2>2
  <2>5. In(spare') = {o \in Objects : objects'[o] = "spare"}
    BY <1>2, <2>2, <2>3
  <2>6. {o \in Objects : objects'[o] # "none"} = 1 .. created
    BY <1>2, <2>3, <2>4
  <2>7. PlacesInv'
    BY <1>2, <1>4, <2>2, <2>3, <2>5, <2>6 DEF PlacesInv
  <2> QED
    BY <1>3, <2>7 DEF ObjectInv
<1>5. CASE /\ spare = <<>> /\ created < Cardinality(Objects)
           /\ objects' = [objects EXCEPT ![created + 1] = "held"]
           /\ created' = created + 1 /\ spare' = spare
  <2>1. PICK l \in Objects : l = created + 1
    BY <1>2, <1>5, ObjectNumbers
  <2>2. /\ objects' \in [Objects -> Fates] /\ objects'[l] = "held"
        /\ \A o \in Objects : o # l => objects'[o] = objects[o]
    BY <1>2, <1>5, <2>1 DEF Fates
  <2>3. objects[l] = "none"
    BY <1>2, <2>1, ObjectNumbers
  <2>4. In(spare') = {o \in Objects : objects'[o] = "spare"}
    BY <1>2, <1>5, <2>2, <2>3
  <2>5. {o \in Objects : objects'[o] # "none"} = (1 .. created) \cup {l}
    BY <1>2, <2>2
  <2>6. (1 .. created) \cup {l} = 1 .. created' /\ created' \in Nat
    BY <1>2, <1>5, <2>1
  <2>7. PlacesInv'
    BY <1>2, <1>5, <2>2, <2>4, <2>5, <2>6 DEF PlacesInv
  <2> QED
    BY <1>3, <2>7 DEF ObjectInv
<1> QED
  BY <1>4, <1>5 DEF ObjectAcquire

LEMMA DeleterLockStep ==
    ASSUME ObjectInv, NEW o \in Objects, DeleterLock(o)
    PROVE  ObjectInv'
<1>1. PICK f \in {"returning", "deleted"} : f = IF coreAlive THEN "returning" ELSE "deleted"
  OBVIOUS
<1>2. /\ objects[o] = "held" /\ objects' = [objects EXCEPT ![o] = f]
      /\ spare' = spare /\ created' = created /\ poolAlive' = poolAlive /\ coreAlive' = coreAlive
  BY <1>1 DEF DeleterLock
<1>3. /\ objects \in [Objects -> Fates] /\ spare \in Seq(Objects) /\ Once(spare)
      /\ In(spare) = {p \in Objects : objects[p] = "spare"} /\ created \in Nat
      /\ {p \in Objects : objects[p] # "none"} = 1 .. created
  BY DEF ObjectInv, PlacesInv
<1>4. /\ objects' \in [Objects -> Fates] /\ objects'[o] = f
      /\ \A p \in Objects : p # o => objects'[p] = objects[p]
  BY <1>2, <1>3 DEF Fates
<1>5. In(spare') = {p \in Objects : objects'[p] = "spare"}
  BY <1>2, <1>3, <1>4
<1>6. {p \in Objects : objects'[p] # "none"} = 1 .. created'
  BY <1>2, <1>3, <1>4
<1>7. CoreInv'
  <2>1. f = "returning" => coreAlive
    BY <1>1
  <2>2. ~coreAlive => f = "deleted"
    BY <1>1
  <2>3. /\ poolAlive => coreAlive
        /\ (\E p \in Objects : objects[p] = "returning") => coreAlive
        /\ ~coreAlive => \A p \in Objects : objects[p] \in {"none", "held", "deleted"}
    BY Zenon DEF ObjectInv, CoreInv
  <2> QED
    BY <1>2, <1>4, <2>1, <2>2, <2>3, Zenon DEF CoreInv
<1> QED
  BY <1>2, <1>3, <1>4, <1>5, <1>6, <1>7 DEF ObjectInv, PlacesInv

\* The core goes with the objects in the list: nobody uses it any more.
LEMMA DropCoreStep ==
    ASSUME PlacesInv, NEW objs \in [Objects -> Fates], NEW rest \in Seq(Objects),
           In(rest) = {o \in Objects : objs[o] = "spare"},
           {o \in Objects : objs[o] # "none"} = 1 .. created,
           \A o \in Objects : objs[o] # "returning",
           DropCore(objs, rest), created' = created, ~poolAlive'
    PROVE  ObjectInv'
<1>1. /\ coreAlive' = FALSE /\ spare' = <<>>
      /\ objects' = [o \in Objects |->
                       IF \E i \in DOMAIN rest : rest[i] = o THEN "deleted" ELSE objs[o]]
  BY DEF DropCore
<1>2. \A o \in Objects : (\E i \in DOMAIN rest : rest[i] = o) <=> objs[o] = "spare"
  <2>1. DOMAIN rest = 1 .. Len(rest)
    BY LenProperties
  <2> QED
    BY <2>1, Zenon DEF In
<1>3. \A o \in Objects : objects'[o] = IF objs[o] = "spare" THEN "deleted" ELSE objs[o]
  BY <1>1, <1>2
<1>4. objects' \in [Objects -> Fates]
  BY <1>1 DEF Fates
<1>5. \A o \in Objects : objects'[o] \in {"none", "held", "deleted"}
  BY <1>3 DEF Fates
<1>6. \A o \in Objects : objects'[o] # "none" <=> objs[o] # "none"
  BY <1>3
<1>7. In(spare') = {} /\ Once(spare') /\ spare' \in Seq(Objects)
  BY <1>1 DEF In, Once
<1>8. {} = {o \in Objects : objects'[o] = "spare"}
  BY <1>5
<1>9. {o \in Objects : objects'[o] # "none"} = 1 .. created'
  BY <1>6
<1>10. PlacesInv'
  BY <1>4, <1>7, <1>8, <1>9 DEF PlacesInv
<1>11. CoreInv'
  <2>1. \A o \in Objects : objects'[o] # "returning"
    BY <1>5
  <2> QED
    BY <1>5, <2>1, Zenon DEF CoreInv
<1> QED
  BY <1>10, <1>11 DEF ObjectInv

LEMMA DeleterReturnStep ==
    ASSUME ObjectInv, NEW o \in Objects, DeleterReturn(o)
    PROVE  ObjectInv'
<1>1. objects[o] = "returning" /\ created' = created /\ poolAlive' = poolAlive
  BY DEF DeleterReturn
<1>2. /\ objects \in [Objects -> Fates] /\ spare \in Seq(Objects) /\ Once(spare)
      /\ In(spare) = {p \in Objects : objects[p] = "spare"} /\ created \in Nat
      /\ {p \in Objects : objects[p] # "none"} = 1 .. created
  BY DEF ObjectInv, PlacesInv
<1>3. PICK objs \in [Objects -> Fates] : objs = [objects EXCEPT ![o] = "spare"]
  BY <1>2, Zenon DEF Fates
<1>4. objs[o] = "spare" /\ \A p \in Objects : p # o => objs[p] = objects[p]
  BY <1>2, <1>3
<1>5. PICK rest \in Seq(Objects) : rest = Append(spare, o)
  BY <1>2, AppendOnce, Zenon
<1>6. o \notin In(spare)
  BY <1>1, <1>2
<1>7. In(rest) = In(spare) \cup {o} /\ Once(rest)
  BY <1>2, <1>5, <1>6, AppendOnce
<1>8. In(rest) = {p \in Objects : objs[p] = "spare"}
  BY <1>2, <1>4, <1>7
<1>9. {p \in Objects : objs[p] # "none"} = 1 .. created
  BY <1>1, <1>2, <1>4
<1>10. CASE ~poolAlive /\ \A p \in Objects \ {o} : objects[p] # "returning"
  <2>1. DropCore(objs, rest)
    BY <1>3, <1>5, <1>10 DEF DeleterReturn
  <2>2. \A p \in Objects : objs[p] # "returning"
    BY <1>4, <1>10
  <2>3. ~poolAlive'
    BY <1>1, <1>10, Zenon
  <2> QED
    BY <1>1, <1>8, <1>9, <2>1, <2>2, <2>3, DropCoreStep DEF ObjectInv
<1>11. CASE ~(~poolAlive /\ \A p \in Objects \ {o} : objects[p] # "returning")
  <2>1. objects' = objs /\ spare' = rest /\ coreAlive' = coreAlive
    BY <1>3, <1>5, <1>11, Zenon DEF DeleterReturn
  <2>2. PlacesInv'
    BY <1>1, <1>2, <1>7, <1>8, <1>9, <2>1 DEF PlacesInv
  <2>3. coreAlive
    BY <1>1, Zenon DEF ObjectInv, CoreInv
  <2>4. CoreInv'
    BY <2>1, <2>3, Zenon DEF CoreInv
  <2> QED
    BY <2>2, <2>4 DEF ObjectInv
<1> QED
  BY <1>10, <1>11, Zenon

LEMMA DestroyPoolStep ==
    ASSUME ObjectInv, DestroyPool
    PROVE  ObjectInv'
<1>1. poolAlive /\ poolAlive' = FALSE /\ created' = created /\ coreAlive
  BY Zenon DEF DestroyPool, ObjectInv, CoreInv
<1>2. /\ objects \in [Objects -> Fates] /\ spare \in Seq(Objects) /\ Once(spare)
      /\ In(spare) = {p \in Objects : objects[p] = "spare"}
      /\ {p \in Objects : objects[p] # "none"} = 1 .. created
  BY DEF ObjectInv, PlacesInv
<1>3. CASE \A o \in Objects : objects[o] # "returning"
  <2>1. DropCore(objects, spare) /\ ~poolAlive'
    BY <1>1, <1>3, Zenon DEF DestroyPool
  <2> QED
    BY <1>1, <1>2, <1>3, <2>1, DropCoreStep DEF ObjectInv
<1>4. CASE ~\A o \in Objects : objects[o] # "returning"
  <2>1. UNCHANGED <<objects, spare, coreAlive>>
    BY <1>4, Zenon DEF DestroyPool
  <2>2. PlacesInv'
    BY <1>1, <2>1 DEF ObjectInv, PlacesInv
  <2>3. CoreInv'
    BY <1>1, <2>1, Zenon DEF CoreInv
  <2> QED
    BY <2>2, <2>3 DEF ObjectInv
<1> QED
  BY <1>3, <1>4, Zenon

LEMMA ObjectStart == ObjectInit => ObjectInv
<1> SUFFICES ASSUME ObjectInit PROVE ObjectInv
  OBVIOUS
<1>1. PICK N \in Nat : Objects = 1 .. N /\ initialSize \in 0 .. N
  BY ObjectAssumption, FS_CardinalityType
<1>2. /\ objects = [o \in Objects |-> IF o <= initialSize THEN "spare" ELSE "none"]
      /\ spare = [i \in 1 .. initialSize |-> i] /\ created = initialSize
      /\ poolAlive = TRUE /\ coreAlive = TRUE
  BY DEF ObjectInit
<1>3. spare \in Seq(Objects) /\ Len(spare) = initialSize /\ \A i \in 1 .. Len(spare) : spare[i] = i
  BY <1>1, <1>2
<1>4. Once(spare) /\ In(spare) = 1 .. initialSize
  BY <1>3, Zenon DEF Once, In
<1>5. /\ objects \in [Objects -> Fates]
      /\ \A o \in Objects : objects[o] = IF o <= initialSize THEN "spare" ELSE "none"
  BY <1>2 DEF Fates
<1>6. 1 .. initialSize = {o \in Objects : objects[o] = "spare"}
  BY <1>1, <1>5
<1>7. {o \in Objects : objects[o] # "none"} = 1 .. initialSize
  BY <1>1, <1>5
<1>8. CoreInv
  BY <1>2, Zenon DEF CoreInv
<1>9. initialSize \in Nat
  BY <1>1
<1> QED
  BY <1>2, <1>3, <1>4, <1>5, <1>6, <1>7, <1>8, <1>9, Zenon DEF ObjectInv, PlacesInv

\* acquire() and the deleter keep every object in exactly one place, the core lives
\* as long as the pool or a deleter that is putting an object back, and what is left
\* in the list goes with it, for any number of objects and holders.
THEOREM ObjectsAlwaysConserved == ObjectSpec => []ObjectsConserved
<1>1. ObjectInv /\ [ObjectNext]_objectVars => ObjectInv'
  <2> SUFFICES ASSUME ObjectInv, [ObjectNext]_objectVars PROVE ObjectInv'
    OBVIOUS
  <2>1. CASE UNCHANGED objectVars
    <3>1. UNCHANGED <<objects, spare, created>> /\ UNCHANGED <<poolAlive, coreAlive>>
      BY <2>1 DEF objectVars
    <3>2. PlacesInv'
      BY <3>1 DEF ObjectInv, PlacesInv
    <3>3. CoreInv'
      BY <3>1, Zenon DEF ObjectInv, CoreInv
    <3> QED
      BY <3>2, <3>3 DEF ObjectInv
  <2> QED
    BY <2>1, ObjectAcquireStep, DestroyPoolStep, DeleterLockStep, DeleterReturnStep DEF ObjectNext
<1>2. ObjectInv => ObjectsConserved
  <2> SUFFICES ASSUME ObjectInv PROVE ObjectsConserved
    OBVIOUS
  <2>1. DOMAIN spare = 1 .. Len(spare)
    BY LenProperties DEF ObjectInv, PlacesInv
  <2>2. ASSUME NEW o \in Objects
        PROVE  Cardinality({i \in DOMAIN spare : spare[i] = o}) = (IF objects[o] = "spare" THEN 1 ELSE 0)
    <3>1. objects[o] = "spare" <=> o \in In(spare)
      BY DEF ObjectInv, PlacesInv
    <3>2. CASE o \in In(spare)
      <4>1. PICK k \in 1 .. Len(spare) : spare[k] = o
        BY <3>2, Zenon DEF In
      <4>2. {i \in DOMAIN spare : spare[i] = o} = {k}
        BY <2>1, <4>1, Zenon DEF ObjectInv, PlacesInv, Once
      <4> QED
        BY <3>1, <3>2, <4>2, FS_Singleton, Zenon
    <3>3. CASE o \notin In(spare)
      <4>1. {i \in DOMAIN spare : spare[i] = o} = {}
        BY <2>1, <3>3, Zenon DEF In
      <4> QED
        BY <3>1, <3>3, <4>1, FS_EmptySet
    <3> QED
      BY <3>2, <3>3
  <2>3. created = Cardinality({o \in Objects : objects[o] # "none"})
    <3>1. {o \in Objects : objects[o] # "none"} = 1 .. created /\ created \in Nat
      BY DEF ObjectInv, PlacesInv
    <3>2. Cardinality(1 .. created) = created
      BY <3>1, FS_Interval
    <3> QED
      BY <3>1, <3>2, Zenon
  <2> QED
    BY <2>2, <2>3, Zenon DEF ObjectsConserved, ObjectInv, CoreInv
<1> QED
  BY <1>1, <1>2, ObjectStart, PTL DEF ObjectSpec
=============================================================================
