----------------------------- MODULE EtcdClient -----------------------------
(* util/EtcdClient.h: a service kept in etcd under a lease, and a watcher  *)
(* that polls the prefix and reports the differences.  A request may fail  *)
(* before etcd executes it or after (the answer is lost): both look alike. *)
EXTENDS Integers, FiniteSets

CONSTANTS
    Keys, Values,
    MaxLeases       \* bound on the leases granted

VARIABLES
    kv,          \* etcd: key -> [value, lease], lease 0 when absent
    leases,         \* etcd: leases alive
    granted,        \* etcd: leases granted so far
    mine,           \* the caller's lease, 0 when none
    lastSnapshot_,  \* the watcher's last result: key -> value, 0 when absent
    view            \* ghost: what the callbacks told their receiver so far

etcdVars == <<kv, leases, granted, mine, lastSnapshot_, view>>

Absent == [value |-> 0, lease |-> 0]
NoKeys == [k \in Keys |-> 0]

EtcdInit ==
    /\ kv = [k \in Keys |-> Absent]
    /\ leases = {} /\ granted = 0 /\ mine = 0
    /\ lastSnapshot_ = NoKeys /\ view = NoKeys

\* grantLease: the id, or 0 when the answer did not come
GrantLease ==
    /\ granted < MaxLeases
    /\ granted' = granted + 1
    /\ leases' = leases \cup {granted + 1}
    /\ mine' \in {0, granted + 1}
    /\ UNCHANGED <<kv, lastSnapshot_, view>>

\* etcd drops a lease that was not kept alive, and its keys
LeaseExpires ==
    \E l \in leases :
       /\ leases' = leases \ {l}
       /\ kv' = [k \in Keys |-> IF kv[k].lease = l THEN Absent ELSE kv[k]]
       /\ UNCHANGED <<granted, mine, lastSnapshot_, view>>

\* put under the caller's lease: refused by etcd when the lease is gone
Put ==
    /\ mine \in leases
    /\ \E k \in Keys, v \in Values : kv' = [kv EXCEPT ![k] = [value |-> v, lease |-> mine]]
    /\ UNCHANGED <<leases, granted, mine, lastSnapshot_, view>>

\* del
Del ==
    /\ \E k \in Keys : kv[k] # Absent /\ kv' = [kv EXCEPT ![k] = Absent]
    /\ UNCHANGED <<leases, granted, mine, lastSnapshot_, view>>

\* keepAlive answers the remaining time, 0 when the lease is gone or the
\* request failed; the caller then asks for a new lease.
KeepAlive ==
    /\ mine # 0
    /\ mine' \in {0} \cup ({mine} \cap leases)
    /\ UNCHANGED <<kv, leases, granted, lastSnapshot_, view>>

\* getPrefix: the keys, and nothing at all when the request failed
GetPrefix == {[k \in Keys |-> kv[k].value], NoKeys}

\* Mutant of PollOnce: a changed value of a known key is not reported.
PollOnceAddedOnly ==
    /\ \E cur \in GetPrefix :
          /\ view' = [k \in Keys |-> IF lastSnapshot_[k] = 0 \/ cur[k] = 0 THEN cur[k] ELSE view[k]]
          /\ lastSnapshot_' = cur
    /\ UNCHANGED <<kv, leases, granted, mine>>

\* pollOnce: added, updated and removed keys are told apart and reported
PollOnce ==
    /\ \E cur \in GetPrefix :
          LET added   == {k \in Keys : lastSnapshot_[k] = 0 /\ cur[k] # 0}
              updated == {k \in Keys : lastSnapshot_[k] # 0 /\ cur[k] \notin {0, lastSnapshot_[k]}}
              removed == {k \in Keys : lastSnapshot_[k] # 0 /\ cur[k] = 0}
          IN  /\ view' = [k \in Keys |-> CASE k \in added \cup updated -> cur[k]
                                           [] k \in removed -> 0
                                           [] OTHER -> view[k]]
              /\ lastSnapshot_' = cur
    /\ UNCHANGED <<kv, leases, granted, mine>>

EtcdNext == GrantLease \/ LeaseExpires \/ Put \/ Del \/ KeepAlive \/ PollOnce

EtcdSpec == EtcdInit /\ [][EtcdNext]_etcdVars

(* The reports of a watcher add up: who applies the added, updated and     *)
(* removed keys of every callback holds exactly the last result, through   *)
(* expiring leases, lost answers and missed changes (EtcdClient.h:150-169).*)
(* A key in etcd always belongs to a lease that is alive.                  *)
WatchAddsUp ==
    /\ view = lastSnapshot_
    /\ \A k \in Keys : kv[k] # Absent => kv[k].lease \in leases
=============================================================================
