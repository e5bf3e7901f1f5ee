------------------------------ MODULE Registry ------------------------------
(* The service registry (registry/): the catalogue of one service and its  *)
(* mutex, the handlers of RegistryServer, the HealthChecker thread, and    *)
(* the RegistryClients with their heartbeat threads.                       *)
(*                                                                         *)
(* A client call is one HTTP request on a connection of its own.  It may   *)
(* be lost, and after five seconds its caller gives up on it while it is   *)
(* still on its way: the registry then serves it late, in any order.       *)
(* Ages count ticks since an instance's last heartbeat.                    *)
EXTENDS Integers, Sequences, FiniteSets

LOCAL INSTANCE SequencesExt

CONSTANTS
    Clients,
    ttl,            \* ticks an instance lives without a heartbeat
    MaxLate,        \* bound on the requests served after their caller gave up
    MaxCalls,       \* bound on the calls of the users of the clients
    MaxRestarts     \* bound on the restarts of the registry

VARIABLES
    catalog,        \* instances of the service, in registration order
    requests,       \* requests on their way
    client,         \* per client: its user thread and its heartbeat thread
    checker,        \* HealthChecker
    calls,          \* calls made
    generated,      \* instance ids generated
    restarts,
    owed, gone      \* ghosts, see CatalogMatchesClients

registryVars == <<catalog, requests, client, checker, calls,
                  generated, restarts, owed, gone>>

NoId == <<>>
OwnId(c) == <<c, 0>>

\* InstanceMeta: what the catalogue's decisions read of it
Instance(id) == [id |-> id, up |-> TRUE, age |-> 0]

\* isExpired()
IsExpired(e) == e.age > ttl

Ids(entries) == {entries[i].id : i \in DOMAIN entries}

NewClient == [alive |-> TRUE, id |-> NoId, main |-> "idle",
              running |-> FALSE, hb |-> "off", instanceId_ |-> NoId]

\* The registry's constructor and start(): an empty catalogue, the checker running.
NewChecker == [pc |-> "check", running |-> TRUE, marked |-> {}, touched |-> {},
               snapshot |-> {}, reported |-> {}]

RegistryInit ==
    /\ catalog = <<>>
    /\ requests = {}
    /\ client = [c \in Clients |-> NewClient]
    /\ checker = NewChecker
    /\ calls = 0 /\ generated = 0
    /\ restarts = 0
    /\ owed = {} /\ gone = {}

(***************************************************************************)
(* The catalogue, each operation under its mutex                           *)
(***************************************************************************)
\* registerInstance: an instance with the same id is replaced where it stands.
RegisterInstance(id) ==
    IF id \in Ids(catalog)
    THEN [i \in DOMAIN catalog |-> IF catalog[i].id = id THEN Instance(id) ELSE catalog[i]]
    ELSE Append(catalog, Instance(id))

\* Mutant of DeregisterInstance: erases the last instance of the list.
DeregisterLast(id) == IF id \in Ids(catalog) THEN Front(catalog) ELSE catalog

\* deregisterInstance; a service left without instances is dropped, which an
\* empty sequence stands for here.
DeregisterInstance(id) == SelectSeq(catalog, LAMBDA e : e.id # id)

\* heartbeat: also brings an instance that was marked DOWN back up.
CatalogHeartbeat(id) ==
    [i \in DOMAIN catalog |-> IF catalog[i].id = id THEN Instance(id) ELSE catalog[i]]

\* discover
Discover == {catalog[i].id : i \in {j \in DOMAIN catalog : catalog[j].up /\ ~IsExpired(catalog[j])}}

\* markExpiredInstancesDown
Marked == {catalog[i].id : i \in {j \in DOMAIN catalog : catalog[j].up /\ IsExpired(catalog[j])}}
MarkDown ==
    [i \in DOMAIN catalog |-> [catalog[i] EXCEPT !.up = @ /\ ~IsExpired(catalog[i])]]

(***************************************************************************)
(* RegistryClient                                                          *)
(***************************************************************************)
Request(c, thread, op, id) == [from |-> c, thread |-> thread, op |-> op, id |-> id, late |-> FALSE]

\* The client's user makes a call.
UserCall(c) ==
    /\ client[c].alive /\ client[c].main = "idle"
    /\ calls < MaxCalls
    /\ calls' = calls + 1

\* registerService, with an id of the caller's or with none
RegisterService(c) ==
    /\ UserCall(c)
    /\ \E id \in {OwnId(c), NoId} :
          /\ requests' = requests \cup {Request(c, "main", "register", id)}
          /\ gone' = gone \ {id}
    /\ client' = [client EXCEPT ![c].main = "call"]
    /\ UNCHANGED <<catalog, checker, generated, restarts, owed>>

\* deregisterService
DeregisterService(c) ==
    /\ UserCall(c) /\ client[c].id # NoId
    /\ requests' = requests \cup {Request(c, "main", "deregister", client[c].id)}
    /\ client' = [client EXCEPT ![c].main = "call"]
    /\ owed' = owed \ {client[c].id}
    /\ UNCHANGED <<catalog, checker, generated, restarts, gone>>

\* startHeartbeat
StartHeartbeat(c) ==
    /\ UserCall(c) /\ client[c].id # NoId
    /\ ~client[c].running
    /\ client' = [client EXCEPT ![c].running = TRUE, ![c].hb = "send",
                                ![c].instanceId_ = client[c].id]
    /\ UNCHANGED <<catalog, requests, checker, generated, restarts, owed, gone>>

\* stop() and the destructor: the flag, the notification, join
ClientStop(c) ==
    /\ UserCall(c) /\ client[c].running
    /\ client' = [client EXCEPT ![c].running = FALSE, ![c].main = "join"]
    /\ UNCHANGED <<catalog, requests, checker, generated, restarts, owed, gone>>

ClientJoin(c) ==
    /\ client[c].alive /\ client[c].main = "join" /\ client[c].hb = "off"
    /\ client' = [client EXCEPT ![c].main = "idle"]
    /\ UNCHANGED <<calls, catalog, requests, checker, generated, restarts, owed, gone>>

\* Mutant of HeartbeatLoop: the flag is not tested between two heartbeats.
HeartbeatLoopForever(c) ==
    /\ client[c].alive
    /\ \/ /\ client[c].hb = "send"
          /\ requests' = requests \cup {Request(c, "hb", "heartbeat", client[c].instanceId_)}
          /\ client' = [client EXCEPT ![c].hb = "call"]
       \/ /\ client[c].hb = "sleep"
          /\ client' = [client EXCEPT ![c].hb = "send"]
          /\ UNCHANGED requests
    /\ UNCHANGED <<calls, catalog, checker, generated, restarts, owed, gone>>

\* heartbeatLoop: test, send, wait for the interval or for stop().  The wait
\* ends by itself when stop()'s notification came too early.
HeartbeatLoop(c) ==
    /\ client[c].alive
    /\ \/ /\ client[c].hb = "send" /\ client[c].running
          /\ requests' = requests \cup {Request(c, "hb", "heartbeat", client[c].instanceId_)}
          /\ client' = [client EXCEPT ![c].hb = "call"]
       \/ /\ client[c].hb = "send" /\ ~client[c].running
          /\ client' = [client EXCEPT ![c].hb = "off"]
          /\ UNCHANGED requests
       \/ /\ client[c].hb = "sleep"
          /\ client' = [client EXCEPT ![c].hb = "send"]
          /\ UNCHANGED requests
    /\ UNCHANGED <<calls, catalog, checker, generated, restarts, owed, gone>>

\* A call returns.  The heartbeat thread does not look at the result.
Returned(r, id) ==
    [client EXCEPT ![r.from] =
        IF r.late THEN @
        ELSE IF r.thread = "hb" THEN [@ EXCEPT !.hb = "sleep"]
        ELSE [@ EXCEPT !.main = "idle", !.id = id]]

\* post(): the receive timeout of SimpleHttpClient
GiveUp5s(r) ==
    /\ r \in requests /\ ~r.late /\ client[r.from].alive
    /\ [r EXCEPT !.late = TRUE] \notin requests
    /\ Cardinality({q \in requests : q.late}) < MaxLate
    /\ requests' = (requests \ {r}) \cup {[r EXCEPT !.late = TRUE]}
    /\ client' = Returned(r, client[r.from].id)
    /\ UNCHANGED <<calls, catalog, checker, generated, restarts, owed, gone>>

\* post(): no connection, or it breaks
Lose(r) ==
    /\ r \in requests
    /\ requests' = requests \ {r}
    /\ client' = Returned(r, client[r.from].id)
    /\ UNCHANGED <<calls, catalog, checker, generated, restarts, owed, gone>>

(***************************************************************************)
(* RegistryServer's handlers.  A body that does not parse or has no        *)
(* instance id is answered with an error and changes nothing.              *)
(***************************************************************************)
Touch(ids) == [checker EXCEPT !.touched = @ \cup (ids \cap checker.marked)]
InFlight(op, id, but) == \E q \in requests \ {but} : q.op = op /\ q.id = id

\* handleRegister; generateInstanceId names an instance that has no id.
HandleRegister(r) ==
    /\ r \in requests /\ r.op = "register"
    /\ LET id == IF r.id = NoId THEN <<r.from, generated + 1>> ELSE r.id IN
       /\ catalog' = RegisterInstance(id)
       /\ generated' = IF r.id = NoId THEN generated + 1 ELSE generated
       /\ client' = Returned(r, id)
       /\ checker' = Touch({id})
       /\ owed' = IF r.late \/ InFlight("deregister", id, r) THEN owed ELSE owed \cup {id}
    /\ requests' = requests \ {r}
    /\ UNCHANGED <<calls, restarts, gone>>

\* handleDeregister
HandleDeregister(r) ==
    /\ r \in requests /\ r.op = "deregister"
    /\ catalog' = DeregisterInstance(r.id)
    /\ LET success == r.id \in Ids(catalog) IN
       /\ client' = Returned(r, IF success THEN NoId ELSE client[r.from].id)
       /\ gone' = IF success /\ ~r.late /\ ~InFlight("register", r.id, r)
                  THEN gone \cup {r.id} ELSE gone
    /\ requests' = requests \ {r}
    /\ checker' = Touch({r.id})
    /\ UNCHANGED <<calls, generated, restarts, owed>>

\* handleHeartbeat
HandleHeartbeat(r) ==
    /\ r \in requests /\ r.op = "heartbeat"
    /\ catalog' = CatalogHeartbeat(r.id)
    /\ client' = Returned(r, client[r.from].id)
    /\ requests' = requests \ {r}
    /\ checker' = Touch({r.id})
    /\ UNCHANGED <<calls, generated, restarts, owed, gone>>

\* The request line discoverService sends, and what parseRequestLine makes of
\* it: the part after the question mark is not in path any more.
DiscoverTarget == <<"/api/v1/registry/discover", "?", "serviceName=svc">>
ParsedPath(target) == SelectInSeq(target, LAMBDA part : part = "?") - 1

\* getQueryParam: looks for the parameter after a question mark of path.
HasQueryParam(path) == \E i \in DOMAIN path : path[i] = "?" /\ i < Len(path)

\* discoverService and handleDiscover, which reads serviceName from req.path;
\* an error is no instances to the caller.
DiscoverService ==
    IF HasQueryParam(SubSeq(DiscoverTarget, 1, ParsedPath(DiscoverTarget)))
    THEN Discover ELSE {}

(***************************************************************************)
(* HealthChecker                                                           *)
(***************************************************************************)
\* getAllServices, of which those that are DOWN matter
Down == {catalog[i].id : i \in {j \in DOMAIN catalog : ~catalog[j].up}}

\* Mutant of CheckOnce: asks the catalogue for the services before it marks.
CheckOnceSnapshotFirst ==
    /\ checker.pc = "check" /\ checker.running
    /\ catalog' = MarkDown
    /\ checker' = [checker EXCEPT !.pc = IF Marked = {} THEN "sleep" ELSE "report",
                     !.marked = Marked, !.touched = {}, !.snapshot = Down]
    /\ UNCHANGED <<calls, requests, client, generated, restarts, owed, gone>>

\* checkOnce: mark; if something was marked, ask the catalogue again.
CheckOnce ==
    /\ checker.pc = "check" /\ checker.running
    /\ catalog' = MarkDown
    /\ checker' = [checker EXCEPT !.pc = IF Marked = {} THEN "sleep" ELSE "snapshot",
                     !.marked = Marked, !.touched = {}]
    /\ UNCHANGED <<calls, requests, client, generated, restarts, owed, gone>>

\* The second look at the catalogue
CheckSnapshot ==
    /\ checker.pc = "snapshot"
    /\ checker' = [checker EXCEPT !.pc = "report", !.snapshot = Down]
    /\ UNCHANGED <<calls, catalog, requests, client, generated, restarts, owed, gone>>

\* The states are read without the mutex: of an instance that a heartbeat is
\* touching, the old or the new state is seen.
CheckReport ==
    /\ checker.pc = "report"
    /\ \E racing \in SUBSET (checker.snapshot \cap checker.touched) :
          checker' = [checker EXCEPT !.pc = "sleep", !.snapshot = {},
                        !.reported = checker.snapshot \ racing]
    /\ UNCHANGED <<calls, catalog, requests, client, generated, restarts, owed, gone>>

\* checkLoop: the wait ends after the interval or at stop(), the flag is tested
CheckLoop ==
    /\ \/ checker.pc = "sleep"
          /\ checker' = [NewChecker EXCEPT !.running = checker.running]
       \/ checker.pc = "check" /\ ~checker.running
          /\ checker' = [checker EXCEPT !.pc = "off"]
    /\ UNCHANGED <<calls, catalog, requests, client, generated, restarts, owed, gone>>

\* stop(); its join ends when the thread is off
CheckerStop ==
    /\ checker.running
    /\ checker' = [checker EXCEPT !.running = FALSE]
    /\ UNCHANGED <<calls, catalog, requests, client, generated, restarts, owed, gone>>

\* cleanExpired, called by the owner of the checker: the instances leave the
\* catalogue; cleaned ones are not owed any more.
CleanExpired ==
    LET fresh == SelectSeq(catalog, LAMBDA e : ~IsExpired(e)) IN
    /\ fresh # catalog
    /\ catalog' = fresh
    /\ owed' = owed \cap Ids(fresh)
    /\ checker' = Touch(Ids(catalog) \ Ids(fresh))
    /\ UNCHANGED <<calls, requests, client, generated, restarts, gone>>

(***************************************************************************)
(* Time and failures                                                       *)
(***************************************************************************)
Tick ==
    /\ \E i \in DOMAIN catalog : ~IsExpired(catalog[i])
    /\ catalog' = [i \in DOMAIN catalog |->
                     [catalog[i] EXCEPT !.age = IF IsExpired(catalog[i]) THEN @ ELSE @ + 1]]
    /\ UNCHANGED <<calls, requests, client, checker, generated, restarts, owed, gone>>

\* A client's process dies; what it sent may still arrive.
Die(c) ==
    /\ client[c].alive
    /\ client' = [client EXCEPT ![c] = [NewClient EXCEPT !.alive = FALSE]]
    /\ requests' = {[r EXCEPT !.late = @ \/ r.from = c] : r \in requests}
    /\ UNCHANGED <<calls, catalog, checker, generated, restarts, owed, gone>>

\* The registry's process dies and is started again: the catalogue is only in
\* memory, and every connection breaks.
Restart ==
    /\ restarts < MaxRestarts
    /\ restarts' = restarts + 1
    /\ catalog' = <<>>
    /\ requests' = {}
    /\ client' = [c \in Clients |->
                    [client[c] EXCEPT !.main = IF @ = "call" THEN "idle" ELSE @,
                                      !.hb = IF @ = "call" THEN "sleep" ELSE @]]
    /\ checker' = NewChecker
    /\ owed' = {}
    /\ UNCHANGED <<calls, generated, gone>>

Serve == \E r \in requests : HandleRegister(r) \/ HandleDeregister(r) \/ HandleHeartbeat(r)
CheckerThread == CheckOnce \/ CheckSnapshot \/ CheckReport \/ CheckLoop

RegistryNext ==
    \/ \E c \in Clients :
          \/ RegisterService(c) \/ DeregisterService(c) \/ StartHeartbeat(c)
          \/ ClientStop(c) \/ ClientJoin(c) \/ HeartbeatLoop(c)
          \/ Die(c)
    \/ \E r \in requests : GiveUp5s(r) \/ Lose(r)
    \/ Serve
    \/ CheckerThread \/ CheckerStop \/ CleanExpired
    \/ Tick \/ Restart

(* Every thread that can take a step does; the registry serves what        *)
(* reaches it; time passes.                                                *)
RegistryFairness ==
    /\ WF_registryVars(Serve)
    /\ WF_registryVars(CheckerThread)
    /\ WF_registryVars(Tick)
    /\ \A c \in Clients : WF_registryVars(HeartbeatLoop(c) \/ ClientJoin(c))

RegistrySpec == RegistryInit /\ [][RegistryNext]_registryVars /\ RegistryFairness

(***************************************************************************)
(* Properties                                                              *)
(***************************************************************************)
(* No instance is listed twice; an instance whose registration was         *)
(* confirmed is listed until its client asks for its removal, it is        *)
(* cleaned as expired or the registry restarts; and one whose removal was  *)
(* confirmed stays out until it is registered again.  Requests served late *)
(* change this only if they were on their way at the confirmation          *)
(* (ServiceCatalog.h:62-129, RegistryServer.h:86-167).                     *)
CatalogMatchesClients ==
    /\ IsInjective([i \in DOMAIN catalog |-> catalog[i].id])
    /\ owed \subseteq Ids(catalog)
    /\ gone \cap Ids(catalog) = {}

(* The expiry callback is told of every instance this pass marked DOWN,    *)
(* unless a request or a clean-up touched the instance between marking and *)
(* reporting: checkOnce releases the catalogue in between                  *)
(* (HealthChecker.h:63-85).                                                *)
NoSilentExpiry ==
    [][checker.pc = "report" /\ checker'.pc = "sleep" =>
          checker.marked \ checker.touched \subseteq checker'.reported]_registryVars

(* stop() of the checker and of a client returns, although its             *)
(* notification may come before the wait; and once a client is dead, no    *)
(* instance of it is UP for ever while the checker runs                    *)
(* (HealthChecker.h:51-109, RegistryClient.h:323-383).                     *)
RegistryProgress ==
    /\ ~checker.running ~> (checker.pc = "off" \/ checker.running)
    /\ \A c \in Clients :
          /\ (client[c].main = "join") ~> (client[c].main = "idle" \/ ~client[c].alive)
          /\ ~client[c].alive ~>
                (~checker.running \/ \A i \in DOMAIN catalog : catalog[i].up => catalog[i].id[1] # c)

(* A client that asks for the instances of a service is told the healthy   *)
(* ones (RegistryServer.h:170-200).                                        *)
DiscoverAnswers == DiscoverService = Discover
=============================================================================
