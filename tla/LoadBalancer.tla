---------------------------- MODULE LoadBalancer ----------------------------
(* balancer/LoadBalancer.h: the balancer and its five strategies; every    *)
(* operation holds the balancer's mutex.  A server object is named by the  *)
(* addServer call that made it: a caller may hold one that was removed.    *)
EXTENDS Integers, Sequences, FiniteSets, SequencesExt, FiniteSetsExt

CONSTANTS
    Addresses, Weights,
    Positions,      \* the hash ring, 0..n
    VirtualNodes,
    MaxAdds, MaxSelects   \* bounds

VARIABLES
    strategy,       \* strategyType_
    servers,        \* servers_
    index,          \* RoundRobin's index_
    held,           \* per server object, the connections of least-connections not released yet
    adds, selects,
    choices,         \* ghost: per server object, choices since the healthy servers last changed
    calm            \* ghost: every currentWeight was 0 when choices began

balancerVars == <<strategy, servers, index, held, adds, selects, choices, calm>>

Strategies == {"RoundRobin", "WeightedRoundRobin", "LeastConnections", "Random", "ConsistentHash"}

\* BackendServer
BackendServer(addr, w, made) ==
    [addr |-> addr, made |-> made, weight |-> w, currentWeight |-> 0,
     connections |-> 0, healthy |-> TRUE]
Nothing == [made \in 1 .. MaxAdds |-> 0]

\* LoadBalancer(strategy) and createStrategy
BalancerInit ==
    /\ strategy \in Strategies
    /\ servers = <<>> /\ index = 0
    /\ held = Nothing /\ adds = 0 /\ selects = 0
    /\ choices = Nothing /\ calm = TRUE

Healthy == {i \in DOMAIN servers : servers[i].healthy}
TotalWeight == MapThenSumSet(LAMBDA i : servers[i].weight, Healthy)
AllCalm(ss) == \A i \in DOMAIN ss : ss[i].currentWeight = 0

\* The first of the healthy servers, in list order, that is best by Better.
FirstBest(Better(_, _)) ==
    CHOOSE i \in Healthy :
       \A j \in Healthy : ~Better(j, i) /\ (j < i => Better(i, j))

\* RoundRobinStrategy::select
RoundRobinSelect ==
    LET healthy == SetToSortSeq(Healthy, <) IN
    [at |-> healthy[(index % Len(healthy)) + 1], servers |-> servers]

\* Mutant of WeightedSelect: the chosen server pays its own weight only.
WeightedSelectCheap ==
    LET raised == [i \in DOMAIN servers |->
                     IF i \in Healthy
                     THEN [servers[i] EXCEPT !.currentWeight = @ + servers[i].weight]
                     ELSE servers[i]]
        best == FirstBest(LAMBDA i, j : raised[i].currentWeight > raised[j].currentWeight)
    IN  [at |-> best, servers |-> [raised EXCEPT ![best].currentWeight = @ - raised[best].weight]]

\* WeightedRoundRobinStrategy::select
WeightedSelect ==
    LET raised == [i \in DOMAIN servers |->
                     IF i \in Healthy
                     THEN [servers[i] EXCEPT !.currentWeight = @ + servers[i].weight]
                     ELSE servers[i]]
        best == FirstBest(LAMBDA i, j : raised[i].currentWeight > raised[j].currentWeight)
    IN  [at |-> best, servers |-> [raised EXCEPT ![best].currentWeight = @ - TotalWeight]]

\* LeastConnectionsStrategy::select
LeastSelect ==
    LET best == FirstBest(LAMBDA i, j : servers[i].connections < servers[j].connections)
    IN  [at |-> best, servers |-> [servers EXCEPT ![best].connections = @ + 1]]

\* select(): with no healthy server, and with the ring that nothing in
\* LoadBalancer fills, the null pointer.  RandomStrategy takes any healthy one.
Select ==
    /\ selects < MaxSelects
    /\ selects' = selects + 1
    /\ IF strategy = "ConsistentHash" \/ Healthy = {}
       THEN UNCHANGED <<servers, index, held, choices>>
       ELSE \E choice \in CASE strategy = "RoundRobin" -> {RoundRobinSelect}
                            [] strategy = "WeightedRoundRobin" -> {WeightedSelect}
                            [] strategy = "LeastConnections" -> {LeastSelect}
                            [] strategy = "Random" -> {[at |-> i, servers |-> servers] : i \in Healthy} :
              /\ servers' = choice.servers
              /\ LET made == servers[choice.at].made IN
                 /\ choices' = [choices EXCEPT ![made] = @ + 1]
                 /\ held' = IF strategy = "LeastConnections" THEN [held EXCEPT ![made] = @ + 1] ELSE held
              /\ index' = IF strategy = "RoundRobin" THEN index + 1 ELSE index
    /\ UNCHANGED <<strategy, adds, calm>>

\* releaseConnection(server); only LeastConnections counts.
ReleaseConnection ==
    /\ \E made \in DOMAIN held :
          /\ held[made] > 0
          /\ held' = [held EXCEPT ![made] = @ - 1]
          /\ servers' = [i \in DOMAIN servers |->
                IF servers[i].made = made /\ servers[i].connections > 0
                THEN [servers[i] EXCEPT !.connections = @ - 1] ELSE servers[i]]
    /\ UNCHANGED <<strategy, index, adds, selects, choices, calm>>

\* addServer
AddServer ==
    /\ adds < MaxAdds
    /\ \E addr \in Addresses, w \in Weights :
          servers' = Append(servers, BackendServer(addr, w, adds + 1))
    /\ adds' = adds + 1
    /\ choices' = Nothing /\ calm' = AllCalm(servers)
    /\ UNCHANGED <<strategy, index, held, selects>>

\* removeServer: every server with that address
RemoveServer ==
    \E addr \in Addresses :
       /\ \E i \in DOMAIN servers : servers[i].addr = addr
       /\ servers' = SelectSeq(servers, LAMBDA s : s.addr # addr)
       /\ choices' = Nothing /\ calm' = AllCalm(servers')
       /\ UNCHANGED <<strategy, index, held, adds, selects>>

\* setServerHealth: the first server with that address
SetServerHealth ==
    \E i \in DOMAIN servers :
       /\ \A j \in 1 .. (i - 1) : servers[j].addr # servers[i].addr
       /\ servers' = [servers EXCEPT ![i].healthy = ~@]
       /\ choices' = Nothing /\ calm' = AllCalm(servers)
       /\ UNCHANGED <<strategy, index, held, adds, selects>>

(***************************************************************************)
(* ConsistentHashStrategy, used by itself                                  *)
(***************************************************************************)
\* hashString of address#i, any function of the two; here a spread with collisions
HashString(addr, v) ==
    ((CHOOSE n \in 0 .. (Cardinality(Addresses) - 1) : SetToSeq(Addresses)[n + 1] = addr)
        + 2 * v) % Cardinality(Positions)

\* init: the virtual nodes of the healthy servers, a later server taking a
\* position over from an earlier one.
RingOf(ss) ==
    [p \in Positions |->
       LET at == {i \in DOMAIN ss : ss[i].healthy /\ \E v \in VirtualNodes : HashString(ss[i].addr, v) = p}
       IN  IF at = {} THEN "none" ELSE ss[Max(at)].addr]

\* selectWithKey: the first node at or after key, else the first of all
SelectWithKey(r, key) ==
    LET nodes == {p \in Positions : r[p] # "none"}
        after == {p \in nodes : p >= key}
    IN  IF nodes = {} THEN "none" ELSE r[Min(IF after = {} THEN nodes ELSE after)]

BalancerNext ==
    \/ Select \/ ReleaseConnection \/ AddServer \/ RemoveServer \/ SetServerHealth

(***************************************************************************)
(* Properties                                                              *)
(***************************************************************************)
Chosen(i) == choices[servers[i].made]
Rounds == MapThenSumSet(LAMBDA made : choices[made], DOMAIN choices)

(* While the healthy servers do not change: round robin chooses no server  *)
(* twice more than another; smooth weighted round robin, from rest,        *)
(* chooses each in proportion to its weight in every round of the total    *)
(* weight; and the connection counts of least-connections are what callers *)
(* hold, also of servers that were removed, added again or out of health   *)
(* meanwhile; and a hash ring built without one address moves the keys of  *)
(* that address only (LoadBalancer.h:116-230, 289-324, 411-416).           *)
BalanceFair ==
    /\ strategy = "RoundRobin" =>
          \A i, j \in Healthy : Chosen(i) <= Chosen(j) + 1
    /\ strategy = "WeightedRoundRobin" /\ calm /\ Healthy # {} =>
          (Rounds % TotalWeight = 0 =>
             \A i \in Healthy : Chosen(i) * TotalWeight = Rounds * servers[i].weight)
    /\ strategy = "LeastConnections" =>
          \A i \in DOMAIN servers :
             servers[i].connections = held[servers[i].made]
    /\ strategy = "ConsistentHash" =>
          \A addr \in Addresses, key \in Positions :
             LET old == SelectWithKey(RingOf(servers), key)
                 new == SelectWithKey(RingOf(SelectSeq(servers, LAMBDA s : s.addr # addr)), key)
             IN  old # new => old = addr

=============================================================================
