----------------------------- MODULE RpcClients -----------------------------
(* The three RPC clients.                                                  *)
(*  - RpcClient (rpc/RpcClient.h): a connection per call, read until the   *)
(*    server closes it.                                                    *)
(*  - ReactorRpcClient (same file): one connection, a map from call id to  *)
(*    promise; what one read returns is taken for one response.            *)
(*  - RpcClientPb (rpc/RpcClientPb.h): one socket, a frame each way, the   *)
(*    mutex held for the whole call.                                       *)
(* flavour says which client a behaviour is about; all speak to a server   *)
(* that answers every request once, an exception with id 0 (JSON) or with  *)
(* an error code (Pb).                                                     *)
EXTENDS Integers, Sequences, FiniteSets, SequencesExt

CONSTANTS
    RpcCallers,
    MaxRpcs, MaxBreaks    \* bounds

VARIABLES
    flavour,
    link,           \* sockets whose connection stands, by number
    current,        \* conn_ / sock_: a socket or 0
    connected_,     \* RpcClientPb: connected_
    pendingCalls_,  \* ReactorRpcClient: ids with a promise
    rpc,            \* per caller: place, id, socket
    sent,           \* per socket: requests the server has not answered
    answers,        \* per socket: answers not read yet, in order
    outcome,        \* per id: 0 nothing yet, -1 an error, or the id answered
    ids, breaks

rpcVars == <<flavour, link, current, connected_, pendingCalls_, rpc, sent,
             answers, outcome, ids, breaks>>

Sockets == 1 .. (MaxRpcs + MaxBreaks + 1)
Idle == [pc |-> "idle", id |-> 0, sock |-> 0]

RpcInit ==
    /\ flavour \in {"call", "reactor", "pb"}
    /\ link = {} /\ current = 0 /\ connected_ = FALSE
    /\ pendingCalls_ = {}
    /\ rpc = [t \in RpcCallers |-> Idle]
    /\ sent = [s \in Sockets |-> <<>>] /\ answers = [s \in Sockets |-> <<>>]
    /\ outcome = [i \in 1 .. MaxRpcs |-> 0]
    /\ ids = 0 /\ breaks = 0

Held == link \cup {current} \cup {rpc[t].sock : t \in RpcCallers}
Fresh == CHOOSE s \in Sockets \ Held : \A u \in Sockets \ Held : s <= u
\* a descriptor number is given out again: nothing of its past remains
Clean(f, s) == [f EXCEPT ![s] = <<>>]
Settle(i, v) == [outcome EXCEPT ![i] = v]
Become(t, place, i, s) == rpc' = [rpc EXCEPT ![t] = [pc |-> place, id |-> i, sock |-> s]]

(***************************************************************************)
(* RpcClient                                                               *)
(***************************************************************************)
\* call: connect (or fail), send
CallSend(t) ==
    /\ flavour = "call" /\ rpc[t].pc = "idle" /\ ids < MaxRpcs
    /\ ids' = ids + 1
    /\ \/ /\ link' = link \cup {Fresh}
          /\ sent' = [sent EXCEPT ![Fresh] = <<ids + 1>>]
          /\ answers' = Clean(answers, Fresh)
          /\ Become(t, "recv", ids + 1, Fresh)
          /\ UNCHANGED outcome
       \/ outcome' = Settle(ids + 1, -1) /\ UNCHANGED <<link, sent, answers, rpc>>
    /\ UNCHANGED <<flavour, current, connected_, pendingCalls_, breaks>>

\* recv until the server has closed: what came is the response
CallRecv(t) ==
    /\ flavour = "call" /\ rpc[t].pc = "recv" /\ rpc[t].sock \notin link
    /\ LET got == answers[rpc[t].sock] IN
       outcome' = Settle(rpc[t].id, IF Len(got) = 1 /\ got[1] > 0 THEN got[1] ELSE -1)
    /\ rpc' = [rpc EXCEPT ![t] = Idle]
    /\ answers' = Clean(answers, rpc[t].sock)
    /\ UNCHANGED <<flavour, link, current, connected_, pendingCalls_, sent, ids, breaks>>

(***************************************************************************)
(* ReactorRpcClient                                                        *)
(***************************************************************************)
\* the connection callback, up
ReactorUp ==
    /\ flavour = "reactor" /\ current = 0
    /\ current' = Fresh /\ link' = link \cup {Fresh}
    /\ sent' = Clean(sent, Fresh) /\ answers' = Clean(answers, Fresh)
    /\ UNCHANGED <<flavour, connected_, pendingCalls_, rpc, outcome, ids, breaks>>

\* ... and down: the promises stay in the map
ReactorDown ==
    /\ flavour = "reactor" /\ current # 0 /\ current \notin link
    /\ current' = 0
    /\ UNCHANGED <<flavour, link, connected_, pendingCalls_, rpc, sent, answers, outcome, ids, breaks>>

\* asyncCall: the id and the promise
AsyncCallPush(t) ==
    /\ flavour = "reactor" /\ rpc[t].pc = "idle" /\ ids < MaxRpcs
    /\ ids' = ids + 1
    /\ pendingCalls_' = pendingCalls_ \cup {ids + 1}
    /\ Become(t, "send", ids + 1, 0)
    /\ UNCHANGED <<flavour, link, current, connected_, sent, answers, outcome, breaks>>

\* asyncCall: send, or fail the own promise after three seconds without a
\* connection; then the wait of call(), which may time out.
AsyncCallSend(t) ==
    /\ flavour = "reactor" /\ rpc[t].pc = "send"
    /\ IF current # 0
       THEN /\ sent' = IF current \in link THEN [sent EXCEPT ![current] = Append(@, rpc[t].id)] ELSE sent
            /\ UNCHANGED <<pendingCalls_, outcome>>
       ELSE /\ pendingCalls_' = pendingCalls_ \ {rpc[t].id}
            /\ outcome' = IF rpc[t].id \in pendingCalls_ THEN Settle(rpc[t].id, -1) ELSE outcome
            /\ UNCHANGED sent
    /\ rpc' = [rpc EXCEPT ![t] = Idle]
    /\ UNCHANGED <<flavour, link, current, connected_, answers, ids, breaks>>

\* Mutant of ReactorRead: the response goes to the oldest call.
ReactorReadOldest ==
    /\ flavour = "reactor" /\ current \in link /\ answers[current] # <<>> /\ pendingCalls_ # {}
    /\ LET old == CHOOSE i \in pendingCalls_ : \A j \in pendingCalls_ : i <= j IN
       /\ outcome' = Settle(old, Head(answers[current]))
       /\ pendingCalls_' = pendingCalls_ \ {old}
    /\ answers' = [answers EXCEPT ![current] = Tail(@)]
    /\ UNCHANGED <<flavour, link, current, connected_, rpc, sent, ids, breaks>>

\* The message callback on a read of n responses: one is matched by its id;
\* of several, or of a part of one, the JSON does not parse and all is dropped.
ReactorRead ==
    /\ flavour = "reactor" /\ current \in link /\ answers[current] # <<>>
    /\ \E n \in 1 .. Len(answers[current]), part \in BOOLEAN :
          LET id == Head(answers[current])
              match == n = 1 /\ ~part /\ id \in pendingCalls_ IN
          /\ answers' = [answers EXCEPT ![current] = SubSeq(@, n + 1, Len(@))]
          /\ pendingCalls_' = IF match THEN pendingCalls_ \ {id} ELSE pendingCalls_
          /\ outcome' = IF match THEN Settle(id, id) ELSE outcome
    /\ UNCHANGED <<flavour, link, current, connected_, rpc, sent, ids, breaks>>

(***************************************************************************)
(* RpcClientPb                                                             *)
(***************************************************************************)
Locked == \E t \in RpcCallers : rpc[t].pc # "idle"

\* connectInternal: socket s, or none (0); the one it had is forgotten
ConnectInternal(s) ==
    /\ ~connected_
    /\ current' = s /\ connected_' = (s # 0)
    /\ link' = IF s = 0 THEN link ELSE link \cup {s}

\* call: connectInternal when not connected, then the frame is sent
PbCall(t) ==
    /\ flavour = "pb" /\ ~Locked /\ ids < MaxRpcs
    /\ ids' = ids + 1
    /\ \/ /\ ConnectInternal(0)
          /\ outcome' = Settle(ids + 1, -1)
          /\ UNCHANGED <<rpc, sent, answers>>
       \/ /\ ConnectInternal(Fresh)
          /\ sent' = [sent EXCEPT ![Fresh] = <<ids + 1>>]
          /\ answers' = Clean(answers, Fresh)
          /\ Become(t, "recv", ids + 1, Fresh)
          /\ UNCHANGED outcome
       \/ /\ connected_ /\ current \in link
          /\ sent' = [sent EXCEPT ![current] = Append(@, ids + 1)]
          /\ Become(t, "recv", ids + 1, current)
          /\ UNCHANGED <<current, connected_, link, answers, outcome>>
       \/ /\ connected_ /\ current \notin link
          /\ connected_' = FALSE
          /\ outcome' = Settle(ids + 1, -1)
          /\ UNCHANGED <<current, link, rpc, sent, answers>>
    /\ UNCHANGED <<flavour, pendingCalls_, breaks>>

\* The answering frame: its id is not looked at.  A lost connection fails the call.
PbRecv(t) ==
    /\ flavour = "pb" /\ rpc[t].pc = "recv"
    /\ \/ /\ answers[current] # <<>>
          /\ outcome' = Settle(rpc[t].id, IF Head(answers[current]) > 0 THEN Head(answers[current]) ELSE -1)
          /\ answers' = [answers EXCEPT ![current] = Tail(@)]
          /\ UNCHANGED connected_
       \/ /\ answers[current] = <<>> /\ current \notin link
          /\ outcome' = Settle(rpc[t].id, -1)
          /\ connected_' = FALSE
          /\ UNCHANGED answers
    /\ rpc' = [rpc EXCEPT ![t] = Idle]
    /\ UNCHANGED <<flavour, link, current, pendingCalls_, sent, ids, breaks>>

\* disconnect(), which waits for the mutex
PbDisconnect ==
    /\ flavour = "pb" /\ ~Locked /\ current # 0
    /\ link' = link \ {current} /\ current' = 0 /\ connected_' = FALSE
    /\ UNCHANGED <<flavour, pendingCalls_, rpc, sent, answers, outcome, ids, breaks>>

(***************************************************************************)
(* The server's side and the network                                       *)
(***************************************************************************)
\* The server answers the oldest request of a connection, or reports an error.
RpcAnswer ==
    \E s \in link :
       /\ sent[s] # <<>>
       /\ \E failed \in BOOLEAN :
             answers' = [answers EXCEPT ![s] = Append(@, IF failed THEN 0 ELSE Head(sent[s]))]
       /\ sent' = [sent EXCEPT ![s] = Tail(@)]
       /\ UNCHANGED <<flavour, link, current, connected_, pendingCalls_, rpc, outcome, ids, breaks>>

\* The HTTP server keeps the connection open until its idle timer closes it.
IdleClose ==
    \E t \in RpcCallers :
       /\ flavour = "call" /\ rpc[t].pc = "recv" /\ rpc[t].sock \in link
       /\ sent[rpc[t].sock] = <<>>
       /\ link' = link \ {rpc[t].sock}
       /\ UNCHANGED <<flavour, current, connected_, pendingCalls_, rpc, sent, answers, outcome, ids, breaks>>

\* A connection breaks; what was under way is lost.
Break ==
    /\ breaks < MaxBreaks
    /\ breaks' = breaks + 1
    /\ \E s \in link :
          /\ link' = link \ {s}
          /\ sent' = Clean(sent, s) /\ answers' = Clean(answers, s)
    /\ UNCHANGED <<flavour, current, connected_, pendingCalls_, rpc, outcome, ids>>

RpcThread ==
    \/ \E t \in RpcCallers : CallRecv(t) \/ AsyncCallSend(t) \/ PbRecv(t)
    \/ ReactorUp \/ ReactorDown \/ ReactorRead
    \/ RpcAnswer \/ IdleClose

RpcNext ==
    \/ RpcThread
    \/ \E t \in RpcCallers : CallSend(t) \/ AsyncCallPush(t) \/ PbCall(t)
    \/ PbDisconnect \/ Break

(* The callers' threads, the loop and the server run.                      *)
RpcFairness == WF_rpcVars(RpcThread)

(* A call is answered with its own response or an error, never with the    *)
(* response of another call: across lost and late responses, coalesced     *)
(* reads, reconnections and concurrent callers (RpcClient.h:76-340,        *)
(* RpcClientPb.h:71-132).                                                  *)
RpcOwnResponse == \A i \in 1 .. MaxRpcs : outcome[i] \in {0, -1, i}

(* A blocking call returns: RpcClient's when the server's idle timer       *)
(* closes the connection, RpcClientPb's with the answer or the loss of the *)
(* connection (RpcClient.h:76-130, RpcClientPb.h:71-132).                  *)
CallsReturn ==
    <>[](\A t \in RpcCallers : rpc[t].pc # "recv")
=============================================================================
