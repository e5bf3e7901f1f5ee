----------------------------- MODULE HttpClient -----------------------------
(* http/HttpClient.h: callers on any thread push a promise into a queue,   *)
(* wait for the connection and send; the loop's thread fulfils the front   *)
(* promise for every response that is complete.  The queue and the         *)
(* connection share one mutex, which asyncRequest releases between pushing *)
(* and sending.  The server answers in order on one connection.            *)
EXTENDS Integers, Sequences, SequencesExt

CONSTANTS
    HttpCallers,
    MaxRequests, MaxReconnects   \* bounds

VARIABLES
    httpConn,       \* conn_: TRUE when set
    reconnects,
    pendingQueue_,  \* requests whose promise waits, in order
    caller,         \* per caller: place and request
    wire,           \* requests sent on this connection and not answered
    replies,        \* responses on their way, in order
    half,           \* recvBuffer_ holds a part of the first response
    future,         \* what each request's future holds: 0 nothing, -1 an error, or
                    \* the request that was answered
    numbered,       \* requests made
    mixed           \* ghost: the queue's order was not that of the wire

httpVars == <<httpConn, reconnects, pendingQueue_, caller, wire, replies, half,
              future, numbered, mixed>>

HttpInit ==
    /\ httpConn = FALSE /\ reconnects = 0
    /\ pendingQueue_ = <<>>
    /\ caller = [t \in HttpCallers |-> [pc |-> "idle", req |-> 0]]
    /\ wire = <<>> /\ replies = <<>> /\ half = FALSE
    /\ future = [r \in 1 .. MaxRequests |-> 0]
    /\ numbered = 0 /\ mixed = FALSE

\* asyncRequest, and the calls made of it: build the request, push the promise
PushPromise(t) ==
    /\ caller[t].pc = "idle" /\ numbered < MaxRequests
    /\ numbered' = numbered + 1
    /\ pendingQueue_' = Append(pendingQueue_, numbered + 1)
    /\ caller' = [caller EXCEPT ![t] = [pc |-> "send", req |-> numbered + 1]]
    /\ UNCHANGED <<httpConn, reconnects, wire, replies, half, future, mixed>>

\* The promises that were pushed and whose request is still to be sent
Unsent == {caller[t].req : t \in {u \in HttpCallers : caller[u].pc = "send"}}

\* The second critical section, with a connection: the request is sent.
SendRequest(t) ==
    /\ caller[t].pc = "send" /\ httpConn
    /\ wire' = Append(wire, caller[t].req)
    /\ caller' = [caller EXCEPT ![t].pc = "wait"]
    /\ mixed' = \/ mixed
                \/ SelectSeq(pendingQueue_, LAMBDA r : r \notin Unsent \ {caller[t].req})
                      # replies \o wire'
                \/ \E i, j \in DOMAIN pendingQueue_ :
                      i < j /\ pendingQueue_[j] = caller[t].req
                            /\ pendingQueue_[i] \in Unsent
    /\ UNCHANGED <<httpConn, reconnects, pendingQueue_, replies, half, future, numbered>>

\* Mutant of NotConnected: the promise is left in the queue.
NotConnectedKeeps(t) ==
    /\ caller[t].pc = "send" /\ ~httpConn
    /\ caller' = [caller EXCEPT ![t].pc = "wait"]
    /\ UNCHANGED <<httpConn, reconnects, pendingQueue_, wire, replies, half, future, numbered, mixed>>

\* ... without one for three seconds: the FRONT promise is failed, whose ever
\* it is.
NotConnected(t) ==
    /\ caller[t].pc = "send" /\ ~httpConn
    /\ caller' = [caller EXCEPT ![t].pc = "wait"]
    /\ pendingQueue_' = IF pendingQueue_ = <<>> THEN <<>> ELSE Tail(pendingQueue_)
    /\ future' = IF pendingQueue_ = <<>> THEN future
                 ELSE [future EXCEPT ![Head(pendingQueue_)] = -1]
    /\ mixed' = (mixed \/ pendingQueue_ = <<>> \/ Head(pendingQueue_) # caller[t].req)
    /\ UNCHANGED <<httpConn, reconnects, wire, replies, half, numbered>>

\* future.get(), or request()'s wait that timed out: the promise stays queued
FutureDone(t) ==
    /\ caller[t].pc = "wait"
    /\ caller' = [caller EXCEPT ![t] = [pc |-> "idle", req |-> 0]]
    /\ UNCHANGED <<httpConn, reconnects, pendingQueue_, wire, replies, half, future, numbered, mixed>>

\* onConnection, connected
HttpUp ==
    /\ ~httpConn /\ reconnects <= MaxReconnects
    /\ httpConn' = TRUE
    /\ UNCHANGED <<reconnects, pendingQueue_, caller, wire, replies, half, future, numbered, mixed>>

\* onConnection, disconnected: the buffer is cleared, every promise is failed
HttpDown ==
    /\ httpConn /\ reconnects < MaxReconnects
    /\ httpConn' = FALSE /\ reconnects' = reconnects + 1
    /\ wire' = <<>> /\ replies' = <<>> /\ half' = FALSE
    /\ future' = [r \in DOMAIN future |-> IF Contains(pendingQueue_, r) THEN -1 ELSE future[r]]
    /\ pendingQueue_' = <<>>
    /\ UNCHANGED <<caller, numbered, mixed>>

\* The server answers the oldest request.
ServerAnswers ==
    /\ wire # <<>>
    /\ replies' = Append(replies, Head(wire))
    /\ wire' = Tail(wire)
    /\ UNCHANGED <<httpConn, reconnects, pendingQueue_, caller, half, future, numbered, mixed>>

\* onMessage: n complete responses in the buffer fulfil the n front promises
\* (a malformed one with an error); a part of the next stays in the buffer.
OnMessage ==
    /\ \E n \in 0 .. Len(replies), part \in BOOLEAN :
          /\ n = 0 => part /\ ~half
          /\ part => n < Len(replies)
          /\ LET k == IF n < Len(pendingQueue_) THEN n ELSE Len(pendingQueue_)
                 done(r) == {i \in 1 .. k : pendingQueue_[i] = r} IN
             /\ future' \in {[r \in DOMAIN future |->
                                IF done(r) = {} THEN future[r]
                                ELSE IF r \in bad THEN -1 ELSE replies[CHOOSE i \in done(r) : TRUE]] :
                              bad \in SUBSET DOMAIN future}
             /\ pendingQueue_' = SubSeq(pendingQueue_, k + 1, Len(pendingQueue_))
          /\ replies' = SubSeq(replies, n + 1, Len(replies))
          /\ half' = part
    /\ UNCHANGED <<httpConn, reconnects, caller, wire, numbered, mixed>>

HttpNext ==
    \/ \E t \in HttpCallers : PushPromise(t) \/ SendRequest(t) \/ NotConnected(t) \/ FutureDone(t)
    \/ HttpUp \/ HttpDown \/ ServerAnswers \/ OnMessage

\* Callers do not stop in the middle of a request, the server answers what it
\* gets, and what arrives is read.
ResponseRead == OnMessage /\ replies' # replies

HttpFairness ==
    /\ WF_httpVars(ServerAnswers) /\ WF_httpVars(ResponseRead)
    /\ \A t \in HttpCallers : WF_httpVars(SendRequest(t) \/ NotConnected(t))

HttpSpec == HttpInit /\ [][HttpNext]_httpVars /\ HttpFairness

(* Every future is fulfilled in the end: by a response, by "not connected" *)
(* or by the loss of the connection, also when its promise was taken by    *)
(* another caller or its request went to a later connection                *)
(* (HttpClient.h:348-424, 443-521).                                        *)
FuturesComplete ==
    <>[](\A r \in 1 .. numbered : future[r] # 0)

(* As long as promises were queued in the order their requests were sent,  *)
(* on one connection, every response reaches its own request: responses    *)
(* split over reads, several responses in one read and time-outs do not    *)
(* shift them (HttpClient.h:443-521).                                      *)
MatchedUnlessMixed ==
    ~mixed => \A r \in 1 .. MaxRequests : future[r] \in {0, -1, r}

(* Responses are matched to requests: a future never holds the response of *)
(* another request, from whatever threads the requests are made.           *)
OwnResponse == \A r \in 1 .. MaxRequests : future[r] \in {0, -1, r}
=============================================================================
