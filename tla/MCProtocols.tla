----------------------------- MODULE MCProtocols -----------------------------
(* The protocols over TCP and their clients, one at a time: Buffer, the    *)
(* WebSocket codec, WebSocket server and client, the request loop of the   *)
(* HTTP and RPC servers, TcpClient with its Connector, HttpClient, the RPC *)
(* clients, and the Kafka consumer and producer.  subject says which one a *)
(* behaviour is about; the others stay in one initial state.               *)
EXTENDS TcpClient, HttpClient, RpcClients, Kafka, WebServers, WebSocket, WebSocketFrame,
        Buffer

\* Requests: header units, body units, request line, version, Connection, route
Req(hdr, len, line, version, connection, route, detail) ==
    [hdr |-> hdr, len |-> len, line |-> line, version |-> version,
     connection |-> connection, route |-> route, detail |-> detail]

Requests == {
    Req(2, -1, "ok", "HTTP/1.1", "none", "plain", ""),
    Req(1, 2, "ok", "HTTP/1.1", "none", "rpc", "throws"),
    Req(1, 0, "ok", "HTTP/1.1", "close", "limited", ""),
    Req(1, 1, "ok", "HTTP/1.0", "none", "none", ""),
    Req(1, 0, "ok", "HTTP/1.0", "keep-alive", "static", "regular"),
    Req(1, 0, "ok", "HTTP/1.1", "none", "deferred", ""),
    Req(1, 1, "bad", "HTTP/1.1", "none", "plain", ""),
    Req(4, 0, "ok", "HTTP/1.1", "none", "static", "missing"),
    Req(1, 3, "ok", "HTTP/1.1", "none", "static", "empty")}

Frames == {Req(2, len, "ok", "", "", route, "") :
              len \in {1, 2}, route \in {"plain", "junk", "none", "params", "throws"}}
          \cup {Req(2, len, "ok", "", "", "plain", "") : len \in {0, 3}}

SeqUpTo(S, n) == UNION {[1 .. k -> S] : k \in 1 .. n}
MCHttpStreams == SeqUpTo(Requests, 2)
                 \cup {<<Req(1, 0, "ok", "HTTP/1.1", "none", "plain", "")>> \o s :
                          s \in [1 .. 2 -> Requests]}
MCPbStreams == SeqUpTo(Frames, 2)

VARIABLE subject

mcVars == <<clientVars, httpVars, rpcVars, kafkaVars, webVars, wsVars, codecVars,
            bufferVars, subject>>

MCInit ==
    /\ subject \in {"tcp", "http", "rpc", "kafka", "web", "websocket", "codec", "buffer"}
    /\ ClientInit /\ HttpInit /\ WsInit /\ BufferInit
    /\ RpcInit /\ (subject # "rpc" => flavour = "call")
    /\ KafkaInit /\ (subject # "kafka" => mode = "loop")
    /\ WebInit /\ (subject # "web" => web.kind = "http" /\ web.reqs = <<CHOOSE r \in Requests : TRUE>>)
    /\ CodecInit /\ (subject # "codec" => codec.frame = CHOOSE f \in SomeFrames : TRUE)

\* A step of one component, the others unchanged
TcpRuns(A) ==
    /\ subject = "tcp" /\ A
    /\ UNCHANGED <<httpVars, rpcVars, kafkaVars, webVars, wsVars, codecVars, bufferVars, subject>>
HttpRuns(A) ==
    /\ subject = "http" /\ A
    /\ UNCHANGED <<clientVars, rpcVars, kafkaVars, webVars, wsVars, codecVars, bufferVars, subject>>
RpcRuns(A) ==
    /\ subject = "rpc" /\ A
    /\ UNCHANGED <<clientVars, httpVars, kafkaVars, webVars, wsVars, codecVars, bufferVars, subject>>
KafkaRuns(A) ==
    /\ subject = "kafka" /\ A
    /\ UNCHANGED <<clientVars, httpVars, rpcVars, webVars, wsVars, codecVars, bufferVars, subject>>
WebRuns(A) ==
    /\ subject = "web" /\ A
    /\ UNCHANGED <<clientVars, httpVars, rpcVars, kafkaVars, wsVars, codecVars, bufferVars, subject>>
WsRuns(A) ==
    /\ subject = "websocket" /\ A
    /\ UNCHANGED <<clientVars, httpVars, rpcVars, kafkaVars, webVars, codecVars, bufferVars, subject>>
CodecRuns(A) ==
    /\ subject = "codec" /\ A
    /\ UNCHANGED <<clientVars, httpVars, rpcVars, kafkaVars, webVars, wsVars, bufferVars, subject>>
BufRuns(A) ==
    /\ subject = "buffer" /\ A
    /\ UNCHANGED <<clientVars, httpVars, rpcVars, kafkaVars, webVars, wsVars, codecVars, subject>>

MCNext == \/ TcpRuns(ClientNext) \/ HttpRuns(HttpNext) \/ RpcRuns(RpcNext)
          \/ KafkaRuns(KafkaNext) \/ WebRuns(WebNext) \/ WsRuns(WsNext)
          \/ CodecRuns(Receive) \/ BufRuns(BufferNext)

\* ClientFairness, HttpFairness, RpcFairness and WsFairness, of the component at work
MCFairness ==
    /\ WF_mcVars(TcpRuns(LoopStep)) /\ SF_mcVars(TcpRuns(HandleWrite))
    /\ SF_mcVars(TcpRuns(AttemptStarts))
    /\ WF_mcVars(HttpRuns(ServerAnswers)) /\ WF_mcVars(HttpRuns(ResponseRead))
    /\ \A t \in HttpCallers : WF_mcVars(HttpRuns(SendRequest(t) \/ NotConnected(t)))
    /\ WF_mcVars(RpcRuns(RpcThread))
    /\ WF_mcVars(WsRuns(SrvStep)) /\ WF_mcVars(WsRuns(CliStep))
    /\ \A t \in Threads : WF_mcVars(WsRuns(ThreadStep(t)))

MCSpec == MCInit /\ [][MCNext]_mcVars /\ MCFairness

(* Responses reach the call they answer (HttpClient.h:443-521,             *)
(* RpcClient.h:225-340, RpcClientPb.h:71-132): in HttpClient as long as    *)
(* no two threads sent in another order than they queued, and in the RPC   *)
(* clients always.                                                         *)
ResponsesMatched == MatchedUnlessMixed /\ RpcOwnResponse

(* The protocols get on: TcpClient reconnects, every future of HttpClient  *)
(* is fulfilled, every blocking RPC returns, and a WebSocket that is       *)
(* closed on one side goes down on both (Connector.cc:207-224,             *)
(* HttpClient.h:348-424, RpcClient.h:76-130, RpcClientPb.h:71-132,         *)
(* WsSession.h:87-111).                                                    *)
ProtocolProgress ==
    /\ subject = "tcp" => Reconnects
    /\ subject = "http" => FuturesComplete
    /\ subject = "rpc" => CallsReturn
    /\ subject = "websocket" => WsCloses
=============================================================================
