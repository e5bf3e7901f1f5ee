----------------------------- MODULE WebServers -----------------------------
(* The request loop of the servers over one connection: HttpServer,        *)
(* HttpsServer and RpcServerPb, with the parser and the router of HttpCore *)
(* and the JSON-RPC handler of RpcServer.  A client sends a stream of      *)
(* requests, possibly pipelined; the stream is cut into reads anywhere.    *)
(* A request is counted in units: header units, the last of which ends the *)
(* header, and body units.  The TCP connection is a sink: what is sent     *)
(* after shutdown() is dropped (TcpConnection::send).                      *)
EXTENDS Integers, Sequences, FiniteSets, FiniteSetsExt

CONSTANTS
    HttpStreams,      \* what clients may send to HttpServer and HttpsServer
    PbStreams,        \* ... and to RpcServerPb
    kMaxRequestLine, kMaxBodySize

VARIABLE
    web     \* the connection and its server's state

webVars == <<web>>

Head1(w) == w.reqs[w.at + 1]        \* the request at the front of the buffer

\* contentLength: a value that is no number counts as none
ContentLength(r) == IF r.len < 0 THEN 0 ELSE r.len

Units(r) == r.hdr + ContentLength(r)

\* stringToVersion and keepAlive
KeepAlive(r) == IF r.version = "HTTP/1.0" THEN r.connection = "keep-alive"
                                          ELSE r.connection # "close"

\* parseRequestLine: it fails without two spaces in the line
ParseRequestLine(r) == r.line = "ok"

\* parseHeader of HttpCore: only the request line can fail, or be too long
ParseHeader(r) == r.line # "long" /\ ParseRequestLine(r)

\* parseRequest over a Buffer
ParseRequest(w) ==
    LET r == Head1(w) IN
    IF w.got < r.hdr
    THEN IF w.got > kMaxRequestLine THEN "Error" ELSE "Incomplete"
    ELSE IF ~ParseHeader(r) \/ ContentLength(r) > kMaxBodySize THEN "Error"
    ELSE IF w.got < Units(r) THEN "Incomplete" ELSE "Complete"

\* parseRequest over the string HttpsServer decrypts into
ParsePlaintext(w) ==
    LET r == Head1(w) IN
    CASE w.got < r.hdr /\ w.got > kMaxRequestLine -> "Error"
      [] w.got < r.hdr /\ w.got <= kMaxRequestLine -> "Incomplete"
      [] w.got >= r.hdr /\ (~ParseHeader(r) \/ ContentLength(r) > kMaxBodySize) -> "Error"
      [] OTHER -> IF w.got < Units(r) THEN "Incomplete" ELSE "Complete"

\* The head of RpcServerPb::onMessage: a length prefix, its check, the frame
ParseFrame(w) ==
    LET r == Head1(w) IN
    CASE w.got < r.hdr -> "Incomplete"
      [] w.got >= r.hdr /\ (r.len <= 0 \/ r.len > kMaxBodySize) -> "Error"
      [] OTHER -> IF w.got < Units(r) THEN "Incomplete" ELSE "Complete"

Parse(w) == CASE w.got = 0 -> "Incomplete"
              [] w.got > 0 /\ w.kind = "http" -> ParseRequest(w)
              [] w.got > 0 /\ w.kind = "https" -> ParsePlaintext(w)
              [] w.got > 0 /\ w.kind = "pb" -> ParseFrame(w)

\* What a handler leaves in the response
Answer(status, body) == [status |-> status, body |-> body]

\* serveFile: open and check the file, hand its descriptor to the response
ServeFile(r) == CASE r.detail = "unsafe" -> Answer(400, "text")
                  [] r.detail = "missing" -> Answer(404, "text")
                  [] r.detail = "empty" -> Answer(500, "text")
                  [] r.detail = "regular" -> Answer(200, "file")

\* handleRpcCall: an exception loses the id of the call
HandleRpcCall(r) == Answer(200, IF r.detail \in {"junk", "throws"} THEN "id 0" ELSE "own id")

\* handleRequest: the middlewares, then the routes, then the static directories
HandleRequest(r) == CASE r.route = "limited" -> Answer(429, "text")
                      [] r.route = "plain" -> Answer(200, "text")
                      [] r.route = "deferred" -> Answer(200, "later")
                      [] r.route = "rpc" -> HandleRpcCall(r)
                      [] r.route = "static" -> ServeFile(r)
                      [] r.route = "none" -> Answer(404, "text")

\* processMessage of RpcServerPb, with sendResponse and sendError
ProcessMessage(r) == CASE r.route = "junk" -> Answer(-32700, "id 0")
                       [] r.route = "none" -> Answer(-32601, "own id")
                       [] r.route = "params" -> Answer(-32602, "own id")
                       [] r.route = "throws" -> Answer(-32603, "own id")
                       [] r.route = "plain" -> Answer(0, "own id")

Handle(w, r) == IF w.kind = "pb" THEN ProcessMessage(r) ELSE HandleRequest(r)
Refusal(w) == IF w.kind = "pb" THEN Answer(-32600, "id 0") ELSE Answer(400, "text")

\* toString: the header announces a file's length, and no byte of it follows;
\* the flag of a deferred response is not looked at
ResponseString(a) == CASE a.body = "file" -> [a EXCEPT !.body = "absent"]
                 [] a.body = "later" -> [a EXCEPT !.body = "none"]
                 [] OTHER -> a

\* An answer on the connection, for request i
Sent(w, i, a) == IF w.shut THEN w ELSE [w EXCEPT !.out = Append(@, <<i, a>>)]

\* Mutant: one request per call
RespondHttpOnce(w, i, a) ==
    IF a.body = "later"
    THEN [w EXCEPT !.late = @ \cup {i}, !.stalled = TRUE, !.pc = "idle"]
    ELSE [Sent(w, i, a) EXCEPT !.pc = "idle", !.shut = @ \/ ~KeepAlive(w.reqs[i])]

\* The end of an iteration of HttpServer::onMessage: file, iovec or string,
\* then shutdown unless the connection is kept
RespondHttp(w, i, a) ==
    IF a.body = "later"
    THEN [w EXCEPT !.late = @ \cup {i}, !.stalled = TRUE, !.pc = "idle"]
    ELSE LET s == Sent(w, i, a) IN
         IF KeepAlive(w.reqs[i]) THEN s ELSE [s EXCEPT !.shut = TRUE, !.pc = "idle"]

\* sslWrite: the whole response as one string
SslWrite(w, i, a) == Sent(w, i, ResponseString(a))

\* The end of an iteration of HttpsServer::onMessage; nobody closes the file
RespondHttps(w, i, a) ==
    LET s == [SslWrite(w, i, a) EXCEPT !.fds = @ + IF a.body = "file" THEN 1 ELSE 0] IN
    IF KeepAlive(w.reqs[i]) THEN s ELSE [s EXCEPT !.shut = TRUE, !.pc = "idle"]

Respond(w, i, a) == CASE w.kind = "http" -> RespondHttp(w, i, a)
                      [] w.kind = "https" -> RespondHttps(w, i, a)
                      [] w.kind = "pb" -> Sent(w, i, a)

-----------------------------------------------------------------------------
TotalUnits(reqs) == MapThenSumSet(LAMBDA i : Units(reqs[i]), DOMAIN reqs)

WebInit ==
    \E kind \in {"http", "https", "pb"} :
    \E reqs \in IF kind = "pb" THEN PbStreams ELSE HttpStreams :
       web = [kind |-> kind, reqs |-> reqs, at |-> 0, got |-> 0, left |-> TotalUnits(reqs),
              pc |-> "accept", out |-> <<>>, shut |-> FALSE, late |-> {},
              stalled |-> FALSE, timer |-> FALSE, cut |-> FALSE, fds |-> 0,
              shake |-> IF kind = "https" THEN 2 ELSE 0, notify |-> "coming"]

\* HttpServer::onConnection: a timer, once for the connection
OnConnection ==
    /\ web.pc = "accept" /\ web.kind \in {"http", "pb"}
    /\ web' = [web EXCEPT !.pc = "idle", !.timer = (web.kind = "http")]

\* HttpsServer::onConnection: an SSL object and its BIOs, or a shutdown
OnSslConnection ==
    /\ web.pc = "accept" /\ web.kind = "https"
    /\ \/ web' = [web EXCEPT !.pc = "idle", !.timer = TRUE]
       \/ web' = [web EXCEPT !.pc = "closed", !.shut = TRUE, !.cut = TRUE]

\* The timer of onConnection
IdleTimeout ==
    /\ web.timer /\ web.pc = "idle"
    /\ web' = [web EXCEPT !.timer = FALSE, !.shut = TRUE, !.cut = web.cut \/ ~web.shut]

\* Some bytes arrive and onMessage is called.
OnRequestBytes ==
    /\ web.kind \in {"http", "pb"} /\ web.pc = "idle"
    /\ \E k \in 1 .. web.left :
          web' = [web EXCEPT !.left = @ - k, !.got = @ + k, !.pc = "loop", !.stalled = FALSE]

\* HttpsServer::onMessage up to the request loop: what arrives goes through the
\* handshake, then through SSL_read; a close_notify ends the call at once.
OnSslMessage ==
    /\ web.kind = "https" /\ web.pc = "idle" /\ web.notify = "coming"
    /\ \E k \in 1 .. web.shake + web.left + 1 :
       LET shake == Min({k, web.shake})
           data  == Min({k - shake, web.left})
           read  == [web EXCEPT !.shake = @ - shake, !.left = @ - data, !.got = @ + data]
       IN \/ /\ read.shake > 0
             /\ \/ web' = read
                \/ web' = [read EXCEPT !.pc = "closed", !.shut = TRUE, !.cut = TRUE]
          \/ /\ read.shake = 0 /\ k = shake + data
             /\ web' = [read EXCEPT !.pc = "loop"]
          \/ /\ read.shake = 0 /\ k > shake + data
             /\ web' = [read EXCEPT !.notify = "read", !.shut = TRUE, !.cut = TRUE]

\* The buffer holds no whole request: onMessage returns.
Incomplete ==
    /\ web.pc = "loop" /\ Parse(web) = "Incomplete"
    /\ web' = [web EXCEPT !.pc = "idle"]

\* A request that cannot be parsed is refused and stays in the buffer.
Refuse ==
    /\ web.pc = "loop" /\ Parse(web) = "Error"
    /\ web' = [Sent(web, web.at + 1, Refusal(web)) EXCEPT !.shut = TRUE, !.pc = "idle"]

\* A whole request is consumed, handled and answered.
Consumed(w) == [w EXCEPT !.at = @ + 1, !.got = @ - Units(Head1(w))]

Serve ==
    /\ web.pc = "loop" /\ Parse(web) = "Complete"
    /\ web' = Respond(Consumed(web), web.at + 1, Handle(web, Head1(web)))

\* A worker thread answers a deferred request: send() queues to the loop.
DeferredDone ==
    /\ web.pc = "idle"
    /\ \E i \in web.late :
          web' = [Sent(web, i, Answer(200, "text")) EXCEPT
                     !.late = @ \ {i}, !.shut = @ \/ ~KeepAlive(web.reqs[i])]

WebNext == \/ OnConnection \/ OnSslConnection \/ IdleTimeout \/ OnRequestBytes \/ OnSslMessage
           \/ Incomplete \/ Refuse \/ Serve \/ DeferredDone

-----------------------------------------------------------------------------
\* What the requests of a stream are answered, by reading it as a list
Expected(w) ==
    LET from[i \in 1 .. Len(w.reqs) + 1] ==
        IF i > Len(w.reqs) THEN <<>>
        ELSE LET r == w.reqs[i]
                 bad == IF w.kind = "pb" THEN r.len <= 0
                                         ELSE r.line # "ok"
             IN IF bad \/ r.len > kMaxBodySize THEN <<<<i, Refusal(w)>>>>
                ELSE LET a == Handle(w, r)
                         t == IF w.kind = "https" THEN ResponseString(a) ELSE a
                     IN <<<<i, t>>>> \o IF w.kind = "pb" \/ KeepAlive(r)
                                        THEN from[i + 1] ELSE <<>>
    IN from[1]

Deferring(w) == w.kind = "http" /\ \E i \in DOMAIN w.reqs : w.reqs[i].route = "deferred"
LongHeader(w) == w.kind # "pb" /\ \E i \in DOMAIN w.reqs : w.reqs[i].hdr > kMaxRequestLine + 1

(* A static file is sent whole and its descriptor is closed: "the          *)
(* descriptor passes to the response or the connection" (HttpResponse.h:87).*)
StaticFilesServed ==
    /\ web.fds = 0
    /\ \A n \in DOMAIN web.out : web.out[n][2].body # "absent"

(* The answers do not depend on how the stream was cut into reads          *)
(* (HttpServer.h:187-240, HttpsServer.h:309-340, RpcServerPb.h:62-90):     *)
(* between two reads they are a prefix of what the list of requests asks   *)
(* for, in its order, and all of it once the whole stream has been read.   *)
(* Left out: a deferred answer, which comes when it comes, a connection    *)
(* that the timer or the peer cut, and a header longer than                *)
(* kMaxRequestLine, whose fate does depend on the cuts.  And no whole      *)
(* request waits in the buffer of an open connection, unless a deferred    *)
(* one stopped the loop in front of it.  Static files are served, except   *)
(* by HttpsServer, which sends their header alone.                         *)
PipelineExact ==
    /\ ~Deferring(web) /\ ~LongHeader(web) =>
          /\ \E n \in 0 .. Len(Expected(web)) : web.out = SubSeq(Expected(web), 1, n)
          /\ web.left = 0 /\ web.pc = "idle" /\ ~web.cut => web.out = Expected(web)
    /\ web.pc = "idle" /\ Parse(web) = "Complete" => web.shut \/ web.stalled
    /\ web.kind # "https" => StaticFilesServed
=============================================================================
