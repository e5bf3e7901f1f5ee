----------------------------- MODULE WebSocket -----------------------------
(* A WebSocketClient and a WebSocketServer over one connection: the        *)
(* handshake, the frames, and the ways the two ends close.  On the server  *)
(* a WsSession is used by the connection's I/O thread, by the ping and     *)
(* idle timers on the base loop and by the application's threads; its      *)
(* state_ is checked and then set without a lock.  What is sent goes out   *)
(* in parts, and the other end reads any number of them at a time.  The    *)
(* client reconnects when the connection is gone (TcpClient's retry).      *)
EXTENDS Integers, Sequences, FiniteSets, SequencesExt

CONSTANTS
    Threads,                    \* of the server, other than the I/O thread
    MaxFrames, MaxRounds        \* bounds: messages and pings, connections

VARIABLES
    srv,        \* WsSession, its TcpConnection and the server's callbacks
    cli,        \* WebSocketClient, likewise
    c2s, s2c,   \* parts on their way
    acting,     \* per thread of the server: the call it is in
    round       \* connections made

wsVars == <<srv, cli, c2s, s2c, acting, round>>

\* One end: state_, the connection (tcp), the input buffer, where the I/O thread
\* is (pc), and how often the application was told of an open and a close
NewEnd(state) ==
    [state |-> state, tcp |-> "up", buf |-> <<>>, pc |-> "idle", opened |-> 0,
     closed |-> 0, got |-> <<>>, sent |-> <<>>, pings |-> 0,
     closes |-> 0, forced |-> FALSE]

NoEnd == [NewEnd("Closed") EXCEPT !.tcp = "down"]

\* A "huge" frame is a text longer than maxMessageSize.
Parts(kind) == IF kind \in {"upgrade", "101", "text", "huge"} THEN 2 ELSE 1
Frame(kind, n) == [p \in 1 .. Parts(kind) |-> [kind |-> kind, n |-> n, part |-> p]]
Fin == Frame("fin", 0)

Whole(buf) == buf # <<>> /\ Len(buf) >= Parts(buf[1].kind)
Rest(buf) == SubSeq(buf, Parts(buf[1].kind) + 1, Len(buf))

\* sendRaw, and TcpConnection::send: nothing is sent once shutdown was called
Out(e, channel, kind, n) == IF e.tcp = "up" THEN channel \o Frame(kind, n) ELSE channel

\* TcpConnection::shutdown and TcpConnection::handleClose, seen from the wire
Shut(e) == IF e.tcp = "up" THEN [e EXCEPT !.tcp = "half"] ELSE e
FinOut(e, channel) == IF e.tcp = "up" THEN channel \o Fin ELSE channel

MaySend == Len(srv.sent) + Len(cli.sent) + srv.pings + cli.pings
              + Cardinality({t \in Threads : acting[t].call = "text"}) < MaxFrames

WsInit ==
    /\ srv = NoEnd /\ cli = NoEnd /\ c2s = <<>> /\ s2c = <<>>
    /\ acting = [t \in Threads |-> [call |-> "none", round |-> 0]] /\ round = 0

\* The connection is made: WebSocketServer::onConnection puts a session in the
\* maps, WebSocketClient::onConnection sends the upgrade request.
SessionCreated == NewEnd("Connecting")
UpgradeSent == NewEnd("Connecting")

WsConnect ==
    /\ srv.tcp = "down" /\ cli.tcp = "down" /\ round < MaxRounds
    /\ srv' = SessionCreated /\ cli' = UpgradeSent
    /\ c2s' = Frame("upgrade", 0) /\ s2c' = <<>>
    /\ round' = round + 1
    /\ UNCHANGED acting

-----------------------------------------------------------------------------
\* The server's I/O thread

\* WebSocketServer::onMessage, by the state of the session
SrvOnMessage(s) == CASE s.state = "Connecting" -> [s EXCEPT !.pc = "handshake"]
                     [] s.state = "Open" -> [s EXCEPT !.pc = "frames"]
                     [] OTHER -> s

IsData(channel, k) == \A i \in 1 .. k : channel[i].kind # "fin"

SrvRead ==
    /\ srv.tcp # "down" /\ srv.pc = "idle"
    /\ \E k \in 1 .. Len(c2s) :
          /\ IsData(c2s, k)
          /\ srv' = SrvOnMessage([srv EXCEPT !.buf = @ \o SubSeq(c2s, 1, k)])
          /\ c2s' = SubSeq(c2s, k + 1, Len(c2s))
    /\ UNCHANGED <<cli, s2c, acting, round>>

\* handleHandshake: wait for the whole request, then accept it, or answer 400 or
\* 403 (sendBadRequest, sendForbidden) and shut the connection down
Accepted(s) == [s EXCEPT !.state = "Open", !.opened = @ + 1, !.buf = Rest(s.buf), !.pc = "idle"]
Rejected(s) == [Shut(s) EXCEPT !.buf = Rest(s.buf), !.pc = "idle"]

HandleHandshake ==
    /\ srv.pc = "handshake"
    /\ \/ ~Whole(srv.buf) /\ srv' = [srv EXCEPT !.pc = "idle"] /\ UNCHANGED s2c
       \/ Whole(srv.buf) /\ srv' = Accepted(srv) /\ s2c' = Out(srv, s2c, "101", round)
       \/ Whole(srv.buf) /\ srv' = Rejected(srv)
                         /\ s2c' = FinOut(srv, Out(srv, s2c, "403", round))
    /\ UNCHANGED <<cli, c2s, acting, round>>

\* WsSession::close, its check and the rest of it
MayClose(s) == s.state \notin {"Closed", "Closing"}
Closing(s) == [s EXCEPT !.state = "Closing", !.closes = @ + IF s.tcp = "up" THEN 1 ELSE 0]

\* WsSession::pong
PongOut(s) == IF s.state = "Open" THEN Out(s, s2c, "pong", 0) ELSE s2c

\* handleWsFrames: one frame of the loop
SrvFrames ==
    /\ srv.pc = "frames"
    /\ IF ~Whole(srv.buf)
       THEN srv' = [srv EXCEPT !.pc = "idle"] /\ UNCHANGED s2c
       ELSE LET f == srv.buf[1]
                s == [srv EXCEPT !.buf = Rest(srv.buf)]
            IN IF f.kind \in {"huge", "close"}
               THEN LET back == IF f.kind = "huge" THEN "idle" ELSE "frames" IN
                    IF MayClose(s)
                    THEN /\ srv' = [Shut(Closing(s)) EXCEPT !.pc = back]
                         /\ s2c' = FinOut(s, Out(s, s2c, "close", 0))
                    ELSE srv' = [s EXCEPT !.pc = back] /\ UNCHANGED s2c
               ELSE /\ srv' = IF f.kind = "text" THEN [s EXCEPT !.got = Append(@, f.n)] ELSE s
                    /\ s2c' = IF f.kind = "ping" THEN PongOut(s) ELSE s2c
    /\ UNCHANGED <<cli, c2s, acting, round>>

\* WsSession::handleClose
HandleClose(s) == IF s.state = "Closed" THEN s
                  ELSE [s EXCEPT !.state = "Closed", !.closed = @ + 1]

\* The end of the stream: onConnection of a connection that is down
SrvDown ==
    /\ srv.tcp # "down" /\ srv.pc = "idle" /\ c2s # <<>> /\ c2s[1].kind = "fin"
    /\ srv' = [HandleClose(srv) EXCEPT !.tcp = "down"]
    /\ s2c' = FinOut(srv, s2c) /\ c2s' = <<>>
    /\ UNCHANGED <<cli, acting, round>>

-----------------------------------------------------------------------------
\* The server's other threads

Act(t, call) == acting' = [acting EXCEPT ![t] = [call |-> call, round |-> round]]
Done(t) == acting' = [acting EXCEPT ![t] = [call |-> "none", round |-> 0]]

\* getAllSessions: the sessions of the map that are open
Listed == srv.tcp # "down" /\ srv.state = "Open"

\* The idle timer of start(), shutdown() and the application call close() on a
\* session they listed: the check of its state.
CloseCheck(t) ==
    /\ acting[t].call = "none" /\ Listed
    /\ Act(t, "close")
    /\ UNCHANGED <<srv, cli, c2s, s2c, round>>

\* state_ = Closing, and the Close frame; nothing happens to a session that is gone
CloseSend(t) ==
    /\ acting[t].call = "close"
    /\ IF acting[t].round = round /\ srv.tcp # "down"
       THEN srv' = Closing(srv) /\ s2c' = Out(srv, s2c, "close", 0)
       ELSE UNCHANGED <<srv, s2c>>
    /\ acting' = [acting EXCEPT ![t].call = "shutdown"]
    /\ UNCHANGED <<cli, c2s, round>>

CloseShutdown(t) ==
    /\ acting[t].call = "shutdown"
    /\ IF acting[t].round = round
       THEN srv' = Shut(srv) /\ s2c' = FinOut(srv, s2c)
       ELSE UNCHANGED <<srv, s2c>>
    /\ Done(t)
    /\ UNCHANGED <<cli, c2s, round>>

\* forceClose, by the application
ForceClose(t) ==
    /\ acting[t].call = "none" /\ Listed
    /\ srv' = [Shut(srv) EXCEPT !.state = "Closed", !.forced = TRUE]
    /\ s2c' = FinOut(srv, s2c)
    /\ UNCHANGED <<cli, c2s, acting, round>>

\* sendText, through broadcast: check, then send
TextCheck(t) ==
    /\ acting[t].call = "none" /\ Listed /\ MaySend
    /\ Act(t, "text")
    /\ UNCHANGED <<srv, cli, c2s, s2c, round>>

TextSend(t) ==
    /\ acting[t].call = "text"
    /\ IF acting[t].round = round /\ srv.tcp = "up"
       THEN LET n == Len(srv.sent) + 1 IN
            srv' = [srv EXCEPT !.sent = Append(@, n)] /\ s2c' = Out(srv, s2c, "text", n)
       ELSE UNCHANGED <<srv, s2c>>
    /\ Done(t)
    /\ UNCHANGED <<cli, c2s, round>>

\* The ping timer of start()
PingTimer ==
    /\ Listed /\ MaySend
    /\ srv' = [srv EXCEPT !.pings = @ + 1] /\ s2c' = Out(srv, s2c, "ping", 0)
    /\ UNCHANGED <<cli, c2s, acting, round>>

-----------------------------------------------------------------------------
\* The client's loop

\* WebSocketClient::onMessage: what arrives while closing is thrown away
CliOnMessage(c, data) == CASE c.state = "Connecting" -> [c EXCEPT !.buf = @ \o data, !.pc = "handshake"]
                           [] c.state = "Open" -> [c EXCEPT !.buf = @ \o data, !.pc = "frames"]
                           [] OTHER -> c

CliRead ==
    /\ cli.tcp # "down" /\ cli.pc = "idle"
    /\ \E k \in 1 .. Len(s2c) :
          /\ IsData(s2c, k)
          /\ cli' = CliOnMessage(cli, SubSeq(s2c, 1, k))
          /\ s2c' = SubSeq(s2c, k + 1, Len(s2c))
    /\ UNCHANGED <<srv, c2s, acting, round>>

\* handleHandshakeResponse: frames that came with the response are handled at once
HandleHandshakeResponse ==
    /\ cli.pc = "handshake"
    /\ IF ~Whole(cli.buf)
       THEN cli' = [cli EXCEPT !.pc = "idle"] /\ UNCHANGED c2s
       ELSE IF cli.buf[1].kind = "101"
       THEN /\ cli' = [cli EXCEPT !.state = "Open", !.opened = @ + 1, !.buf = Rest(cli.buf),
                                  !.pc = "frames"]
            /\ UNCHANGED c2s
       ELSE /\ cli' = [Shut(cli) EXCEPT !.state = "Closed", !.pc = "idle"]
            /\ c2s' = FinOut(cli, c2s)
    /\ UNCHANGED <<srv, s2c, acting, round>>

\* The Close frame in handleWsFrames: answer it, and tell the application
CloseReceived(c) == [c EXCEPT !.state = "Closed", !.closed = @ + 1]

\* handleWsFrames: one frame of the loop
CliFrames ==
    /\ cli.pc = "frames"
    /\ IF ~Whole(cli.buf)
       THEN cli' = [cli EXCEPT !.pc = "idle"] /\ UNCHANGED c2s
       ELSE LET f == cli.buf[1]
                c == [cli EXCEPT !.buf = Rest(cli.buf)]
            IN /\ cli' = CASE f.kind = "text" -> [c EXCEPT !.got = Append(@, f.n)]
                           [] f.kind = "close" -> CloseReceived(c)
                           [] OTHER -> c
               /\ c2s' = CASE f.kind = "ping" -> Out(c, c2s, "pong", 0)
                           [] f.kind = "close" /\ c.state = "Open" -> Out(c, c2s, "close", 0)
                           [] OTHER -> c2s
    /\ UNCHANGED <<srv, s2c, acting, round>>

\* Mutant of LostWhile: the callback is called unless the handshake was under way
LostWhileAny(prevState) == prevState # "Connecting"

\* onConnection of a connection that is down: the close callback, if the
\* connection was open
LostWhile(prevState) == prevState \in {"Open", "Closing"}

CliDown ==
    /\ cli.tcp # "down" /\ cli.pc = "idle" /\ s2c # <<>> /\ s2c[1].kind = "fin"
    /\ cli' = [cli EXCEPT !.tcp = "down", !.state = "Closed",
                          !.closed = @ + IF LostWhile(cli.state) THEN 1 ELSE 0]
    /\ c2s' = FinOut(cli, c2s) /\ s2c' = <<>>
    /\ UNCHANGED <<srv, acting, round>>

\* sendText, ping, close and disconnect, by the application
CliSendText ==
    /\ cli.state = "Open" /\ cli.tcp = "up" /\ MaySend
    /\ \E kind \in {"text", "huge"} :
          LET n == Len(cli.sent) + 1 IN
          cli' = [cli EXCEPT !.sent = Append(@, n)] /\ c2s' = Out(cli, c2s, kind, n)
    /\ UNCHANGED <<srv, s2c, acting, round>>

CliPing ==
    /\ cli.state = "Open" /\ MaySend
    /\ cli' = [cli EXCEPT !.pings = @ + 1] /\ c2s' = Out(cli, c2s, "ping", 0)
    /\ UNCHANGED <<srv, s2c, acting, round>>

CliClose ==
    /\ cli.state = "Open"
    /\ cli' = [cli EXCEPT !.state = "Closing"] /\ c2s' = Out(cli, c2s, "close", 0)
    /\ UNCHANGED <<srv, s2c, acting, round>>

CliDisconnect ==
    /\ cli.tcp = "up"
    /\ LET closing == cli.state = "Open" IN
       /\ cli' = [Shut(cli) EXCEPT !.state = IF closing THEN "Closing" ELSE @]
       /\ c2s' = FinOut(cli, IF closing THEN Out(cli, c2s, "close", 0) ELSE c2s)
    /\ UNCHANGED <<srv, s2c, acting, round>>

-----------------------------------------------------------------------------
SrvStep == SrvRead \/ HandleHandshake \/ SrvFrames \/ SrvDown
CliStep == CliRead \/ HandleHandshakeResponse \/ CliFrames \/ CliDown
ThreadStep(t) == CloseSend(t) \/ CloseShutdown(t) \/ TextSend(t)

WsNext == \/ SrvStep \/ CliStep
          \/ WsConnect \/ PingTimer
          \/ CliSendText \/ CliPing \/ CliClose \/ CliDisconnect
          \/ \E t \in Threads : CloseCheck(t) \/ ForceClose(t) \/ TextCheck(t) \/ ThreadStep(t)

\* The loops of the two ends and the threads that are in a call go on.
WsFairness == /\ WF_wsVars(SrvStep) /\ WF_wsVars(CliStep)
              /\ \A t \in Threads : WF_wsVars(ThreadStep(t))

(* The application's callbacks come in pairs (WsSession.h:173-179,         *)
(* WebSocketServer.h:232-269, WebSocketClient.h:310-348 and :547-573): in  *)
(* the life of a connection each end is told of at most one open and one   *)
(* close, and when the connection is gone, of a close exactly if it was    *)
(* told of an open; the server's close handler also runs for a session     *)
(* that never opened, and never after forceClose().  The client is         *)
(* excepted when two threads of the server both passed close()'s check,    *)
(* which sends two Close frames.  Messages arrive in order, none twice.    *)
WsCallbacksPaired ==
    /\ srv.opened <= 1 /\ cli.opened <= srv.opened
    /\ srv.closed <= 1 /\ (srv.tcp = "down" /\ round > 0 => srv.closed = 1 \/ srv.forced)
    /\ srv.closes <= 1 => /\ cli.closed <= cli.opened
                          /\ cli.tcp = "down" => cli.closed = cli.opened
    /\ IsPrefix(srv.got, cli.sent) /\ IsPrefix(cli.got, srv.sent)

(* A close on either side takes the connection down on both                *)
(* (WsSession.h:87-111, WebSocketServer.h:429-432,                         *)
(* WebSocketClient.h:142-147 and :228-241).                                *)
WsCloses ==
    (srv.tcp = "half" \/ cli.tcp = "half" \/ cli.state = "Closing" \/ srv.state = "Closing")
        ~> (srv.tcp = "down" /\ cli.tcp = "down")
=============================================================================
