----------------------------- MODULE TcpClient -----------------------------
(* net/Connector.cc and net/TcpClient.cc: a client that connects, retries  *)
(* with a growing delay and reconnects, on an event loop, while a user     *)
(* thread calls connect(), disconnect() and stop().                        *)
(*                                                                         *)
(* The loop's iteration matters here and is kept: a poll, the events of    *)
(* the descriptors that were registered at the poll, then the functors     *)
(* that were queued by then.  TcpConnection is reduced to its descriptor   *)
(* (its own module has the rest).                                          *)
EXTENDS Integers, Sequences, FiniteSets, FiniteSetsExt

CONSTANTS
    Fds,                 \* descriptors the process may use
    InitDelay, MaxDelay, \* kInitRetryDelayMs, kMaxRetryDelayMs
    MaxConnects, MaxStops \* bounds on the user's calls

VARIABLES
    connector,   \* connect_, state_, channel_ (a descriptor or 0), retryDelayMs_
    tcp,         \* TcpClient: connect_, connection_ (a descriptor or 0)
    open,        \* descriptors open
    polled,      \* connector channels registered with the poller
    loop,        \* phase, ready (this poll's descriptors), queue, functors
    timer,       \* retry timers running
    user,        \* calls made
    dangling,    \* ghost: channels destroyed while registered
    gaveUp       \* ghost: a connect() error that is not retried

clientVars == <<connector, tcp, open, polled, loop, timer, user, dangling, gaveUp>>

\* Connector and TcpClient constructors
ClientInit ==
    /\ connector = [connect_ |-> FALSE, state |-> "disconnected", channel |-> 0, delay |-> InitDelay]
    /\ tcp = [connect_ |-> TRUE, connection |-> 0, removing |-> FALSE]
    /\ open = {} /\ polled = {} /\ timer = 0
    /\ loop = [phase |-> "poll", ready |-> {}, queue |-> <<>>, functors |-> <<>>]
    /\ user = [connects |-> 0, stops |-> 0]
    /\ dangling = {} /\ gaveUp = FALSE

\* queueInLoop
Queue(l, f, fd) == [l EXCEPT !.queue = Append(@, [run |-> f, fd |-> fd])]

(***************************************************************************)
(* Connector                                                               *)
(***************************************************************************)
\* Destroying the channel that c holds; reset(new Channel) does it too.
Destroys(c) == IF c.channel \in polled THEN {c.channel} ELSE {}

\* Mutant of Retry: the socket is not closed.
RetryLeaks(c, fd, l, t) ==
    /\ connector' = [c EXCEPT !.state = "disconnected",
                              !.delay = IF c.connect_ THEN Min({2 * @, MaxDelay}) ELSE @]
    /\ timer' = IF c.connect_ THEN t + 1 ELSE t
    /\ loop' = l
    /\ UNCHANGED open

\* retry
Retry(c, fd, l, t) ==
    /\ open' = open \ {fd}
    /\ connector' = [c EXCEPT !.state = "disconnected",
                              !.delay = IF c.connect_ THEN Min({2 * @, MaxDelay}) ELSE @]
    /\ timer' = IF c.connect_ THEN t + 1 ELSE t
    /\ loop' = l

\* connect and connecting
Connect(c, l, t) ==
    LET fd == Min(Fds \ open) IN
    \/ /\ connector' = [c EXCEPT !.state = "connecting", !.channel = fd]
       /\ open' = open \cup {fd}
       /\ dangling' = dangling \cup Destroys(c)
       /\ polled' = (polled \ Destroys(c)) \cup {fd}
       /\ loop' = l /\ timer' = t
       /\ UNCHANGED gaveUp
    \/ Retry(c, fd, l, t) /\ UNCHANGED <<polled, dangling, gaveUp>>
    \/ /\ connector' = c /\ loop' = l /\ timer' = t /\ gaveUp' = TRUE
       /\ UNCHANGED <<open, polled, dangling>>

\* startInLoop
StartInLoop(c, l, t) ==
    IF c.connect_ THEN Connect(c, l, t)
    ELSE /\ connector' = c /\ loop' = l /\ timer' = t
         /\ UNCHANGED <<open, polled, dangling, gaveUp>>

\* removeAndResetChannel: off the poller now, destroyed by a queued functor
Removed(l) == Queue(l, "resetChannel", 0)

\* stopInLoop
StopInLoop(l) ==
    IF connector.state = "connecting"
    THEN /\ connector' = [connector EXCEPT !.state = "disconnected"]
         /\ polled' = polled \ {connector.channel}
         /\ open' = open \ {connector.channel}
         /\ loop' = Removed(l)
    ELSE loop' = l /\ UNCHANGED <<connector, open, polled>>

\* resetChannel
ResetChannel(l) ==
    /\ dangling' = dangling \cup Destroys(connector)
    /\ connector' = [connector EXCEPT !.channel = 0]
    /\ loop' = l

\* newConnection: the socket is the TcpConnection's from here on
NewConnection(fd) ==
    tcp' = [tcp EXCEPT !.connection = fd]

\* The connecting socket became writable or failed.  handleError, or
\* handleWrite with an error, retries; handleWrite alone hands the socket over,
\* or closes it after stop().  handleEvent may call both; the second finds the
\* state changed.
ConnectFails ==
    LET fd == connector.channel IN
    /\ loop.phase = "events" /\ connector.state = "connecting" /\ fd \in loop.ready
    /\ Retry(connector, fd, Removed([loop EXCEPT !.ready = @ \ {fd}]), timer)
    /\ polled' = polled \ {fd}
    /\ UNCHANGED <<tcp, user, dangling, gaveUp>>

HandleWrite ==
    LET fd == connector.channel IN
    /\ loop.phase = "events" /\ connector.state = "connecting" /\ fd \in loop.ready
    /\ polled' = polled \ {fd}
    /\ loop' = Removed([loop EXCEPT !.ready = @ \ {fd}])
    /\ IF connector.connect_
       THEN /\ connector' = [connector EXCEPT !.state = "connected", !.delay = InitDelay]
            /\ NewConnection(fd)
            /\ UNCHANGED open
       ELSE /\ connector' = [connector EXCEPT !.state = "connected"]
            /\ open' = open \ {fd}
            /\ UNCHANGED tcp
    /\ UNCHANGED <<timer, user, dangling, gaveUp>>

\* The retry timer fires.
RetryTimer ==
    /\ loop.phase = "events" /\ timer > 0 /\ 0 \in loop.ready
    /\ StartInLoop(connector, [loop EXCEPT !.ready = @ \ {0}], timer - 1)
    /\ UNCHANGED <<tcp, user>>

(***************************************************************************)
(* TcpClient                                                               *)
(***************************************************************************)
\* connect(), on the user's thread: start() queues startInLoop.
UserConnect ==
    /\ user.connects < MaxConnects
    /\ user' = [user EXCEPT !.connects = @ + 1]
    /\ tcp' = [tcp EXCEPT !.connect_ = TRUE]
    /\ connector' = [connector EXCEPT !.connect_ = TRUE]
    /\ loop' = Queue(loop, "startInLoop", 0)
    /\ UNCHANGED <<open, polled, timer, dangling, gaveUp>>

\* disconnect(): shuts the connection down, so that it closes (any connection
\* may); the connector is left alone.
UserDisconnect ==
    /\ user.stops < MaxStops
    /\ user' = [user EXCEPT !.stops = @ + 1]
    /\ tcp' = [tcp EXCEPT !.connect_ = FALSE]
    /\ UNCHANGED <<connector, open, polled, loop, timer, dangling, gaveUp>>

\* stop()
UserStop ==
    /\ user.stops < MaxStops
    /\ user' = [user EXCEPT !.stops = @ + 1]
    /\ tcp' = [tcp EXCEPT !.connect_ = FALSE]
    /\ connector' = [connector EXCEPT !.connect_ = FALSE]
    /\ loop' = Queue(loop, "stopInLoop", 0)
    /\ UNCHANGED <<open, polled, timer, dangling, gaveUp>>

\* The connection closes (its peer, an error, or after shutdown):
\* removeConnection forgets it, queues its end and reads connect_ ...
RemoveConnection ==
    /\ loop.phase = "events" /\ ~tcp.removing
    /\ tcp.connection # 0 /\ tcp.connection \in loop.ready
    /\ loop' = Queue([loop EXCEPT !.ready = @ \ {tcp.connection}],
                     "connectDestroyed", tcp.connection)
    /\ tcp' = [tcp EXCEPT !.connection = 0, !.removing = tcp.connect_]
    /\ UNCHANGED <<connector, open, polled, timer, user, dangling, gaveUp>>

\* ... and restarts the connector: stop() may have come in between.
Restart ==
    /\ tcp.removing
    /\ tcp' = [tcp EXCEPT !.removing = FALSE]
    /\ StartInLoop([connector EXCEPT !.state = "disconnected", !.delay = InitDelay,
                                     !.connect_ = TRUE], loop, timer)
    /\ UNCHANGED user

(***************************************************************************)
(* The loop                                                                *)
(***************************************************************************)
\* poll returns when there is something: the registered descriptors, a timer
\* that is due, or the wakeup for queued functors
Poll ==
    /\ loop.phase = "poll"
    /\ polled # {} \/ tcp.connection # 0 \/ timer > 0 \/ loop.queue # <<>>
    /\ loop' = [loop EXCEPT !.phase = "events",
                  !.ready = polled \cup ({tcp.connection} \ {0}) \cup (IF timer > 0 THEN {0} ELSE {})]
    /\ UNCHANGED <<connector, tcp, open, polled, timer, user, dangling, gaveUp>>

\* the rest of the ready descriptors had no event this time
SwapFunctors ==
    /\ loop.phase = "events" /\ ~tcp.removing
    /\ loop' = [loop EXCEPT !.phase = "functors", !.ready = {}, !.functors = loop.queue, !.queue = <<>>]
    /\ UNCHANGED <<connector, tcp, open, polled, timer, user, dangling, gaveUp>>

RunFunctor ==
    /\ loop.phase = "functors" /\ loop.functors # <<>>
    /\ LET f == Head(loop.functors)
           l == [loop EXCEPT !.functors = Tail(@)] IN
       \/ f.run = "startInLoop" /\ StartInLoop(connector, l, timer) /\ UNCHANGED <<tcp, user>>
       \/ f.run = "stopInLoop" /\ StopInLoop(l) /\ UNCHANGED <<tcp, timer, user, dangling, gaveUp>>
       \/ f.run = "resetChannel" /\ ResetChannel(l) /\ UNCHANGED <<tcp, open, polled, timer, user, gaveUp>>
       \/ /\ f.run = "connectDestroyed" /\ open' = open \ {f.fd} /\ loop' = l
          /\ UNCHANGED <<connector, tcp, polled, timer, user, dangling, gaveUp>>

EndIteration ==
    /\ loop.phase = "functors" /\ loop.functors = <<>>
    /\ loop' = [loop EXCEPT !.phase = "poll"]
    /\ UNCHANGED <<connector, tcp, open, polled, timer, user, dangling, gaveUp>>

LoopStep ==
    \/ Poll \/ SwapFunctors \/ RunFunctor \/ EndIteration
    \/ ConnectFails \/ HandleWrite \/ RetryTimer \/ RemoveConnection \/ Restart

ClientNext == LoopStep \/ UserConnect \/ UserDisconnect \/ UserStop

(* Fairness: the loop's thread runs; a timer that is due fires, and of the *)
(* attempts that can be made again and again one gets under way and one of *)
(* those is accepted.                                                      *)
AttemptStarts == /\ RetryTimer \/ RunFunctor \/ Restart
                 /\ connector.state # "connecting" /\ connector'.state = "connecting"

ClientFairness ==
    WF_clientVars(LoopStep) /\ SF_clientVars(HandleWrite) /\ SF_clientVars(AttemptStarts)

(***************************************************************************)
(* Properties                                                              *)
(***************************************************************************)
\* Connections whose connectDestroyed is queued
Dying ==
    {q.fd : q \in {f \in {loop.queue[i] : i \in DOMAIN loop.queue}
                      \cup {loop.functors[i] : i \in DOMAIN loop.functors} : f.run = "connectDestroyed"}}

(* Every open descriptor has exactly one owner: the socket being           *)
(* connected, the connection, or a connection whose connectDestroyed is    *)
(* queued.  No channel is destroyed while the poller holds it, whatever    *)
(* order failures, retries, stop() and reconnections come in, and the      *)
(* retry delay stays within its bounds (Connector.cc:80-241,               *)
(* TcpClient.cc:95-154).                                                   *)
ClientSockets ==
    /\ open = (IF connector.state = "connecting" THEN {connector.channel} ELSE {})
               \cup ({tcp.connection} \ {0}) \cup Dying
    /\ dangling = {}
    /\ connector.delay \in InitDelay .. MaxDelay

(* A client that was told to connect and neither to disconnect nor to stop *)
(* is connected again and again, whatever fails in between, unless         *)
(* connect() met an error that is not retried (Connector.cc:98-130,        *)
(* 207-224, TcpClient.cc:148).                                             *)
Reconnects ==
    [](user.connects > 0 => <>(tcp.connection # 0 \/ user.stops > 0 \/ gaveUp))
=============================================================================
