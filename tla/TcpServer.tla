----------------------------- MODULE TcpServer -----------------------------
(***************************************************************************)
(* net/TcpServer over a pool of loops: a connection is accepted in the     *)
(* base loop (0), lives in an I/O loop (or in the base loop when there are *)
(* no I/O threads) and travels through both on its way out.  A loop        *)
(* alternates between the handlers of its channels and the functors of its *)
(* queue, taken in one batch (see EventLoop for the wakeups).  The server  *)
(* is destroyed by the base loop's thread after that loop has returned, as *)
(* everywhere in the repository, and its thread pool with it.              *)
(***************************************************************************)
EXTENDS Integers, Sequences, FiniteSets

LOCAL INSTANCE FiniteSetsExt

CONSTANTS
    Conns,       \* the connections clients make
    PoolSizes    \* what setThreadNum may be called with

ASSUME ServerAssumption == PoolSizes \subseteq Nat

VARIABLES
    numThreads,   \* numThreads_ of the pool, set before start()
    lpc,          \* each loop: in "poll" and its handlers, "run", or "done"
    queue,        \* pendingFunctors_ of each loop
    batch,        \* the functors a loop is running
    quit,         \* quit_ of each loop
    next_,        \* EventLoopThreadPool::next_
    connections,  \* connections_
    loopOf,       \* TcpConnection::loop_
    state,        \* state_ of each connection, "none" before it is accepted
    channel,      \* its channel: "none", "on", "off" (disabled), "removed"
    peerClosed,   \* connections whose client is gone
    ups, downs,   \* connection callbacks for each connection
    destroyed,    \* runs of connectDestroyed for each connection
    server        \* "up", then ~TcpServer: "dtor", "join", "gone"

vars == <<numThreads, lpc, queue, batch, quit, next_, connections, loopOf, state,
          channel, peerClosed, ups, downs, destroyed, server>>

base == 0
Loops == 0..numThreads

Functor(op, c) == [op |-> op, conn |-> c]

ServerInit ==
    /\ numThreads \in PoolSizes
    /\ lpc = [l \in Loops |-> "poll"]
    /\ queue = [l \in Loops |-> <<>>]
    /\ batch = [l \in Loops |-> <<>>]
    /\ quit = [l \in Loops |-> FALSE]
    /\ next_ = 0
    /\ connections = {}
    /\ loopOf = [c \in Conns |-> base]
    /\ state = [c \in Conns |-> "none"]
    /\ channel = [c \in Conns |-> "none"]
    /\ peerClosed = {}
    /\ ups = [c \in Conns |-> 0]
    /\ downs = [c \in Conns |-> 0]
    /\ destroyed = [c \in Conns |-> 0]
    /\ server = "up"

-----------------------------------------------------------------------------
(* What functors and handlers do to a connection *)

ConnectEstablished(c) ==
    /\ state' = [state EXCEPT ![c] = "kConnected"]
    /\ channel' = [channel EXCEPT ![c] = "on"]
    /\ ups' = [ups EXCEPT ![c] = @ + 1]
    /\ UNCHANGED <<downs, destroyed>>

\* Mutant of ConnectDestroyed: the callback for every state.
ConnectDestroyedAlwaysDown(c) ==
    /\ state' = [state EXCEPT ![c] = "kDisconnected"]
    /\ downs' = [downs EXCEPT ![c] = @ + 1]
    /\ channel' = [channel EXCEPT ![c] = "removed"]
    /\ destroyed' = [destroyed EXCEPT ![c] = @ + 1]
    /\ UNCHANGED ups

\* For a connection that is still up, the callback too.
ConnectDestroyed(c) ==
    /\ state' = [state EXCEPT ![c] = IF @ = "kConnected" THEN "kDisconnected" ELSE @]
    /\ downs' = [downs EXCEPT ![c] = IF state[c] = "kConnected" THEN @ + 1 ELSE @]
    /\ channel' = [channel EXCEPT ![c] = "removed"]
    /\ destroyed' = [destroyed EXCEPT ![c] = @ + 1]
    /\ UNCHANGED ups

\* Mutant of RemoveConnectionInLoop: connections_ forgets the connection and
\* nobody destroys it.
RemoveConnectionEraseOnly(c, q) ==
    /\ connections' = connections \ {c}
    /\ queue' = q

\* removeConnectionInLoop, q being the queues it finds.
RemoveConnectionInLoop(c, q) ==
    /\ connections' = connections \ {c}
    /\ queue' = [q EXCEPT ![loopOf[c]] = Append(@, Functor("connectDestroyed", c))]

-----------------------------------------------------------------------------
(* Handlers *)

\* getNextLoop: I/O loop number next_ + 1, then the next one.
NextIndex == IF next_ + 1 >= numThreads THEN 0 ELSE next_ + 1

\* Acceptor::handleRead and newConnection.
NewConnection(c) ==
    /\ lpc[base] = "poll"
    /\ state[c] = "none"
    /\ connections' = connections \cup {c}
    /\ IF numThreads = 0
       THEN ConnectEstablished(c) /\ UNCHANGED <<queue, next_, loopOf>>
       ELSE /\ loopOf' = [loopOf EXCEPT ![c] = next_ + 1]
            /\ next_' = NextIndex
            /\ state' = [state EXCEPT ![c] = "kConnecting"]
            /\ queue' = [queue EXCEPT ![next_ + 1] =
                            Append(@, Functor("connectEstablished", c))]
            /\ UNCHANGED <<channel, ups, downs, destroyed>>
    /\ UNCHANGED <<numThreads, lpc, batch, quit, peerClosed, server>>

ClientCloses(c) ==
    /\ state[c] # "none"
    /\ peerClosed' = peerClosed \cup {c}
    /\ UNCHANGED <<numThreads, lpc, queue, batch, quit, next_, connections,
                   loopOf, state, channel, ups, downs, destroyed, server>>

\* handleClose in the connection's loop; its close callback removeConnection
\* goes on in the base loop.
HandleClose(c) ==
    /\ lpc[loopOf[c]] = "poll"
    /\ channel[c] = "on"
    /\ c \in peerClosed
    /\ state' = [state EXCEPT ![c] = "kDisconnected"]
    /\ channel' = [channel EXCEPT ![c] = "off"]
    /\ downs' = [downs EXCEPT ![c] = @ + 1]
    /\ IF loopOf[c] = base
       THEN RemoveConnectionInLoop(c, queue)
       ELSE /\ queue' = [queue EXCEPT ![base] =
                            Append(@, Functor("removeConnectionInLoop", c))]
            /\ UNCHANGED connections
    /\ UNCHANGED <<numThreads, lpc, batch, quit, next_, loopOf, peerClosed, ups,
                   destroyed, server>>

-----------------------------------------------------------------------------
(* The loops *)

\* doPendingFunctors swaps the queue out ...
SwapFunctors(l) ==
    /\ lpc[l] = "poll"
    /\ lpc' = [lpc EXCEPT ![l] = "run"]
    /\ batch' = [batch EXCEPT ![l] = queue[l]]
    /\ queue' = [queue EXCEPT ![l] = <<>>]
    /\ UNCHANGED <<numThreads, quit, next_, connections, loopOf, state, channel,
                   peerClosed, ups, downs, destroyed, server>>

\* ... runs each functor ...
RunFunctor(l) ==
    /\ batch[l] # <<>>
    /\ batch' = [batch EXCEPT ![l] = Tail(@)]
    /\ LET f == Head(batch[l])
       IN  \/ /\ f.op = "connectEstablished"
              /\ ConnectEstablished(f.conn)
              /\ UNCHANGED <<queue, connections>>
           \/ /\ f.op = "connectDestroyed"
              /\ ConnectDestroyed(f.conn)
              /\ UNCHANGED <<queue, connections>>
           \/ /\ f.op = "removeConnectionInLoop"
              /\ RemoveConnectionInLoop(f.conn, queue)
              /\ UNCHANGED <<state, channel, ups, downs, destroyed>>
    /\ UNCHANGED <<numThreads, lpc, quit, next_, loopOf, peerClosed, server>>

\* ... and the loop ends if quit_ is set.  The EventLoop of an I/O thread goes
\* with its thread, and what is queued on it too.
LoopTest(l) ==
    /\ lpc[l] = "run"
    /\ batch[l] = <<>>
    /\ lpc' = [lpc EXCEPT ![l] = IF quit[l] THEN "done" ELSE "poll"]
    /\ queue' = IF quit[l] /\ l # base THEN [queue EXCEPT ![l] = <<>>] ELSE queue
    /\ UNCHANGED <<numThreads, batch, quit, next_, connections, loopOf, state,
                   channel, peerClosed, ups, downs, destroyed, server>>

\* The application quits the base loop.
QuitBase ==
    /\ ~quit[base]
    /\ quit' = [quit EXCEPT ![base] = TRUE]
    /\ UNCHANGED <<numThreads, lpc, queue, batch, next_, connections, loopOf,
                   state, channel, peerClosed, ups, downs, destroyed, server>>

-----------------------------------------------------------------------------
(* ~TcpServer *)

DtorBegins ==
    /\ server = "up"
    /\ lpc[base] = "done"
    /\ server' = "dtor"
    /\ UNCHANGED <<numThreads, lpc, queue, batch, quit, next_, connections,
                   loopOf, state, channel, peerClosed, ups, downs, destroyed>>

\* One turn of the loop over connections_; the entry stays, empty.
DtorDestroys(c) ==
    /\ server = "dtor"
    /\ c \in connections
    /\ connections' = connections \ {c}
    /\ IF loopOf[c] = base
       THEN ConnectDestroyed(c) /\ UNCHANGED queue
       ELSE /\ queue' = [queue EXCEPT ![loopOf[c]] =
                            Append(@, Functor("connectDestroyed", c))]
            /\ UNCHANGED <<state, channel, ups, downs, destroyed>>
    /\ UNCHANGED <<numThreads, lpc, batch, quit, next_, loopOf, peerClosed,
                   server>>

DtorBodyEnds ==
    /\ server = "dtor"
    /\ connections = {}
    /\ server' = "join"
    /\ UNCHANGED <<numThreads, lpc, queue, batch, quit, next_, connections,
                   loopOf, state, channel, peerClosed, ups, downs, destroyed>>

\* Mutant of QuitAndJoin: the thread is joined before its loop is made to quit.
JoinAndQuit(l) ==
    /\ server = "join"
    /\ l # base /\ ~quit[l]
    /\ \A k \in 1..l : lpc[k] = "done"
    /\ quit' = [quit EXCEPT ![l] = TRUE]
    /\ UNCHANGED <<numThreads, lpc, queue, batch, next_, connections, loopOf,
                   state, channel, peerClosed, ups, downs, destroyed, server>>

\* The members go, the pool with them: each EventLoopThread quits its loop and
\* joins its thread before the next one does.
QuitAndJoin(l) ==
    /\ server = "join"
    /\ l # base /\ ~quit[l]
    /\ \A k \in 1..(l - 1) : lpc[k] = "done"
    /\ quit' = [quit EXCEPT ![l] = TRUE]
    /\ UNCHANGED <<numThreads, lpc, queue, batch, next_, connections, loopOf,
                   state, channel, peerClosed, ups, downs, destroyed, server>>

DtorEnds ==
    /\ server = "join"
    /\ \A l \in Loops : lpc[l] = "done"
    /\ server' = "gone"
    /\ UNCHANGED <<numThreads, lpc, queue, batch, quit, next_, connections,
                   loopOf, state, channel, peerClosed, ups, downs, destroyed>>

Gone == server = "gone" /\ UNCHANGED vars

-----------------------------------------------------------------------------
LoopStep(l) == SwapFunctors(l) \/ RunFunctor(l) \/ LoopTest(l)

DtorStep ==
    \/ DtorBegins \/ (\E c \in Conns : DtorDestroys(c)) \/ DtorBodyEnds
    \/ (\E l \in Loops : QuitAndJoin(l)) \/ DtorEnds

ServerNext ==
    \/ \E c \in Conns : NewConnection(c) \/ ClientCloses(c) \/ HandleClose(c)
    \/ \E l \in Loops : LoopStep(l)
    \/ QuitBase \/ DtorStep \/ Gone

ServerSpec == ServerInit /\ [][ServerNext]_vars

\* Every thread is scheduled, and a loop that keeps turning serves a channel
\* that is ready.
FairServerSpec ==
    /\ ServerSpec
    /\ \A l \in 0..Max(PoolSizes) : WF_vars(l \in Loops /\ LoopStep(l))
    /\ \A c \in Conns : SF_vars(HandleClose(c))
    /\ WF_vars(DtorStep)

-----------------------------------------------------------------------------
(* Properties *)

Functors == [op : {"connectEstablished", "connectDestroyed", "removeConnectionInLoop"},
             conn : Conns]

\* Types; next_ is always the index of an I/O loop.
ServerTypeOK ==
    /\ numThreads \in PoolSizes
    /\ lpc \in [Loops -> {"poll", "run", "done"}]
    /\ queue \in [Loops -> Seq(Functors)]
    /\ batch \in [Loops -> Seq(Functors)]
    /\ quit \in [Loops -> BOOLEAN]
    /\ next_ \in 0..numThreads
    /\ next_ = 0 \/ next_ < numThreads
    /\ connections \subseteq Conns
    /\ loopOf \in [Conns -> Loops]
    /\ state \in [Conns -> {"none", "kConnecting", "kConnected", "kDisconnected"}]
    /\ channel \in [Conns -> {"none", "on", "off", "removed"}]
    /\ peerClosed \subseteq Conns
    /\ ups \in [Conns -> Nat] /\ downs \in [Conns -> Nat] /\ destroyed \in [Conns -> Nat]
    /\ server \in {"up", "dtor", "join", "gone"}

Holds(s, c) == \E i \in 1..Len(s) : s[i].conn = c

\* Somebody has a shared_ptr to the connection.
Referenced(c) ==
    c \in connections \/ \E l \in Loops : Holds(queue[l], c) \/ Holds(batch[l], c)

\* A connection whose channel is in the poller of a live loop is never deleted:
\* connections_ or a functor on its way holds it from newConnection to
\* connectDestroyed, through both loops.
NoDanglingChannel ==
    \A c \in Conns :
        (channel[c] \in {"on", "off"} /\ lpc[loopOf[c]] # "done") => Referenced(c)

\* The life of a connection: connectEstablished comes first and once, the user is
\* told of the end at most once and after the beginning, and connectDestroyed
\* runs at most once, whichever of the client and ~TcpServer comes first.
Lifecycle ==
    \A c \in Conns :
        /\ downs[c] <= ups[c] /\ ups[c] <= 1
        /\ destroyed[c] <= downs[c]
        /\ state[c] = "kConnected" => c \in connections \/ server # "up"

\* A connection whose client is gone is destroyed, unless the base loop stops.
ClosedIsDestroyed ==
    \A c \in Conns : (c \in peerClosed) ~> (destroyed[c] = 1 \/ quit[base])

\* The destructor of the server returns.
DtorReturns == (server = "dtor") ~> (server = "gone")

\* ~TcpServer calls connectDestroyed for each connection in its loop.
AllDestroyed ==
    server = "gone" => \A c \in Conns : ups[c] = 1 => destroyed[c] = 1

\* It does so when there are no I/O threads: what handleClose queued on the base
\* loop has run before that loop ended, and the destructor does the rest itself.
AllDestroyedHere == numThreads = 0 => AllDestroyed

\* The callbacks of a connection pair up whatever ends it, and without I/O threads
\* ~TcpServer leaves no connection that connectDestroyed has not run for.
LifecycleComplete == Lifecycle /\ AllDestroyedHere
=============================================================================
