--------------------------- MODULE TcpConnection ---------------------------
(***************************************************************************)
(* One established net/TcpConnection: its output path (send, sendIov,      *)
(* sendFile, handleWrite), its half-close and its teardown.  Everything    *)
(* but the checks of state_ in send, sendFile and shutdown happens in the  *)
(* thread of the connection's loop; calls from other threads check state_, *)
(* then queue a functor that holds the connection.                         *)
(*                                                                         *)
(* Data are units numbered in the order in which the loop thread accepts   *)
(* them.  The kernel takes any prefix of what it is offered.  A file that  *)
(* is being sent is the sequence of its remaining units, each with the     *)
(* descriptor it is read from.                                             *)
(***************************************************************************)
EXTENDS Integers, Sequences

CONSTANTS
    Threads,      \* threads other than the loop's
    MaxLen,       \* longest send, sendIov (in slices) or file
    MaxFiles,     \* bound on the descriptors given to sendFile
    MaxCalls,     \* bound on the calls of send, sendIov and sendFile
    kMaxIov,      \* most slices that sendIov gives to one writev
    HighWater,    \* highWaterMark_
    AppShutdown   \* threads that may call shutdown()

ASSUME BoundsAssumption ==
    /\ {MaxLen, MaxFiles, MaxCalls} \subseteq Nat
    /\ kMaxIov \in Nat \ {0}
    /\ HighWater \in Nat \ {0}
    /\ AppShutdown \subseteq Threads

VARIABLES
    state,      \* state_
    poller,     \* the connection's channel, its poller and the kernel's table
    outbuf,     \* outputBuffer_
    files,      \* pendingFiles_
    fds,        \* descriptors that are open
    wire,       \* what the kernel has taken
    n,          \* units accepted so far
    queue,      \* functors of the loop that hold this connection
    todo,       \* the call each other thread is in, after its check of state_
    calls,      \* calls made by other threads
    opened,     \* descriptors given to sendFile so far
    wrShut,     \* shutdown(SHUT_WR) has been called on the socket
    peer,       \* "open", "fin" or "reset"
    lost,       \* the kernel refused data or a file could not be sent
    removals,   \* close callbacks on their way through the server's loop
    owned,      \* the server's connections_ holds the connection
    downs,      \* connection callbacks for a broken connection
    phase       \* "up", then "destroyed" by connectDestroyed, then "freed"

vars == <<state, poller, outbuf, files, fds, wire, n, queue, todo, calls,
          opened, wrShut, peer, lost, removals, owned, downs, phase>>

P == INSTANCE EPollPoller
       WITH Channels <- {"conn"}, Fds <- {"sock"},
            fdOf <- [c \in {"conn"} |-> "sock"], NoChannel <- "none"

States == {"kConnecting", "kConnected", "kDisconnecting", "kDisconnected"}

Writing == P!IsWriting(poller, "conn")

\* A functor: what it does, with how many units, from which descriptor.
Functor(op, len, fd) == [op |-> op, len |-> len, fd |-> fd]
WriteComplete == Functor("writeComplete", 0, 0)
HighWaterMark == Functor("highWaterMark", 0, 0)
Idle == Functor("idle", 0, 0)

\* The connection after connectEstablished.
Init ==
    /\ state = "kConnected"
    /\ poller = P!EnableReading(P!NewPoller, "conn")
    /\ outbuf = <<>>
    /\ files = <<>>
    /\ fds = {}
    /\ wire = <<>>
    /\ n = 0
    /\ queue = <<>>
    /\ todo = [t \in Threads |-> Idle]
    /\ calls = 0
    /\ opened = 0
    /\ wrShut = FALSE
    /\ peer = "open"
    /\ lost = FALSE
    /\ removals = 0
    /\ owned = TRUE
    /\ downs = 0
    /\ phase = "up"

-----------------------------------------------------------------------------
(* The output path, in the loop thread.  Each operator is given the queue   *)
(* of functors as it is when it starts.                                     *)

\* write, writev and sendfile fail with EPIPE or ECONNRESET.
Broken == wrShut \/ peer = "reset"

\* Something waits for EPOLLOUT: new data go behind it.
Backlog == Writing \/ outbuf # <<>>

Units(len) == [i \in 1..len |-> n + i]

\* The functor queued when the buffer grows past the high-water mark.
Mark(old, new) ==
    IF old < HighWater /\ new >= HighWater THEN <<HighWaterMark>> ELSE <<>>

WatchWriting == IF Writing THEN poller ELSE P!EnableWriting(poller, "conn")

\* Mutant of Buffer: the write-complete callback is queued as for a full write.
BufferReports(data, q) ==
    /\ outbuf' = outbuf \o data
    /\ poller' = WatchWriting
    /\ queue' = Append(q, WriteComplete)

\* The rest of the data goes to outputBuffer_ and EPOLLOUT is watched.
Buffer(data, q) ==
    /\ outbuf' = outbuf \o data
    /\ poller' = WatchWriting
    /\ queue' = q \o Mark(Len(outbuf), Len(outbuf) + Len(data))

\* The direct write fails: the data are dropped.
DropBroken(len, q) ==
    /\ Broken
    /\ n' = n + len
    /\ lost' = TRUE
    /\ queue' = q
    /\ UNCHANGED <<poller, outbuf, wire>>

\* The kernel takes k of the first m of len units and the rest is buffered,
\* unless it took all m.
DirectWrite(len, m, q) ==
    /\ ~Broken
    /\ n' = n + len
    /\ \E k \in 0..m :
          /\ wire' = wire \o SubSeq(Units(len), 1, k)
          /\ IF k = m
             THEN queue' = Append(q, WriteComplete) /\ UNCHANGED <<poller, outbuf>>
             ELSE Buffer(SubSeq(Units(len), k + 1, len), q)
    /\ UNCHANGED <<lost>>

\* Data behind a backlog.
Enqueue(len, q) ==
    /\ n' = n + len
    /\ Buffer(Units(len), q)
    /\ UNCHANGED <<wire, lost>>

SendInLoop(len, q) ==
    \/ /\ state = "kDisconnected"
       /\ queue' = q
       /\ UNCHANGED <<n, poller, outbuf, wire, lost>>
    \/ /\ state # "kDisconnected"
       /\ Backlog
       /\ Enqueue(len, q)
    \/ /\ state # "kDisconnected"
       /\ ~Backlog
       /\ DropBroken(len, q) \/ DirectWrite(len, len, q)

SendIov(count, q) ==
    /\ state = "kConnected"
    /\ \/ Backlog /\ Enqueue(count, q)
       \/ /\ ~Backlog
          /\ \/ DropBroken(count, q)
             \/ DirectWrite(count, IF count < kMaxIov THEN count ELSE kMaxIov, q)

Fds(s) == {s[i].fd : i \in 1..Len(s)}
Data(s) == [i \in 1..Len(s) |-> s[i].unit]

\* Mutant of Drained: a file sent in part is kept as it was, as if the offset did
\* not move.
DrainedFromStart(fs) ==
    {[taken |-> k, rest |-> IF k = Len(fs) THEN <<>> ELSE fs, drop |-> FALSE] :
        k \in IF Broken /\ fs # <<>> THEN {} ELSE 0..Len(fs)}

\* drainPendingFiles on the list fs: the kernel takes k units, then its buffer
\* is full or, with "drop", the next call of sendfile fails and its file is
\* closed (a file that was sent in part is not tried again in this call).  A file
\* that shrinks while it is sent, for which sendfile returns 0, is left out.
Drained(fs) ==
    LET after(k) == SubSeq(fs, k + 1, Len(fs))
        skip(k)  == SelectSeq(after(k), LAMBDA e : e.fd # fs[k + 1].fd)
        full == IF Broken /\ fs # <<>> THEN {} ELSE 0..Len(fs)
        fail == {k \in 0..(Len(fs) - 1) :
                   k = 0 \/ (~Broken /\ fs[k].fd # fs[k + 1].fd)}
    IN  {[taken |-> k, rest |-> after(k), drop |-> FALSE] : k \in full} \cup
        {[taken |-> k, rest |-> skip(k), drop |-> TRUE] : k \in fail}

\* The effect of one of these outcomes on the files, of which fs is the list.
TakeFiles(fs, d) ==
    /\ files' = d.rest
    /\ fds' = (fds \cup Fds(fs)) \ (Fds(fs) \ Fds(d.rest))
    /\ lost' = (lost \/ d.drop)

\* Mutant of RefuseFile: the descriptor is forgotten, not closed.
RefuseFileLeaks(fd, q) ==
    /\ state # "kConnected"
    /\ queue' = q
    /\ UNCHANGED <<fds, n, files, poller, wire, lost>>

\* sendFile on a connection that is not kConnected closes the descriptor.
RefuseFile(fd, q) ==
    /\ state # "kConnected"
    /\ fds' = fds \ {fd}
    /\ queue' = q
    /\ UNCHANGED <<n, files, poller, wire, lost>>

\* sendFile in the loop thread.
SendFileInLoop(len, fd, q) ==
    LET fs == files \o [i \in 1..len |-> [unit |-> n + i, fd |-> fd]]
    IN  \/ RefuseFile(fd, q)
        \/ /\ state = "kConnected"
           /\ Backlog
           /\ n' = n + len
           /\ files' = fs
           /\ fds' = fds \cup {fd}
           /\ poller' = WatchWriting
           /\ queue' = q
           /\ UNCHANGED <<wire, lost>>
        \/ /\ state = "kConnected"
           /\ ~Backlog
           /\ n' = n + len
           /\ \E d \in Drained(fs) :
                 /\ TakeFiles(fs, d)
                 /\ wire' = wire \o SubSeq(Data(fs), 1, d.taken)
                 /\ IF d.rest # <<>>
                    THEN poller' = WatchWriting /\ queue' = q
                    ELSE queue' = Append(q, WriteComplete) /\ UNCHANGED poller

\* Mutant of ShutdownInLoop: without the test of isWriting.
ShutdownInLoopAtOnce(q) ==
    /\ wrShut' = TRUE
    /\ queue' = q

\* shutdownInLoop
ShutdownInLoop(q) ==
    /\ wrShut' = (wrShut \/ ~Writing)
    /\ queue' = q

\* The end of handleWrite when nothing is left: EPOLLOUT is dropped and a pending
\* half-close takes place.
AllWritten ==
    /\ poller' = P!DisableWriting(poller, "conn")
    /\ queue' = Append(queue, WriteComplete)
    /\ wrShut' = (wrShut \/ state = "kDisconnecting")

\* Mutant of HandleWrite: the buffer is drained and the files are forgotten.
HandleWriteNoFiles ==
    /\ P!Reports(poller, "conn", "w")
    /\ ~Broken
    /\ \E k \in (IF outbuf = <<>> THEN 0 ELSE 1)..Len(outbuf) :
          /\ outbuf' = SubSeq(outbuf, k + 1, Len(outbuf))
          /\ wire' = wire \o SubSeq(outbuf, 1, k)
          /\ IF k < Len(outbuf)
             THEN UNCHANGED <<poller, queue, wrShut>>
             ELSE AllWritten
    /\ UNCHANGED <<state, n, files, fds, todo, calls, opened, peer, lost, removals, owned, downs, phase>>

\* handleWrite on EPOLLOUT, which the kernel reports when it can take something:
\* outputBuffer_ first, then the files.
HandleWrite ==
    /\ P!Reports(poller, "conn", "w")
    /\ outbuf # <<>> => ~Broken
    /\ \E k \in (IF outbuf = <<>> THEN 0 ELSE 1)..Len(outbuf) :
          /\ outbuf' = SubSeq(outbuf, k + 1, Len(outbuf))
          /\ \/ /\ k < Len(outbuf)
                /\ wire' = wire \o SubSeq(outbuf, 1, k)
                /\ UNCHANGED <<poller, queue, wrShut, files, fds, lost>>
             \/ /\ k = Len(outbuf)
                /\ \E d \in Drained(files) :
                      /\ (k = 0 /\ files # <<>>) => (d.taken > 0 \/ d.drop)
                      /\ TakeFiles(files, d)
                      /\ wire' = wire \o outbuf \o SubSeq(Data(files), 1, d.taken)
                      /\ IF d.rest # <<>>
                         THEN UNCHANGED <<poller, queue, wrShut>>
                         ELSE AllWritten
    /\ UNCHANGED <<state, n, todo, calls, opened, peer, removals, owned, downs, phase>>

-----------------------------------------------------------------------------
(* Calls from code that runs in the loop thread (a message callback, say).   *)
(* A call that finds the connection not kConnected returns at once.          *)

Call ==
    /\ state = "kConnected"
    /\ calls < MaxCalls
    /\ calls' = calls + 1

LoopSend(len) ==
    /\ Call
    /\ SendInLoop(len, queue)
    /\ UNCHANGED <<state, files, fds, todo, opened, wrShut, peer, removals, owned,
                   downs, phase>>

LoopSendIov(count) ==
    /\ Call
    /\ SendIov(count, queue)
    /\ UNCHANGED <<state, files, fds, todo, opened, wrShut, peer, removals, owned,
                   downs, phase>>

\* The caller opens descriptor number opened + 1 and gives it away.
LoopSendFile(len) ==
    /\ Call
    /\ opened < MaxFiles
    /\ opened' = opened + 1
    /\ SendFileInLoop(len, opened + 1, queue)
    /\ UNCHANGED <<state, outbuf, todo, wrShut, peer, removals, owned, downs, phase>>

LoopShutdown ==
    /\ state = "kConnected"
    /\ state' = "kDisconnecting"
    /\ ShutdownInLoop(queue)
    /\ UNCHANGED <<poller, outbuf, files, fds, wire, n, todo, calls, opened,
                   peer, lost, removals, owned, downs, phase>>

-----------------------------------------------------------------------------
(* Calls from other threads: the check of state_, then the push.             *)

\* What is left alone by a step that only another thread's call is about.
Untouched == UNCHANGED <<poller, outbuf, files, wire, n, wrShut, peer, lost, removals, owned, downs, phase>>

ThreadSend(t, len) ==
    /\ todo[t] = Idle
    /\ Call
    /\ todo' = [todo EXCEPT ![t] = Functor("send", len, 0)]
    /\ Untouched
    /\ UNCHANGED <<state, fds, queue, opened>>

ThreadSendFile(t, len) ==
    /\ todo[t] = Idle
    /\ Call
    /\ opened < MaxFiles
    /\ opened' = opened + 1
    /\ fds' = fds \cup {opened + 1}
    /\ todo' = [todo EXCEPT ![t] = Functor("sendFile", len, opened + 1)]
    /\ Untouched
    /\ UNCHANGED <<state, queue>>

ThreadShutdown(t) ==
    /\ t \in AppShutdown
    /\ todo[t] = Idle
    /\ state = "kConnected"
    /\ todo' = [todo EXCEPT ![t] = Functor("setDisconnecting", 0, 0)]
    /\ Untouched
    /\ UNCHANGED <<state, fds, queue, calls, opened>>

\* setState(kDisconnecting) writes over whatever the loop thread stored since
\* the check.
ThreadSetDisconnecting(t) ==
    /\ todo[t].op = "setDisconnecting"
    /\ state' = "kDisconnecting"
    /\ todo' = [todo EXCEPT ![t] = Functor("shutdown", 0, 0)]
    /\ Untouched
    /\ UNCHANGED <<fds, queue, calls, opened>>

ThreadPush(t) ==
    /\ todo[t].op \in {"send", "sendFile", "shutdown"}
    /\ queue' = Append(queue, todo[t])
    /\ todo' = [todo EXCEPT ![t] = Idle]
    /\ Untouched
    /\ UNCHANGED <<state, fds, calls, opened>>

-----------------------------------------------------------------------------
(* Teardown *)

PeerCloses ==
    /\ \/ peer = "open" /\ peer' = "fin"
       \/ peer # "reset" /\ peer' = "reset"
    /\ UNCHANGED <<state, poller, outbuf, files, fds, wire, n, queue, todo, calls,
                   opened, wrShut, lost, removals, owned, downs, phase>>

\* epoll reports EPOLLHUP: both directions are closed.
HungUp == peer = "reset" \/ (peer = "fin" /\ wrShut)

\* handleClose, when a read returns 0 or epoll reports a hang-up: the close
\* callback sends the connection to the server's loop.
HandleClose ==
    /\ \/ P!Reports(poller, "conn", "r") /\ peer # "open"
       \/ P!Watched(poller, "conn") /\ HungUp
    /\ phase # "freed"
    /\ state' = "kDisconnected"
    /\ poller' = P!DisableAll(poller, "conn")
    /\ downs' = downs + 1
    /\ removals' = removals + 1
    /\ UNCHANGED <<outbuf, files, fds, wire, n, queue, todo, calls, opened,
                   wrShut, peer, lost, owned, phase>>

\* TcpServer::removeConnectionInLoop: connectDestroyed comes back as a functor.
RemoveConnectionInLoop ==
    /\ removals > 0
    /\ removals' = removals - 1
    /\ owned' = FALSE
    /\ queue' = Append(queue, Functor("connectDestroyed", 0, 0))
    /\ UNCHANGED <<state, poller, outbuf, files, fds, wire, n, todo, calls,
                   opened, wrShut, peer, lost, downs, phase>>

\* ~TcpServer: the same, for a connection the server still has.
ServerDtor ==
    /\ owned
    /\ owned' = FALSE
    /\ queue' = Append(queue, Functor("connectDestroyed", 0, 0))
    /\ UNCHANGED <<state, poller, outbuf, files, fds, wire, n, todo, calls, opened,
                   wrShut, peer, lost, removals, downs, phase>>

\* Mutant of ConnectDestroyed: the channel stays in the poller.
ConnectDestroyedNoRemove(q) ==
    /\ state' = IF state = "kConnected" THEN "kDisconnected" ELSE state
    /\ downs' = IF state = "kConnected" THEN downs + 1 ELSE downs
    /\ poller' = IF state = "kConnected" THEN P!DisableAll(poller, "conn") ELSE poller
    /\ queue' = q
    /\ phase' = "destroyed"

ConnectDestroyed(q) ==
    LET p == IF state = "kConnected" THEN P!DisableAll(poller, "conn") ELSE poller
    IN  /\ state' = IF state = "kConnected" THEN "kDisconnected" ELSE state
        /\ downs' = IF state = "kConnected" THEN downs + 1 ELSE downs
        /\ poller' = P!Remove(p, "conn")
        /\ queue' = q
        /\ phase' = "destroyed"

\* The loop runs the functor at the head of its queue.
RunFunctor ==
    /\ queue # <<>>
    /\ LET f == Head(queue)
           q == Tail(queue)
       IN  \/ /\ f.op = "send"
              /\ SendInLoop(f.len, q)
              /\ UNCHANGED <<state, files, fds, wrShut, downs, phase>>
           \/ /\ f.op = "sendFile"
              /\ SendFileInLoop(f.len, f.fd, q)
              /\ UNCHANGED <<state, outbuf, wrShut, downs, phase>>
           \/ /\ f.op = "shutdown"
              /\ ShutdownInLoop(q)
              /\ UNCHANGED <<state, poller, outbuf, files, fds, wire, n, lost, downs, phase>>
           \/ /\ f.op = "connectDestroyed"
              /\ ConnectDestroyed(q)
              /\ UNCHANGED <<outbuf, files, fds, wire, n, wrShut, lost>>
           \/ /\ f.op \in {"writeComplete", "highWaterMark"}
              /\ queue' = q
              /\ UNCHANGED <<state, poller, outbuf, files, fds, wire, n, wrShut,
                             lost, downs, phase>>
    /\ UNCHANGED <<todo, calls, opened, peer, removals, owned>>

\* Nothing holds the connection any more.
Unreferenced ==
    /\ phase = "destroyed"
    /\ ~owned
    /\ queue = <<>>
    /\ removals = 0
    /\ \A t \in Threads : todo[t] = Idle

\* closePendingFiles; the channel object is deleted, and closing the socket takes
\* it out of the kernel's table.
Dtor ==
    /\ Unreferenced
    /\ phase' = "freed"
    /\ fds' = fds \ Fds(files)
    /\ files' = <<>>
    /\ poller' = P!CtlDel(poller, "conn")
    /\ UNCHANGED <<state, outbuf, wire, n, queue, todo, calls, opened, wrShut,
                   peer, lost, removals, owned, downs>>

Freed == phase = "freed" /\ UNCHANGED vars

-----------------------------------------------------------------------------
Lens == 1..MaxLen

Next ==
    \/ \E len \in Lens : LoopSend(len) \/ LoopSendIov(len) \/ LoopSendFile(len)
    \/ LoopShutdown
    \/ \E t \in Threads :
          \/ \E len \in Lens : ThreadSend(t, len) \/ ThreadSendFile(t, len)
          \/ ThreadShutdown(t) \/ ThreadSetDisconnecting(t) \/ ThreadPush(t)
    \/ RunFunctor \/ HandleWrite \/ PeerCloses \/ HandleClose
    \/ RemoveConnectionInLoop \/ ServerDtor \/ Dtor \/ Freed

Spec == Init /\ [][Next]_vars

\* The loops serve their functors and ready channels, a thread inside a call
\* finishes it and the kernel goes on taking data from a connection that is not
\* broken.
FairSpec ==
    /\ Spec
    /\ WF_vars(RunFunctor)
    /\ WF_vars(HandleWrite)
    /\ WF_vars(HandleClose)
    /\ WF_vars(RemoveConnectionInLoop)
    /\ WF_vars(Dtor)
    /\ \A t \in Threads : WF_vars(ThreadSetDisconnecting(t)) /\ WF_vars(ThreadPush(t))

-----------------------------------------------------------------------------
(* Properties *)

Functors == [op : {"idle", "send", "sendFile", "setDisconnecting", "shutdown",
                   "connectDestroyed", "writeComplete", "highWaterMark"},
             len : 0..MaxLen, fd : 0..MaxFiles]

\* Type correctness, with EPollPoller's epoll_ctl never failing fatally.
TypeOK ==
    /\ state \in States
    /\ ~poller.fatal
    /\ n \in Nat
    /\ outbuf \in Seq(1..n)
    /\ wire \in Seq(1..n)
    /\ files \in Seq([unit : 1..n, fd : 1..opened])
    /\ fds \subseteq 1..opened
    /\ opened \in 0..MaxFiles
    /\ queue \in Seq(Functors)
    /\ todo \in [Threads -> Functors]
    /\ calls \in 0..MaxCalls
    /\ {wrShut, lost, owned} \subseteq BOOLEAN
    /\ peer \in {"open", "fin", "reset"}
    /\ {removals, downs} \subseteq Nat
    /\ phase \in {"up", "destroyed", "freed"}

\* What the kernel took, then outputBuffer_, then the pending files are all the
\* data the loop thread accepted, in that order and without gaps, unless the
\* connection broke (sendInLoop, sendIov, sendFile and handleWrite together).
StreamIntact ==
    (~lost /\ phase # "freed") => wire \o outbuf \o Data(files) = [i \in 1..n |-> i]

Increasing(s) == \A i \in 1..(Len(s) - 1) : s[i] < s[i + 1]

\* With files too, unless the connection broke, every unit the loop thread accepted
\* is, once, with the kernel, in outputBuffer_ or in a pending file, and each of
\* these queues keeps its order.  (The two queues have no common order: bytes sent
\* behind a file that waits are written before the rest of it.)
NothingLost ==
    (~lost /\ phase # "freed") =>
        LET all == wire \o outbuf \o Data(files)
        IN  /\ Len(all) = n
            /\ {all[i] : i \in 1..n} = 1..n
            /\ Increasing(outbuf)
            /\ Increasing(Data(files))

\* Data that wait on a connection not reported broken always have EPOLLOUT
\* registered in the kernel, so that handleWrite will be called (sendInLoop, sendIov, sendFile).
BacklogIsWatched ==
    (downs = 0 /\ phase = "up" /\ (outbuf # <<>> \/ files # <<>>))
        => P!Reports(poller, "conn", "w")

\* The half-close waits for the backlog: on a connection not reported broken, the
\* socket is shut down for writing only when neither bytes nor files wait
\* (shutdownInLoop, handleWrite).
ShutdownAfterDrain ==
    (wrShut /\ downs = 0) => outbuf = <<>> /\ files = <<>>

QueuedFds == {queue[i].fd : i \in 1..Len(queue)} \cup {todo[t].fd : t \in Threads}

\* Every descriptor given to sendFile is in the hands of exactly the pending
\* files, a queued functor or a call under way; all others have been closed.
NoFdLeak == fds = (Fds(files) \cup QueuedFds) \ {0}

\* When the connection is deleted its poller has no pointer to its channel.
FreedIsUnregistered ==
    phase = "freed" => poller = [P!NewPoller EXCEPT !.events = poller.events]

\* The user is told at most once that the connection broke, by handleClose or by
\* connectDestroyed, and a connection that is kDisconnected has been reported.
DownOnce ==
    /\ downs <= 1
    /\ state = "kDisconnected" => downs = 1

\* The write-complete callback is queued only when nothing is left to write.
WriteCompleteWhenDrained ==
    [][ (Len(queue') > 0 /\ queue'[Len(queue')] = WriteComplete
          /\ Len(queue') > Len(queue))
          => (outbuf' = <<>> /\ files' = <<>>) ]_vars

\* A backlog is written in the end, unless the connection breaks or is destroyed.
BacklogDrains ==
    (outbuf # <<>> \/ files # <<>>)
        ~> \/ outbuf = <<>> /\ files = <<>>
           \/ Broken \/ downs > 0 \/ phase # "up"

\* shutdown() ends in a half-close or in the end of the connection, however much
\* data waited when it was called.
ShutdownCompletes ==
    state = "kDisconnecting" ~> (wrShut \/ downs > 0 \/ phase # "up")

\* Once the peer has closed, the connection is taken down and deleted.
ClosedIsFreed == (peer # "open") ~> (phase = "freed")
=============================================================================
