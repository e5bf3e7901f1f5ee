-------------------------- MODULE MCTcpConnection --------------------------
(***************************************************************************)
(* Instances of TcpConnection for TLC, two in one run: "bytes" has more    *)
(* calls and neither files nor a shutdown() from another thread, "files"   *)
(* has both and fewer calls.  What the stream promises is stronger without *)
(* files, and so is what holds when the connection is deleted.             *)
(***************************************************************************)
EXTENDS TcpConnection

CONSTANTS
    Modes,          \* the instances of the run
    MaxFileCalls    \* MaxCalls in the instance with files

VARIABLE mode

mcVars == <<vars, mode>>

MCInit == Init /\ mode \in Modes

\* What the instance leaves out: files and the other threads' shutdown(), or
\* the calls beyond its bound.
Allowed ==
    \/ /\ mode = "bytes"
       /\ opened' = 0
       /\ \A t \in Threads : todo'[t].op # "setDisconnecting"
    \/ mode = "files" /\ calls' <= MaxFileCalls

MCNext == Next /\ Allowed /\ UNCHANGED mode

\* The fairness of TcpConnection.
MCSpec ==
    /\ MCInit
    /\ [][MCNext]_mcVars
    /\ WF_vars(RunFunctor) /\ WF_vars(HandleWrite) /\ WF_vars(HandleClose)
    /\ WF_vars(RemoveConnectionInLoop) /\ WF_vars(Dtor)
    /\ \A t \in Threads : WF_vars(ThreadSetDisconnecting(t)) /\ WF_vars(ThreadPush(t))

-----------------------------------------------------------------------------
\* Whatever the interleaving of send, sendIov, sendFile, handleWrite and partial
\* writes, no unit is lost, repeated or, without files, reordered.
OutputIntact == IF mode = "bytes" THEN StreamIntact ELSE NothingLost

\* The end of a connection, whether the peer, an error or ~TcpServer starts it: when
\* no shutdown() of another thread is overtaken by it, the user is told
\* once (handleClose, connectDestroyed), and the channel is out of the poller by the
\* time the connection is deleted.
TornDownCleanly == mode = "bytes" => DownOnce /\ FreedIsUnregistered

\* A backlog on a live connection has handleWrite coming and holds up the half-close.
BacklogServed == BacklogIsWatched /\ ShutdownAfterDrain

\* A backlog drains, shutdown() ends in a half-close, and a connection whose peer
\* closed is taken down and deleted.
ConnectionProgress == BacklogDrains /\ ShutdownCompletes /\ ClosedIsFreed
=============================================================================
