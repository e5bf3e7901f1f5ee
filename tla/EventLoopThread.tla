-------------------------- MODULE EventLoopThread --------------------------
(***************************************************************************)
(* net/EventLoopThread: an owner starts a thread that constructs an        *)
(* EventLoop on its stack, publishes its address in loop_ and runs it; the *)
(* destructor quits that loop and joins the thread.  The EventLoop lives   *)
(* exactly as long as threadFunc.                                          *)
(*                                                                         *)
(* Users queue functors on the loop while the owner keeps the object; as   *)
(* everywhere in the repository, nobody but the destructor quits the loop. *)
(***************************************************************************)
EXTENDS EventLoop

CONSTANT owner    \* the thread that calls startLoop and the destructor

ASSUME OwnerAssumption == owner \in Threads

VARIABLES
    opc,       \* the owner: startLoop, use, destructor
    wpc,       \* the started thread: threadFunc
    loop_      \* is EventLoopThread::loop_ non-null?

tvars == <<opc, wpc, loop_>>
allvars == <<vars, tvars>>

ThreadInit ==
    /\ Init
    /\ opc = "new"
    /\ wpc = "none"
    /\ loop_ = FALSE

-----------------------------------------------------------------------------
(* The owner *)

\* startLoop: the thread exists and has constructed its EventLoop ...
StartLoop ==
    /\ opc = "new"
    /\ opc' = "starting"
    /\ wpc' = "callback"
    /\ UNCHANGED <<vars, loop_>>

\* Mutant of StartLoopReturn: no wait at all.
StartLoopNoWait ==
    /\ opc = "starting"
    /\ opc' = "running"
    /\ UNCHANGED <<vars, wpc, loop_>>

\* ... and startLoop returns once it sees loop_ set.
StartLoopReturn ==
    /\ opc = "starting"
    /\ loop_
    /\ opc' = "running"
    /\ UNCHANGED <<vars, wpc, loop_>>

\* The destructor, called when no user is inside a call on the loop: without a
\* loop there is nothing to quit and nothing is joined.
Dtor ==
    /\ opc \in {"new", "running"}
    /\ \A t \in Threads : tpc[t] = "idle"
    /\ opc' = IF loop_ THEN "quit" ELSE "gone"
    /\ UNCHANGED <<vars, wpc, loop_>>

\* loop_->quit(): the flag ...
DtorQuit ==
    /\ opc = "quit"
    /\ Quit(owner)
    /\ opc' = "wakeup"
    /\ UNCHANGED <<wpc, loop_>>

\* ... then, still inside quit(), the wakeup.
DtorWakeup ==
    /\ opc = "wakeup"
    /\ Wakeup(owner)
    /\ opc' = "join"
    /\ UNCHANGED <<wpc, loop_>>

\* thread_.join()
Join ==
    /\ opc = "join"
    /\ wpc = "gone"
    /\ opc' = "gone"
    /\ UNCHANGED <<vars, wpc, loop_>>

-----------------------------------------------------------------------------
(* threadFunc *)

\* callback_(&loop) may queue functors.
InitCallback ==
    /\ wpc = "callback"
    /\ BeforeLoop
    /\ UNCHANGED tvars

\* loop_ = &loop and notify_one, under the mutex.
Publish ==
    /\ wpc = "callback"
    /\ wpc' = "published"
    /\ loop_' = TRUE
    /\ UNCHANGED <<vars, opc>>

\* loop.loop()
Worker ==
    /\ wpc = "published"
    /\ LoopStep
    /\ quits' = quits
    /\ UNCHANGED tvars

WorkerPoll ==
    /\ wpc = "published"
    /\ PollIO \/ PollTimeout
    /\ UNCHANGED tvars

\* loop() has returned: loop_ = NULL under the mutex, then the EventLoop goes.
ThreadExit ==
    /\ wpc = "published"
    /\ pc = "done"
    /\ wpc' = "gone"
    /\ loop_' = FALSE
    /\ UNCHANGED <<vars, opc>>

UserQueue(t) ==
    /\ opc = "running"
    /\ QueueInLoop(t)
    /\ UNCHANGED tvars

UserWakeup(t) ==
    /\ Wakeup(t)
    /\ UNCHANGED tvars

\* The owner is done with the object and the thread, if started, has ended.
Finished == opc = "gone" /\ UNCHANGED allvars

ThreadNext ==
    \/ StartLoop \/ StartLoopReturn \/ Dtor \/ DtorQuit \/ DtorWakeup \/ Join
    \/ InitCallback \/ Publish \/ Worker \/ WorkerPoll \/ ThreadExit
    \/ \E t \in Threads \ {owner} : UserQueue(t) \/ UserWakeup(t)
    \/ Finished

ThreadSpec == ThreadInit /\ [][ThreadNext]_allvars

\* Every thread that can go on does.  As in EventLoop, neither a socket event
\* nor the poll timeout is assumed.
FairThreadSpec ==
    /\ ThreadSpec
    /\ WF_allvars(StartLoopReturn) /\ WF_allvars(DtorQuit)
    /\ WF_allvars(DtorWakeup) /\ WF_allvars(Join)
    /\ WF_allvars(Publish) /\ WF_allvars(Worker) /\ WF_allvars(ThreadExit)
    /\ \A t \in Threads \ {owner} : WF_allvars(UserWakeup(t))
-----------------------------------------------------------------------------
(* Properties *)

\* From the return of startLoop to the destructor the loop exists, and so it
\* does for every user that is inside queueInLoop.
LoopOutlivesUse ==
    opc \in {"running", "quit"} \/ (\E t \in Threads \ {owner} : tpc[t] # "idle")
        => loop_

\* startLoop returns: the notification of threadFunc is never missed.
StartLoopReturns == (opc = "starting") ~> (opc = "running")

\* The destructor returns when its quit() finds the thread inside loop().
DtorOfRunningLoopReturns ==
    (opc \in {"wakeup", "join"} /\ quit /\ pc # "init") ~> (opc = "gone")

\* The destructor always returns: quit() makes the loop leave loop() promptly.
DtorReturns == (opc = "quit") ~> (opc = "gone")
=============================================================================
