----------------------------- MODULE MCThreads -----------------------------
(* The parts of the library that own threads, one at a time: a bare event  *)
(* loop, an EventLoopThread, the worker pool and the logger.  subject says *)
(* which one a behaviour is about; the others stay in their initial state. *)
EXTENDS EventLoopThread, ThreadPool, AsyncLogger

VARIABLE subject

mcVars == <<allvars, threadPoolVars, loggerVars, subject>>

MCInit == /\ subject \in {"loop", "thread", "pool", "logger"}
          /\ IF subject = "loop"    \* a loop on the stack of main
             THEN Init /\ opc = "new" /\ wpc = "none" /\ loop_ = TRUE
             ELSE ThreadInit
          /\ ThreadPoolInit /\ LoggerInit

LoopRuns(A) == subject = "loop" /\ A /\ UNCHANGED <<tvars, threadPoolVars, loggerVars, subject>>
ThreadRuns(A) == subject = "thread" /\ A /\ UNCHANGED <<threadPoolVars, loggerVars, subject>>
PoolRuns(A) == subject = "pool" /\ A /\ UNCHANGED <<allvars, loggerVars, subject>>
LoggerRuns(A) == subject = "logger" /\ A /\ UNCHANGED <<allvars, threadPoolVars, subject>>

\* The pool and the logger may be stopped for good.
Rest == /\ \/ subject = "pool" /\ ~running /\ stopping = 0
           \/ subject = "logger" /\ ~logging /\ logOwner = "out"
        /\ UNCHANGED mcVars

MCNext ==
    \/ LoopRuns(Next) \/ ThreadRuns(ThreadNext) \/ PoolRuns(ThreadPoolNext)
    \/ LoggerRuns(LoggerNext) \/ Rest

\* The steps of threads that are inside a call or a worker loop.  A behaviour
\* has finitely many of them, so that fairness of their disjunction is fairness
\* of each.
PoolStep == \/ \E w \in PoolWorkers : WorkerStep(w)
            \/ \E s \in Submitters : Enqueue(s) \/ EnqueueNotify(s)
            \/ StopNotify \/ StopJoin

\* Scheduled threads go on; see FairSpec and FairThreadSpec for the loops.
MCSpec ==
    /\ MCInit /\ [][MCNext]_mcVars
    /\ WF_mcVars(LoopRuns(LoopStep))
    /\ \A t \in Threads : WF_mcVars(LoopRuns(Wakeup(t)))
    /\ WF_mcVars(ThreadRuns(StartLoopReturn)) /\ WF_mcVars(ThreadRuns(DtorQuit))
    /\ WF_mcVars(ThreadRuns(DtorWakeup)) /\ WF_mcVars(ThreadRuns(Join))
    /\ WF_mcVars(ThreadRuns(Publish)) /\ WF_mcVars(ThreadRuns(Worker))
    /\ WF_mcVars(ThreadRuns(ThreadExit))
    /\ \A t \in Threads \ {owner} : WF_mcVars(ThreadRuns(UserWakeup(t)))
    /\ WF_mcVars(PoolRuns(PoolStep))
    /\ WF_mcVars(LoggerRuns(WriterStep)) /\ WF_mcVars(LoggerRuns(LoggerJoin))

-----------------------------------------------------------------------------
\* Everything with a thread gets on: functors run and quit() ends the loop,
\* startLoop() and the destructor of a running EventLoopThread return, accepted
\* tasks run and stop() returns, what was logged is written.
ThreadsProgress ==
    /\ EveryFunctorRuns /\ QuitEndsLoop
    /\ StartLoopReturns /\ DtorOfRunningLoopReturns
    /\ PoolProgress /\ LoggerProgress
=============================================================================
