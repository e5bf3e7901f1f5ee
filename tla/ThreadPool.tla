----------------------------- MODULE ThreadPool -----------------------------
(* util/ThreadPool.h: workers with a queue, a mutex and a condition        *)
(* variable each; threads submit tasks by round robin or by key, an owner  *)
(* starts and stops the pool.  running_ is an atomic written outside the   *)
(* mutexes.  A worker that found its predicate false keeps its mutex until *)
(* it sleeps, so "dozing" and "asleep" are two places.                     *)
EXTENDS Integers, Sequences, FiniteSets

CONSTANTS
    Submitters,
    Keys,            \* keys of submitAffinity, numbers
    numThreads,
    maxQueueDepth,
    MaxTasks,        \* bound on the calls of submit and submitAffinity
    MaxStarts        \* bound on the calls of start

ASSUME ThreadPoolAssumption == numThreads \in Nat /\ Keys \subseteq Nat \ {0}

VARIABLES
    running,         \* running_
    queue,           \* the queue of each worker
    wstate,          \* where each worker thread is
    current,         \* the task a worker runs, 0 if none
    submitter,       \* where each submitting thread is
    robin,           \* nextRoundRobin_
    task,            \* the key and the fate of each submitted task
    ran,             \* tasks run, in order
    stopping,        \* the owner: the worker it is waking, 0 outside stop()
    starts

threadPoolVars == <<running, queue, wstate, current, submitter, robin, task,
                    ran, stopping, starts>>

PoolWorkers == 0 .. numThreads - 1

ThreadPoolInit ==
    /\ running = FALSE
    /\ queue = [w \in PoolWorkers |-> <<>>]
    /\ wstate = [w \in PoolWorkers |-> "none"]
    /\ current = [w \in PoolWorkers |-> 0]
    /\ submitter = [s \in Submitters |-> [pc |-> "idle", idx |-> 0, task |-> 0]]
    /\ robin = 0
    /\ task = <<>>
    /\ ran = <<>>
    /\ stopping = 0
    /\ starts = 0

-----------------------------------------------------------------------------
(* start()                                                                 *)
Start ==
    /\ stopping = 0 /\ ~running /\ starts < MaxStarts
    /\ running' = TRUE
    /\ starts' = starts + 1
    /\ wstate' = [w \in PoolWorkers |-> "check"]
    /\ UNCHANGED <<queue, current, submitter, robin, task, ran, stopping>>

(* stop(): the flag, then every worker is notified under its mutex ...     *)
Stop ==
    /\ stopping = 0 /\ running
    /\ running' = FALSE
    /\ stopping' = 1
    /\ task' = [i \in DOMAIN task |->
                  [task[i] EXCEPT !.early = task[i].fate = "accepted"]]
    /\ UNCHANGED <<queue, wstate, current, submitter, robin, ran, starts>>

StopNotify ==
    LET w == stopping - 1 IN
    /\ stopping \in 1 .. numThreads
    /\ wstate[w] # "dozing"
    /\ wstate' = [wstate EXCEPT ![w] = IF @ = "asleep" THEN "check" ELSE @]
    /\ stopping' = stopping + 1
    /\ UNCHANGED <<running, queue, current, submitter, robin, task, ran, starts>>

(* ... and joined.                                                         *)
StopJoin ==
    /\ stopping > numThreads
    /\ \A w \in PoolWorkers : wstate[w] = "gone"
    /\ stopping' = 0
    /\ UNCHANGED <<running, queue, wstate, current, submitter, robin, task, ran,
                   starts>>

-----------------------------------------------------------------------------
(* submit() and submitAffinity() up to the call of enqueue; the test of    *)
(* running_ is not repeated.  key 0: submit.                               *)
NewTask(s, key, idx) ==
    /\ submitter[s].pc = "idle" /\ Len(task) < MaxTasks
    /\ running /\ numThreads # 0
    /\ task' = Append(task, [key |-> key, fate |-> "passed", early |-> FALSE, seq |-> 0])
    /\ submitter' = [submitter EXCEPT ![s] =
                       [pc |-> "enqueue", idx |-> idx, task |-> Len(task) + 1]]

Submit(s) ==
    /\ NewTask(s, 0, robin % numThreads)
    /\ robin' = robin + 1
    /\ UNCHANGED <<running, queue, wstate, current, ran, stopping, starts>>

(* Mutant of SubmitAffinity: the key does not choose the worker.           *)
SubmitAnywhere(s, key) ==
    /\ NewTask(s, key, robin % numThreads)
    /\ robin' = robin + 1
    /\ UNCHANGED <<running, queue, wstate, current, ran, stopping, starts>>

SubmitAffinity(s, key) ==
    /\ NewTask(s, key, key % numThreads)
    /\ UNCHANGED <<running, queue, wstate, current, robin, ran, stopping, starts>>

(* enqueue(): refused at maxQueueDepth_; the notify comes after the unlock.*)
Enqueue(s) ==
    LET w == submitter[s].idx
        t == submitter[s].task
        full == Len(queue[w]) >= maxQueueDepth IN
    /\ submitter[s].pc = "enqueue"
    /\ wstate[w] # "dozing"
    /\ queue' = IF full THEN queue ELSE [queue EXCEPT ![w] = Append(@, t)]
    /\ task' = [task EXCEPT ![t].fate = IF full THEN "dropped" ELSE "accepted",
                            ![t].seq = Cardinality({i \in DOMAIN task :
                                                      task[i].fate = "accepted"})]
    /\ submitter' = [submitter EXCEPT ![s].pc = IF full THEN "idle" ELSE "notify"]
    /\ UNCHANGED <<running, wstate, current, robin, ran, stopping, starts>>

EnqueueNotify(s) ==
    LET w == submitter[s].idx IN
    /\ submitter[s].pc = "notify"
    /\ wstate' = [wstate EXCEPT ![w] = IF @ = "asleep" THEN "check" ELSE @]
    /\ submitter' = [submitter EXCEPT ![s].pc = "idle"]
    /\ UNCHANGED <<running, queue, current, robin, task, ran, stopping, starts>>

-----------------------------------------------------------------------------
(* workerLoop(): under the mutex, take a task, leave, or go to sleep.      *)
WorkerLoop(w) ==
    /\ wstate[w] = "check"
    /\ IF queue[w] # <<>>
       THEN /\ current' = [current EXCEPT ![w] = Head(queue[w])]
            /\ queue' = [queue EXCEPT ![w] = Tail(@)]
            /\ wstate' = [wstate EXCEPT ![w] = "task"]
       ELSE /\ wstate' = [wstate EXCEPT ![w] = IF running THEN "dozing" ELSE "gone"]
            /\ UNCHANGED <<queue, current>>
    /\ UNCHANGED <<running, submitter, robin, task, ran, stopping, starts>>

(* cv.wait releases the mutex.                                             *)
WorkerSleep(w) ==
    /\ wstate[w] = "dozing"
    /\ wstate' = [wstate EXCEPT ![w] = "asleep"]
    /\ UNCHANGED <<running, queue, current, submitter, robin, task, ran, stopping,
                   starts>>

(* The task runs and returns or throws: the worker survives either.        *)
WorkerTask(w) ==
    /\ wstate[w] = "task"
    /\ ran' = Append(ran, current[w])
    /\ current' = [current EXCEPT ![w] = 0]
    /\ wstate' = [wstate EXCEPT ![w] = "check"]
    /\ UNCHANGED <<running, queue, submitter, robin, task, stopping, starts>>

WorkerStep(w) == WorkerLoop(w) \/ WorkerSleep(w) \/ WorkerTask(w)

ThreadPoolNext ==
    \/ Start \/ Stop \/ StopNotify \/ StopJoin
    \/ \E s \in Submitters : \/ Submit(s) \/ Enqueue(s) \/ EnqueueNotify(s)
                             \/ \E key \in Keys : SubmitAffinity(s, key)
    \/ \E w \in PoolWorkers : WorkerStep(w)

ThreadPoolSpec == ThreadPoolInit /\ [][ThreadPoolNext]_threadPoolVars

-----------------------------------------------------------------------------
Ran(t) == \E i \in DOMAIN ran : ran[i] = t

(* Tasks of one key run one after the other, in the order in which they    *)
(* were accepted, also across stop and start; no task runs twice.          *)
KeyOrder ==
    /\ \A i, j \in DOMAIN ran : i < j =>
          /\ ran[i] # ran[j]
          /\ task[ran[i]].key = task[ran[j]].key /\ task[ran[i]].key # 0 =>
                task[ran[i]].seq < task[ran[j]].seq
    /\ \A w, v \in PoolWorkers :
          w # v /\ current[w] # 0 /\ current[v] # 0 /\ task[current[w]].key # 0 =>
             task[current[w]].key # task[current[v]].key

(* "Tasks already queued are drained before the workers exit": when stop   *)
(* has joined the workers, every task accepted before it cleared running_  *)
(* has run.  (One whose enqueue comes later may be left in the queue.)     *)
StopDrains ==
    (stopping = 0 /\ ~running) =>
        \A t \in DOMAIN task : task[t].early => Ran(t)

(* Tasks with one affinity key run one after the other in the order of     *)
(* their submission, and stop() returns to a pool whose queues its workers *)
(* emptied.                                                                *)
PoolOrdered == KeyOrder /\ StopDrains

(* No wakeup is lost: stop() returns, and a task accepted by a running     *)
(* pool runs unless the pool is stopped.                                   *)
StopReturns == (stopping > 0) ~> (stopping = 0)
AcceptedRuns ==
    \A t \in 1 .. MaxTasks :
       (t \in DOMAIN task /\ running /\ task[t].fate = "accepted")
          ~> (t \in DOMAIN task /\ (Ran(t) \/ ~running))
PoolProgress == StopReturns /\ AcceptedRuns
=============================================================================
