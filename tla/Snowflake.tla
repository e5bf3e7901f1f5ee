----------------------------- MODULE Snowflake -----------------------------
(* util/Snowflake.h: one generator per process, with its own worker id and *)
(* wall clock.  The clock may be set back; nextId() then sleeps, or gives  *)
(* up, inside its mutex, so one call per process is under way at a time.   *)
(* A process may be restarted: it forgets lastTimestamp_ and sequence_.    *)
EXTENDS Integers, Sequences

CONSTANTS
    maxWorkerId,           \* 2^kWorkerIdBits - 1
    maxSequence,           \* 2^kSequenceBits - 1
    maxRollback,           \* kMaxClockRollbackMs
    WallReadings,          \* readings of the wall clock, since kEpoch
    MaxIds                 \* ids per process

ASSUME FlakeAssumption ==
    {maxWorkerId, maxSequence} \subseteq Nat /\ WallReadings \subseteq Nat

VARIABLES
    wall,                  \* currentMillis() of each process
    lastTime,              \* lastTimestamp_
    sequence,              \* sequence_
    gen,                   \* where the call of nextId is: "idle", "slept", "spin"
    ids                    \* ids returned, per process, in order

flakeVars == <<wall, lastTime, sequence, gen, ids>>

WorkerIds == 0 .. maxWorkerId

FlakeInit ==
    /\ wall = [w \in WorkerIds |-> 0]
    /\ lastTime = [w \in WorkerIds |-> -1]
    /\ sequence = [w \in WorkerIds |-> 0]
    /\ gen = [w \in WorkerIds |-> "idle"]
    /\ ids = [w \in WorkerIds |-> <<>>]

\* Shifts and masks: the three fields side by side.
Encode(ms, w, seq) == (ms * (maxWorkerId + 1) + w) * (maxSequence + 1) + seq

ExtractTimestamp(id) == id \div ((maxWorkerId + 1) * (maxSequence + 1))
ExtractWorkerId(id) == (id \div (maxSequence + 1)) % (maxWorkerId + 1)
ExtractSequence(id) == id % (maxSequence + 1)

\* The end of nextId at time ms.
Issue(w, ms, seq) ==
    /\ lastTime' = [lastTime EXCEPT ![w] = ms]
    /\ sequence' = [sequence EXCEPT ![w] = seq]
    /\ ids' = [ids EXCEPT ![w] = Append(@, Encode(ms, w, seq))]
    /\ gen' = [gen EXCEPT ![w] = "idle"]

\* Mutant of IssueAt: an exhausted millisecond is not waited out.
IssueAtWraps(w, ms) ==
    LET seq == (sequence[w] + 1) % (maxSequence + 1) IN
    IF ms # lastTime[w] THEN Issue(w, ms, 0) ELSE Issue(w, ms, seq)

\* nextId once its reading of the clock is not before lastTimestamp_.
IssueAt(w, ms) ==
    LET seq == (sequence[w] + 1) % (maxSequence + 1) IN
    IF ms # lastTime[w] THEN Issue(w, ms, 0)
    ELSE IF seq # 0 THEN Issue(w, ms, seq)
    ELSE /\ sequence' = [sequence EXCEPT ![w] = 0]
         /\ gen' = [gen EXCEPT ![w] = "spin"]
         /\ UNCHANGED <<lastTime, ids>>

\* nextId: a small rollback is slept through, a larger one is an exception.
NextId(w) ==
    /\ gen[w] = "idle" /\ Len(ids[w]) < MaxIds
    /\ IF wall[w] >= lastTime[w] THEN IssueAt(w, wall[w])
       ELSE /\ lastTime[w] - wall[w] <= maxRollback
            /\ gen' = [gen EXCEPT ![w] = "slept"]
            /\ UNCHANGED <<lastTime, sequence, ids>>
    /\ UNCHANGED wall

\* After the sleep the clock may be behind still: the last time is used again.
NextIdSlept(w) ==
    /\ gen[w] = "slept"
    /\ IssueAt(w, IF wall[w] < lastTime[w] THEN lastTime[w] ELSE wall[w])
    /\ UNCHANGED wall

NextIdSpun(w) ==
    /\ gen[w] = "spin" /\ wall[w] > lastTime[w]
    /\ Issue(w, wall[w], sequence[w])
    /\ UNCHANGED wall

\* The clock advances or is set back by an administrator or by ntp.
SetClock(w) ==
    /\ \E t \in WallReadings : t # wall[w] /\ wall' = [wall EXCEPT ![w] = t]
    /\ UNCHANGED <<lastTime, sequence, gen, ids>>

\* A restart outlasts the millisecond of the last id.
Restart(w) ==
    /\ wall[w] > lastTime[w] /\ lastTime[w] >= 0
    /\ lastTime' = [lastTime EXCEPT ![w] = -1]
    /\ sequence' = [sequence EXCEPT ![w] = 0]
    /\ gen' = [gen EXCEPT ![w] = "idle"]
    /\ UNCHANGED <<wall, ids>>

\* What main sees of the clock after a restart is later than every id given out.
RestartAssumption ==
    \A w \in WorkerIds : lastTime[w] = -1 =>
        \A i \in DOMAIN ids[w] : wall'[w] > ExtractTimestamp(ids[w][i])

FlakeNext ==
    /\ \E w \in WorkerIds : \/ NextId(w) \/ NextIdSlept(w) \/ NextIdSpun(w)
                            \/ SetClock(w) \/ Restart(w)
    /\ RestartAssumption

FlakeSpec == FlakeInit /\ [][FlakeNext]_flakeVars

(* Ids of a process strictly increase, through exhausted milliseconds and  *)
(* clocks set back at any moment of nextId; no two processes ever produce  *)
(* the same id; and the extract functions recover the fields.              *)
UniqueIds ==
    /\ \A w \in WorkerIds : \A i \in DOMAIN ids[w] :
          /\ i > 1 => ids[w][i - 1] < ids[w][i]
          /\ ExtractWorkerId(ids[w][i]) = w
          /\ Encode(ExtractTimestamp(ids[w][i]), w, ExtractSequence(ids[w][i]))
                = ids[w][i]
    /\ \A w, v \in WorkerIds : w # v =>
          \A i \in DOMAIN ids[w], j \in DOMAIN ids[v] : ids[w][i] # ids[v][j]
=============================================================================
