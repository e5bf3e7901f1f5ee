---------------------------- MODULE ClockProofs ----------------------------
(***************************************************************************)
(* What the components that read a clock promise for every reading of it:  *)
(* the ids of Snowflake, through clocks set back, and the two rate         *)
(* limiters over every interval of time.                                   *)
(***************************************************************************)
EXTENDS RateLimiter, Snowflake, SequenceTheorems, TLAPS

-----------------------------------------------------------------------------
(* Snowflake: the encoding *)

LEMMA DivideExact ==
    ASSUME NEW a \in Nat, NEW k \in Nat \ {0}, NEW b \in 0 .. k - 1
    PROVE  (a * k + b) \div k = a /\ (a * k + b) % k = b
  OBVIOUS

LEMMA ShiftLess ==
    ASSUME NEW a \in Nat, NEW c \in Nat, a < c, NEW k \in Nat \ {0},
           NEW b \in 0 .. k - 1, NEW d \in 0 .. k - 1
    PROVE  a * k + b < c * k + d
<1>1. a * k + k <= c * k
  BY SMTT(30)
<1> QED
  BY <1>1

LEMMA Nest ==
    ASSUME NEW a \in Nat, NEW j \in Nat \ {0}, NEW k \in Nat \ {0}, NEW b \in 0 .. j - 1,
           NEW c \in 0 .. k - 1
    PROVE  /\ (a * j + b) * k + c = a * (j * k) + (b * k + c)
           /\ j * k \in Nat \ {0} /\ b * k + c \in 0 .. j * k - 1
<1>1. (a * j + b) * k + c = a * (j * k) + (b * k + c)
  BY SMTT(30)
<1>2. j * k \in Nat \ {0} /\ b * k + c \in Nat
  BY SMTT(30)
<1>3. b * k + k <= j * k
  BY SMTT(30)
<1> QED
  BY <1>1, <1>2, <1>3

SequenceRange == 0 .. maxSequence

\* The three fields of an id can be read back, and a later millisecond gives a
\* larger id whatever its sequence number.
LEMMA EncodeFields ==
    ASSUME NEW ms \in Nat, NEW w \in WorkerIds, NEW s \in SequenceRange
    PROVE  /\ Encode(ms, w, s) \in Nat
           /\ ExtractTimestamp(Encode(ms, w, s)) = ms
           /\ ExtractWorkerId(Encode(ms, w, s)) = w
           /\ ExtractSequence(Encode(ms, w, s)) = s
<1>1. PICK j \in Nat \ {0} : j = maxWorkerId + 1
  BY FlakeAssumption
<1>2. PICK k \in Nat \ {0} : k = maxSequence + 1
  BY FlakeAssumption
<1>3. w \in 0 .. j - 1 /\ s \in 0 .. k - 1 /\ ms * j + w \in Nat
  <2>1. w \in 0 .. j - 1 /\ s \in 0 .. k - 1
    BY <1>1, <1>2, FlakeAssumption DEF WorkerIds, SequenceRange
  <2> QED
    BY <2>1
<1>4. Encode(ms, w, s) = (ms * j + w) * k + s
  BY <1>1, <1>2 DEF Encode
<1>5. Encode(ms, w, s) = ms * (j * k) + (w * k + s)
  BY <1>3, <1>4, Nest
<1>6. Encode(ms, w, s) \div (j * k) = ms
  <2>1. PICK p \in Nat \ {0} : p = j * k
    BY <1>3, Nest
  <2>2. PICK q \in 0 .. p - 1 : q = w * k + s
    BY <1>3, <2>1, Nest
  <2>3. (ms * p + q) \div p = ms
    BY DivideExact
  <2> QED
    BY <1>5, <2>1, <2>2, <2>3
<1>7. Encode(ms, w, s) \div k = ms * j + w /\ Encode(ms, w, s) % k = s
  <2>1. PICK x \in Nat : x = ms * j + w
    BY <1>3
  <2>2. (x * k + s) \div k = x /\ (x * k + s) % k = s
    BY <1>3, DivideExact
  <2> QED
    BY <1>4, <2>1, <2>2
<1>8. (ms * j + w) % j = w
  BY <1>3, DivideExact
<1>9. Encode(ms, w, s) \in Nat
  <2>1. PICK x \in Nat : x = ms * j + w
    BY <1>3
  <2>2. x * k + s \in Nat
    BY <1>3
  <2> QED
    BY <1>4, <2>1, <2>2
<1> QED
  BY <1>1, <1>2, <1>6, <1>7, <1>8, <1>9 DEF ExtractTimestamp, ExtractWorkerId, ExtractSequence

LEMMA EncodeLess ==
    ASSUME NEW m \in Nat, NEW n \in Nat, m < n, NEW w \in WorkerIds,
           NEW r \in SequenceRange, NEW s \in SequenceRange
    PROVE  Encode(m, w, r) < Encode(n, w, s)
<1>1. PICK j \in Nat \ {0} : j = maxWorkerId + 1
  BY FlakeAssumption
<1>2. PICK k \in Nat \ {0} : k = maxSequence + 1
  BY FlakeAssumption
<1>3. w \in 0 .. j - 1 /\ r \in 0 .. k - 1 /\ s \in 0 .. k - 1
  BY <1>1, <1>2, FlakeAssumption DEF WorkerIds, SequenceRange
<1>4. PICK x \in Nat : x = m * j + w
  BY <1>3
<1>5. PICK y \in Nat : y = n * j + w
  BY <1>3
<1>6. x < y
  BY <1>3, <1>4, <1>5, ShiftLess
<1>7. x * k + r < y * k + s
  BY <1>3, <1>6, ShiftLess
<1> QED
  BY <1>1, <1>2, <1>4, <1>5, <1>7 DEF Encode

LEMMA EncodeNext ==
    ASSUME NEW m \in Nat, NEW w \in WorkerIds, NEW r \in SequenceRange, NEW s \in SequenceRange, r < s
    PROVE  Encode(m, w, r) < Encode(m, w, s)
<1>1. PICK j \in Nat \ {0} : j = maxWorkerId + 1
  BY FlakeAssumption
<1>2. PICK k \in Nat \ {0} : k = maxSequence + 1
  BY FlakeAssumption
<1>3. PICK x \in Nat : x = m * j + w
  BY <1>1, FlakeAssumption DEF WorkerIds
<1>4. x * k + r < x * k + s
  BY FlakeAssumption DEF SequenceRange
<1> QED
  BY <1>1, <1>2, <1>3, <1>4 DEF Encode

-----------------------------------------------------------------------------
(* Snowflake: the ids *)

Encoded(w, s) ==
    \A i \in DOMAIN s : \E ms \in Nat, q \in SequenceRange : s[i] = Encode(ms, w, q)
Rising(s) == \A i \in DOMAIN s : i > 1 => s[i - 1] < s[i]
AtMost(s, x) == \A i \in DOMAIN s : s[i] <= x

\* A generator that has not forgotten its last time has given out nothing above
\* the id of that time and sequence_; while it spins, sequence_ is 0 already and
\* the whole of the last millisecond may have been given out.
WorkerInv(w, last, q, g, s) ==
    /\ last \in Nat \cup {-1}
    /\ g # "idle" => last \in Nat
    /\ Encoded(w, s) /\ Rising(s)
    /\ last \in Nat => AtMost(s, Encode(last, w, IF g = "spin" THEN maxSequence ELSE q))

FlakeTypes ==
    /\ wall \in [WorkerIds -> Nat]
    /\ lastTime \in [WorkerIds -> Int]
    /\ sequence \in [WorkerIds -> SequenceRange]
    /\ gen \in [WorkerIds -> {"idle", "slept", "spin"}]
    /\ ids \in [WorkerIds -> Seq(Nat)]

FlakeInv ==
    /\ FlakeTypes
    /\ \A w \in WorkerIds : WorkerInv(w, lastTime[w], sequence[w], gen[w], ids[w])

LEMMA AppendId ==
    ASSUME NEW w \in WorkerIds, NEW s \in Seq(Nat), Encoded(w, s), Rising(s),
           NEW ms \in Nat, NEW q \in SequenceRange,
           \A i \in DOMAIN s : s[i] < Encode(ms, w, q)
    PROVE  /\ Append(s, Encode(ms, w, q)) \in Seq(Nat)
           /\ WorkerInv(w, ms, q, "idle", Append(s, Encode(ms, w, q)))
<1>1. PICK x \in Nat : x = Encode(ms, w, q)
  BY EncodeFields
<1>2. PICK t \in Seq(Nat) : t = Append(s, x)
  BY AppendProperties, Zenon
<1>3. /\ Len(t) = Len(s) + 1 /\ t[Len(s) + 1] = x
      /\ \A i \in 1 .. Len(s) : t[i] = s[i]
  BY <1>2
<1>4. DOMAIN s = 1 .. Len(s) /\ DOMAIN t = 1 .. Len(s) + 1 /\ Len(s) \in Nat
  BY <1>3
<1>5. \A i \in 1 .. Len(s) : s[i] \in Nat /\ s[i] < x
  <2>1. \A i \in 1 .. Len(s) : s[i] \in Nat
    BY ElementOfSeq
  <2>2. \A i \in 1 .. Len(s) : s[i] < x
    BY <1>1, <1>4, Zenon
  <2> QED
    BY <2>1, <2>2, Zenon
<1>6. Encoded(w, t)
  BY <1>1, <1>3, <1>4, SMTT(30) DEF Encoded
<1>7. Rising(t)
  <2> SUFFICES ASSUME NEW i \in 1 .. Len(s) + 1, i > 1
               PROVE  t[i - 1] < t[i]
    BY <1>4 DEF Rising
  <2>1. CASE i = Len(s) + 1
    BY <1>3, <1>4, <1>5, <2>1
  <2>2. CASE i \in 1 .. Len(s)
    <3>1. s[i - 1] < s[i]
      BY <1>4, <2>2, Zenon DEF Rising
    <3>2. i - 1 \in 1 .. Len(s)
      BY <1>4, <2>2
    <3>3. t[i - 1] = s[i - 1] /\ t[i] = s[i]
      BY <1>3, <2>2, <3>2, Zenon
    <3> QED
      BY <3>1, <3>3
  <2> QED
    BY <1>4, <2>1, <2>2
<1>8. AtMost(t, x)
  <2> SUFFICES ASSUME NEW i \in 1 .. Len(s) + 1
               PROVE  t[i] <= x
    BY <1>4 DEF AtMost
  <2>1. i \in 1 .. Len(s) \/ i = Len(s) + 1
    BY <1>4
  <2> QED
    BY <1>3, <1>5, <2>1
<1> QED
  BY <1>1, <1>2, <1>6, <1>7, <1>8 DEF WorkerInv

\* A step of process w leaves the others alone.
LEMMA OneWorker ==
    ASSUME FlakeInv, NEW w \in WorkerIds, FlakeTypes',
           WorkerInv(w, lastTime'[w], sequence'[w], gen'[w], ids'[w]),
           \A v \in WorkerIds \ {w} : /\ lastTime'[v] = lastTime[v] /\ sequence'[v] = sequence[v]
                                      /\ gen'[v] = gen[v] /\ ids'[v] = ids[v]
    PROVE  FlakeInv'
<1>1. ASSUME NEW v \in WorkerIds
      PROVE  WorkerInv(v, lastTime'[v], sequence'[v], gen'[v], ids'[v])
  <2>1. CASE v = w
    BY <2>1
  <2>2. CASE v # w
    BY <2>2 DEF FlakeInv
  <2> QED
    BY <2>1, <2>2
<1> QED
  BY <1>1 DEF FlakeInv

\* The end of nextId, when the id is above all that were given out.
LEMMA IssueKeeps ==
    ASSUME FlakeInv, NEW w \in WorkerIds, NEW ms \in Nat, NEW q \in SequenceRange,
           \A i \in DOMAIN ids[w] : ids[w][i] < Encode(ms, w, q),
           Issue(w, ms, q), UNCHANGED wall
    PROVE  FlakeInv'
<1> USE DEF FlakeTypes
<1>1. ids[w] \in Seq(Nat) /\ Encoded(w, ids[w]) /\ Rising(ids[w])
  BY DEF FlakeInv, WorkerInv
<1>2. PICK t \in Seq(Nat) : t = Append(ids[w], Encode(ms, w, q))
  BY <1>1, AppendId, Zenon
<1>3. WorkerInv(w, ms, q, "idle", t)
  BY <1>1, <1>2, AppendId
<1>4. /\ lastTime' = [lastTime EXCEPT ![w] = ms] /\ sequence' = [sequence EXCEPT ![w] = q]
      /\ ids' = [ids EXCEPT ![w] = t] /\ gen' = [gen EXCEPT ![w] = "idle"]
  BY <1>2 DEF Issue
<1>5. FlakeTypes'
  BY <1>4 DEF FlakeInv
<1>6. lastTime'[w] = ms /\ sequence'[w] = q /\ gen'[w] = "idle" /\ ids'[w] = t
  BY <1>4 DEF FlakeInv
<1>7. \A v \in WorkerIds \ {w} : /\ lastTime'[v] = lastTime[v] /\ sequence'[v] = sequence[v]
                                 /\ gen'[v] = gen[v] /\ ids'[v] = ids[v]
  BY <1>4 DEF FlakeInv
<1> QED
  BY <1>3, <1>5, <1>6, <1>7, OneWorker, Zenon

\* Ids of the last millisecond and before are below any id of a later one.
LEMMA LaterTime ==
    ASSUME FlakeInv, NEW w \in WorkerIds, lastTime[w] \in Nat, NEW ms \in Nat,
           ms > lastTime[w], NEW q \in SequenceRange
    PROVE  \A i \in DOMAIN ids[w] : ids[w][i] < Encode(ms, w, q)
<1> SUFFICES ASSUME NEW i \in DOMAIN ids[w]
             PROVE  ids[w][i] < Encode(ms, w, q)
  OBVIOUS
<1>1. maxSequence \in SequenceRange /\ sequence[w] \in SequenceRange
  BY FlakeAssumption DEF SequenceRange, FlakeInv, FlakeTypes
<1>2. PICK r \in SequenceRange : r = IF gen[w] = "spin" THEN maxSequence ELSE sequence[w]
  BY <1>1
<1>3. ids[w][i] <= Encode(lastTime[w], w, r)
  BY <1>2 DEF FlakeInv, WorkerInv, AtMost
<1>4. PICK x \in Nat : x = Encode(lastTime[w], w, r)
  BY EncodeFields
<1>5. PICK y \in Nat : y = Encode(ms, w, q)
  BY EncodeFields
<1>6. x < y
  BY <1>4, <1>5, EncodeLess
<1>7. ids[w][i] \in Nat
  BY DEF FlakeInv, FlakeTypes
<1> QED
  BY <1>3, <1>4, <1>5, <1>6, <1>7

\* After a restart the clock itself is later than every id.
LEMMA AfterRestart ==
    ASSUME FlakeInv, NEW w \in WorkerIds, lastTime[w] = -1, NEW q \in SequenceRange,
           RestartAssumption, UNCHANGED wall
    PROVE  \A i \in DOMAIN ids[w] : ids[w][i] < Encode(wall[w], w, q)
<1> SUFFICES ASSUME NEW i \in DOMAIN ids[w]
             PROVE  ids[w][i] < Encode(wall[w], w, q)
  OBVIOUS
<1>1. wall[w] \in Nat
  BY DEF FlakeInv, FlakeTypes
<1>2. PICK ms \in Nat, r \in SequenceRange : ids[w][i] = Encode(ms, w, r)
  BY DEF FlakeInv, WorkerInv, Encoded
<1>3. wall[w] > ms
  BY <1>2, EncodeFields DEF RestartAssumption
<1> QED
  BY <1>1, <1>2, <1>3, EncodeLess

LEMMA IssueAtKeeps ==
    ASSUME FlakeInv, NEW w \in WorkerIds, NEW ms \in Nat, gen[w] # "spin",
           \/ lastTime[w] = -1 /\ ms = wall[w]
           \/ lastTime[w] \in Nat /\ ms >= lastTime[w],
           IssueAt(w, ms), RestartAssumption, UNCHANGED wall
    PROVE  FlakeInv'
<1>1. 0 \in SequenceRange /\ sequence[w] \in SequenceRange
  BY FlakeAssumption DEF SequenceRange, FlakeInv, FlakeTypes
<1>2. CASE ms # lastTime[w]
  <2>1. Issue(w, ms, 0)
    BY <1>2, Zenon DEF IssueAt
  <2>2. \A i \in DOMAIN ids[w] : ids[w][i] < Encode(ms, w, 0)
    <3>1. CASE lastTime[w] = -1
      BY <1>1, <3>1, AfterRestart, 0 # -1
    <3>2. CASE lastTime[w] \in Nat
      <4>1. ms > lastTime[w]
        BY <1>2, <3>2
      <4> QED
        BY <1>1, <3>2, <4>1, LaterTime
    <3> QED
      BY <3>1, <3>2
  <2> QED
    BY <1>1, <2>1, <2>2, IssueKeeps
<1>3. CASE ms = lastTime[w]
  <2> DEFINE seq == (sequence[w] + 1) % (maxSequence + 1)
  <2>1. seq = IF sequence[w] = maxSequence THEN 0 ELSE sequence[w] + 1
    BY <1>1, FlakeAssumption DEF SequenceRange
  <2>2. CASE seq # 0
    <3>1. Issue(w, ms, seq)
      BY <1>3, <2>2 DEF IssueAt
    <3>2. seq \in SequenceRange /\ sequence[w] < seq
      BY <1>1, <2>1, <2>2, FlakeAssumption DEF SequenceRange
    <3> HIDE DEF seq
    <3>3. ASSUME NEW i \in DOMAIN ids[w]
          PROVE  ids[w][i] < Encode(ms, w, seq)
      <4>1. ids[w][i] <= Encode(ms, w, sequence[w])
        BY <1>3 DEF FlakeInv, WorkerInv, AtMost
      <4>2. PICK x \in Nat : x = Encode(ms, w, sequence[w])
        BY <1>1, EncodeFields
      <4>3. PICK y \in Nat : y = Encode(ms, w, seq)
        BY <3>2, EncodeFields
      <4>4. x < y
        BY <1>1, <3>2, <4>2, <4>3, EncodeNext
      <4>5. ids[w][i] \in Nat
        BY DEF FlakeInv, FlakeTypes
      <4> QED
        BY <4>1, <4>2, <4>3, <4>4, <4>5
    <3> QED
      BY <3>1, <3>2, <3>3, IssueKeeps
  <2>3. CASE seq = 0
    <3>1. /\ sequence' = [sequence EXCEPT ![w] = 0] /\ gen' = [gen EXCEPT ![w] = "spin"]
          /\ UNCHANGED <<lastTime, ids>>
      BY <1>3, <2>3 DEF IssueAt
    <3>2. sequence[w] = maxSequence
      BY <1>1, <2>1, <2>3, FlakeAssumption DEF SequenceRange
    <3>3. FlakeTypes'
      BY <1>1, <3>1 DEF FlakeInv, FlakeTypes
    <3>4. sequence'[w] = 0 /\ gen'[w] = "spin" /\ lastTime'[w] = lastTime[w] /\ ids'[w] = ids[w]
      BY <3>1 DEF FlakeInv, FlakeTypes
    <3>5. \A v \in WorkerIds \ {w} : /\ lastTime'[v] = lastTime[v] /\ sequence'[v] = sequence[v]
                                     /\ gen'[v] = gen[v] /\ ids'[v] = ids[v]
      BY <3>1 DEF FlakeInv, FlakeTypes
    <3>6. WorkerInv(w, lastTime[w], sequence[w], gen[w], ids[w])
      BY DEF FlakeInv
    <3>7. WorkerInv(w, lastTime[w], 0, "spin", ids[w])
      BY <1>3, <3>2, <3>6, Zenon DEF WorkerInv
    <3> QED
      BY <3>3, <3>4, <3>5, <3>7, OneWorker, Zenon
  <2> QED
    BY <2>2, <2>3
<1> QED
  BY <1>2, <1>3

LEMMA FlakeStep == FlakeInv /\ [FlakeNext]_flakeVars => FlakeInv'
<1> SUFFICES ASSUME FlakeInv, [FlakeNext]_flakeVars
             PROVE  FlakeInv'
  OBVIOUS
<1>1. CASE UNCHANGED flakeVars
  BY <1>1 DEF flakeVars, FlakeInv, FlakeTypes
<1>2. ASSUME NEW w \in WorkerIds, RestartAssumption, NextId(w)
      PROVE  FlakeInv'
  <2>1. wall[w] \in Nat /\ UNCHANGED wall /\ gen[w] = "idle" /\ lastTime[w] \in Nat \cup {-1}
    BY <1>2 DEF NextId, FlakeInv, FlakeTypes, WorkerInv
  <2>2. CASE wall[w] >= lastTime[w]
    <3>1. IssueAt(w, wall[w])
      BY <1>2, <2>2, Zenon DEF NextId
    <3>2. \/ lastTime[w] = -1 /\ wall[w] = wall[w]
          \/ lastTime[w] \in Nat /\ wall[w] >= lastTime[w]
      BY <2>1, <2>2
    <3>3. gen[w] # "spin"
      BY <2>1
    <3> QED
      BY <1>2, <2>1, <3>1, <3>2, <3>3, IssueAtKeeps, Zenon
  <2>3. CASE ~(wall[w] >= lastTime[w])
    <3>1. gen' = [gen EXCEPT ![w] = "slept"] /\ UNCHANGED <<lastTime, sequence, ids>>
      BY <1>2, <2>3, Zenon DEF NextId
    <3>2. lastTime[w] \in Nat
      BY <2>1, <2>3
    <3>3. FlakeTypes'
      BY <2>1, <3>1 DEF FlakeInv, FlakeTypes
    <3>4. gen'[w] = "slept" /\ \A v \in WorkerIds \ {w} : gen'[v] = gen[v]
      BY <3>1 DEF FlakeInv, FlakeTypes
    <3>5. WorkerInv(w, lastTime[w], sequence[w], "slept", ids[w])
      BY <2>1, <3>2 DEF FlakeInv, WorkerInv
    <3> QED
      BY <3>1, <3>3, <3>4, <3>5, OneWorker
  <2> QED
    BY <2>2, <2>3
<1>3. ASSUME NEW w \in WorkerIds, RestartAssumption, NextIdSlept(w)
      PROVE  FlakeInv'
  <2>1. /\ wall[w] \in Nat /\ UNCHANGED wall /\ gen[w] = "slept" /\ lastTime[w] \in Nat
    BY <1>3 DEF NextIdSlept, FlakeInv, FlakeTypes, WorkerInv
  <2>2. PICK ms \in Nat : ms = IF wall[w] < lastTime[w] THEN lastTime[w] ELSE wall[w]
    BY <2>1
  <2>3. IssueAt(w, ms)
    BY <1>3, <2>2, Zenon DEF NextIdSlept
  <2>4. ms >= lastTime[w] /\ gen[w] # "spin"
    BY <2>1, <2>2
  <2> QED
    BY <1>3, <2>1, <2>3, <2>4, IssueAtKeeps
<1>4. ASSUME NEW w \in WorkerIds, NextIdSpun(w)
      PROVE  FlakeInv'
  <2>1. /\ wall[w] \in Nat /\ UNCHANGED wall /\ gen[w] = "spin" /\ wall[w] > lastTime[w]
        /\ sequence[w] \in SequenceRange /\ Issue(w, wall[w], sequence[w])
    BY <1>4 DEF NextIdSpun, FlakeInv, FlakeTypes
  <2>2. lastTime[w] \in Nat
    BY <2>1 DEF FlakeInv, WorkerInv
  <2>3. \A i \in DOMAIN ids[w] : ids[w][i] < Encode(wall[w], w, sequence[w])
    BY <2>1, <2>2, LaterTime
  <2> QED
    BY <2>1, <2>3, IssueKeeps
<1>5. ASSUME NEW w \in WorkerIds, SetClock(w)
      PROVE  FlakeInv'
  <2>1. UNCHANGED <<lastTime, sequence, gen, ids>> /\ wall' \in [WorkerIds -> Nat]
    BY <1>5, FlakeAssumption DEF SetClock, FlakeInv, FlakeTypes
  <2> QED
    BY <2>1 DEF FlakeInv, FlakeTypes
<1>6. ASSUME NEW w \in WorkerIds, Restart(w)
      PROVE  FlakeInv'
  <2>1. /\ lastTime' = [lastTime EXCEPT ![w] = -1] /\ sequence' = [sequence EXCEPT ![w] = 0]
        /\ gen' = [gen EXCEPT ![w] = "idle"] /\ UNCHANGED <<wall, ids>>
    BY <1>6 DEF Restart
  <2>2. 0 \in SequenceRange
    BY FlakeAssumption DEF SequenceRange
  <2>3. FlakeTypes'
    BY <2>1, <2>2 DEF FlakeInv, FlakeTypes
  <2>4. lastTime'[w] = -1 /\ sequence'[w] = 0 /\ gen'[w] = "idle" /\ ids'[w] = ids[w]
    BY <2>1 DEF FlakeInv, FlakeTypes
  <2>5. \A v \in WorkerIds \ {w} : /\ lastTime'[v] = lastTime[v] /\ sequence'[v] = sequence[v]
                                   /\ gen'[v] = gen[v] /\ ids'[v] = ids[v]
    BY <2>1 DEF FlakeInv, FlakeTypes
  <2>6. WorkerInv(w, -1, 0, "idle", ids[w])
    BY DEF FlakeInv, WorkerInv
  <2> QED
    BY <2>3, <2>4, <2>5, <2>6, OneWorker
<1> QED
  BY <1>1, <1>2, <1>3, <1>4, <1>5, <1>6, Zenon DEF FlakeNext

LEMMA FlakeImplies == FlakeInv => UniqueIds
<1> SUFFICES ASSUME FlakeInv
             PROVE  UniqueIds
  OBVIOUS
<1>1. ASSUME NEW w \in WorkerIds, NEW i \in DOMAIN ids[w]
      PROVE  /\ i > 1 => ids[w][i - 1] < ids[w][i]
             /\ ExtractWorkerId(ids[w][i]) = w
             /\ Encode(ExtractTimestamp(ids[w][i]), w, ExtractSequence(ids[w][i])) = ids[w][i]
  <2>1. PICK ms \in Nat, q \in SequenceRange : ids[w][i] = Encode(ms, w, q)
    BY DEF FlakeInv, WorkerInv, Encoded
  <2>2. /\ ExtractTimestamp(ids[w][i]) = ms /\ ExtractWorkerId(ids[w][i]) = w
        /\ ExtractSequence(ids[w][i]) = q
    BY <2>1, EncodeFields
  <2>3. i > 1 => ids[w][i - 1] < ids[w][i]
    BY DEF FlakeInv, WorkerInv, Rising
  <2> QED
    BY <2>1, <2>2, <2>3
<1>2. ASSUME NEW w \in WorkerIds, NEW v \in WorkerIds, w # v,
             NEW i \in DOMAIN ids[w], NEW j \in DOMAIN ids[v]
      PROVE  ids[w][i] # ids[v][j]
  BY <1>1, <1>2
<1> QED
  BY <1>1, <1>2 DEF UniqueIds

\* Snowflake::nextId never repeats an id, within a process or between processes
\* of different worker ids, for every width of the fields, every reading of the
\* clock, and clocks set back before, during or after a call.
THEOREM IdsAlwaysUnique == FlakeSpec => []UniqueIds
<1>1. FlakeInit => FlakeInv
  <2> SUFFICES ASSUME FlakeInit
               PROVE  FlakeInv
    OBVIOUS
  <2>1. 0 \in SequenceRange
    BY FlakeAssumption DEF SequenceRange
  <2>2. FlakeTypes
    BY <2>1 DEF FlakeInit, FlakeTypes
  <2>3. ASSUME NEW w \in WorkerIds
        PROVE  WorkerInv(w, lastTime[w], sequence[w], gen[w], ids[w])
    BY DEF FlakeInit, WorkerInv, Encoded, Rising
  <2> QED
    BY <2>2, <2>3 DEF FlakeInv
<1> QED
  BY <1>1, FlakeStep, FlakeImplies, PTL DEF FlakeSpec

-----------------------------------------------------------------------------
(* The rate limiters *)

\* What the bucket holds is what is left of burst tokens and of the time since any
\* request that passed, after paying for that request and the later ones.
Earned(s, b, t) ==
    \A i \in 1 .. Len(s) : (Len(s) - i + 1 - burst) * perToken + b <= t - s[i]

Spaced(s) ==
    \A i, j \in DOMAIN s : i <= j => (j - i + 1 - burst) * perToken <= s[j] - s[i]

\* The window holds the last requests that passed; the others are a window old.
Suffix(w, s, now) ==
    /\ Len(w) <= Len(s)
    /\ \A i \in 1 .. Len(w) : w[i] = s[Len(s) - Len(w) + i]
    /\ \A i \in 1 .. Len(s) - Len(w) : s[i] <= now - windowMs

Apart(s) ==
    \A i \in DOMAIN s : i + maxRequests \in DOMAIN s => s[i + maxRequests] - s[i] >= windowMs

LimiterInv ==
    /\ clock \in Nat /\ window \in Seq(Nat)
    /\ passed \in [token : Seq(Nat), slide : Seq(Nat)]
    /\ \/ bucket = <<>> /\ passed.token = <<>>
       \/ \E b \in Int, t \in Nat :
             /\ bucket = <<b, t>> /\ t <= clock /\ b <= burst * perToken
             /\ Earned(passed.token, b, t)
    /\ Spaced(passed.token)
    /\ Suffix(window, passed.slide, clock) /\ Apart(passed.slide)

LEMMA PushBack ==
    ASSUME NEW s \in Seq(Nat), NEW t \in Nat
    PROVE  /\ Append(s, t) \in Seq(Nat) /\ Len(Append(s, t)) = Len(s) + 1 /\ Len(s) \in Nat
           /\ DOMAIN s = 1 .. Len(s) /\ DOMAIN Append(s, t) = 1 .. Len(s) + 1
           /\ \A i \in 1 .. Len(s) : Append(s, t)[i] = s[i] /\ s[i] \in Nat
           /\ Append(s, t)[Len(s) + 1] = t
<1>1. /\ Append(s, t) \in Seq(Nat) /\ Len(Append(s, t)) = Len(s) + 1 /\ Len(s) \in Nat
      /\ \A i \in 1 .. Len(s) : Append(s, t)[i] = s[i]
      /\ Append(s, t)[Len(s) + 1] = t
  BY AppendProperties, LenProperties
<1>2. /\ DOMAIN s = 1 .. Len(s) /\ DOMAIN Append(s, t) = 1 .. Len(s) + 1
      /\ \A i \in 1 .. Len(s) : s[i] \in Nat
  BY <1>1, LenProperties, ElementOfSeq
<1> QED
  BY <1>1, <1>2

\* A request that passes pays one token: what is left is earned again, and the new
\* request is in step with the earlier ones.
LEMMA TokenPaid ==
    ASSUME NEW s \in Seq(Nat), NEW b \in Int, NEW t \in Nat, Earned(s, b, t), Spaced(s),
           b >= perToken, b <= burst * perToken
    PROVE  Earned(Append(s, t), b - perToken, t) /\ Spaced(Append(s, t))
<1> DEFINE n == Len(s)
           u == Append(s, t)
<1>1. /\ u \in Seq(Nat) /\ Len(u) = n + 1 /\ n \in Nat /\ DOMAIN s = 1 .. n
      /\ DOMAIN u = 1 .. n + 1 /\ \A i \in 1 .. n : u[i] = s[i] /\ s[i] \in Nat
      /\ u[n + 1] = t
  BY PushBack
<1>2. PICK k \in Nat : k = perToken
  BY LimiterAssumption
<1>3. PICK m \in Nat : m = burst
  BY LimiterAssumption
<1>4. \A i \in 1 .. n : (n - i + 1 - m) * k + b <= t - s[i]
  BY <1>2, <1>3 DEF Earned
<1> HIDE DEF n, u
<1>5. ASSUME NEW i \in 1 .. n + 1
      PROVE  (n + 1 - i + 1 - m) * k + (b - k) <= t - u[i]
  <2>1. PICK d \in Int : d = n - i + 1 - m
    BY <1>1
  <2>2. (d + 1) * k = d * k + k /\ d * k \in Int /\ n + 1 - i + 1 - m = d + 1
    BY <1>1, <2>1
  <2>3. CASE i \in 1 .. n
    <3>1. d * k + b <= t - u[i] /\ u[i] \in Nat
      BY <1>1, <1>4, <2>1, <2>3
    <3> QED
      BY <2>2, <3>1
  <2>4. CASE i = n + 1
    <3>1. d = -m /\ d * k = -(m * k) /\ m * k \in Nat
      BY <1>1, <2>1, <2>4
    <3>2. u[i] = t /\ b <= m * k
      BY <1>1, <1>2, <1>3, <2>4
    <3> QED
      BY <2>2, <3>1, <3>2
  <2> QED
    BY <1>1, <2>3, <2>4
<1>6. Earned(u, b - k, t)
  BY <1>1, <1>2, <1>3, <1>5 DEF Earned
<1>7. ASSUME NEW i \in 1 .. n + 1, NEW j \in 1 .. n + 1, i <= j
      PROVE  (j - i + 1 - m) * k <= u[j] - u[i]
  <2>1. CASE j \in 1 .. n
    <3>1. i \in 1 .. n /\ u[i] = s[i] /\ u[j] = s[j]
      BY <1>1, <1>7, <2>1
    <3> QED
      BY <1>1, <1>2, <1>3, <1>7, <2>1, <3>1, Zenon DEF Spaced
  <2>2. CASE j = n + 1
    <3>1. (n + 1 - i + 1 - m) * k + (b - k) <= t - u[i] /\ u[j] = t /\ u[i] \in Nat
      <4>1. u[i] \in Nat
        BY <1>1, ElementOfSeq
      <4> QED
        BY <1>1, <1>5, <2>2, <4>1
    <3>2. PICK d \in Int : d = j - i + 1 - m /\ d = n + 1 - i + 1 - m
      <4>1. j - i + 1 - m = n + 1 - i + 1 - m /\ j - i + 1 - m \in Int
        BY <1>1, <2>2
      <4> QED
        BY <4>1, Zenon
    <3>3. d * k + (b - k) <= t - u[i]
      BY <3>1, <3>2, Zenon
    <3>4. b >= k /\ d * k \in Int
      BY <1>2
    <3>5. d * k <= u[j] - u[i]
      BY <3>1, <3>3, <3>4, SMTT(30)
    <3> QED
      BY <3>2, <3>5, Zenon
  <2> QED
    BY <1>1, <2>1, <2>2
<1>8. Spaced(u)
  BY <1>1, <1>2, <1>3, <1>7 DEF Spaced
<1> QED
  BY <1>2, <1>6, <1>8 DEF u

\* Refilling keeps what is earned.
LEMMA TokenEarned ==
    ASSUME NEW s \in Seq(Nat), NEW b \in Int, NEW t \in Nat, Earned(s, b, t),
           NEW now \in Nat, t <= now, NEW c \in Int, c <= b + (now - t)
    PROVE  Earned(s, c, now)
<1> SUFFICES ASSUME NEW i \in 1 .. Len(s)
             PROVE  (Len(s) - i + 1 - burst) * perToken + c <= now - s[i]
  BY DEF Earned
<1>1. Len(s) \in Nat /\ s[i] \in Nat
  BY LenProperties, ElementOfSeq
<1>2. PICK x \in Int : x = (Len(s) - i + 1 - burst) * perToken
  BY <1>1, LimiterAssumption
<1>3. x + b <= t - s[i]
  BY <1>2 DEF Earned
<1>4. x + c <= now - s[i]
  BY <1>1, <1>3, SMTT(30)
<1> QED
  BY <1>2, <1>4

LEMMA TokenStep ==
    ASSUME LimiterInv, TokenBucketAllow
    PROVE  LimiterInv'
<1>1. /\ clock \in Nat /\ passed \in [token : Seq(Nat), slide : Seq(Nat)]
      /\ UNCHANGED <<clock, window>>
  BY DEF LimiterInv, TokenBucketAllow
<1> DEFINE s == passed.token
<1>2. s \in Seq(Nat) /\ Spaced(s)
  BY <1>1 DEF LimiterInv
<1>3. burst * perToken \in Int /\ perToken \in Nat /\ burst \in Nat
  BY LimiterAssumption
<1>4. \/ passed' = passed
      \/ passed' = [passed EXCEPT !.token = Append(s, clock)]
  BY DEF TokenBucketAllow
<1>5. ASSUME NEW b \in Int, b <= burst * perToken, bucket' = <<b, clock>>,
             Earned(passed'.token, b, clock), Spaced(passed'.token)
      PROVE  LimiterInv'
  <2>1. passed' \in [token : Seq(Nat), slide : Seq(Nat)] /\ passed'.slide = passed.slide
    <3>1. Append(s, clock) \in Seq(Nat)
      BY <1>1, <1>2, PushBack
    <3> HIDE DEF s
    <3> QED
      BY <1>1, <1>4, <3>1, Zenon
  <2> QED
    BY <1>1, <1>5, <2>1 DEF LimiterInv
<1>6. CASE bucket = <<>>
  <2>1. /\ bucket' = <<(burst - 1) * perToken, clock>>
        /\ passed' = [passed EXCEPT !.token = Append(s, clock)]
    BY <1>6 DEF TokenBucketAllow
  <2>2. s = <<>>
    BY <1>6 DEF LimiterInv
  <2>3. PICK b \in Int : b = burst * perToken
    BY <1>3
  <2>4. Earned(s, b, clock) /\ b >= perToken
    <3>1. b >= perToken
      BY <2>3, LimiterAssumption
    <3> QED
      BY <2>2, <3>1, EmptySeq DEF Earned
  <2>5. Earned(Append(s, clock), b - perToken, clock) /\ Spaced(Append(s, clock))
    BY <1>1, <1>2, <2>3, <2>4, TokenPaid
  <2>6. (burst - 1) * perToken = b - perToken /\ b - perToken \in Int /\ b - perToken <= burst * perToken
    BY <1>3, <2>3
  <2>7. passed'.token = Append(s, clock)
    BY <1>1, <2>1
  <2> QED
    BY <1>5, <2>1, <2>5, <2>6, <2>7
<1>7. CASE bucket # <<>>
  <2>1. PICK b \in Int, t \in Nat : /\ bucket = <<b, t>> /\ t <= clock /\ b <= burst * perToken
                                    /\ Earned(s, b, t)
    BY <1>7 DEF LimiterInv
  <2>0. PICK m \in Int : m = burst * perToken
    BY <1>3
  <2>7. Refill = IF b + (clock - t) > m THEN m ELSE b + (clock - t)
    BY <2>0, <2>1 DEF Refill
  <2>8. PICK e \in Int : e = b + (clock - t)
    BY <1>1
  <2>2. PICK c \in Int : c = Refill /\ c <= e /\ c <= m
    <3>1. Refill = IF e > m THEN m ELSE e
      BY <2>7, <2>8, Zenon
    <3> QED
      BY <3>1
  <2>3. c <= b + (clock - t) /\ c <= burst * perToken
    BY <2>0, <2>2, <2>8, Zenon
  <2>4. Earned(s, c, clock)
    BY <1>1, <1>2, <2>1, <2>3, TokenEarned
  <2>5. CASE c >= perToken
    <3>1. /\ bucket' = <<c - perToken, clock>>
          /\ passed' = [passed EXCEPT !.token = Append(s, clock)]
      BY <1>7, <2>2, <2>5 DEF TokenBucketAllow
    <3>2. Earned(Append(s, clock), c - perToken, clock) /\ Spaced(Append(s, clock))
      BY <1>1, <1>2, <2>3, <2>4, <2>5, TokenPaid
    <3>3. passed'.token = Append(s, clock)
      BY <1>1, <3>1
    <3>4. c - perToken \in Int /\ c - perToken <= burst * perToken
      BY <1>3, <2>3
    <3> QED
      BY <1>5, <3>1, <3>2, <3>3, <3>4
  <2>6. CASE ~(c >= perToken)
    <3>1. bucket' = <<c, clock>> /\ passed' = passed
      BY <1>7, <2>2, <2>6 DEF TokenBucketAllow
    <3> QED
      BY <1>2, <1>5, <2>3, <2>4, <3>1
  <2> QED
    BY <2>5, <2>6
<1> QED
  BY <1>6, <1>7

\* pop_front takes out only what is a window old ...
LEMMA WindowPruned ==
    ASSUME NEW w \in Seq(Nat), NEW s \in Seq(Nat), NEW now \in Nat, Suffix(w, s, now),
           NEW n \in 0 .. Len(w), \A i \in 1 .. n : w[i] <= now - windowMs
    PROVE  /\ SubSeq(w, n + 1, Len(w)) \in Seq(Nat)
           /\ Suffix(SubSeq(w, n + 1, Len(w)), s, now)
<1>1. Len(w) \in Nat /\ Len(s) \in Nat
  OBVIOUS
<1>2. PICK v : v = SubSeq(w, n + 1, Len(w))
  BY Zenon
<1>3. v \in Seq(Nat) /\ Len(v) = Len(w) - n /\ \A i \in 1 .. Len(w) - n : v[i] = w[n + i]
  <2>1. /\ v \in Seq(Nat)
        /\ Len(v) = IF n + 1 <= Len(w) THEN Len(w) - (n + 1) + 1 ELSE 0
        /\ \A i \in 1 .. Len(w) - (n + 1) + 1 : v[i] = w[n + 1 + i - 1]
    BY <1>1, <1>2, SubSeqProperties, SMTT(30)
  <2> QED
    BY <1>1, <2>1
<1>4. Len(v) <= Len(s)
  BY <1>1, <1>3 DEF Suffix
<1>5. ASSUME NEW i \in 1 .. Len(v)
      PROVE  v[i] = s[Len(s) - Len(v) + i]
  <2>1. n + i \in 1 .. Len(w) /\ Len(s) - Len(w) + (n + i) = Len(s) - Len(v) + i
    BY <1>1, <1>3
  <2>2. w[n + i] = s[Len(s) - Len(w) + (n + i)]
    BY <2>1 DEF Suffix
  <2> QED
    BY <1>3, <2>1, <2>2
<1>6. ASSUME NEW i \in 1 .. Len(s) - Len(v)
      PROVE  s[i] <= now - windowMs
  <2>1. CASE i \in 1 .. Len(s) - Len(w)
    BY <2>1 DEF Suffix
  <2>2. CASE i \notin 1 .. Len(s) - Len(w)
    <3>1. PICK k \in 1 .. n : i = Len(s) - Len(w) + k
      <4>1. i - (Len(s) - Len(w)) \in 1 .. n
        BY <1>1, <1>3, <2>2
      <4>2. i = Len(s) - Len(w) + (i - (Len(s) - Len(w)))
        BY <1>1
      <4> QED
        BY <4>1, <4>2, Zenon
    <3>2. w[k] = s[i]
      BY <1>1, <3>1 DEF Suffix
    <3> QED
      BY <3>1, <3>2
  <2> QED
    BY <2>1, <2>2
<1> QED
  BY <1>2, <1>3, <1>4, <1>5, <1>6, Zenon DEF Suffix

\* ... so a request that finds room is a window later than the one maxRequests
\* before it.
LEMMA WindowGrows ==
    ASSUME NEW w \in Seq(Nat), NEW s \in Seq(Nat), NEW now \in Nat, Suffix(w, s, now),
           Apart(s), Len(w) < maxRequests
    PROVE  /\ Append(w, now) \in Seq(Nat) /\ Append(s, now) \in Seq(Nat)
           /\ Suffix(Append(w, now), Append(s, now), now) /\ Apart(Append(s, now))
<1>1. PICK p \in Seq(Nat) : p = Append(w, now)
  BY PushBack, Zenon
<1>2. PICK q \in Seq(Nat) : q = Append(s, now)
  BY PushBack, Zenon
<1>3. /\ Len(p) = Len(w) + 1 /\ Len(w) \in Nat /\ p[Len(w) + 1] = now
      /\ \A i \in 1 .. Len(w) : p[i] = w[i]
  BY <1>1, PushBack
<1>4. /\ Len(q) = Len(s) + 1 /\ Len(s) \in Nat /\ q[Len(s) + 1] = now
      /\ DOMAIN s = 1 .. Len(s) /\ DOMAIN q = 1 .. Len(s) + 1
      /\ \A i \in 1 .. Len(s) : q[i] = s[i] /\ s[i] \in Nat
  BY <1>2, PushBack
<1>5. Suffix(p, q, now)
  <2>1. Len(w) <= Len(s) /\ Len(p) <= Len(q) /\ Len(q) - Len(p) = Len(s) - Len(w)
    BY <1>3, <1>4 DEF Suffix
  <2>2. ASSUME NEW i \in 1 .. Len(p)
        PROVE  p[i] = q[Len(q) - Len(p) + i]
    <3>1. CASE i = Len(w) + 1
      BY <1>3, <1>4, <2>1, <3>1
    <3>2. CASE i \in 1 .. Len(w)
      <4>1. Len(s) - Len(w) + i \in 1 .. Len(s)
        BY <1>3, <1>4, <2>1, <3>2
      <4> QED
        BY <1>3, <1>4, <2>1, <3>2, <4>1, Zenon DEF Suffix
    <3> QED
      BY <1>3, <3>1, <3>2
  <2>3. ASSUME NEW i \in 1 .. Len(q) - Len(p)
        PROVE  q[i] <= now - windowMs
    <3>1. i \in 1 .. Len(s) - Len(w)
      BY <2>1, Zenon
    <3>2. i \in 1 .. Len(s)
      <4>1. PICK a \in Nat : a = Len(w)
        BY <1>3, Zenon
      <4>2. PICK c \in Nat : c = Len(s)
        BY <1>4, Zenon
      <4>3. i \in 1 .. c - a
        BY <3>1, <4>1, <4>2, Zenon
      <4> QED
        BY <4>2, <4>3
    <3> QED
      BY <1>4, <3>1, <3>2, Zenon DEF Suffix
  <2> QED
    BY <2>1, <2>2, <2>3 DEF Suffix
<1>6. Apart(q)
  <2>1. PICK r \in Int : r = maxRequests /\ r > Len(w)
    BY <1>3, LimiterAssumption
  <2>4. windowMs \in Int
    BY LimiterAssumption
  <2> SUFFICES ASSUME NEW i \in 1 .. Len(s) + 1, i + r \in 1 .. Len(s) + 1
               PROVE  q[i + r] - q[i] >= windowMs
    BY <1>4, <2>1, Zenon DEF Apart
  <2>2. CASE i + r = Len(s) + 1
    <3>1. i <= Len(s) /\ i <= Len(s) - Len(w)
      <4>1. PICK a \in Nat : a = Len(w)
        BY <1>3, Zenon
      <4>2. PICK c \in Nat : c = Len(s)
        BY <1>4, Zenon
      <4>3. r > a /\ i + r = c + 1 /\ i \in Int
        BY <2>1, <2>2, <4>1, <4>2
      <4>4. i <= c /\ i <= c - a
        BY <4>3
      <4> QED
        BY <4>1, <4>2, <4>4, Zenon
    <3>2. q[i] <= now - windowMs /\ q[i] \in Nat
      <4>1. i \in 1 .. Len(s) /\ i \in 1 .. Len(s) - Len(w)
        BY <1>3, <1>4, <3>1
      <4> QED
        BY <1>4, <4>1 DEF Suffix
    <3> QED
      BY <1>4, <2>2, <2>4, <3>2
  <2>3. CASE i + r \in 1 .. Len(s)
    <3>1. i \in 1 .. Len(s)
      BY <1>3, <1>4, <2>1, <2>3
    <3> QED
      BY <1>4, <2>1, <2>3, <3>1, Zenon DEF Apart
  <2> QED
    <3>1. i + r \in 1 .. Len(s) \/ i + r = Len(s) + 1
      BY <1>4
    <3> QED
      BY <2>2, <2>3, <3>1, Zenon
<1> QED
  BY <1>1, <1>2, <1>5, <1>6

LEMMA LimiterStep == LimiterInv /\ [LimiterNext]_limiterVars => LimiterInv'
<1> SUFFICES ASSUME LimiterInv, [LimiterNext]_limiterVars
             PROVE  LimiterInv'
  OBVIOUS
<1>0. /\ clock \in Nat /\ window \in Seq(Nat) /\ passed \in [token : Seq(Nat), slide : Seq(Nat)]
      /\ Suffix(window, passed.slide, clock) /\ Apart(passed.slide)
  BY DEF LimiterInv
<1>1. CASE UNCHANGED limiterVars
  BY <1>1 DEF limiterVars, LimiterInv
<1>2. CASE LimiterTick
  <2>1. clock' = clock + 1 /\ UNCHANGED <<bucket, window, passed>>
    BY <1>2 DEF LimiterTick
  <2>2. Suffix(window, passed.slide, clock + 1)
    <3>1. ASSUME NEW i \in 1 .. Len(passed.slide) - Len(window)
          PROVE  passed.slide[i] <= (clock + 1) - windowMs
      <4>1. passed.slide[i] <= clock - windowMs
        BY <1>0 DEF Suffix
      <4>2. passed.slide[i] \in Nat
        <5>1. PICK s \in Seq(Nat) : s = passed.slide
          BY <1>0
        <5>2. Len(s) \in Nat /\ Len(window) \in Nat
          BY <1>0
        <5>3. i \in 1 .. Len(s)
          BY <5>1, <5>2
        <5> QED
          BY <5>1, <5>3, ElementOfSeq
      <4>3. windowMs \in Int
        BY LimiterAssumption
      <4> QED
        BY <1>0, <4>1, <4>2, <4>3
    <3> QED
      BY <1>0, <3>1, Zenon DEF Suffix
  <2>3. ASSUME NEW b \in Int, NEW t \in Nat, t <= clock
        PROVE  t <= clock'
    BY <1>0, <2>1, <2>3
  <2> QED
    BY <1>0, <2>1, <2>2, <2>3 DEF LimiterInv
<1>3. CASE TokenBucketAllow
  BY <1>3, TokenStep
<1>4. CASE SlidingWindowAllow
  <2>1. PICK n \in 0 .. Len(window) :
           LET kept == SubSeq(window, n + 1, Len(window))
               yes == Len(kept) < maxRequests
           IN  /\ \A i \in 1 .. n : window[i] <= clock - windowMs
               /\ window' = IF yes THEN Append(kept, clock) ELSE kept
               /\ passed' = IF yes THEN [passed EXCEPT !.slide = Append(@, clock)] ELSE passed
    BY <1>4, Zenon DEF SlidingWindowAllow
  <2>2. UNCHANGED <<clock, bucket>>
    BY <1>4 DEF SlidingWindowAllow
  <2>3. PICK s \in Seq(Nat) : s = passed.slide
    BY <1>0
  <2>4. PICK k \in Seq(Nat) : k = SubSeq(window, n + 1, Len(window)) /\ Suffix(k, s, clock)
    BY <1>0, <2>1, <2>3, WindowPruned, Zenon
  <2>5. CASE Len(k) < maxRequests
    <3>1. window' = Append(k, clock) /\ passed' = [passed EXCEPT !.slide = Append(s, clock)]
      BY <2>1, <2>3, <2>4, <2>5, Zenon
    <3>2. /\ Append(k, clock) \in Seq(Nat) /\ Append(s, clock) \in Seq(Nat)
          /\ Suffix(Append(k, clock), Append(s, clock), clock) /\ Apart(Append(s, clock))
      BY <1>0, <2>3, <2>4, <2>5, WindowGrows, Zenon
    <3>3. /\ passed' \in [token : Seq(Nat), slide : Seq(Nat)]
          /\ passed'.token = passed.token /\ passed'.slide = Append(s, clock)
      BY <1>0, <3>1, <3>2, Zenon
    <3> QED
      BY <2>2, <3>1, <3>2, <3>3 DEF LimiterInv
  <2>6. CASE ~(Len(k) < maxRequests)
    <3>1. window' = k /\ passed' = passed
      BY <2>1, <2>4, <2>6, Zenon
    <3> QED
      BY <2>2, <2>3, <2>4, <3>1 DEF LimiterInv
  <2> QED
    BY <2>5, <2>6
<1> QED
  BY <1>1, <1>2, <1>3, <1>4 DEF LimiterNext

\* Both limiters of RateLimiter.h keep their promise over every interval, for any
\* burst of at least one token, rate, window and limit, and over any time: the
\* token bucket lets n requests through only in a time that earns all but burst of
\* their tokens, and any maxRequests + 1 requests that pass the sliding window span
\* a whole window.
THEOREM RateAlwaysBounded == LimiterSpec => []RateBounded
<1>1. LimiterInit => LimiterInv
  BY EmptySeq DEF LimiterInit, LimiterInv, Spaced, Suffix, Apart
<1>2. LimiterInv => RateBounded
  BY DEF LimiterInv, RateBounded, Spaced, Apart
<1> QED
  BY <1>1, <1>2, LimiterStep, PTL DEF LimiterSpec
=============================================================================
