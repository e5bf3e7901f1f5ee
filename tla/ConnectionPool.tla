--------------------------- MODULE ConnectionPool ---------------------------
(* The three connection pools, pool/ConnectionPool.h ("tcp"),              *)
(* pool/MySQLPool.h ("mysql") and pool/RedisPool.h ("redis").  They share  *)
(* one design: a queue of idle connections, a count of the connections in  *)
(* existence that reserves a slot before the mutex is released to connect, *)
(* and a condition variable with a time-out; they differ in how acquire    *)
(* tests a pooled connection and in what release throws away.  Every       *)
(* critical section of the mutex is one step; connecting is not in one.    *)
(* MySQL's transactions and read replicas are part of the model.           *)
EXTENDS Integers, Sequences, FiniteSets

CONSTANTS
    Users,          \* threads that acquire and release
    Kinds,          \* which of "tcp", "mysql", "redis" is modelled
    minSize,
    maxSize,
    MaxAcquires,    \* acquire calls per user
    MaxLosses       \* links that break

VARIABLES
    kind,           \* the class of the pool
    pool,           \* pool_: ids of idle connections, oldest first
    total,          \* totalCreated_
    closed,         \* closed_
    conn,           \* the connection objects, by id
    user,           \* where each thread is
    notified,       \* waiting threads a notify has released
    silent,         \* ghost: a slot was freed without a notify
    losses

poolVars == <<kind, pool, total, closed, conn, user, notified, silent, losses>>

Conns == 1 .. maxSize + Cardinality(Users)

(* What a connection object and its peer know.  stale: lastUsed_ is older  *)
(* than the idle limit; err: the redis context has failed; tx: the server  *)
(* holds an open transaction; trans: the client library believes it does.  *)
(* The tcp class never marks a connection it creates as used.              *)
Connection(home) == [link |-> "up", stale |-> kind = "tcp", err |-> FALSE,
                     tx |-> FALSE, trans |-> FALSE, home |-> home]
NoConnection == [link |-> "none", stale |-> FALSE, err |-> FALSE,
                 tx |-> FALSE, trans |-> FALSE, home |-> "master"]

(* valid(): only a redis connection can tell that it has failed.           *)
Valid(c) == ~conn[c].err

Waiting == {u \in Users : user[u].pc = "waiting"}
Creating == {u \in Users : user[u].pc = "creating"}
Holding == {u \in Users : user[u].conn # 0}
Free == {c \in Conns : conn[c].link = "none"}

(* The predicate of the three wait_for calls.                              *)
Available == closed \/ pool # <<>> \/ total < maxSize

Idle(left) == [pc |-> "out", conn |-> 0, left |-> left, write |-> TRUE,
               work |-> "none", told |-> FALSE]

(* A pool that is never made.                                              *)
PoolOff ==
    /\ kind = "tcp" /\ pool = <<>> /\ total = 0 /\ closed = FALSE
    /\ conn = [c \in Conns |-> NoConnection]
    /\ user = [u \in Users |-> Idle(0)]
    /\ notified = {} /\ silent = FALSE /\ losses = 0

(* The constructors: minSize attempts, the ones that fail are skipped.     *)
PoolInit(k) ==
    /\ kind = k
    /\ \E n \in 0 .. minSize :
          /\ pool = [i \in 1 .. n |-> i]
          /\ total = n
          /\ conn = [c \in Conns |-> IF c <= n THEN Connection("master")
                                               ELSE NoConnection]
    /\ closed = FALSE
    /\ user = [u \in Users |-> Idle(MaxAcquires)]
    /\ notified = {}
    /\ silent = FALSE
    /\ losses = MaxLosses

-----------------------------------------------------------------------------
(* The end of an acquire by u, once the connections dropped on the way are *)
(* gone: hand out c, start to connect, or give up.                         *)
HandOut(u, c, dropped, rest, up) ==
    /\ user' = [user EXCEPT ![u].pc = "holds", ![u].conn = c]
    /\ conn' = [d \in Conns |->
                  IF d \in dropped THEN NoConnection
                  ELSE IF d = c THEN [conn[d] EXCEPT !.stale = FALSE, !.link = up]
                  ELSE conn[d]]
    /\ pool' = rest
    /\ total' = total - Cardinality(dropped)

StartConnecting(u, dropped, rest) ==
    /\ total - Cardinality(dropped) < maxSize
    /\ user' = [user EXCEPT ![u].pc = "creating"]
    /\ conn' = [d \in Conns |-> IF d \in dropped THEN NoConnection ELSE conn[d]]
    /\ pool' = rest
    /\ total' = total - Cardinality(dropped) + 1

GiveUp(u) ==
    /\ user' = [user EXCEPT ![u] = Idle(@.left - 1)]
    /\ UNCHANGED <<conn, pool, total>>

(* ConnectionPool::acquire after the wait: the front connection as it is.  *)
TakeTcp(u) ==
    \/ pool # <<>> /\ HandOut(u, Head(pool), {}, Tail(pool), conn[Head(pool)].link)
    \/ pool = <<>> /\ StartConnecting(u, {}, <<>>)
    \/ pool = <<>> /\ total >= maxSize /\ GiveUp(u)

(* mysql_ping, with MYSQL_OPT_RECONNECT: a lost link is opened again       *)
(* unless the client believes a transaction was on it.                     *)
PingMysql(c) == IF conn[c].link = "up" THEN {TRUE}
                ELSE IF conn[c].trans THEN {FALSE} ELSE {TRUE, FALSE}

(* MySQLPool::acquire after the wait: connections are pinged, and dropped, *)
(* from the front until one answers.                                       *)
TakeMysql(u) ==
    \E n \in 0 .. Len(pool) :
      LET dropped == {pool[i] : i \in 1 .. n} IN
      /\ \A c \in dropped : FALSE \in PingMysql(c)
      /\ \/ /\ n < Len(pool)
            /\ TRUE \in PingMysql(pool[n + 1])
            /\ HandOut(u, pool[n + 1], dropped,
                       SubSeq(pool, n + 2, Len(pool)), "up")
         \/ n = Len(pool) /\ StartConnecting(u, dropped, <<>>)
         \/ n = Len(pool) /\ n = 0 /\ total >= maxSize /\ GiveUp(u)

(* RedisPool::acquire after the wait: only the front connection is tried.  *)
TakeRedis(u) ==
    IF pool = <<>>
    THEN StartConnecting(u, {}, <<>>) \/ (total >= maxSize /\ GiveUp(u))
    ELSE LET c == Head(pool) IN
         IF conn[c].link = "up" /\ ~conn[c].err
         THEN HandOut(u, c, {}, Tail(pool), "up")
         ELSE StartConnecting(u, {c}, Tail(pool))

(* What follows the wait_for of acquire.                                   *)
Take(u) ==
    IF closed THEN GiveUp(u)
    ELSE CASE kind = "tcp" -> TakeTcp(u)
           [] kind = "mysql" -> TakeMysql(u)
           [] kind = "redis" -> TakeRedis(u)

(* acquire(): at once if the predicate holds, otherwise after a wait.      *)
Acquire(u) ==
    /\ user[u].pc = "out" /\ user[u].left > 0
    /\ \/ Available /\ Take(u)
       \/ /\ ~Available
          /\ user' = [user EXCEPT ![u].pc = "waiting"]
          /\ UNCHANGED <<pool, total, conn>>
    /\ UNCHANGED <<kind, closed, notified, silent, losses>>

(* The wait of acquire ends: a notified thread waits on if the predicate   *)
(* fails; after timeoutMs acquire goes on whatever the predicate says.     *)
Wake(u) ==
    /\ u \in notified
    /\ notified' = notified \ {u}
    /\ IF Available THEN Take(u) ELSE UNCHANGED <<pool, total, conn, user>>
    /\ UNCHANGED <<kind, closed, silent, losses>>

TimeOut(u) ==
    /\ user[u].pc = "waiting"
    /\ Take(u)
    /\ notified' = notified \ {u}
    /\ UNCHANGED <<kind, closed, silent, losses>>

(* The end of acquire after createConnection: the new connection goes to   *)
(* the caller, or the reserved slot is given back, without a notify.       *)
Connected(u) ==
    LET c == CHOOSE d \in Free : \A e \in Free : d <= e IN
    /\ user[u].pc = "creating"
    /\ conn' = [conn EXCEPT ![c] = Connection("master")]
    /\ user' = [user EXCEPT ![u].pc = "holds", ![u].conn = c]
    /\ UNCHANGED <<kind, pool, total, closed, notified, silent, losses>>

(* Mutant of NotConnected: the slot reserved for the connection is kept.   *)
NotConnectedKeepsSlot(u) ==
    /\ user[u].pc = "creating"
    /\ user' = [user EXCEPT ![u] = Idle(@.left - 1)]
    /\ UNCHANGED <<kind, pool, total, closed, conn, notified, silent, losses>>

NotConnected(u) ==
    /\ user[u].pc = "creating"
    /\ total' = total - 1
    /\ silent' = TRUE
    /\ user' = [user EXCEPT ![u] = Idle(@.left - 1)]
    /\ UNCHANGED <<kind, pool, closed, conn, notified, losses>>

(* createConnection of the three classes, outside the mutex.  Whatever     *)
(* step of it fails (socket, connect or its time-out, SO_ERROR, the MySQL  *)
(* or redis greeting, AUTH), what was opened is closed again.              *)
CreateTcp(u) == kind = "tcp" /\ (Connected(u) \/ NotConnected(u))
CreateMysql(u) == kind = "mysql" /\ (Connected(u) \/ NotConnected(u))
CreateRedis(u) == kind = "redis" /\ (Connected(u) \/ NotConnected(u))

-----------------------------------------------------------------------------
NotifyOne ==
    LET asleep == Waiting \ notified IN
    IF asleep = {} THEN UNCHANGED notified
    ELSE \E w \in asleep : notified' = notified \cup {w}

(* What release does with connection c: keep it in the queue or drop it.   *)
ReleaseTcp(c) == ~closed /\ Len(pool) < maxSize
ReleaseMysql(c) == ~closed /\ Len(pool) < maxSize
ReleaseRedis(c) == ~closed /\ Valid(c)

Keeps(c) == CASE kind = "tcp" -> ReleaseTcp(c)
              [] kind = "mysql" -> ReleaseMysql(c)
              [] kind = "redis" -> ReleaseRedis(c)

(* release(): redis alone marks the connection as just used.               *)
Release(u) ==
    LET c == user[u].conn IN
    /\ user[u].pc = "holds"
    /\ IF Keeps(c)
       THEN /\ pool' = Append(pool, c)
            /\ conn' = [conn EXCEPT ![c].stale = @ /\ kind # "redis"]
            /\ UNCHANGED total
       ELSE /\ conn' = [conn EXCEPT ![c] = NoConnection]
            /\ total' = IF total > 0 THEN total - 1 ELSE 0
            /\ UNCHANGED pool
    /\ user' = [user EXCEPT ![u] = Idle(@.left - 1)]
    /\ NotifyOne
    /\ UNCHANGED <<kind, closed, silent, losses>>

(* healthCheck() of the three classes: walk the queue, drop what is stale  *)
(* once minSize connections have been kept.  Nobody is notified.           *)
Kept(q) ==
    LET keep[n \in 0 .. Len(q)] ==
          IF n = 0 THEN <<>>
          ELSE IF conn[q[n]].stale /\ Len(keep[n - 1]) >= minSize
               THEN keep[n - 1] ELSE Append(keep[n - 1], q[n])
    IN keep[Len(q)]

HealthCheck ==
    LET kept == Kept(pool)
        gone == {pool[i] : i \in DOMAIN pool} \ {kept[i] : i \in DOMAIN kept} IN
    /\ ~closed /\ gone # {}
    /\ pool' = kept
    /\ total' = total - Cardinality(gone)
    /\ conn' = [c \in Conns |-> IF c \in gone THEN NoConnection ELSE conn[c]]
    /\ silent' = TRUE
    /\ UNCHANGED <<kind, closed, user, notified, losses>>

(* The destructors: refuse new users, wake the waiting ones, drop the      *)
(* queue.                                                                  *)
Close ==
    /\ ~closed
    /\ closed' = TRUE
    /\ notified' = Waiting
    /\ pool' = <<>>
    /\ conn' = [c \in Conns |-> IF \E i \in DOMAIN pool : pool[i] = c
                                THEN NoConnection ELSE conn[c]]
    /\ UNCHANGED <<kind, total, user, silent, losses>>

-----------------------------------------------------------------------------
(* The environment: a link breaks (the server rolls an open transaction    *)
(* back), time passes until the idle connections are stale.                *)
LoseLink(c) ==
    /\ losses > 0 /\ losses' = losses - 1
    /\ conn[c].link = "up"
    /\ conn' = [conn EXCEPT ![c].link = "down", ![c].tx = FALSE]
    /\ user' = [u \in Users |->
                  IF user[u].conn = c /\ user[u].work = "pending"
                  THEN [user[u] EXCEPT !.work = "lost"] ELSE user[u]]
    /\ UNCHANGED <<kind, pool, total, closed, notified, silent>>

Age ==
    /\ \E i \in DOMAIN pool : ~conn[pool[i]].stale
    /\ conn' = [c \in Conns |-> [conn[c] EXCEPT
                  !.stale = @ \/ \E i \in DOMAIN pool : pool[i] = c]]
    /\ UNCHANGED <<kind, pool, total, closed, user, notified, silent, losses>>

(* RedisConnection::command on a broken link fails and marks the context.  *)
RedisCommand(u) ==
    LET c == user[u].conn IN
    /\ kind = "redis" /\ user[u].pc = "holds"
    /\ conn[c].link = "down" /\ ~conn[c].err
    /\ conn' = [conn EXCEPT ![c].err = TRUE]
    /\ UNCHANGED <<kind, pool, total, closed, user, notified, silent, losses>>

-----------------------------------------------------------------------------
(* A statement on a MySQL connection (mysql_query with automatic           *)
(* reconnection): its result and the connection after it.  A statement     *)
(* inside a transaction whose link is gone fails once; the next one        *)
(* connects again and runs outside any transaction.                        *)
MysqlQuery(c) ==
    LET r == conn[c] IN
    IF r.link = "up" THEN {<<TRUE, r>>}
    ELSE IF r.trans THEN {<<FALSE, [r EXCEPT !.trans = FALSE]>>}
    ELSE {<<FALSE, r>>, <<TRUE, [r EXCEPT !.link = "up"]>>}

(* TransactionGuard's constructor.                                         *)
Begin(u) ==
    LET c == user[u].conn IN
    /\ kind = "mysql" /\ user[u].pc = "holds" /\ user[u].work = "none"
    /\ user[u].write
    /\ \E q \in MysqlQuery(c) :
          IF q[1]
          THEN /\ conn' = [conn EXCEPT ![c] = [q[2] EXCEPT !.tx = TRUE, !.trans = TRUE]]
               /\ user' = [user EXCEPT ![u].pc = "tx"]
          ELSE /\ conn' = [conn EXCEPT ![c] = q[2]]
               /\ user' = [user EXCEPT ![u].work = "refused"]
    /\ UNCHANGED <<kind, pool, total, closed, notified, silent, losses>>

(* execute() or a PreparedStatement inside the transaction; a caller that  *)
(* sees it fail leaves the scope.                                          *)
Execute(u) ==
    LET c == user[u].conn IN
    /\ user[u].pc = "tx" /\ user[u].work = "none"
    /\ \E q \in MysqlQuery(c) :
          /\ conn' = [conn EXCEPT ![c] = q[2]]
          /\ user' = [user EXCEPT ![u].work = IF q[1] THEN "pending" ELSE "lost",
                                  ![u].pc = IF q[1] THEN "tx" ELSE "unwind"]
    /\ UNCHANGED <<kind, pool, total, closed, notified, silent, losses>>

(* TransactionGuard::commit.                                               *)
Commit(u) ==
    LET c == user[u].conn IN
    /\ user[u].pc = "tx" /\ user[u].work # "none"
    /\ \E q \in MysqlQuery(c) :
          /\ conn' = [conn EXCEPT ![c] =
                        [q[2] EXCEPT !.tx = FALSE, !.trans = @ /\ ~q[1]]]
          /\ user' = [user EXCEPT ![u].told = q[1], ![u].pc = "unwind",
                        ![u].work = IF conn[c].tx THEN "durable" ELSE @]
    /\ UNCHANGED <<kind, pool, total, closed, notified, silent, losses>>

(* The link breaks after the server committed, before its answer.          *)
LoseCommitReply(u) ==
    LET c == user[u].conn IN
    /\ losses > 0 /\ losses' = losses - 1
    /\ user[u].pc = "tx" /\ user[u].work = "pending" /\ conn[c].tx
    /\ conn' = [conn EXCEPT ![c].link = "down", ![c].tx = FALSE]
    /\ user' = [user EXCEPT ![u].work = "durable", ![u].pc = "unwind"]
    /\ UNCHANGED <<kind, pool, total, closed, notified, silent>>

(* Mutant of Unwind: the destructor does not roll back.                    *)
UnwindOpen(u) ==
    /\ user[u].pc = "unwind" \/ (user[u].pc = "tx" /\ user[u].work # "none")
    /\ user' = [user EXCEPT ![u].pc = "holds"]
    /\ UNCHANGED <<kind, pool, total, closed, conn, notified, silent, losses>>

(* ~TransactionGuard: roll back what was not committed.                    *)
Unwind(u) ==
    LET c == user[u].conn IN
    /\ user[u].pc = "unwind" \/ (user[u].pc = "tx" /\ user[u].work # "none")
    /\ IF user[u].told THEN UNCHANGED conn
       ELSE \E q \in MysqlQuery(c) :
              conn' = [conn EXCEPT ![c] = [q[2] EXCEPT !.tx = @ /\ ~q[1],
                                                       !.trans = @ /\ ~q[1]]]
    /\ user' = [user EXCEPT ![u].pc = "holds", ![u].work =
                  IF @ = "pending" THEN "lost" ELSE @]
    /\ UNCHANGED <<kind, pool, total, closed, notified, silent, losses>>

(* MySQLPool::acquireRead with one replica: its pool hands out one of its  *)
(* own connections, or none and the master's acquire is used.              *)
AcquireRead(u) ==
    /\ kind = "mysql" /\ user[u].pc = "out" /\ user[u].left > 0
    /\ conn' = [conn EXCEPT ![CHOOSE d \in Free : \A e \in Free : d <= e] =
                              Connection("replica")]
    /\ user' = [user EXCEPT ![u].pc = "holds", ![u].write = FALSE,
                  ![u].conn = CHOOSE d \in Free : \A e \in Free : d <= e]
    /\ UNCHANGED <<kind, pool, total, closed, notified, silent, losses>>

-----------------------------------------------------------------------------
PoolNext ==
    \/ \E u \in Users : \/ Acquire(u) \/ Wake(u) \/ TimeOut(u)
                        \/ CreateTcp(u) \/ CreateMysql(u) \/ CreateRedis(u)
                        \/ Release(u)
                        \/ RedisCommand(u)
                        \/ Begin(u) \/ Execute(u) \/ Commit(u) \/ Unwind(u)
                        \/ LoseCommitReply(u)
    \/ \E c \in Conns : LoseLink(c)
    \/ HealthCheck \/ Close \/ Age

\* A pool with a replica (addReadReplica), whose queue and link are not modelled.
SplitNext == PoolNext \/ \E u \in Users : AcquireRead(u)

SplitSpec == (\E k \in Kinds : PoolInit(k)) /\ [][SplitNext]_poolVars

-----------------------------------------------------------------------------
PoolTypeOK ==
    /\ kind \in Kinds /\ total \in 0 .. maxSize
    /\ \A i \in DOMAIN pool : pool[i] \in Conns
    /\ notified \subseteq Waiting
    /\ \A u \in Users : user[u].conn \in 0 .. Cardinality(Conns)

(* totalCreated_ counts exactly the connections in the queue, in use or    *)
(* being made, through every failed connect, failed ping and health check; *)
(* it never passes maxSize and no connection is in two hands.  A slot lost *)
(* here would shrink the pool for good.                                    *)
SlotsAccounted ==
    /\ PoolTypeOK
    /\ ~closed => total = Len(pool) + Cardinality(Holding) + Cardinality(Creating)
    /\ \A i, j \in DOMAIN pool : pool[i] = pool[j] => i = j
    /\ \A u \in Users : user[u].conn # 0 =>
          /\ \A i \in DOMAIN pool : pool[i] # user[u].conn
          /\ \A v \in Users \ {u} : user[v].conn # user[u].conn

(* While threads wait in acquire although a connection or a slot is free,  *)
(* one of them has been notified: release never frees capacity silently.   *)
(* A failed connect and healthCheck do (silent); then only the time-out of *)
(* acquire gets the waiting thread going.                                  *)
FreedSlotAnnounced ==
    (Waiting # {} /\ Available /\ ~silent) => notified # {}

(* A transaction never leaves its user: no idle connection has one open on *)
(* the server, and TransactionGuard::commit answers true only for work the *)
(* server made durable, whatever the automatic reconnection does.          *)
TransactionsPrivate ==
    /\ \A i \in DOMAIN pool : ~conn[pool[i]].tx
    /\ \A u \in Users : user[u].told => user[u].work = "durable"

(* acquire and acquireWrite "always use this pool (master)": a connection  *)
(* taken for writing is one to the master.  A connection that acquireRead  *)
(* took from a replica and release put into the master's queue is not.     *)
WritesOnMaster ==
    \A u \in Users : (user[u].conn # 0 /\ user[u].write) =>
                        conn[user[u].conn].home = "master"

=============================================================================
