------------------------------ MODULE Redlock ------------------------------
(* util/Redlock.h: a lock kept in one redis key, taken with SET NX PX and  *)
(* released by a script that compares the token.  A command may fail       *)
(* before it reaches the server (no connection from the pool) or after it  *)
(* was executed (the reply is lost).  The key expires ttlMs after it was   *)
(* set, whatever its holder is doing by then.                              *)
EXTENDS Integers

CONSTANTS
    Clients,
    MaxLocks       \* bound on the calls of acquire

VARIABLES
    store,         \* the key: a token, 0 when absent
    holder,        \* token and place of each client
    tokens,        \* tokens generated
    lapsed         \* ghost: tokens whose key has expired

lockVars == <<store, holder, tokens, lapsed>>

Out == [pc |-> "out", token |-> 0]

LockInit ==
    /\ store = 0
    /\ holder = [c \in Clients |-> Out]
    /\ tokens = 0
    /\ lapsed = {}

\* generateToken: time, counter and 64 random bits; taken to be unique.
GenerateToken(c) ==
    /\ tokens < MaxLocks
    /\ tokens' = tokens + 1
    /\ holder' = [holder EXCEPT ![c] = [pc |-> "try", token |-> tokens + 1]]

\* acquire(), and RedlockGuard's constructor
LockAcquire(c) ==
    /\ holder[c].pc = "out"
    /\ GenerateToken(c)
    /\ UNCHANGED <<store, lapsed>>

\* One round of acquire's loop: trySet.  SET ... NX writes only an absent key;
\* a round that failed is repeated with the same token or ends the call.
TrySet(c) ==
    /\ holder[c].pc = "try"
    /\ \E reached, reply \in BOOLEAN :
          LET ok == reached /\ store = 0 IN
          /\ store' = IF ok THEN holder[c].token ELSE store
          /\ \/ ok /\ reply /\ holder' = [holder EXCEPT ![c].pc = "held"]
             \/ ~(ok /\ reply) /\ holder' = [holder EXCEPT ![c] = Out]
             \/ ~(ok /\ reply) /\ UNCHANGED holder
    /\ UNCHANGED <<tokens, lapsed>>

\* PX: the key goes when its time is up.
Expire ==
    /\ store # 0
    /\ store' = 0
    /\ lapsed' = lapsed \cup {store}
    /\ UNCHANGED <<holder, tokens>>

\* Mutant of LockRelease: DEL without the comparison.
LockReleaseBlindly(c) ==
    /\ holder[c].pc = "held"
    /\ \E reached \in BOOLEAN : store' = IF reached THEN 0 ELSE store
    /\ holder' = [holder EXCEPT ![c] = Out]
    /\ UNCHANGED <<tokens, lapsed>>

\* release(), and ~RedlockGuard: the script deletes the key if it holds the token.
LockRelease(c) ==
    /\ holder[c].pc = "held"
    /\ \E reached \in BOOLEAN :
          store' = IF reached /\ store = holder[c].token THEN 0 ELSE store
    /\ holder' = [holder EXCEPT ![c] = Out]
    /\ UNCHANGED <<tokens, lapsed>>

\* isHeldByMe()
IsHeldByMe(c) == holder[c].pc = "held" /\ store = holder[c].token

LockNext ==
    \/ Expire
    \/ \E c \in Clients : LockAcquire(c) \/ TrySet(c) \/ LockRelease(c)

LockSpec == LockInit /\ [][LockNext]_lockVars

(* As long as the key of a holder has not expired it is still there, so    *)
(* nobody else holds the lock: a late release by a client whose own key    *)
(* expired, a retry after a lost reply or a lost release never takes the   *)
(* lock away from its holder.                                              *)
LockExclusive ==
    /\ \A c \in Clients :
          holder[c].pc = "held" /\ holder[c].token \notin lapsed => IsHeldByMe(c)
    /\ \A c, d \in Clients : c # d => ~(IsHeldByMe(c) /\ IsHeldByMe(d))
=============================================================================
