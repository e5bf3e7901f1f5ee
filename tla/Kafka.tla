------------------------------- MODULE Kafka -------------------------------
(* util/KafkaConsumer.h and util/KafkaProducer.h on one partition.         *)
(* "loop" is a consumer with its poll thread and callback; "transaction"   *)
(* is the read-process-write loop the two classes are made for, written by *)
(* their user: consumeOnce, produce, sendOffsetsToTransaction, commit, and *)
(* abort when a step fails.  The broker is modelled from what the classes  *)
(* set and call: an offset commit may be lost, a new session reads from    *)
(* the committed offset, a commit of a transaction is atomic.              *)
EXTENDS Integers, FiniteSets, Sequences

CONSTANTS
    Messages,      \* offsets of the input, 1..n
    MaxSessions    \* bound on the starts of the consumer

VARIABLES
    mode,          \* "loop" or "transaction"
    session,       \* starts so far; 0 before the first
    position,      \* next offset the consumer reads
    committed,     \* broker: committed offset of the group
    commits,       \* commits under way (commitAsync)
    inHand,        \* the message the callback or the transaction works on, 0 when none
    transaction,   \* "none", "open", "offsets"
    produced,      \* messages produced in the open transaction
    handled,       \* messages whose callback returned true, or whose output is committed
    refused,       \* messages whose callback returned false or threw, or that an
                   \* aborted transaction had read
    twice          \* ghost: some output was committed twice

kafkaVars == <<mode, session, position, committed, commits, inHand, transaction,
               produced, handled, refused, twice>>

KafkaInit ==
    /\ mode \in {"loop", "transaction"}
    /\ session = 0 /\ position = 1 /\ committed = 1
    /\ commits = {} /\ inHand = 0
    /\ transaction = "none" /\ produced = {}
    /\ handled = {} /\ refused = {} /\ twice = FALSE

\* start and startManual, createAndSubscribe: the first session, or one after a
\* crash or a rebalance.  An open transaction of the old one is fenced off by
\* init_transactions.
KafkaStart ==
    /\ session < MaxSessions
    /\ session' = session + 1
    /\ position' = committed
    /\ inHand' = 0 /\ transaction' = "none" /\ produced' = {}
    /\ UNCHANGED <<mode, committed, commits, handled, refused, twice>>

\* consume(), in pollLoop and in consumeOnce
Consume ==
    /\ session > 0 /\ inHand = 0 /\ position \in Messages
    /\ mode = "transaction" => transaction = "open" /\ produced = {}
    /\ inHand' = position /\ position' = position + 1
    /\ UNCHANGED <<mode, session, committed, commits, transaction, produced, handled, refused, twice>>

\* pollLoop after the callback: true commits the offset after this message
CallbackTrue ==
    /\ mode = "loop" /\ inHand # 0
    /\ handled' = handled \cup {inHand}
    /\ commits' = commits \cup {inHand + 1}
    /\ inHand' = 0
    /\ UNCHANGED <<mode, session, position, committed, transaction, produced, refused, twice>>

\* ... false, or an exception, does nothing: the position has moved on
CallbackFalse ==
    /\ mode = "loop" /\ inHand # 0
    /\ refused' = refused \cup {inHand}
    /\ inHand' = 0
    /\ UNCHANGED <<mode, session, position, committed, commits, transaction, produced, handled, twice>>

\* The broker stores an asynchronous commit, or never gets it.
CommitArrives ==
    /\ \E o \in commits :
          /\ \A q \in commits : o <= q
          /\ commits' = commits \ {o}
          /\ committed' \in {committed, o}
    /\ UNCHANGED <<mode, session, position, inHand, transaction, produced, handled, refused, twice>>

\* beginTransaction
BeginTransaction ==
    /\ mode = "transaction" /\ session > 0 /\ transaction = "none"
    /\ transaction' = "open"
    /\ UNCHANGED <<mode, session, position, committed, commits, inHand, produced, handled, refused, twice>>

\* produce: refused when the local queue is full, then the user aborts
Produce ==
    /\ transaction = "open" /\ inHand # 0
    /\ produced' = produced \cup {inHand}
    /\ inHand' = 0
    /\ UNCHANGED <<mode, session, position, committed, commits, transaction, handled, refused, twice>>

\* sendOffsetsToTransaction(currentPositions())
SendOffsets ==
    /\ transaction = "open" /\ produced # {}
    /\ transaction' = "offsets"
    /\ UNCHANGED <<mode, session, position, committed, commits, inHand, produced, handled, refused, twice>>

\* Mutant of CommitTransaction: the offsets are not part of the transaction.
CommitTransactionOutputOnly ==
    /\ transaction = "offsets"
    /\ handled' = handled \cup produced
    /\ twice' = (twice \/ produced \cap handled # {})
    /\ transaction' = "none" /\ produced' = {}
    /\ UNCHANGED <<mode, session, position, committed, commits, inHand, refused>>

\* commitTransaction: the output and the offsets, in one step of the broker
CommitTransaction ==
    /\ transaction = "offsets"
    /\ handled' = handled \cup produced
    /\ twice' = (twice \/ produced \cap handled # {})
    /\ committed' = position
    /\ transaction' = "none" /\ produced' = {}
    /\ UNCHANGED <<mode, session, position, commits, inHand, refused>>

\* abortTransaction after a step that failed; the consumer is not moved back
AbortTransaction ==
    /\ transaction # "none"
    /\ refused' = refused \cup produced \cup ({inHand} \ {0})
    /\ transaction' = "none" /\ produced' = {} /\ inHand' = 0
    /\ UNCHANGED <<mode, session, position, committed, commits, handled, twice>>

KafkaNext ==
    \/ KafkaStart \/ Consume \/ CallbackTrue \/ CallbackFalse \/ CommitArrives
    \/ BeginTransaction \/ Produce \/ SendOffsets \/ CommitTransaction \/ AbortTransaction

(* Nothing is skipped: a message below the committed offset was handled,   *)
(* or it was refused, respectively read by a transaction that was aborted. *)
(* And the output of a message is committed at most once, through crashes, *)
(* lost commits and aborts (KafkaConsumer.h:158-193,                       *)
(* KafkaProducer.h:131-182).                                               *)
NothingSkipped ==
    /\ \A m \in Messages : m < committed => m \in handled \cup refused
    /\ ~twice
=============================================================================
