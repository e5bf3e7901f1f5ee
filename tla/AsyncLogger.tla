---------------------------- MODULE AsyncLogger ----------------------------
(* asynclogger/AsyncLogger.h: threads append entries to the current buffer *)
(* under the mutex; the writer thread swaps the two buffers under it and   *)
(* writes the other one without it.  Entries are numbered as the mutex     *)
(* admits them.  The loop test reads the current buffer without the mutex: *)
(* begin and end of the vector, of which a concurrent push moves one.      *)
EXTENDS Integers, Sequences

CONSTANTS
    kFlushThreshold,
    MaxEntries,
    MaxLogStarts

VARIABLES
    logging,       \* running_
    buffer,        \* *currentBuffer_
    flush,         \* *flushBuffer_
    output,        \* entries written, to the file or to stderr
    opened,        \* fileOpened of the writer
    writer,        \* where the writer thread is
    logged,        \* entries accepted so far
    sealed,        \* entries accepted when stop() cleared running_
    logOwner,      \* "out", or "join" inside stop()
    logStarts

loggerVars == <<logging, buffer, flush, output, opened, writer, logged, sealed,
                logOwner, logStarts>>

LoggerInit ==
    /\ logging = FALSE
    /\ buffer = <<>> /\ flush = <<>> /\ output = <<>>
    /\ opened = FALSE
    /\ writer = "none"
    /\ logged = 0 /\ sealed = 0
    /\ logOwner = "out"
    /\ logStarts = 0

(* start(): idempotent; a new writer opens the file anew.                  *)
LoggerStart ==
    /\ logOwner = "out" /\ ~logging /\ logStarts < MaxLogStarts
    /\ logging' = TRUE
    /\ writer' = "test"
    /\ opened' = FALSE
    /\ logStarts' = logStarts + 1
    /\ UNCHANGED <<buffer, flush, output, logged, sealed, logOwner>>

(* stop(): clear the flag under the mutex, notify, join.                   *)
LoggerStop ==
    /\ logOwner = "out" /\ logging
    /\ logging' = FALSE
    /\ sealed' = logged
    /\ writer' = IF writer = "wait" THEN "swap" ELSE writer
    /\ logOwner' = "join"
    /\ UNCHANGED <<buffer, flush, output, opened, logged, logStarts>>

LoggerJoin ==
    /\ logOwner = "join" /\ writer = "none"
    /\ logOwner' = "out"
    /\ UNCHANGED <<logging, buffer, flush, output, opened, writer, logged,
                   sealed, logStarts>>

(* log() with an enabled level; it is accepted whether or not the logger   *)
(* runs.                                                                   *)
Log ==
    /\ logged < MaxEntries
    /\ logged' = logged + 1
    /\ buffer' = Append(buffer, logged + 1)
    /\ writer' = IF writer = "wait" /\ Len(buffer) + 1 >= kFlushThreshold
                 THEN "swap" ELSE writer
    /\ UNCHANGED <<logging, flush, output, opened, sealed, logOwner, logStarts>>

-----------------------------------------------------------------------------
(* writerLoop(): the loop test, the wait (wait_for, 100 ms) ...            *)
WriterTest ==
    /\ writer = "test"
    /\ writer' = IF logging \/ buffer # <<>> THEN "enter" ELSE "none"
    /\ UNCHANGED <<logging, buffer, flush, output, opened, logged, sealed,
                   logOwner, logStarts>>

WriterEnter ==
    /\ writer = "enter"
    /\ writer' = IF ~logging \/ Len(buffer) >= kFlushThreshold
                 THEN "swap" ELSE "wait"
    /\ UNCHANGED <<logging, buffer, flush, output, opened, logged, sealed,
                   logOwner, logStarts>>

WriterTimeout ==
    /\ writer = "wait"
    /\ writer' = "swap"
    /\ UNCHANGED <<logging, buffer, flush, output, opened, logged, sealed,
                   logOwner, logStarts>>

(* ... the swap of the buffers under the mutex ...                         *)
WriterSwap ==
    /\ writer = "swap"
    /\ buffer' = flush /\ flush' = buffer
    /\ writer' = "write"
    /\ UNCHANGED <<logging, output, opened, logged, sealed, logOwner, logStarts>>

(* Mutant of WriterWrite: the failed open skips the output to stderr.      *)
WriterWriteFileOnly ==
    /\ writer = "write"
    /\ \E ok \in {opened, TRUE} :
          /\ opened' = ok
          /\ output' = IF ok THEN output \o flush ELSE output
    /\ flush' = <<>>
    /\ writer' = "test"
    /\ UNCHANGED <<logging, buffer, logged, sealed, logOwner, logStarts>>

(* ... and the output without it: to the file, opened on first use, or to  *)
(* stderr as long as it cannot be opened.                                  *)
WriterWrite ==
    /\ writer = "write"
    /\ \E ok \in {opened, TRUE} : opened' = ok
    /\ output' = output \o flush
    /\ flush' = <<>>
    /\ writer' = "test"
    /\ UNCHANGED <<logging, buffer, logged, sealed, logOwner, logStarts>>

WriterStep ==
    WriterTest \/ WriterEnter \/ WriterTimeout \/ WriterSwap \/ WriterWrite

LoggerNext == LoggerStart \/ LoggerStop \/ LoggerJoin \/ Log \/ WriterStep

LoggerSpec == LoggerInit /\ [][LoggerNext]_loggerVars

-----------------------------------------------------------------------------
(* No entry is lost, repeated or reordered by the exchange of the buffers, *)
(* whoever logs meanwhile; and when stop() returns, every entry logged     *)
(* before it cleared running_ has been written.  (Entries logged after the *)
(* writer's last test stay in the buffer until the logger is started again.)*)
LogComplete ==
    /\ output \o flush \o buffer = [i \in 1 .. logged |-> i]
    /\ (logOwner = "out" /\ ~logging) => Len(output) >= sealed

(* stop() returns, and what is logged while the logger runs is written.    *)
LoggerProgress ==
    /\ (logOwner = "join") ~> (logOwner = "out")
    /\ \A i \in 1 .. MaxEntries :
          (logging /\ logged >= i) ~> (Len(output) >= i)
=============================================================================
