------------------------------- MODULE Buffer -------------------------------
(* net/Buffer.h and net/Buffer.cc: a vector with a reader and a writer     *)
(* index.  Bytes are numbered in the order in which they are put in, so    *)
(* that what is readable can be compared with what should be.              *)
EXTENDS Integers, Sequences, FiniteSets, FiniteSetsExt

CONSTANTS
    kCheapPrepend, kInitialSize,
    ExtraSize,          \* of readFd's array on the stack
    MaxBytes            \* bound: bytes put in

ASSUME BufferAssumption ==
    /\ kCheapPrepend \in Nat /\ kInitialSize \in Nat /\ ExtraSize \in Nat \ {0}
    /\ MaxBytes \in Nat

VARIABLES
    store_,         \* the cells; cell i of the code is store_[i + 1]
    readerIndex_, writerIndex_,
    appended,       \* bytes put in
    taken           \* bytes retrieved

bufferVars == <<store_, readerIndex_, writerIndex_, appended, taken>>

ReadableBytes == writerIndex_ - readerIndex_
WritableBytes == Len(store_) - writerIndex_

BufferInit ==
    /\ store_ = [i \in 1 .. kCheapPrepend + kInitialSize |-> 0]
    /\ readerIndex_ = kCheapPrepend /\ writerIndex_ = kCheapPrepend
    /\ appended = 0 /\ taken = 0

\* cells and the writer index after copying bytes n + 1 .. n + len to cell w
Copied(cells, w, n, len) ==
    [i \in 1 .. Len(cells) |-> IF i \in w + 1 .. w + len THEN n + (i - w) ELSE cells[i]]

\* resize: the new cells are zero
Resized(cells, size) == [i \in 1 .. size |-> IF i <= Len(cells) THEN cells[i] ELSE 0]

\* std::copy of the readable bytes to the front
Moved(cells, r, w) ==
    [i \in 1 .. Len(cells) |-> IF i \in kCheapPrepend + 1 .. kCheapPrepend + (w - r)
                               THEN cells[i + (r - kCheapPrepend)] ELSE cells[i]]

\* Mutant of MakeSpace: the reserved front counts as free
MakeSpaceGreedy(b, len) ==
    IF (Len(b.cells) - b.w) + b.r < len
    THEN [b EXCEPT !.cells = Resized(b.cells, b.w + len)]
    ELSE [cells |-> Moved(b.cells, b.r, b.w), r |-> kCheapPrepend,
          w |-> kCheapPrepend + (b.w - b.r)]

\* makeSpace: grow, or move the readable bytes down
MakeSpace(b, len) ==
    IF (Len(b.cells) - b.w) + b.r < len + kCheapPrepend
    THEN [b EXCEPT !.cells = Resized(b.cells, b.w + len)]
    ELSE [cells |-> Moved(b.cells, b.r, b.w), r |-> kCheapPrepend,
          w |-> kCheapPrepend + (b.w - b.r)]

EnsureWritableBytes(b, len) == IF Len(b.cells) - b.w < len THEN MakeSpace(b, len) ELSE b

\* append, of the bytes n + 1 .. n + len
Appended(b, n, len) ==
    LET e == EnsureWritableBytes(b, len)
    IN [e EXCEPT !.cells = Copied(e.cells, e.w, n, len), !.w = @ + len]

Now == [cells |-> store_, r |-> readerIndex_, w |-> writerIndex_]
BufferIs(b) == store_' = b.cells /\ readerIndex_' = b.r /\ writerIndex_' = b.w

AppendBytes ==
    \E len \in 1 .. MaxBytes - appended :
       /\ BufferIs(Appended(Now, appended, len))
       /\ appended' = appended + len /\ UNCHANGED taken

\* retrieve, and retrieveAsString, which reads before it retrieves
Retrieved(b, len) == IF len < b.w - b.r THEN [b EXCEPT !.r = @ + len]
                     ELSE [b EXCEPT !.r = kCheapPrepend, !.w = kCheapPrepend]

Retrieve ==
    \E len \in 1 .. ReadableBytes :
       /\ BufferIs(Retrieved(Now, len))
       /\ taken' = taken + len /\ UNCHANGED appended

\* readFd: readv fills the free cells, then the array on the stack, which is appended
ReadFd ==
    \E n \in 1 .. Min({MaxBytes - appended,
                       IF WritableBytes < ExtraSize THEN WritableBytes + ExtraSize
                                                    ELSE WritableBytes}) :
       LET first == Min({n, WritableBytes})
           b     == [Now EXCEPT !.cells = Copied(@, writerIndex_, appended, first)]
       IN /\ IF n <= WritableBytes
             THEN BufferIs([b EXCEPT !.w = @ + n])
             ELSE BufferIs(Appended([b EXCEPT !.w = Len(store_)], appended + first, n - first))
          /\ appended' = appended + n /\ UNCHANGED taken

BufferNext == AppendBytes \/ Retrieve \/ ReadFd

(* Between the indices lie exactly the bytes that were put in and not yet  *)
(* retrieved, in order, however the cells were grown, moved down or filled *)
(* by readFd (Buffer.h:82-100 and :184-281, Buffer.cc:41-91).              *)
BufferHoldsStream ==
    /\ kCheapPrepend <= readerIndex_ /\ readerIndex_ <= writerIndex_
    /\ writerIndex_ <= Len(store_)
    /\ SubSeq(store_, readerIndex_ + 1, writerIndex_)
          = [i \in 1 .. appended - taken |-> taken + i]
=============================================================================
