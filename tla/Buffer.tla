------------------------------- MODULE Buffer -------------------------------
(***************************************************************************)
(* The Buffer of a connection (net/Buffer.hpp, net/Buffer.cpp), as         *)
(* operators on one record: a vector of cells and two indices into it,     *)
(*                                                                         *)
(*   0         readerIndex          writerIndex          Len(cells)        *)
(*   | prependable |     readable     |     writable     |                 *)
(*                                                                         *)
(* Cell i of the code is cells[i + 1].  What is read from the socket is    *)
(* appended, what the owner has used is retrieved; to the owner the buffer *)
(* is the sequence Readable.  The bytes are whatever the module that uses  *)
(* the buffer sends through it.                                            *)
(***************************************************************************)
EXTENDS Integers, Sequences

CONSTANTS Bytes,
          Zero,              \* what a new cell of the vector holds
          kCheapPrepend,
          kInitialSize,
          ExtraSize          \* the size of extrabuf in readFd

ASSUME BufferAssumption ==
    /\ Zero \in Bytes
    /\ kCheapPrepend \in Nat /\ kInitialSize \in Nat /\ ExtraSize \in Nat

Buffers == [cells : Seq(Bytes), readerIndex : Nat, writerIndex : Nat]

(* The indices are in bounds and in order. *)
WellFormed(b) ==
    /\ b \in Buffers
    /\ kCheapPrepend <= b.readerIndex
    /\ b.readerIndex <= b.writerIndex
    /\ b.writerIndex <= Len(b.cells)

NewBuffer == [cells       |-> [i \in 1 .. kCheapPrepend + kInitialSize |-> Zero],
              readerIndex |-> kCheapPrepend,
              writerIndex |-> kCheapPrepend]

readableBytes(b)    == b.writerIndex - b.readerIndex
writableBytes(b)    == Len(b.cells) - b.writerIndex
prependableBytes(b) == b.readerIndex

(* From peek() to beginWrite(). *)
Readable(b) == SubSeq(b.cells, b.readerIndex + 1, b.writerIndex)

-----------------------------------------------------------------------------
retrieveAll(b) == [cells       |-> b.cells,
                   readerIndex |-> kCheapPrepend,
                   writerIndex |-> kCheapPrepend]

retrieve(b, len) ==
    IF len < readableBytes(b) THEN [b EXCEPT !.readerIndex = @ + len]
    ELSE retrieveAll(b)

(* Copy to beginWrite(), where there is room for it. *)
Filled(b, data) ==
    [cells       |-> [i \in 1 .. Len(b.cells) |->
                         IF i - b.writerIndex \in 1 .. Len(data)
                         THEN data[i - b.writerIndex] ELSE b.cells[i]],
     readerIndex |-> b.readerIndex,
     writerIndex |-> b.writerIndex + Len(data)]

(* makeSpace makes the vector longer, or moves what is readable to its     *)
(* front if that is enough.                                                *)
Grown(b, len) ==
    [cells       |-> [i \in 1 .. b.writerIndex + len |->
                         IF i <= Len(b.cells) THEN b.cells[i] ELSE Zero],
     readerIndex |-> b.readerIndex,
     writerIndex |-> b.writerIndex]

Moved(b) ==
    [cells       |-> [i \in 1 .. Len(b.cells) |->
                         IF i - kCheapPrepend \in 1 .. readableBytes(b)
                         THEN b.cells[i - kCheapPrepend + b.readerIndex] ELSE b.cells[i]],
     readerIndex |-> kCheapPrepend,
     writerIndex |-> kCheapPrepend + readableBytes(b)]

(* Fault: the space in front of the first byte is counted as free. *)
makeSpaceTight(b, len) ==
    IF writableBytes(b) + prependableBytes(b) < len THEN Grown(b, len) ELSE Moved(b)

makeSpace(b, len) ==
    IF writableBytes(b) + prependableBytes(b) < len + kCheapPrepend
    THEN Grown(b, len) ELSE Moved(b)

ensureWritableBytes(b, len) ==
    IF writableBytes(b) < len THEN makeSpace(b, len) ELSE b

append(b, data) == Filled(ensureWritableBytes(b, Len(data)), data)

(* readv fills the vector to its end, then extrabuf, which is appended.    *)
(* `data' is what it read, at most this many bytes.                        *)
MaxRead(b) == writableBytes(b) + ExtraSize

(* Fault: the first byte that did not fit is lost. *)
readFdLoses(b, data) ==
    LET writable == writableBytes(b)
    IN IF Len(data) <= writable THEN Filled(b, data)
       ELSE append(Filled(b, SubSeq(data, 1, writable)),
                   SubSeq(data, writable + 2, Len(data)))

readFd(b, data) ==
    LET writable == writableBytes(b)
    IN IF Len(data) <= writable THEN Filled(b, data)
       ELSE append(Filled(b, SubSeq(data, 1, writable)),
                   SubSeq(data, writable + 1, Len(data)))
=============================================================================
