--------------------------------- MODULE Buffer --------------------------------
(****************************************************************************)
(* The byte buffer of a TcpConnection, webserver/Buffer.h and Buffer.cpp:   *)
(* one vector with a read and a write index, an area of kCheapPrepend bytes *)
(* in front, and the scattered read that spills into a stack array.         *)
(* InputBuffer is filled by readFd and emptied by retrieveAllAsString,      *)
(* OutputBuffer is filled by append and emptied by writeFd and retrieve.    *)
(****************************************************************************)
EXTENDS Integers, Sequences

CONSTANTS
    Bytes,
    kCheapPrepend,
    kInitialSize,
    ExtraSize,      \* sizeof(extrabuf)
    MaxLen,         \* bound: bytes per append or readv
    MaxReadable     \* bound: unread bytes when an append or a readv begins

ASSUME BufferAssumption ==
    /\ 0 \in Bytes
    /\ kCheapPrepend \in Nat
    /\ kInitialSize \in Nat
    /\ ExtraSize \in Nat
    /\ MaxLen \in Nat
    /\ MaxReadable \in Nat

VARIABLES
    buf,    \* the object: the vector, as size and cells, and the two indices
    given,  \* history: the bytes the last operation was given
    taken   \* history: the bytes the last operation handed out

vars == <<buf, given, taken>>

readableBytes(b) == b.WriterIndex - b.ReaderIndex
writableBytes(b) == b.size - b.WriterIndex
prependBytes(b)  == b.ReaderIndex

\* string(peek(), len)
Front(b, len) == [i \in 1..len |-> b.cells[b.ReaderIndex + i - 1]]

Contents(b) == Front(b, readableBytes(b))

\* A buffer whose indices are in order and whose prepend area is kept.
Sound(b) ==
    /\ DOMAIN b = {"size", "cells", "ReaderIndex", "WriterIndex"}
    /\ b.size \in Nat
    /\ b.cells \in [0..(b.size - 1) -> Bytes]
    /\ b.ReaderIndex \in Nat /\ b.WriterIndex \in Nat
    /\ kCheapPrepend <= b.ReaderIndex
    /\ b.ReaderIndex <= b.WriterIndex
    /\ b.WriterIndex <= b.size

TypeOK == Sound(buf) /\ given \in Seq(Bytes) /\ taken \in Seq(Bytes)

\* The constructor allocates kInitialSize bytes whatever initialSize it is given.
Init ==
    /\ buf = [size |-> kCheapPrepend + kInitialSize,
              cells |-> [i \in 0..(kCheapPrepend + kInitialSize - 1) |-> 0],
              ReaderIndex |-> kCheapPrepend,
              WriterIndex |-> kCheapPrepend]
    /\ given = <<>>
    /\ taken = <<>>

-----------------------------------------------------------------------------
\* buffer.resize(n), n at least the present size: the new bytes are zero.
Resize(b, n) ==
    [b EXCEPT !.size = n,
              !.cells = [i \in 0..(n - 1) |-> IF i < b.size THEN b.cells[i] ELSE 0]]

\* The readable bytes are moved down to the prepend area.
MoveDown(b) ==
    [b EXCEPT !.cells = [i \in 0..(b.size - 1) |->
                  IF i \in kCheapPrepend..(kCheapPrepend + readableBytes(b) - 1)
                  THEN b.cells[i - kCheapPrepend + b.ReaderIndex]
                  ELSE b.cells[i]],
              !.ReaderIndex = kCheapPrepend,
              !.WriterIndex = kCheapPrepend + readableBytes(b)]

\* Mutant: the bytes already read are never reclaimed.
MakeSpaceGrows(b, len) == Resize(b, len + b.WriterIndex)

makeSpace(b, len) ==
    IF writableBytes(b) + prependBytes(b) < len + kCheapPrepend
    THEN Resize(b, len + b.WriterIndex)
    ELSE MoveDown(b)

ensureWritableBytes(b, len) == IF writableBytes(b) < len THEN makeSpace(b, len) ELSE b

\* copy(data, data + len, beginWrite()) and WriterIndex += len
Write(b, data) ==
    [b EXCEPT !.cells = [i \in 0..(b.size - 1) |->
                  IF i \in b.WriterIndex..(b.WriterIndex + Len(data) - 1)
                  THEN data[i - b.WriterIndex + 1]
                  ELSE b.cells[i]],
              !.WriterIndex = @ + Len(data)]

Appended(b, data) == Write(ensureWritableBytes(b, Len(data)), data)

retrieveAll(b) == [b EXCEPT !.ReaderIndex = kCheapPrepend, !.WriterIndex = kCheapPrepend]

retrieve(b, len) ==
    IF len < readableBytes(b) THEN [b EXCEPT !.ReaderIndex = @ + len] ELSE retrieveAll(b)

\* What readv may fill: the writable bytes, and extrabuf when they are fewer.
Room(b) == writableBytes(b) + (IF writableBytes(b) < ExtraSize THEN ExtraSize ELSE 0)

\* Mutant: WriterIndex counts the spilled bytes before they are appended.
FillAll(b, data) ==
    LET n == IF Len(data) <= writableBytes(b) THEN Len(data) ELSE writableBytes(b)
    IN  [Write(b, SubSeq(data, 1, n)) EXCEPT !.WriterIndex = b.WriterIndex + Len(data)]

\* Mutant: WriterIndex stays where it was when the bytes spilled are appended.
FillOverwrites(b, data) ==
    LET n == writableBytes(b) IN
    IF Len(data) <= n
    THEN Write(b, data)
    ELSE Appended(b, SubSeq(data, n + 1, Len(data)))

\* The bytes readv delivers: first those that fit, then what went to extrabuf.
Fill(b, data) ==
    LET n == writableBytes(b) IN
    IF Len(data) <= n
    THEN Write(b, data)
    ELSE Appended(Write(b, SubSeq(data, 1, n)), SubSeq(data, n + 1, Len(data)))

-----------------------------------------------------------------------------
\* TcpConnection::sendInLoop keeps what the socket did not take.
append(data) ==
    /\ buf' = Appended(buf, data)
    /\ given' = data
    /\ taken' = <<>>

readFd(data) ==
    /\ Len(data) <= Room(buf)
    /\ buf' = Fill(buf, data)
    /\ given' = data
    /\ taken' = <<>>

retrieveAllAsString ==
    /\ taken' = Contents(buf)
    /\ buf' = retrieve(buf, readableBytes(buf))
    /\ given' = <<>>

\* TcpConnection::handleWrite: the kernel takes n bytes, then they are retrieved.
writeFd(n) ==
    /\ taken' = Front(buf, n)
    /\ buf' = retrieve(buf, n)
    /\ given' = <<>>

Data == UNION {[1..n -> Bytes] : n \in 1..MaxLen}

Next ==
    \/ /\ readableBytes(buf) <= MaxReadable
       /\ \E data \in Data : append(data) \/ readFd(data)
    \/ retrieveAllAsString
    \/ \E n \in 1..readableBytes(buf) : writeFd(n)

Spec == Init /\ [][Next]_vars

-----------------------------------------------------------------------------
(* Properties.                                                              *)

\* Whatever mixture of appends, scattered reads, moves and reallocations, the
\* buffer is a queue of bytes (Buffer.h:27-82, Buffer.cpp:7-36).
Abstract == INSTANCE ByteQueue WITH bytes <- Contents(buf)

ImplementsByteQueue == Abstract!Spec

\* The vector grows only when the readable bytes and the new ones do not fit
\* behind the prepend area: room that was read out is used first (Buffer.h:72-82).
GrowsOnlyWhenFull ==
    [][buf'.size > buf.size => kCheapPrepend + readableBytes(buf') > buf.size]_vars
=============================================================================
