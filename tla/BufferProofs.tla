------------------------------ MODULE BufferProofs ------------------------------
(****************************************************************************)
(* Proofs about Buffer for any sizes: its indices stay in order, it never   *)
(* writes outside its vector, and it is a queue of bytes.                   *)
(****************************************************************************)
EXTENDS Buffer, SequenceTheorems, TLAPS

\* resize changes two fields of the buffer and leaves the indices.
LEMMA Fields ==
    ASSUME NEW b, DOMAIN b = {"size", "cells", "ReaderIndex", "WriterIndex"},
           NEW x, NEW y, NEW z
    PROVE  /\ [b EXCEPT !.size = x, !.cells = y].size = x
           /\ [b EXCEPT !.size = x, !.cells = y].cells = y
           /\ [b EXCEPT !.size = x, !.cells = y].ReaderIndex = b.ReaderIndex
           /\ [b EXCEPT !.size = x, !.cells = y].WriterIndex = b.WriterIndex
           /\ DOMAIN [b EXCEPT !.size = x, !.cells = y] = DOMAIN b
OBVIOUS

\* The first n readable bytes.
LEMMA FrontTyped ==
    ASSUME NEW b, Sound(b), NEW n \in 0..readableBytes(b)
    PROVE  /\ Front(b, n) \in Seq(Bytes)
           /\ Len(Front(b, n)) = n
           /\ \A i \in 1..n : Front(b, n)[i] = b.cells[b.ReaderIndex + i - 1]
<1>1. ASSUME NEW i \in 1..n PROVE b.cells[b.ReaderIndex + i - 1] \in Bytes
  <2>1. b.ReaderIndex + i - 1 \in 0..(b.size - 1)
    BY BufferAssumption DEF Sound, readableBytes
  <2> QED BY <2>1 DEF Sound
<1>2. n \in Nat
  BY DEF Sound, readableBytes
<1> QED BY <1>1, <1>2 DEF Front

\* The readable bytes, all of them.
LEMMA ContentsTyped ==
    ASSUME NEW b, Sound(b)
    PROVE  /\ readableBytes(b) \in Nat
           /\ Contents(b) \in Seq(Bytes)
           /\ Len(Contents(b)) = readableBytes(b)
           /\ \A i \in 1..readableBytes(b) : Contents(b)[i] = b.cells[b.ReaderIndex + i - 1]
<1>1. readableBytes(b) \in Nat /\ readableBytes(b) \in 0..readableBytes(b)
  BY DEF Sound, readableBytes
<1> QED BY <1>1, FrontTyped DEF Contents

\* Two buffers with the same readable bytes, wherever they lie, have the same
\* contents.
LEMMA SameContents ==
    ASSUME NEW b, NEW c, Sound(b), Sound(c), readableBytes(c) = readableBytes(b),
           \A i \in 1..readableBytes(b) :
               c.cells[c.ReaderIndex + i - 1] = b.cells[b.ReaderIndex + i - 1]
    PROVE  Contents(c) = Contents(b)
BY ContentsTyped, SeqEqual

\* resize to a larger size keeps what is readable, and where it is.
LEMMA ResizeKeeps ==
    ASSUME NEW b, Sound(b), NEW n \in Nat, n >= b.size
    PROVE  /\ Sound(Resize(b, n))
           /\ Contents(Resize(b, n)) = Contents(b)
           /\ Resize(b, n).size = n
           /\ Resize(b, n).WriterIndex = b.WriterIndex
           /\ Resize(b, n).ReaderIndex = b.ReaderIndex
<1> DEFINE c == Resize(b, n)
<1>1. /\ c.size = n /\ c.WriterIndex = b.WriterIndex /\ c.ReaderIndex = b.ReaderIndex
      /\ c.cells = [i \in 0..(n - 1) |-> IF i < b.size THEN b.cells[i] ELSE 0]
      /\ DOMAIN c = DOMAIN b
  BY Fields DEF Resize, Sound
<1>2. c.cells \in [0..(n - 1) -> Bytes]
  BY <1>1, BufferAssumption DEF Sound
<1>3. Sound(c)
  BY <1>1, <1>2 DEF Sound
<1>4. ASSUME NEW i \in 1..readableBytes(b)
      PROVE  c.cells[c.ReaderIndex + i - 1] = b.cells[b.ReaderIndex + i - 1]
  BY <1>1, BufferAssumption DEF Sound, readableBytes
<1>5. readableBytes(c) = readableBytes(b)
  BY <1>1 DEF readableBytes
<1> QED BY <1>1, <1>3, <1>4, <1>5, SameContents

\* makeSpace's copy to the front keeps what is readable.
LEMMA MoveDownKeeps ==
    ASSUME NEW b, Sound(b)
    PROVE  /\ Sound(MoveDown(b))
           /\ Contents(MoveDown(b)) = Contents(b)
           /\ MoveDown(b).size = b.size
           /\ MoveDown(b).WriterIndex = kCheapPrepend + readableBytes(b)
<1> DEFINE c == MoveDown(b)
<1>1. /\ c.size = b.size /\ DOMAIN c = DOMAIN b
      /\ c.WriterIndex = kCheapPrepend + readableBytes(b) /\ c.ReaderIndex = kCheapPrepend
      /\ c.cells = [i \in 0..(b.size - 1) |->
                       IF i \in kCheapPrepend..(kCheapPrepend + readableBytes(b) - 1)
                       THEN b.cells[i - kCheapPrepend + b.ReaderIndex]
                       ELSE b.cells[i]]
  BY DEF MoveDown, Sound
<1>2. readableBytes(b) \in Nat
  BY ContentsTyped
<1>3. ASSUME NEW i \in 0..(b.size - 1) PROVE c.cells[i] \in Bytes
  <2>1. CASE i \in kCheapPrepend..(kCheapPrepend + readableBytes(b) - 1)
    <3>1. i - kCheapPrepend + b.ReaderIndex \in 0..(b.size - 1)
      BY <2>1, BufferAssumption DEF Sound, readableBytes
    <3> QED BY <1>1, <2>1, <3>1 DEF Sound
  <2>2. CASE i \notin kCheapPrepend..(kCheapPrepend + readableBytes(b) - 1)
    BY <1>1, <2>2 DEF Sound
  <2> QED BY <2>1, <2>2
<1>4. c.cells \in [0..(b.size - 1) -> Bytes]
  BY <1>1, <1>3
<1>5. kCheapPrepend + readableBytes(b) <= b.size
  BY BufferAssumption DEF Sound, readableBytes
<1>6. Sound(c)
  BY <1>1, <1>2, <1>4, <1>5, BufferAssumption DEF Sound
<1>7. readableBytes(c) = readableBytes(b)
  BY <1>1, <1>2, BufferAssumption DEF readableBytes
<1>8. ASSUME NEW i \in 1..readableBytes(b)
      PROVE  c.cells[c.ReaderIndex + i - 1] = b.cells[b.ReaderIndex + i - 1]
  <2> DEFINE k == kCheapPrepend + i - 1
  <2>1. k \in kCheapPrepend..(kCheapPrepend + readableBytes(b) - 1) /\ k \in 0..(b.size - 1)
    BY <1>2, <1>5, BufferAssumption DEF Sound
  <2>2. k - kCheapPrepend + b.ReaderIndex = b.ReaderIndex + i - 1
    BY BufferAssumption DEF Sound
  <2>3. c.ReaderIndex + i - 1 = k
    BY <1>1
  <2> HIDE DEF c, k
  <2>4. c.cells[k] = b.cells[k - kCheapPrepend + b.ReaderIndex]
    BY <1>1, <2>1
  <2> QED BY <2>2, <2>3, <2>4
<1> QED BY <1>1, <1>6, <1>7, <1>8, SameContents

-----------------------------------------------------------------------------
(* Putting bytes in.                                                        *)

LEMMA WriteAppends ==
    ASSUME NEW b, Sound(b), NEW data \in Seq(Bytes), Len(data) <= writableBytes(b)
    PROVE  /\ Sound(Write(b, data))
           /\ Contents(Write(b, data)) = Contents(b) \o data
           /\ Write(b, data).size = b.size
           /\ Write(b, data).ReaderIndex = b.ReaderIndex
           /\ Write(b, data).WriterIndex = b.WriterIndex + Len(data)
<1> DEFINE c == Write(b, data)
<1>1. /\ c.size = b.size /\ DOMAIN c = DOMAIN b
      /\ c.WriterIndex = b.WriterIndex + Len(data) /\ c.ReaderIndex = b.ReaderIndex
      /\ c.cells = [i \in 0..(b.size - 1) |->
                       IF i \in b.WriterIndex..(b.WriterIndex + Len(data) - 1)
                       THEN data[i - b.WriterIndex + 1]
                       ELSE b.cells[i]]
  BY DEF Write, Sound
<1> HIDE DEF c
<1>2. /\ Len(data) \in Nat /\ b.WriterIndex + Len(data) <= b.size
      /\ \A i \in 1..Len(data) : data[i] \in Bytes
  BY DEF Sound, writableBytes
<1>3. ASSUME NEW i \in 0..(b.size - 1) PROVE c.cells[i] \in Bytes
  <2>1. CASE i \in b.WriterIndex..(b.WriterIndex + Len(data) - 1)
    <3>1. i - b.WriterIndex + 1 \in 1..Len(data)
      BY <1>2, <2>1 DEF Sound
    <3> QED BY <1>1, <1>2, <2>1, <3>1
  <2>2. CASE i \notin b.WriterIndex..(b.WriterIndex + Len(data) - 1)
    BY <1>1, <2>2 DEF Sound
  <2> QED BY <2>1, <2>2
<1>4. c.cells \in [0..(b.size - 1) -> Bytes]
  BY <1>1, <1>3
<1>5. Sound(c)
  BY <1>1, <1>2, <1>4, BufferAssumption DEF Sound
<1>6. readableBytes(c) = readableBytes(b) + Len(data) /\ readableBytes(b) \in Nat
  BY <1>1, <1>2 DEF readableBytes, Sound
<1>7. /\ Contents(b) \in Seq(Bytes) /\ Len(Contents(b)) = readableBytes(b)
      /\ Contents(c) \in Seq(Bytes) /\ Len(Contents(c)) = readableBytes(b) + Len(data)
  BY <1>5, <1>6, ContentsTyped
<1>8. /\ Contents(b) \o data \in Seq(Bytes)
      /\ Len(Contents(b) \o data) = readableBytes(b) + Len(data)
      /\ \A i \in 1..(readableBytes(b) + Len(data)) :
             (Contents(b) \o data)[i] = IF i <= readableBytes(b) THEN Contents(b)[i]
                                        ELSE data[i - readableBytes(b)]
  BY <1>7, ConcatProperties
<1>9. ASSUME NEW i \in 1..(readableBytes(b) + Len(data))
      PROVE  Contents(c)[i] = (Contents(b) \o data)[i]
  <2> DEFINE k == b.ReaderIndex + i - 1
  <2>1. Contents(c)[i] = c.cells[k]
    <3>1. \A j \in 1..readableBytes(c) : Contents(c)[j] = c.cells[c.ReaderIndex + j - 1]
      BY <1>5, ContentsTyped
    <3>2. i \in 1..readableBytes(c) /\ c.ReaderIndex = b.ReaderIndex
      BY <1>1, <1>6
    <3> QED BY <3>1, <3>2
  <2>2. k \in 0..(b.size - 1)
    BY <1>2, BufferAssumption DEF Sound, readableBytes
  <2>3. CASE i <= readableBytes(b)
    <3>1. /\ k \notin b.WriterIndex..(b.WriterIndex + Len(data) - 1)
          /\ i \in 1..readableBytes(b)
      BY <1>6, <2>3 DEF Sound, readableBytes
    <3>2. Contents(b)[i] = b.cells[k]
      BY <3>1, ContentsTyped
    <3> HIDE DEF k
    <3>3. c.cells[k] = b.cells[k]
      BY <1>1, <2>2, <3>1
    <3> QED BY <1>8, <2>1, <2>3, <3>2, <3>3
  <2>4. CASE i > readableBytes(b)
    <3>1. k \in b.WriterIndex..(b.WriterIndex + Len(data) - 1)
      BY <1>2, <1>6, <2>4 DEF Sound, readableBytes
    <3>2. k - b.WriterIndex + 1 = i - readableBytes(b)
      BY DEF Sound, readableBytes
    <3> HIDE DEF k
    <3>3. c.cells[k] = data[k - b.WriterIndex + 1]
      BY <1>1, <2>2, <3>1
    <3>4. (Contents(b) \o data)[i] = data[i - readableBytes(b)]
      BY <1>6, <1>8, <2>4
    <3> QED BY <2>1, <3>2, <3>3, <3>4
  <2>5. i <= readableBytes(b) \/ i > readableBytes(b)
    BY <1>6
  <2> QED BY <2>3, <2>4, <2>5, Zenon
<1>10. Contents(c) = Contents(b) \o data
  BY <1>7, <1>8, <1>9, SeqEqual
<1> QED BY <1>1, <1>5, <1>10 DEF c

\* ensureWritableBytes makes room for len bytes, loses none, and grows only if
\* it must.
LEMMA RoomMade ==
    ASSUME NEW b, Sound(b), NEW len \in Nat
    PROVE  /\ Sound(ensureWritableBytes(b, len))
           /\ Contents(ensureWritableBytes(b, len)) = Contents(b)
           /\ len <= writableBytes(ensureWritableBytes(b, len))
           /\ ensureWritableBytes(b, len).size > b.size =>
                  kCheapPrepend + readableBytes(b) + len > b.size
<1>1. CASE writableBytes(b) >= len
  BY <1>1 DEF ensureWritableBytes, writableBytes, Sound
<1>2. CASE /\ writableBytes(b) < len
           /\ writableBytes(b) + prependBytes(b) < len + kCheapPrepend
  <2>1. ensureWritableBytes(b, len) = Resize(b, len + b.WriterIndex)
    BY <1>2 DEF ensureWritableBytes, makeSpace
  <2>2. len + b.WriterIndex \in Nat /\ len + b.WriterIndex >= b.size
    BY <1>2 DEF writableBytes, Sound
  <2>3. kCheapPrepend + readableBytes(b) + len > b.size
    BY <1>2, BufferAssumption DEF writableBytes, prependBytes, readableBytes, Sound
  <2>4. len <= writableBytes(Resize(b, len + b.WriterIndex))
    BY <2>2, ResizeKeeps DEF writableBytes, Sound
  <2> QED BY <2>1, <2>2, <2>3, <2>4, ResizeKeeps
<1>3. CASE /\ writableBytes(b) < len
           /\ ~ (writableBytes(b) + prependBytes(b) < len + kCheapPrepend)
  <2>1. ensureWritableBytes(b, len) = MoveDown(b)
    BY <1>3 DEF ensureWritableBytes, makeSpace
  <2>2. len <= writableBytes(MoveDown(b))
    BY <1>3, MoveDownKeeps, BufferAssumption DEF writableBytes, prependBytes, readableBytes, Sound
  <2> QED BY <2>1, <2>2, MoveDownKeeps DEF Sound
<1>4. writableBytes(b) \in Int
  BY DEF writableBytes, Sound
<1> QED BY <1>1, <1>2, <1>3, <1>4

\* append adds the data at the end.
LEMMA AppendedAppends ==
    ASSUME NEW b, Sound(b), NEW data \in Seq(Bytes)
    PROVE  /\ Sound(Appended(b, data))
           /\ Contents(Appended(b, data)) = Contents(b) \o data
           /\ Appended(b, data).size > b.size =>
                  kCheapPrepend + readableBytes(b) + Len(data) > b.size
<1>1. Len(data) \in Nat
  OBVIOUS
<1> QED BY <1>1, RoomMade, WriteAppends DEF Appended

\* readFd adds what it read at the end, whether it came over the stack or not.
LEMMA FillAppends ==
    ASSUME NEW b, Sound(b), NEW data \in Seq(Bytes)
    PROVE  /\ Sound(Fill(b, data))
           /\ Contents(Fill(b, data)) = Contents(b) \o data
           /\ Fill(b, data).size > b.size =>
                  kCheapPrepend + readableBytes(b) + Len(data) > b.size
<1> DEFINE n == writableBytes(b)
<1>1. n \in Nat /\ Len(data) \in Nat
  BY DEF writableBytes, Sound
<1>2. CASE Len(data) <= n
  BY <1>2, WriteAppends DEF Fill, Sound
<1>3. CASE Len(data) > n
  <2> DEFINE near == SubSeq(data, 1, n)
             far  == SubSeq(data, n + 1, Len(data))
             mid  == Write(b, near)
  <2>1. Fill(b, data) = Appended(mid, far)
    BY <1>1, <1>3 DEF Fill
  <2>2. near \in Seq(Bytes) /\ Len(near) = n /\ \A i \in 1..n : near[i] = data[i]
    BY <1>1, <1>3, SubSeqProperties
  <2>3. /\ far \in Seq(Bytes) /\ Len(far) = Len(data) - n
        /\ \A i \in 1..(Len(data) - n) : far[i] = data[n + i]
    BY <1>1, <1>3, SubSeqProperties
  <2>4. near \o far = data
    <3> HIDE DEF near, far
    <3>1. /\ near \o far \in Seq(Bytes) /\ Len(near \o far) = Len(near) + Len(far)
          /\ \A i \in 1..(Len(near) + Len(far)) :
                 (near \o far)[i] = IF i <= Len(near) THEN near[i] ELSE far[i - Len(near)]
      BY <2>2, <2>3, ConcatProperties
    <3>2. Len(near) + Len(far) = Len(data)
      BY <1>1, <2>2, <2>3
    <3>3. ASSUME NEW i \in 1..Len(data) PROVE (near \o far)[i] = data[i]
      <4>1. CASE i <= n
        BY <1>1, <2>2, <3>1, <3>2, <4>1
      <4>2. CASE i > n
        <5> DEFINE j == i - n
        <5>1. j \in 1..(Len(data) - n) /\ n + j = i
          BY <1>1, <4>2
        <5>2. (near \o far)[i] = far[j]
          BY <1>1, <2>2, <3>1, <3>2, <4>2
        <5> HIDE DEF j
        <5> QED BY <2>3, <5>1, <5>2
      <4>3. i <= n \/ i > n
        BY <1>1
      <4> QED BY <4>1, <4>2, <4>3, Zenon
    <3> QED BY <3>1, <3>2, <3>3, SeqEqual
  <2>5. /\ Sound(mid) /\ Contents(mid) = Contents(b) \o near
        /\ mid.size = b.size /\ readableBytes(mid) = readableBytes(b) + n
    <3> HIDE DEF near
    <3>1. /\ Sound(Write(b, near)) /\ Contents(Write(b, near)) = Contents(b) \o near
          /\ Write(b, near).size = b.size
          /\ Write(b, near).ReaderIndex = b.ReaderIndex
          /\ Write(b, near).WriterIndex = b.WriterIndex + n
      BY <1>1, <2>2, WriteAppends
    <3> QED BY <1>1, <3>1 DEF readableBytes, Sound
  <2> HIDE DEF near, far, mid
  <2>6. /\ Sound(Appended(mid, far))
        /\ Contents(Appended(mid, far)) = Contents(mid) \o far
        /\ Appended(mid, far).size > mid.size =>
               kCheapPrepend + readableBytes(mid) + Len(far) > mid.size
    BY <2>3, <2>5, AppendedAppends
  <2>7. Contents(b) \in Seq(Bytes) /\ readableBytes(b) \in Nat
    BY ContentsTyped
  <2>8. Contents(mid) \o far = Contents(b) \o data
    <3>1. (Contents(b) \o near) \o far = Contents(b) \o (near \o far)
      <4>1. Contents(b) \in Seq(Bytes) /\ near \in Seq(Bytes) /\ far \in Seq(Bytes)
        BY <2>2, <2>3, <2>7
      <4>2. \A s, t, u \in Seq(Bytes) : (s \o t) \o u = s \o (t \o u)
        BY ConcatAssociative
      <4> QED BY <4>1, <4>2
    <3> QED BY <2>4, <2>5, <3>1
  <2>9. kCheapPrepend + readableBytes(mid) + Len(far) = kCheapPrepend + readableBytes(b) + Len(data)
    BY <1>1, <2>3, <2>5, <2>7, BufferAssumption
  <2> QED BY <2>1, <2>5, <2>6, <2>8, <2>9
<1> QED BY <1>1, <1>2, <1>3

-----------------------------------------------------------------------------
(* Taking bytes out.                                                        *)

LEMMA RetrieveDrops ==
    ASSUME NEW b, Sound(b), NEW n \in 0..readableBytes(b)
    PROVE  /\ Sound(retrieve(b, n))
           /\ Contents(retrieve(b, n)) = SubSeq(Contents(b), n + 1, Len(Contents(b)))
           /\ Front(b, n) = SubSeq(Contents(b), 1, n)
           /\ retrieve(b, n).size = b.size
<1> DEFINE c == retrieve(b, n)
<1>1. /\ readableBytes(b) \in Nat /\ n \in Nat /\ n <= readableBytes(b)
      /\ Contents(b) \in Seq(Bytes) /\ Len(Contents(b)) = readableBytes(b)
      /\ \A i \in 1..readableBytes(b) : Contents(b)[i] = b.cells[b.ReaderIndex + i - 1]
  BY ContentsTyped
<1>2. Front(b, n) = SubSeq(Contents(b), 1, n)
  <2>1. /\ SubSeq(Contents(b), 1, n) \in Seq(Bytes) /\ Len(SubSeq(Contents(b), 1, n)) = n
        /\ \A i \in 1..n : SubSeq(Contents(b), 1, n)[i] = Contents(b)[i]
    BY <1>1, SubSeqProperties
  <2>2. \A i \in 1..n : SubSeq(Contents(b), 1, n)[i] = Front(b, n)[i]
    <3>1. \A i \in 1..n : Front(b, n)[i] = b.cells[b.ReaderIndex + i - 1]
      BY FrontTyped
    <3>2. \A i \in 1..n : i \in 1..readableBytes(b)
      BY <1>1
    <3> QED BY <1>1, <2>1, <3>1, <3>2
  <2> QED BY <2>1, <2>2, FrontTyped, SeqEqual
<1>3. CASE n < readableBytes(b)
  <2>1. /\ c.size = b.size /\ c.cells = b.cells /\ DOMAIN c = DOMAIN b
        /\ c.ReaderIndex = b.ReaderIndex + n /\ c.WriterIndex = b.WriterIndex
    BY <1>3 DEF retrieve, Sound
  <2> HIDE DEF c
  <2>2. Sound(c) /\ readableBytes(c) = readableBytes(b) - n
    BY <1>1, <1>3, <2>1, BufferAssumption DEF Sound, readableBytes
  <2>3. /\ Contents(c) \in Seq(Bytes) /\ Len(Contents(c)) = readableBytes(b) - n
        /\ \A i \in 1..(readableBytes(b) - n) : Contents(c)[i] = b.cells[b.ReaderIndex + n + i - 1]
    BY <2>1, <2>2, ContentsTyped
  <2> DEFINE rest == SubSeq(Contents(b), n + 1, readableBytes(b))
  <2>4. /\ rest \in Seq(Bytes) /\ Len(rest) = readableBytes(b) - n
        /\ \A i \in 1..(readableBytes(b) - n) : rest[i] = Contents(b)[n + i]
    BY <1>1, <1>3, SubSeqProperties
  <2> HIDE DEF rest
  <2>5. ASSUME NEW i \in 1..(readableBytes(b) - n) PROVE Contents(c)[i] = rest[i]
    <3>1. n + i \in 1..readableBytes(b) /\ b.ReaderIndex + (n + i) - 1 = b.ReaderIndex + n + i - 1
      BY <1>1 DEF Sound
    <3> QED BY <1>1, <2>3, <2>4, <3>1
  <2>6. Contents(c) = rest
    BY <2>3, <2>4, <2>5, SeqEqual
  <2> QED BY <1>1, <1>2, <2>1, <2>2, <2>6 DEF c, rest
<1>4. CASE n = readableBytes(b)
  <2>1. /\ c.size = b.size /\ c.cells = b.cells /\ DOMAIN c = DOMAIN b
        /\ c.ReaderIndex = kCheapPrepend /\ c.WriterIndex = kCheapPrepend
    BY <1>1, <1>4 DEF retrieve, retrieveAll, Sound
  <2> HIDE DEF c
  <2>2. Sound(c) /\ readableBytes(c) = 0
    BY <2>1, BufferAssumption DEF Sound, readableBytes
  <2>3. Contents(c) \in Seq(Bytes) /\ Len(Contents(c)) = 0
    BY <2>2, ContentsTyped
  <2>4. Contents(c) = <<>>
    BY <2>3, EmptySeq
  <2>5. SubSeq(Contents(b), n + 1, Len(Contents(b))) = <<>>
    BY <1>1, <1>4, SubSeqEmpty
  <2> QED BY <1>2, <2>1, <2>2, <2>4, <2>5 DEF c
<1> QED BY <1>1, <1>3, <1>4

-----------------------------------------------------------------------------
(* The step lemmas.                                                         *)

\* An operation that puts bytes in: append or readFd.
Puts(data) ==
    /\ data \in Seq(Bytes)
    /\ buf' = Appended(buf, data) \/ buf' = Fill(buf, data)
    /\ given' = data
    /\ taken' = <<>>

\* An operation that hands bytes out: retrieveAllAsString or writeFd.
Takes(n) ==
    /\ n \in 0..readableBytes(buf)
    /\ taken' = Front(buf, n)
    /\ buf' = retrieve(buf, n)
    /\ given' = <<>>

\* An operation puts bytes in or takes bytes out.
LEMMA TwoKinds ==
    ASSUME Sound(buf), Next
    PROVE  (\E data : Puts(data)) \/ (\E n : Takes(n))
<1>1. ASSUME NEW data \in Data, append(data) PROVE Puts(data)
  BY <1>1, BufferAssumption DEF Data, append, Puts
<1>2. ASSUME NEW data \in Data, readFd(data) PROVE Puts(data)
  BY <1>2, BufferAssumption DEF Data, readFd, Puts
<1>3. ASSUME retrieveAllAsString PROVE Takes(readableBytes(buf))
  BY <1>3, ContentsTyped DEF retrieveAllAsString, Takes, Contents
<1>4. ASSUME NEW n \in 1..readableBytes(buf), writeFd(n) PROVE Takes(n)
  BY <1>4, ContentsTyped DEF writeFd, Takes
<1> QED BY <1>1, <1>2, <1>3, <1>4 DEF Next

\* A new buffer is sound and empty.
LEMMA InitSound == Init => TypeOK /\ Contents(buf) = <<>>
<1> SUFFICES ASSUME Init PROVE TypeOK /\ Contents(buf) = <<>>
  OBVIOUS
<1>1. Sound(buf) /\ readableBytes(buf) = 0
  BY BufferAssumption DEF Init, Sound, readableBytes
<1>2. Contents(buf) = <<>>
  BY <1>1, ContentsTyped, EmptySeq
<1> QED BY <1>1, <1>2, EmptySeq DEF Init, TypeOK

\* What is put comes last, and the buffer grows only where it was full.
LEMMA PutStep ==
    ASSUME Sound(buf), NEW data, Puts(data)
    PROVE  /\ TypeOK'
           /\ Contents(buf)' = Contents(buf) \o data
           /\ (buf'.size > buf.size => kCheapPrepend + readableBytes(buf') > buf.size)
<1>1. /\ Sound(buf') /\ Contents(buf') = Contents(buf) \o data
      /\ (buf'.size > buf.size => kCheapPrepend + readableBytes(buf) + Len(data) > buf.size)
  BY AppendedAppends, FillAppends DEF Puts
<1>2. readableBytes(buf') = readableBytes(buf) + Len(data)
  <2>1. Contents(buf) \in Seq(Bytes) /\ data \in Seq(Bytes)
    BY ContentsTyped DEF Puts
  <2>2. Len(Contents(buf) \o data) = Len(Contents(buf)) + Len(data)
    BY <2>1, ConcatProperties
  <2> QED BY <1>1, <2>2, ContentsTyped
<1>3. readableBytes(buf) \in Nat /\ Len(data) \in Nat
  BY ContentsTyped DEF Puts
<1>4. kCheapPrepend + readableBytes(buf') = kCheapPrepend + readableBytes(buf) + Len(data)
  BY <1>2, <1>3, BufferAssumption
<1>5. TypeOK'
  BY <1>1, EmptySeq DEF Puts, TypeOK
<1> QED BY <1>1, <1>4, <1>5

\* What is taken comes from the front.
LEMMA TakeStep ==
    ASSUME Sound(buf), NEW n, Takes(n)
    PROVE  /\ TypeOK'
           /\ taken' = SubSeq(Contents(buf), 1, n)
           /\ Contents(buf)' = SubSeq(Contents(buf), n + 1, Len(Contents(buf)))
           /\ n \in 0..Len(Contents(buf))
           /\ buf'.size = buf.size
<1>1. n \in 0..readableBytes(buf)
  BY DEF Takes
<1>2. /\ Sound(buf') /\ buf'.size = buf.size
      /\ Contents(buf') = SubSeq(Contents(buf), n + 1, Len(Contents(buf)))
      /\ taken' = SubSeq(Contents(buf), 1, n)
  BY <1>1, RetrieveDrops DEF Takes
<1>3. taken' \in Seq(Bytes)
  BY <1>1, FrontTyped DEF Takes
<1> QED BY <1>1, <1>2, <1>3, ContentsTyped, EmptySeq DEF Takes, TypeOK

\* Nothing changes in a step of somebody else.
LEMMA Stays == ASSUME TypeOK, UNCHANGED vars PROVE TypeOK'
BY DEF vars, TypeOK, Sound

\* The buffer's indices stay in order and inside the vector, and the prepend
\* area is kept, whatever sequence of operations (Buffer.h:13-82).
THEOREM TypeCorrect == Spec => []TypeOK
<1>1. Init => TypeOK
  BY InitSound
<1>2. TypeOK /\ [Next]_vars => TypeOK'
  BY TwoKinds, PutStep, TakeStep, Stays DEF TypeOK
<1> QED BY <1>1, <1>2, PTL DEF Spec

\* The buffer implements the queue of bytes: nothing that resize, the move of
\* makeSpace or the spill of readFd does changes what is read (Buffer.h:72-82,
\* Buffer.cpp:7-28).
THEOREM IsByteQueue == Spec => ImplementsByteQueue
<1>1. Init => Abstract!Init
  BY InitSound DEF Init, Abstract!Init
<1>2. ASSUME TypeOK, [Next]_vars
      PROVE  [Abstract!Next]_<<Contents(buf), given, taken>>
  <2>1. ASSUME NEW data, Puts(data) PROVE Abstract!Put
    BY <1>2, <2>1, PutStep DEF TypeOK, Puts, Abstract!Put
  <2>2. ASSUME NEW n, Takes(n) PROVE \E k \in 0..Len(Contents(buf)) : Abstract!Get(k)
    BY <1>2, <2>2, TakeStep DEF TypeOK, Takes, Abstract!Get
  <2>3. CASE Next
    BY <1>2, <2>1, <2>2, <2>3, TwoKinds DEF TypeOK, Abstract!Next
  <2>4. CASE UNCHANGED vars
    BY <2>4 DEF vars, Contents, Front, readableBytes
  <2> QED BY <1>2, <2>3, <2>4
<1> QED BY <1>1, <1>2, TypeCorrect, PTL DEF Spec, ImplementsByteQueue, Abstract!Spec

\* The vector is reallocated only when the bytes do not fit behind the prepend
\* area (Buffer.h:74).
THEOREM GrowsWhenFull == Spec => GrowsOnlyWhenFull
<1>1. ASSUME TypeOK, [Next]_vars
      PROVE  buf'.size > buf.size => kCheapPrepend + readableBytes(buf') > buf.size
  <2>1. CASE Next
    BY <1>1, <2>1, TwoKinds, PutStep, TakeStep DEF TypeOK, Sound
  <2>2. CASE UNCHANGED vars
    BY <1>1, <2>2 DEF vars, TypeOK, Sound
  <2> QED BY <1>1, <2>1, <2>2
<1> QED BY <1>1, TypeCorrect, PTL DEF Spec, GrowsOnlyWhenFull
=============================================================================
