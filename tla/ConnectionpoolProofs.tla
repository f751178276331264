-------------------------- MODULE ConnectionpoolProofs --------------------------
(****************************************************************************)
(* Proofs about Connectionpool for any number of threads and any sizes: no  *)
(* connection is ever shared, connectionCnt counts the connections, and as  *)
(* many connections as threads (initSize in mysql.cnf is ten) are enough    *)
(* for nobody ever to wait.                                                 *)
(****************************************************************************)
EXTENDS Connectionpool, FiniteSetTheorems, SequenceTheorems, TLAPS

\* Those who hold a connection are finitely many, and no more than the threads.
LEMMA HoldersFinite ==
    /\ IsFiniteSet(Holders)
    /\ Cardinality(Holders) \in Nat
    /\ Cardinality(Holders) <= Cardinality(Threads)
BY PoolAssumption, FS_Subset, FS_CardinalityType DEF Holders

\* The queue is empty or its front is an object.
LEMMA FrontTyped ==
    ASSUME TypeOK, connectionQueue # <<>>
    PROVE  /\ Head(connectionQueue) \in Objects
           /\ Head(connectionQueue) = connectionQueue[1]
           /\ Tail(connectionQueue) \in Seq(Objects)
           /\ Len(Tail(connectionQueue)) = Len(connectionQueue) - 1
           /\ \A i \in 1..Len(Tail(connectionQueue)) :
                  Tail(connectionQueue)[i] = connectionQueue[i + 1]
BY HeadTailProperties DEF TypeOK

\* Taking a connection out of the queue shares none and keeps the count.
LEMMA TakeStep ==
    ASSUME TypeOK, NoSharing, Accounting, NEW t \in Threads, held[t] = NoObject, Take(t)
    PROVE  /\ connectionQueue' \in Seq(Objects)
           /\ held' \in [Threads -> Objects \cup {NoObject}]
           /\ NoSharing' /\ Accounting'
<1> DEFINE front == Head(connectionQueue)
<1>1. /\ front \in Objects /\ front = connectionQueue[1] /\ front # NoObject
      /\ Len(connectionQueue') = Len(connectionQueue) - 1
      /\ connectionQueue' \in Seq(Objects)
      /\ \A i \in 1..Len(connectionQueue') : connectionQueue'[i] = connectionQueue[i + 1]
  BY FrontTyped, PoolAssumption DEF Take
<1>2. /\ held' = [held EXCEPT ![t] = front]
      /\ held' \in [Threads -> Objects \cup {NoObject}]
      /\ UNCHANGED <<connectionCnt, alive>>
  BY <1>1 DEF Take, TypeOK
<1> HIDE DEF front
<1>3. Len(connectionQueue) \in Nat /\ Len(connectionQueue) >= 1
  BY <1>1 DEF TypeOK
<1>4. Holders' = Holders \cup {t} /\ t \notin Holders
  BY <1>1, <1>2 DEF Holders, TypeOK
<1>5. Cardinality(Holders') = Cardinality(Holders) + 1
  BY <1>4, HoldersFinite, FS_AddElement
<1>6. Accounting'
  BY <1>1, <1>2, <1>3, <1>5, HoldersFinite DEF Accounting
<1>7. front \in Queued
  BY <1>1, <1>3 DEF Queued
<1>8. Queued = Queued' \cup {front} /\ front \notin Queued'
  <2>1. \A i \in 1..Len(connectionQueue') : i + 1 \in 1..Len(connectionQueue)
    BY <1>1, <1>3
  <2>2. Queued' \subseteq Queued
    BY <1>1, <2>1 DEF Queued
  <2>3. \A i \in 1..Len(connectionQueue) :
            i = 1 \/ (i - 1 \in 1..Len(connectionQueue') /\ connectionQueue'[i - 1] = connectionQueue[i])
    BY <1>1, <1>3
  <2>4. Queued \subseteq Queued' \cup {front}
    BY <1>1, <2>3 DEF Queued
  <2>5. front \notin Queued'
    <3> SUFFICES ASSUME NEW i \in 1..Len(connectionQueue'), connectionQueue'[i] = front
                 PROVE  FALSE
      BY DEF Queued
    <3>1. connectionQueue[i + 1] = connectionQueue[1] /\ i + 1 \in 1..Len(connectionQueue)
      BY <1>1, <2>1
    <3> QED BY <1>3, <3>1 DEF NoSharing
  <2> QED BY <1>7, <2>2, <2>4, <2>5
<1>9. Borrowed' = Borrowed \cup {front} /\ front \notin Borrowed
  BY <1>1, <1>2, <1>7 DEF Borrowed, NoSharing, TypeOK
<1>10. \A i, j \in 1..Len(connectionQueue') :
           connectionQueue'[i] = connectionQueue'[j] => i = j
  BY <1>1, <1>3 DEF NoSharing
<1>11. \A r, q \in Holders' : held'[r] = held'[q] => r = q
  BY <1>2, <1>4, <1>9 DEF NoSharing, Holders, Borrowed, TypeOK
<1>12. NoSharing'
  BY <1>2, <1>7, <1>8, <1>9, <1>10, <1>11 DEF NoSharing
<1> QED BY <1>1, <1>2, <1>6, <1>12

\* So does giving one back.
LEMMA ReturnStep ==
    ASSUME TypeOK, NoSharing, Accounting, NEW t \in Threads, Return(t)
    PROVE  /\ connectionQueue' \in Seq(Objects)
           /\ held' \in [Threads -> Objects \cup {NoObject}]
           /\ NoSharing' /\ Accounting'
<1> DEFINE p == held[t]
           n == Len(connectionQueue)
<1>1. p \in Objects /\ p # NoObject /\ p \in Borrowed
  BY DEF Return, TypeOK, Borrowed
<1>2. /\ connectionQueue' = Append(connectionQueue, p)
      /\ held' = [held EXCEPT ![t] = NoObject]
      /\ held' \in [Threads -> Objects \cup {NoObject}]
      /\ UNCHANGED <<connectionCnt, alive>>
  BY DEF Return, TypeOK
<1> HIDE DEF p
<1>3. /\ n \in Nat
      /\ connectionQueue' \in Seq(Objects)
      /\ Len(connectionQueue') = n + 1
      /\ \A i \in 1..n : connectionQueue'[i] = connectionQueue[i]
      /\ connectionQueue'[n + 1] = p
  BY <1>1, <1>2, AppendProperties DEF TypeOK
<1> HIDE DEF n
<1>4. Holders = Holders' \cup {t} /\ t \notin Holders' /\ t \in Holders
  BY <1>2 DEF Holders, TypeOK, Return
<1>5. Cardinality(Holders') = Cardinality(Holders) - 1
  <2>1. Holders' = Holders \ {t}
    BY <1>4
  <2> QED BY <1>4, <2>1, HoldersFinite, FS_RemoveElement
<1>6. Accounting'
  BY <1>2, <1>3, <1>5, HoldersFinite DEF Accounting, TypeOK, n
<1>7. Queued' = Queued \cup {p}
  <2>1. Queued' = {connectionQueue'[i] : i \in 1..n + 1} /\ Queued = {connectionQueue[i] : i \in 1..n}
    BY <1>3 DEF Queued, n
  <2>2. \A i \in 1..n + 1 : i \in 1..n \/ i = n + 1
    BY <1>3
  <2>3. \A i \in 1..n : i \in 1..n + 1
    BY <1>3
  <2>4. n + 1 \in 1..n + 1
    BY <1>3
  <2> QED BY <1>3, <2>1, <2>2, <2>3, <2>4
<1>8. Borrowed = Borrowed' \cup {p} /\ p \notin Borrowed'
  BY <1>1, <1>2 DEF Borrowed, NoSharing, Holders, TypeOK, p
<1>9. p \notin Queued
  BY <1>1 DEF NoSharing
<1>10. \A i, j \in 1..Len(connectionQueue') :
           connectionQueue'[i] = connectionQueue'[j] => i = j
  <2>1. \A i \in 1..n : connectionQueue[i] # p
    BY <1>9 DEF Queued, n
  <2>2. \A i \in 1..n + 1 : i \in 1..n \/ i = n + 1
    BY <1>3
  <2> QED BY <1>3, <2>1, <2>2 DEF NoSharing, n
<1>11. \A r, q \in Holders' : held'[r] = held'[q] => r = q
  BY <1>2, <1>4 DEF NoSharing, Holders, TypeOK
<1>12. NoSharing'
  BY <1>2, <1>7, <1>8, <1>9, <1>10, <1>11 DEF NoSharing
<1> QED BY <1>2, <1>3, <1>6, <1>12

\* Produce with a new connection p.
LEMMA ProduceStep ==
    ASSUME TypeOK, NoSharing, Accounting, connectionQueue = <<>>,
           NEW p \in Objects \ alive,
           connectionQueue' = Append(connectionQueue, p), alive' = alive \cup {p},
           connectionCnt < maxSize, connectionCnt' = connectionCnt + 1, UNCHANGED held
    PROVE  connectionQueue' \in Seq(Objects) /\ NoSharing' /\ Accounting'
<1>1. connectionQueue' = <<p>>
  OBVIOUS
<1>2. connectionQueue' \in Seq(Objects) /\ Len(connectionQueue') = 1 /\ connectionQueue'[1] = p
  BY <1>1
<1>3. Queued = {} /\ Queued' = {p}
  <2>1. 1..1 = {1} /\ 1..0 = {}
    OBVIOUS
  <2> QED BY <1>2, <2>1 DEF Queued
<1>4. Borrowed' = Borrowed /\ Holders' = Holders
  BY DEF Borrowed, Holders
<1>5. NoSharing'
  BY <1>2, <1>3, <1>4 DEF NoSharing
<1>6. Len(connectionQueue) = 0
  OBVIOUS
<1>7. Accounting'
  BY <1>2, <1>4, <1>6, PoolAssumption, HoldersFinite DEF Accounting, TypeOK
<1> QED BY <1>2, <1>5, <1>7

\* Scan deletes the first `gone' connections of the queue.
LEMMA ScanStep ==
    ASSUME TypeOK, NoSharing, Accounting, NEW gone \in 0..Len(connectionQueue),
           gone > 0 => connectionCnt - gone >= initSize,
           connectionQueue' = SubSeq(connectionQueue, gone + 1, Len(connectionQueue)),
           alive' = alive \ {connectionQueue[i] : i \in 1..gone},
           connectionCnt' = connectionCnt - gone, UNCHANGED held
    PROVE  connectionQueue' \in Seq(Objects) /\ connectionCnt' \in Nat /\ NoSharing' /\ Accounting'
<1> DEFINE n == Len(connectionQueue)
           deleted == {connectionQueue[i] : i \in 1..gone}
<1>1. n \in Nat /\ gone \in Nat /\ gone <= n
  BY DEF TypeOK
<1>2. /\ connectionQueue' \in Seq(Objects)
      /\ Len(connectionQueue') = n - gone
      /\ \A i \in 1..n - gone : connectionQueue'[i] = connectionQueue[i + gone]
  BY <1>1 DEF TypeOK
<1> HIDE DEF n
<1>3. Queued' = {connectionQueue[i] : i \in gone + 1..n}
  <2>1. \A i \in 1..n - gone : i + gone \in gone + 1..n
    BY <1>1
  <2>2. \A i \in gone + 1..n : i - gone \in 1..n - gone /\ (i - gone) + gone = i
    BY <1>1
  <2>3. \A i \in gone + 1..n : connectionQueue'[i - gone] = connectionQueue[i]
    BY <1>2, <2>2
  <2>4. Queued' = {connectionQueue'[i] : i \in 1..n - gone}
    BY <1>2 DEF Queued
  <2>5. Queued' \subseteq {connectionQueue[i] : i \in gone + 1..n}
    BY <1>2, <2>1, <2>4
  <2>6. {connectionQueue[i] : i \in gone + 1..n} \subseteq Queued'
    BY <2>2, <2>3, <2>4
  <2> QED BY <2>5, <2>6
<1>4. Queued = Queued' \cup deleted /\ Queued' \cap deleted = {}
  <2>1. \A i \in 1..n : i \in 1..gone \/ i \in gone + 1..n
    BY <1>1
  <2>2. \A i \in 1..gone : i \in 1..n
    BY <1>1
  <2>3. \A i \in gone + 1..n : i \in 1..n
    BY <1>1
  <2>4. \A i \in 1..gone, j \in gone + 1..n : i # j
    BY <1>1
  <2>5. Queued = {connectionQueue[i] : i \in 1..n}
    BY DEF Queued, n
  <2>6. \A i, j \in 1..n : connectionQueue[i] = connectionQueue[j] => i = j
    BY DEF NoSharing, n
  <2> QED BY <1>3, <2>1, <2>2, <2>3, <2>4, <2>5, <2>6
<1>5. Borrowed' = Borrowed /\ Holders' = Holders
  BY DEF Borrowed, Holders
<1>6. \A i, j \in 1..Len(connectionQueue') :
          connectionQueue'[i] = connectionQueue'[j] => i = j
  <2> SUFFICES ASSUME NEW i \in 1..n - gone, NEW j \in 1..n - gone,
                      connectionQueue'[i] = connectionQueue'[j]
               PROVE  i = j
    BY <1>2
  <2>1. i + gone \in 1..n /\ j + gone \in 1..n
    BY <1>1
  <2>2. connectionQueue[i + gone] = connectionQueue[j + gone]
    BY <1>2
  <2>3. i + gone = j + gone
    BY <2>1, <2>2 DEF NoSharing, n
  <2> QED BY <1>1, <2>3
<1>7. NoSharing'
  <2> HIDE DEF deleted
  <2>1. alive' = alive \ deleted
    BY DEF deleted
  <2> QED BY <1>4, <1>5, <1>6, <2>1 DEF NoSharing, Holders
<1>8. Accounting' /\ connectionCnt' \in Nat
  BY <1>1, <1>2, <1>5, PoolAssumption, HoldersFinite DEF Accounting, TypeOK, n
<1> QED BY <1>2, <1>7, <1>8

-----------------------------------------------------------------------------
\* A thread inside getConnection has nothing yet.
WaitersEmpty == \A t \in Threads : pc[t] # "idle" => held[t] = NoObject

\* The invariant; that a waiting thread found the queue empty is part of it.
PoolInv == TypeOK /\ NoSharing /\ Accounting /\ WaitersEmpty

\* The constructor fills the queue with connections of its own.
LEMMA InitInv == Init => PoolInv
<1> SUFFICES ASSUME Init PROVE PoolInv
  OBVIOUS
<1>1. PICK first \in [1..initSize -> Objects] :
          /\ \A i, j \in 1..initSize : first[i] = first[j] => i = j
          /\ connectionQueue = first
          /\ alive = {first[i] : i \in 1..initSize}
  BY DEF Init
<1>2. connectionQueue \in Seq(Objects) /\ Len(connectionQueue) = initSize
  BY <1>1, PoolAssumption
<1>3. Holders = {} /\ Borrowed = {}
  BY DEF Init, Holders, Borrowed
<1>4. TypeOK
  <2>1. alive \in SUBSET Objects
    BY <1>1
  <2>2. undefined \in BOOLEAN
    <3>1. undefined = FALSE
      BY DEF Init
    <3> QED BY <3>1
  <2>3. /\ connectionCnt = initSize /\ producer = "running" /\ scans = 0 /\ calls = 0
        /\ held = [t \in Threads |-> NoObject] /\ pc = [t \in Threads |-> "idle"]
    BY DEF Init
  <2> QED BY <1>2, <2>1, <2>2, <2>3, PoolAssumption DEF TypeOK
<1>5. NoSharing
  BY <1>1, <1>2, <1>3 DEF NoSharing, Queued
<1>6. Accounting
  BY <1>2, <1>3, FS_EmptySet, PoolAssumption DEF Accounting, Init
<1>7. WaitersEmpty
  BY DEF Init, WaitersEmpty
<1> QED BY <1>4, <1>5, <1>6, <1>7 DEF PoolInv

\* A step that leaves queue and holders alone shares none and keeps the count.
LEMMA Untouched ==
    ASSUME PoolInv, UNCHANGED <<connectionQueue, connectionCnt, alive, held>>
    PROVE  NoSharing' /\ Accounting'
BY DEF PoolInv, NoSharing, Accounting, Queued, Borrowed, Holders

\* Every step keeps the invariant.
LEMMA StepInv == PoolInv /\ [Next]_vars => PoolInv'
<1> SUFFICES ASSUME PoolInv, [Next]_vars PROVE PoolInv'
  OBVIOUS
<1> USE DEF PoolInv, WaitersEmpty
<1>1. ASSUME NEW t \in Threads, held[t] = NoObject, Take(t), calls' \in 0..MaxCalls
      PROVE  PoolInv'
  <2>1. /\ connectionQueue' \in Seq(Objects)
        /\ held' \in [Threads -> Objects \cup {NoObject}]
        /\ NoSharing' /\ Accounting'
    BY <1>1, TakeStep
  <2>2. TypeOK'
    BY <1>1, <2>1 DEF TypeOK, Take, Woken
  <2>3. WaitersEmpty'
    BY <1>1 DEF TypeOK, Take, Woken
  <2> QED BY <2>1, <2>2, <2>3
<1>2. ASSUME NEW t \in Threads, held[t] = NoObject, Wait(t), calls' \in 0..MaxCalls
      PROVE  PoolInv'
  BY <1>2, Untouched DEF TypeOK, Wait
<1>3. ASSUME NEW t \in Threads, Call(t)
      PROVE  PoolInv'
  <2>1. held[t] = NoObject /\ calls' \in 0..MaxCalls
    BY <1>3, PoolAssumption DEF Call, TypeOK
  <2> QED BY <1>1, <1>2, <1>3, <2>1 DEF Call
<1>4. ASSUME NEW t \in Threads, Recheck(t)
      PROVE  PoolInv'
  <2>1. held[t] = NoObject /\ calls' \in 0..MaxCalls
    BY <1>4 DEF Recheck, TypeOK
  <2> QED BY <1>1, <1>2, <1>4, <2>1 DEF Recheck
<1>5. ASSUME NEW t \in Threads, Expire(t)
      PROVE  PoolInv'
  BY <1>5, Untouched DEF TypeOK, Expire
<1>6. ASSUME NEW t \in Threads, LastLook(t)
      PROVE  PoolInv'
  <2>1. CASE Take(t) /\ UNCHANGED calls
    <3>1. held[t] = NoObject /\ calls' \in 0..MaxCalls
      BY <1>6, <2>1 DEF LastLook, TypeOK
    <3> QED BY <1>1, <2>1, <3>1
  <2>2. CASE ~ (Take(t) /\ UNCHANGED calls)
    BY <1>6, <2>2, Untouched DEF TypeOK, LastLook
  <2> QED BY <2>1, <2>2
<1>7. ASSUME NEW t \in Threads, Return(t)
      PROVE  PoolInv'
  <2>1. /\ connectionQueue' \in Seq(Objects)
        /\ held' \in [Threads -> Objects \cup {NoObject}]
        /\ NoSharing' /\ Accounting'
    BY <1>7, ReturnStep
  <2> QED BY <1>7, <2>1 DEF TypeOK, Return
<1>8. ASSUME NEW t \in Threads, Spurious(t)
      PROVE  PoolInv'
  BY <1>8, Untouched DEF TypeOK, Spurious
<1>9. CASE ProducerWait
  BY <1>9, Untouched DEF TypeOK, ProducerWait
<1>10. CASE Produce
  <2>1. CASE connectionCnt < maxSize
    <3>1. PICK p \in Objects \ alive :
             connectionQueue' = Append(connectionQueue, p) /\ alive' = alive \cup {p}
      BY <1>10, <2>1, PoolAssumption DEF Produce, TypeOK
    <3>2. connectionQueue' \in Seq(Objects) /\ NoSharing' /\ Accounting'
      BY <1>10, <2>1, <3>1, ProduceStep DEF Produce, TypeOK
    <3> QED BY <1>10, <2>1, <3>1, <3>2 DEF Produce, TypeOK, Woken
  <2>2. CASE ~ connectionCnt < maxSize
    <3>1. UNCHANGED <<connectionQueue, connectionCnt, alive, held>>
      BY <1>10, <2>2 DEF Produce
    <3> QED BY <1>10, <3>1, Untouched DEF Produce, TypeOK, Woken
  <2> QED BY <2>1, <2>2
<1>11. CASE Scan
  <2>1. PICK gone \in 0..Len(connectionQueue) :
          /\ gone > 0 => connectionCnt - gone >= initSize
          /\ connectionQueue' = SubSeq(connectionQueue, gone + 1, Len(connectionQueue))
          /\ alive' = alive \ {connectionQueue[i] : i \in 1..gone}
          /\ connectionCnt' = connectionCnt - gone
    BY <1>11 DEF Scan
  <2>2. connectionQueue' \in Seq(Objects) /\ connectionCnt' \in Nat /\ NoSharing' /\ Accounting'
    BY <1>11, <2>1, ScanStep DEF Scan
  <2>3. alive' \in SUBSET Objects
    BY <2>1 DEF TypeOK
  <2>4. undefined' = undefined \/ undefined' = TRUE
    BY <1>11 DEF Scan
  <2>5. undefined' \in BOOLEAN
    BY <2>4 DEF TypeOK
  <2>6. scans' \in 0..MaxScans
    BY <1>11, PoolAssumption DEF Scan, TypeOK
  <2>7. UNCHANGED <<held, pc, producer, calls>>
    BY <1>11 DEF Scan
  <2> QED BY <2>2, <2>3, <2>5, <2>6, <2>7 DEF TypeOK
<1>12. CASE UNCHANGED vars
  BY <1>12, Untouched DEF vars, TypeOK
<1> QED BY <1>3, <1>4, <1>5, <1>6, <1>7, <1>8, <1>9, <1>10, <1>11, <1>12 DEF Next, Caller

\* The invariant holds for any number of threads and any sizes of the pool: no
\* connection is shared, connectionCnt counts them, and only those wait who found
\* the queue empty.
THEOREM Invariance == Spec => []PoolInv
BY InitInv, StepInv, PTL DEF Spec

\* The variables keep their types, for any number of threads and any sizes.
THEOREM TypeCorrect == Spec => []TypeOK
<1>1. PoolInv => TypeOK
  BY DEF PoolInv
<1> QED BY <1>1, Invariance, PTL

\* No connection is used by two threads at once or after it was deleted, whatever
\* the producer, the scanner and the timeouts do (Connectionpool.cpp:75-129).
THEOREM NeverShared == Spec => []NoSharing
<1>1. PoolInv => NoSharing
  BY DEF PoolInv
<1> QED BY <1>1, Invariance, PTL

\* connectionCnt always counts the connections (Connectionpool.h:34).
THEOREM CntIsCount == Spec => []Accounting
<1>1. PoolInv => Accounting
  BY DEF PoolInv
<1> QED BY <1>1, Invariance, PTL

\* An empty queue means that at least initSize connections are lent.
LEMMA EmptyIsCrowded ==
    ASSUME PoolInv, connectionQueue = <<>>
    PROVE  Cardinality(Holders) >= initSize
<1>1. Len(<<>>) = 0
  OBVIOUS
<1> QED BY <1>1, PoolAssumption, HoldersFinite DEF PoolInv, Accounting, TypeOK

\* Who goes without a connection found the queue empty.
LEMMA GoesWithoutStep ==
    ASSUME PoolInv, Next, NEW t \in Threads, GoesWithout(t)
    PROVE  connectionQueue = <<>>
<1>1. ASSUME NEW r \in Threads, Take(r)
      PROVE  FALSE
  <2>1. Head(connectionQueue) # NoObject
    BY <1>1, FrontTyped, PoolAssumption DEF Take, PoolInv
  <2>2. pc'[t] # "waiting"
    BY <1>1 DEF Take, Woken, PoolInv, TypeOK
  <2>3. t # r => pc'[t] = pc[t] \/ pc[t] = "waiting"
    BY <1>1 DEF Take, Woken, PoolInv, TypeOK
  <2>4. t = r => held'[t] # NoObject
    BY <1>1, <2>1 DEF Take, PoolInv, TypeOK
  <2> QED BY <1>1, <2>2, <2>3, <2>4 DEF GoesWithout, Take, Woken, PoolInv, TypeOK
<1>2. CASE \E r \in Threads : Wait(r) \/ LastLook(r)
  BY <1>1, <1>2 DEF Wait, LastLook, GoesWithout, PoolInv, TypeOK
<1>3. ASSUME NEW r \in Threads, Return(r) \/ Spurious(r) \/ Expire(r)
      PROVE  FALSE
  BY <1>3 DEF Return, Spurious, Expire, GoesWithout, PoolInv, TypeOK
<1>4. CASE ProducerWait \/ Produce \/ Scan
  BY <1>4 DEF ProducerWait, Produce, Scan, Woken, GoesWithout, PoolInv, TypeOK
<1> QED BY <1>1, <1>2, <1>3, <1>4 DEF Next, Caller, Call, Recheck, LastLook

\* The scanner is surprised by an empty queue in Scan only.
LEMMA SurpriseStep ==
    ASSUME PoolInv, Next, ~ undefined, undefined'
    PROVE  Cardinality(Holders) > initSize
<1>1. CASE Scan
  <2>1. PICK gone \in 0..Len(connectionQueue) :
            gone = Len(connectionQueue) /\ connectionCnt - gone > initSize
    BY <1>1 DEF Scan
  <2> QED BY <2>1, PoolAssumption, HoldersFinite DEF PoolInv, Accounting, TypeOK
<1>2. CASE ProducerWait \/ Produce \/ \E t \in Threads : Caller(t)
  BY <1>2 DEF ProducerWait, Produce, Caller, Call, Recheck, Expire, LastLook, Return, Spurious,
              Take, Wait
<1> QED BY <1>1, <1>2 DEF Next

\* Nobody waits, or is refused, while fewer than initSize connections are lent
\* (Connectionpool.cpp:93-102, 117-118).
THEOREM WaitOnlyInCrowds == Spec => OnlyCrowdsWait
<1>1. ASSUME PoolInv, [Next]_vars
      PROVE  [/\ (\E t \in Threads : GoesWithout(t)) => Cardinality(Holders) >= initSize
              /\ (~ undefined /\ undefined') => Cardinality(Holders) > initSize]_vars
  BY <1>1, GoesWithoutStep, EmptyIsCrowded, SurpriseStep
<1> QED BY <1>1, Invariance, PTL DEF Spec, OnlyCrowdsWait

-----------------------------------------------------------------------------
(* A pool at least as large as the number of threads.                       *)

\* A thread that calls leaves a connection for itself: the others hold fewer
\* than initSize.
LEMMA QueueHasOne ==
    ASSUME Cardinality(Threads) <= initSize, PoolInv,
           NEW t \in Threads, held[t] = NoObject
    PROVE  connectionQueue # <<>>
<1>1. Holders \subseteq Threads \ {t}
  BY DEF Holders
<1>2. Cardinality(Threads \ {t}) = Cardinality(Threads) - 1 /\ IsFiniteSet(Threads \ {t})
  BY PoolAssumption, FS_RemoveElement
<1>3. Cardinality(Holders) <= Cardinality(Threads) - 1
  BY <1>1, <1>2, FS_Subset
<1>4. Cardinality(Threads) \in Nat
  BY PoolAssumption, FS_CardinalityType
<1>5. Len(connectionQueue) >= 1
  BY <1>3, <1>4, PoolAssumption, HoldersFinite DEF PoolInv, Accounting, TypeOK
<1>6. Len(<<>>) = 0
  OBVIOUS
<1> QED BY <1>5, <1>6

\* With as many connections as threads nobody starts to wait.
LEMMA StarvedStep ==
    ASSUME Cardinality(Threads) <= initSize, PoolInv, NeverStarved, [Next]_vars
    PROVE  NeverStarved'
<1>1. ASSUME NEW t \in Threads, Call(t)
      PROVE  NeverStarved'
  <2>1. Take(t)
    BY <1>1, QueueHasOne DEF Call, Wait
  <2> QED BY <2>1 DEF Take, Woken, NeverStarved, PoolInv, TypeOK
<1>2. CASE Scan
  <2>1. ASSUME NEW gone \in 0..Len(connectionQueue),
               gone = Len(connectionQueue), connectionCnt - gone > initSize
        PROVE  FALSE
    <3>1. Cardinality(Threads) \in Nat /\ Len(connectionQueue) \in Nat
      BY PoolAssumption, FS_CardinalityType DEF PoolInv, TypeOK
    <3> QED BY <2>1, <3>1, PoolAssumption, HoldersFinite DEF PoolInv, Accounting, TypeOK
  <2> QED BY <1>2, <2>1 DEF Scan, NeverStarved
<1>3. CASE Produce
  BY <1>3 DEF Produce, Woken, NeverStarved, PoolInv, TypeOK
<1>4. CASE ProducerWait
  BY <1>4 DEF ProducerWait, NeverStarved
<1>5. ASSUME NEW t \in Threads, Return(t)
      PROVE  NeverStarved'
  BY <1>5 DEF Return, NeverStarved
<1>6. ASSUME NEW t \in Threads, Recheck(t) \/ Expire(t) \/ LastLook(t) \/ Spurious(t)
      PROVE  FALSE
  BY <1>6 DEF Recheck, Expire, LastLook, Spurious, NeverStarved
<1>7. CASE UNCHANGED vars
  BY <1>7 DEF vars, NeverStarved
<1> QED BY <1>1, <1>2, <1>3, <1>4, <1>5, <1>6, <1>7 DEF Next, Caller

\* With no more threads than initSize no thread ever waits for a connection, none
\* is refused one, and the scanner never reads the front of an empty queue
\* (Connectionpool.cpp:93-111, 113-127; mysql.cnf:7).
THEOREM DeployedPoolSuffices ==
    ASSUME Cardinality(Threads) <= initSize
    PROVE  Spec => []NeverStarved
<1>1. Init => NeverStarved
  BY DEF Init, NeverStarved
<1>2. PoolInv /\ NeverStarved /\ [Next]_vars => NeverStarved'
  BY StarvedStep
<1> QED BY <1>1, <1>2, Invariance, PTL DEF Spec

-----------------------------------------------------------------------------
(* The producer is awake whenever the queue is empty.                       *)

LEMMA AppendedOne ==
    ASSUME NEW S, NEW q \in Seq(S), NEW x \in S
    PROVE  Append(q, x) # <<>>
<1>1. Len(Append(q, x)) = Len(q) + 1 /\ Len(q) \in Nat
  BY AppendProperties, LenProperties
<1>2. Len(<<>>) = 0
  OBVIOUS
<1> QED BY <1>1, <1>2

\* No thread, nor the producer, leaves an empty queue to a sleeping producer.
LEMMA AwakeStep ==
    ASSUME PoolInv, ProducerAwake, [Next]_vars
    PROVE  ProducerAwake'
<1> USE DEF ProducerAwake
<1>1. ASSUME NEW t \in Threads, Take(t) \/ Wait(t), UNCHANGED scans
      PROVE  ProducerAwake'
  BY <1>1 DEF Take, Wait
<1>2. ASSUME NEW t \in Threads, Call(t) \/ Recheck(t)
      PROVE  ProducerAwake'
  BY <1>1, <1>2 DEF Call, Recheck, Take, Wait
<1>3. ASSUME NEW t \in Threads, LastLook(t)
      PROVE  ProducerAwake'
  BY <1>3 DEF LastLook, Take
<1>4. ASSUME NEW t \in Threads, Return(t)
      PROVE  ProducerAwake'
  <2>1. held[t] \in Objects /\ connectionQueue \in Seq(Objects)
    BY <1>4 DEF Return, PoolInv, TypeOK
  <2>2. connectionQueue' # <<>>
    BY <1>4, <2>1, AppendedOne DEF Return
  <2> QED BY <2>2
<1>5. ASSUME NEW t \in Threads, Expire(t) \/ Spurious(t)
      PROVE  ProducerAwake'
  BY <1>5 DEF Expire, Spurious
<1>6. CASE ProducerWait
  BY <1>6 DEF ProducerWait
<1>7. CASE Produce
  BY <1>7 DEF Produce
<1>8. CASE Scan
  BY <1>8 DEF Scan, PoolInv, TypeOK
<1>9. CASE UNCHANGED vars
  BY <1>9 DEF vars
<1> QED BY <1>2, <1>3, <1>4, <1>5, <1>6, <1>7, <1>8, <1>9 DEF Next, Caller

\* Whoever takes the last connection leaves the producer awake: as long as the
\* scanner has deleted nothing, it never sleeps before an empty queue
\* (Connectionpool.cpp:78-80, 108-109, 120).
THEOREM NeverSleepsHungry == Spec => []ProducerAwake
<1>1. Init => ProducerAwake
  BY DEF Init, ProducerAwake
<1>2. PoolInv /\ ProducerAwake /\ [Next]_vars => ProducerAwake'
  BY AwakeStep
<1> QED BY <1>1, <1>2, Invariance, PTL DEF Spec
=============================================================================
