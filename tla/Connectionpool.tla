----------------------------- MODULE Connectionpool -----------------------------
(****************************************************************************)
(* The pool of MySQL connections, mysql/Connectionpool.cpp: the queue of    *)
(* idle connections, the threads that borrow one for the duration of a      *)
(* statement, the producer that adds connections when the queue is empty    *)
(* and the scanner that deletes those that have been idle for long.  A step *)
(* is one stretch of code between two points where queueLocker is released. *)
(****************************************************************************)
EXTENDS Integers, Sequences, FiniteSets

CONSTANTS
    Threads,        \* threads that run statements
    Objects,        \* addresses at which a Connection may be allocated
    NoObject,       \* no connection
    initSize,
    maxSize,
    MaxCalls,       \* bound: calls of getConnection
    MaxScans        \* bound: rounds of the scanner; one takes maxIdleTime,
                    \* 600 times connectionTimeout

ASSUME PoolAssumption ==
    /\ IsFiniteSet(Threads)
    /\ NoObject \notin Objects
    /\ initSize \in Nat
    /\ maxSize \in Nat
    /\ initSize <= maxSize
    /\ MaxCalls \in Nat
    /\ MaxScans \in Nat

VARIABLES
    connectionQueue, \* idle connections, the oldest first
    connectionCnt,
    alive,           \* objects allocated and not deleted
    held,            \* held[t]: the connection whose shared_ptr t owns
    pc,              \* pc[t]: where t is in getConnection
    producer,        \* "waiting" on cv, or "running"
    scans,           \* rounds of the scanner so far
    calls,           \* calls of getConnection so far
    undefined        \* the scanner read the front of an empty queue

vars == <<connectionQueue, connectionCnt, alive, held, pc, producer, scans, calls, undefined>>

Queued == {connectionQueue[i] : i \in 1..Len(connectionQueue)}

Borrowed == {held[t] : t \in Threads} \ {NoObject}

Holders == {t \in Threads : held[t] # NoObject}

TypeOK ==
    /\ connectionQueue \in Seq(Objects)
    /\ connectionCnt \in Nat
    /\ alive \in SUBSET Objects
    /\ held \in [Threads -> Objects \cup {NoObject}]
    /\ pc \in [Threads -> {"idle", "waiting", "woken", "timeout"}]
    /\ producer \in {"waiting", "running"}
    /\ scans \in 0..MaxScans
    /\ calls \in 0..MaxCalls
    /\ undefined \in BOOLEAN

\* The constructor fills the queue and starts the producer and the scanner.
Init ==
    /\ \E first \in [1..initSize -> Objects] :
          /\ \A i, j \in 1..initSize : first[i] = first[j] => i = j
          /\ connectionQueue = first
          /\ alive = {first[i] : i \in 1..initSize}
    /\ connectionCnt = initSize
    /\ held = [t \in Threads |-> NoObject]
    /\ pc = [t \in Threads |-> "idle"]
    /\ producer = "running"
    /\ scans = 0
    /\ calls = 0
    /\ undefined = FALSE

-----------------------------------------------------------------------------
\* cv.notify_all: whoever waits goes back to the lock.
Woken(waits) == [t \in Threads |-> IF waits[t] = "waiting" THEN "woken" ELSE waits[t]]

\* Mutant: the front stays in the queue.
TakeNoPop(t) ==
    /\ connectionQueue # <<>>
    /\ held' = [held EXCEPT ![t] = Head(connectionQueue)]
    /\ pc' = Woken([pc EXCEPT ![t] = "idle"])
    /\ producer' = "running"
    /\ UNCHANGED <<connectionQueue, connectionCnt, alive, scans, undefined>>

\* Mutant: nobody is notified that the queue has changed.
TakeSilently(t) ==
    /\ connectionQueue # <<>>
    /\ held' = [held EXCEPT ![t] = Head(connectionQueue)]
    /\ connectionQueue' = Tail(connectionQueue)
    /\ pc' = [pc EXCEPT ![t] = "idle"]
    /\ UNCHANGED <<connectionCnt, alive, producer, scans, undefined>>

\* The end of getConnection: the front of the queue is wrapped and popped.
Take(t) ==
    /\ connectionQueue # <<>>
    /\ held' = [held EXCEPT ![t] = Head(connectionQueue)]
    /\ connectionQueue' = Tail(connectionQueue)
    /\ pc' = Woken([pc EXCEPT ![t] = "idle"])
    /\ producer' = "running"
    /\ UNCHANGED <<connectionCnt, alive, scans, undefined>>

\* Its loop: nothing to take, wait_for starts anew with the whole timeout.
Wait(t) ==
    /\ connectionQueue = <<>>
    /\ pc' = [pc EXCEPT ![t] = "waiting"]
    /\ UNCHANGED <<connectionQueue, connectionCnt, alive, held, producer, scans, undefined>>

Call(t) ==
    /\ pc[t] = "idle"
    /\ held[t] = NoObject
    /\ calls < MaxCalls
    /\ calls' = calls + 1
    /\ Take(t) \/ Wait(t)

\* The lock is acquired again after a notification.
Recheck(t) ==
    /\ pc[t] = "woken"
    /\ Take(t) \/ Wait(t)
    /\ UNCHANGED calls

\* Mutant: wait instead of wait_for.
ExpireNever(t) == FALSE

\* connectionTimeout has passed.
Expire(t) ==
    /\ pc[t] = "waiting"
    /\ pc' = [pc EXCEPT ![t] = "timeout"]
    /\ UNCHANGED <<connectionQueue, connectionCnt, alive, held, producer, scans, calls, undefined>>

\* The lock is acquired again after the timeout: a connection that has arrived
\* is taken, otherwise NULL is returned and the caller skips its statement.
LastLook(t) ==
    /\ pc[t] = "timeout"
    /\ \/ Take(t) /\ UNCHANGED calls
       \/ /\ connectionQueue = <<>>
          /\ pc' = [pc EXCEPT ![t] = "idle"]
          /\ UNCHANGED <<connectionQueue, connectionCnt, alive, held, producer, scans, calls, undefined>>

\* The deleter of the shared_ptr: the connection goes to the back of the queue,
\* and nobody is notified.
Return(t) ==
    /\ held[t] # NoObject
    /\ connectionQueue' = Append(connectionQueue, held[t])
    /\ held' = [held EXCEPT ![t] = NoObject]
    /\ UNCHANGED <<connectionCnt, alive, pc, producer, scans, calls, undefined>>

\* A condition variable may wake a waiter for no reason.
Spurious(t) ==
    /\ pc[t] = "waiting"
    /\ pc' = [pc EXCEPT ![t] = "woken"]
    /\ UNCHANGED <<connectionQueue, connectionCnt, alive, held, producer, scans, calls, undefined>>

-----------------------------------------------------------------------------
\* produceConnectionTask finds idle connections and waits.
ProducerWait ==
    /\ producer = "running"
    /\ connectionQueue # <<>>
    /\ producer' = "waiting"
    /\ UNCHANGED <<connectionQueue, connectionCnt, alive, held, pc, scans, calls, undefined>>

\* Mutant: the new connection is not counted.
ProduceUncounted ==
    /\ producer = "running"
    /\ connectionQueue = <<>>
    /\ \E p \in Objects \ alive :
          /\ alive' = alive \cup {p}
          /\ connectionQueue' = Append(connectionQueue, p)
    /\ pc' = Woken(pc)
    /\ UNCHANGED <<connectionCnt, held, producer, scans, calls, undefined>>

\* Or finds none, adds one unless maxSize is reached, and notifies.
Produce ==
    /\ producer = "running"
    /\ connectionQueue = <<>>
    /\ \/ /\ connectionCnt < maxSize
          /\ \E p \in Objects \ alive :
                /\ alive' = alive \cup {p}
                /\ connectionQueue' = Append(connectionQueue, p)
          /\ connectionCnt' = connectionCnt + 1
       \/ /\ connectionCnt >= maxSize
          /\ UNCHANGED <<alive, connectionQueue, connectionCnt>>
    /\ pc' = Woken(pc)
    /\ UNCHANGED <<held, producer, scans, calls, undefined>>

\* Mutant: old connections are deleted without regard to initSize.
ScanAll ==
    /\ scans < MaxScans
    /\ scans' = scans + 1
    /\ \E gone \in 0..Len(connectionQueue) :
          /\ connectionQueue' = SubSeq(connectionQueue, gone + 1, Len(connectionQueue))
          /\ alive' = alive \ {connectionQueue[i] : i \in 1..gone}
          /\ connectionCnt' = connectionCnt - gone
    /\ UNCHANGED <<held, pc, producer, calls, undefined>>

\* scannerConnectionTask: the connections idle for maxIdleTime are a prefix of
\* the queue, since each was refreshed when it was pushed.  With nothing left
\* in the queue and connectionCnt still above initSize, front() has no defined
\* value: what it yields is taken for young, or the process is beyond this model.
Scan ==
    /\ scans < MaxScans
    /\ scans' = scans + 1
    /\ \E gone \in 0..Len(connectionQueue) :
          /\ gone > 0 => connectionCnt - gone >= initSize
          /\ connectionQueue' = SubSeq(connectionQueue, gone + 1, Len(connectionQueue))
          /\ alive' = alive \ {connectionQueue[i] : i \in 1..gone}
          /\ connectionCnt' = connectionCnt - gone
          /\ \/ UNCHANGED undefined
             \/ /\ gone = Len(connectionQueue)
                /\ connectionCnt - gone > initSize
                /\ undefined' = TRUE
    /\ UNCHANGED <<held, pc, producer, calls>>

-----------------------------------------------------------------------------
Caller(t) ==
    Call(t) \/ Recheck(t) \/ Expire(t) \/ LastLook(t) \/ Return(t) \/ Spurious(t)

Next ==
    /\ ~ undefined
    /\ \/ \E t \in Threads : Caller(t)
       \/ ProducerWait \/ Produce \/ Scan

Spec == Init /\ [][Next]_vars

\* Statements end, mutex and timer serve everybody, the producer runs.
Fairness ==
    /\ \A t \in Threads : /\ WF_vars(~ undefined /\ Return(t))
                          /\ WF_vars(~ undefined /\ (Recheck(t) \/ LastLook(t)))
                          /\ WF_vars(~ undefined /\ Expire(t))
    /\ WF_vars(~ undefined /\ (ProducerWait \/ Produce))

FairSpec == Spec /\ Fairness

-----------------------------------------------------------------------------
(* Properties.                                                              *)

\* No connection is handed to two threads, or lent while it is still queued, or
\* used after the scanner deleted it: what is queued and what is lent are disjoint,
\* free of repetitions, and together the connections in existence
\* (Connectionpool.cpp:103-108, 117-123).
NoSharing ==
    /\ \A i, j \in 1..Len(connectionQueue) :
          connectionQueue[i] = connectionQueue[j] => i = j
    /\ \A t, r \in Holders : held[t] = held[r] => t = r
    /\ Queued \cap Borrowed = {}
    /\ Queued \cup Borrowed = alive

\* connectionCnt is the number of connections, idle ones and lent ones, and stays
\* between the configured sizes (Connectionpool.h:34, Connectionpool.cpp:81, 117).
Accounting ==
    /\ connectionCnt = Len(connectionQueue) + Cardinality(Holders)
    /\ initSize <= connectionCnt /\ connectionCnt <= maxSize

\* With no more threads than initSize nobody ever waits or is refused a connection,
\* and the scanner never touches an empty queue (mysql.cnf:7: ten, for the four
\* I/O loops, the main loop and the observer).
NeverStarved == /\ \A t \in Threads : pc[t] = "idle"
                /\ ~ undefined

\* t goes to sleep on cv, or its timeout is over and it gets no connection.
GoesWithout(t) ==
    \/ pc[t] # "waiting" /\ pc'[t] = "waiting"
    \/ pc[t] = "timeout" /\ pc'[t] = "idle" /\ held'[t] = NoObject

\* Nobody waits for a connection, or is refused one after the timeout, while
\* fewer than initSize are lent, whatever the scanner has deleted; and the scanner
\* comes upon an empty queue only while more than initSize are lent
\* (Connectionpool.cpp:93-102, 117-118).
OnlyCrowdsWait ==
    [][/\ (\E t \in Threads : GoesWithout(t)) => Cardinality(Holders) >= initSize
       /\ (~ undefined /\ undefined') => Cardinality(Holders) > initSize]_vars

\* With more threads than that every call still ends, with a connection or with
\* NULL: the timeout makes up for the deleter, which notifies nobody, unless the
\* scanner has read an empty queue (Connectionpool.cpp:95-102, 103-107).
CallsReturn == \A t \in Threads : pc[t] # "idle" ~> pc[t] = "idle" \/ undefined

\* The producer sleeps only while there is something in the queue: whoever takes
\* the last connection wakes it.  Only the scanner can empty the queue behind its
\* back (Connectionpool.cpp:78-80, 108-109, 120).
ProducerAwake == scans = 0 /\ connectionQueue = <<>> => producer = "running"
=============================================================================
