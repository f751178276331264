---------------------------- MODULE LoopThreadProofs ----------------------------
(****************************************************************************)
(* Proofs about EventLoop and LoopThread for any number of threads and      *)
(* functors: the loop never sleeps on work and implements Executor; all of  *)
(* this holds of the loop in its thread, and the pointer that StartLoop     *)
(* hands out is good until the destructor has told the loop to quit.        *)
(****************************************************************************)
EXTENDS LoopThread, SequenceTheorems, TLAPS

\* Whoever brought a pending functor, or asked the loop to quit, has written the
\* eventfd or is about to, unless the loop has read the eventfd and is on its way
\* to take the functors, or to look at Quit, before it polls again.
BroughtAndWoken ==
    WakeupFd = 0 /\ ~ Waking =>
        /\ loop = "swap" \/ PendingFunctors = <<>>
        /\ Quit => loop \in {"swap", "run", "check", "stopped"}

\* A batch is run to its end before the next one is taken.
BatchFinished == loop # "run" => functors = <<>>

\* The invariant of the loop.
Inv == TypeOK /\ BroughtAndWoken /\ BatchFinished

-----------------------------------------------------------------------------
\* It holds before the loop starts.
LEMMA InitInv == Init => Inv
<1>1. <<>> \in Seq(Functors)
  OBVIOUS
<1> SUFFICES ASSUME Init PROVE Inv
  OBVIOUS
<1>2. TypeOK
  <2>1. /\ PendingFunctors \in Seq(Functors) /\ functors \in Seq(Functors) /\ done \in Seq(Functors)
    BY <1>1 DEF Init
  <2>2. WakeupFd \in Nat /\ quits \in 0..MaxQuits
    BY LoopAssumption DEF Init
  <2>3. Quit \in BOOLEAN /\ loop \in {"start", "check", "poll", "read", "swap", "run", "stopped"}
    BY DEF Init
  <2>4. pc \in [Threads -> {"idle", "wakeup"}]
    BY DEF Init
  <2> QED BY <2>1, <2>2, <2>3, <2>4 DEF TypeOK
<1>3. BroughtAndWoken /\ BatchFinished
  BY DEF Init, BroughtAndWoken, BatchFinished
<1> QED BY <1>2, <1>3 DEF Inv

\* Every step keeps each of its parts.
LEMMA StepTyped == TypeOK /\ [Next]_vars => TypeOK'
<1> SUFFICES ASSUME TypeOK, [Next]_vars PROVE TypeOK'
  OBVIOUS
<1> USE LoopAssumption DEF TypeOK
<1>1. ASSUME NEW t \in Threads, NEW f \in Functors, QueueInloop(t, f) PROVE TypeOK'
  BY <1>1 DEF QueueInloop
<1>2. ASSUME NEW t \in Threads, quit(t) PROVE TypeOK'
  BY <1>2 DEF quit
<1>3. ASSUME NEW t \in Threads, Wakeup(t) PROVE TypeOK'
  BY <1>3 DEF Wakeup
<1>4. CASE Enter
  BY <1>4 DEF Enter
<1>5. CASE Check
  BY <1>5 DEF Check
<1>6. CASE Poll
  BY <1>6 DEF Poll
<1>7. CASE Swap
  <2>1. <<>> \in Seq(Functors)
    OBVIOUS
  <2> QED BY <1>7, <2>1 DEF Swap
<1>8. CASE Run
  <2>1. Head(functors) \in Functors /\ Tail(functors) \in Seq(Functors)
    BY <1>8, HeadTailProperties DEF Run
  <2>2. PendingFunctors' \in Seq(Functors) /\ WakeupFd' \in Nat
    <3>1. CASE Then[Head(functors)] # None
      <4>1. Then[Head(functors)] \in Functors
        BY <2>1, <3>1
      <4>2. PendingFunctors' = Append(PendingFunctors, Then[Head(functors)]) /\ WakeupFd' = WakeupFd + 1
        BY <1>8, <3>1 DEF Run
      <4>3. Append(PendingFunctors, Then[Head(functors)]) \in Seq(Functors)
        BY <4>1, AppendProperties
      <4> QED BY <4>2, <4>3
    <3>2. CASE Then[Head(functors)] = None
      BY <1>8, <3>2 DEF Run
    <3> QED BY <3>1, <3>2
  <2>3. done' \in Seq(Functors) /\ Quit' \in BOOLEAN
    BY <1>8, <2>1 DEF Run
  <2> QED BY <1>8, <2>1, <2>2, <2>3 DEF Run
<1>9. CASE EndRun
  BY <1>9 DEF EndRun
<1>10. CASE HandleRead
  BY <1>10 DEF HandleRead
<1>11. CASE UNCHANGED vars
  BY <1>11 DEF vars
<1> QED BY <1>1, <1>2, <1>3, <1>4, <1>5, <1>6, <1>7, <1>8, <1>9, <1>10, <1>11 DEF Next, Loop, Other

LEMMA StepWoken == TypeOK /\ BroughtAndWoken /\ [Next]_vars => BroughtAndWoken'
<1> SUFFICES ASSUME TypeOK, BroughtAndWoken, [Next]_vars PROVE BroughtAndWoken'
  OBVIOUS
<1> USE DEF TypeOK, BroughtAndWoken
<1>1. ASSUME NEW t \in Threads, NEW f \in Functors, QueueInloop(t, f) PROVE BroughtAndWoken'
  <2>1. Waking'
    BY <1>1 DEF QueueInloop, Waking
  <2> QED BY <2>1
<1>2. ASSUME NEW t \in Threads, quit(t) PROVE BroughtAndWoken'
  <2>1. Waking'
    BY <1>2 DEF quit, Waking
  <2> QED BY <2>1
<1>3. ASSUME NEW t \in Threads, Wakeup(t) PROVE BroughtAndWoken'
  <2>1. WakeupFd' # 0
    BY <1>3 DEF Wakeup
  <2> QED BY <2>1
<1>4. CASE Enter
  BY <1>4 DEF Enter, Waking
<1>5. CASE Check
  BY <1>5 DEF Check, Waking
<1>6. CASE Poll
  BY <1>6 DEF Poll, Waking
<1>7. CASE Swap
  BY <1>7 DEF Swap, Waking
<1>8. CASE Run
  <2>1. CASE Then[Head(functors)] # None
    <3>1. WakeupFd' # 0
      BY <1>8, <2>1 DEF Run
    <3> QED BY <3>1
  <2>2. CASE Then[Head(functors)] = None
    BY <1>8, <2>2 DEF Run, Waking
  <2> QED BY <2>1, <2>2
<1>9. CASE EndRun
  BY <1>9 DEF EndRun, Waking
<1>10. CASE HandleRead
  BY <1>10 DEF HandleRead, Waking
<1>11. CASE UNCHANGED vars
  BY <1>11 DEF vars, Waking
<1> QED BY <1>1, <1>2, <1>3, <1>4, <1>5, <1>6, <1>7, <1>8, <1>9, <1>10, <1>11 DEF Next, Loop, Other

LEMMA StepFinished == TypeOK /\ BatchFinished /\ [Next]_vars => BatchFinished'
<1> SUFFICES ASSUME TypeOK, BatchFinished, [Next]_vars PROVE BatchFinished'
  OBVIOUS
<1> USE DEF TypeOK, BatchFinished
<1>1. ASSUME NEW t \in Threads, Other(t) PROVE BatchFinished'
  BY <1>1 DEF Other, quit, Wakeup, QueueInloop
<1>2. CASE Loop
  BY <1>2 DEF Loop, Enter, Check, Poll, HandleRead, Swap, Run, EndRun
<1>3. CASE UNCHANGED vars
  BY <1>3 DEF vars
<1> QED BY <1>1, <1>2, <1>3 DEF Next

\* The invariant the theorems below rest on (EventLoop.cpp).
THEOREM Invariance == Spec => []Inv
<1>1. Inv /\ [Next]_vars => Inv'
  BY StepTyped, StepWoken, StepFinished DEF Inv
<1> QED BY <1>1, InitInv, PTL DEF Spec

\* The state of the loop is well typed whatever the threads and the functors do
\* (EventLoop.h:40-49).
THEOREM TypeCorrect == Spec => []TypeOK
<1>1. Inv => TypeOK
  BY DEF Inv
<1> QED BY <1>1, Invariance, PTL

\* With any number of threads that queue functors and ask the loop to quit, it
\* is never left asleep on either (EventLoop.cpp:53-55, 72-74).
THEOREM NeverAsleepOnWork == Spec => []NoSleepOnWork
<1>1. Inv => NoSleepOnWork
  BY DEF Inv, BroughtAndWoken, NoSleepOnWork
<1> QED BY <1>1, Invariance, PTL

-----------------------------------------------------------------------------
(* The refinement.                                                          *)

LEMMA ConcatAppend ==
    ASSUME NEW S, NEW s \in Seq(S), NEW r \in Seq(S), NEW x \in S
    PROVE  s \o Append(r, x) = Append(s \o r, x)
<1>1. /\ Append(r, x) \in Seq(S) /\ s \o r \in Seq(S)
      /\ Len(s \o r) = Len(s) + Len(r) /\ Len(s) \in Nat /\ Len(r) \in Nat
  BY ConcatProperties, LenProperties, AppendProperties
<1>2. /\ Len(Append(r, x)) = Len(r) + 1
      /\ \A i \in 1..Len(r) : Append(r, x)[i] = r[i]
      /\ Append(r, x)[Len(r) + 1] = x
  BY AppendProperties
<1>3. /\ Append(s \o r, x) \in Seq(S)
      /\ Len(Append(s \o r, x)) = Len(s) + Len(r) + 1
      /\ \A i \in 1..(Len(s) + Len(r)) : Append(s \o r, x)[i] = (s \o r)[i]
      /\ Append(s \o r, x)[Len(s) + Len(r) + 1] = x
  BY <1>1, AppendProperties
<1>4. /\ s \o Append(r, x) \in Seq(S)
      /\ Len(s \o Append(r, x)) = Len(s) + Len(r) + 1
      /\ \A i \in 1..(Len(s) + Len(r) + 1) :
             (s \o Append(r, x))[i] = IF i <= Len(s) THEN s[i] ELSE Append(r, x)[i - Len(s)]
  BY <1>1, <1>2, ConcatProperties
<1>5. ASSUME NEW i \in 1..(Len(s) + Len(r) + 1)
      PROVE  (s \o Append(r, x))[i] = Append(s \o r, x)[i]
  <2>1. CASE i = Len(s) + Len(r) + 1
    BY <1>1, <1>2, <1>3, <1>4, <2>1
  <2>2. CASE i <= Len(s)
    BY <1>1, <1>3, <1>4, <2>2, ConcatProperties
  <2>3. CASE i > Len(s) /\ i <= Len(s) + Len(r)
    <3>1. i - Len(s) \in 1..Len(r) /\ i \in 1..(Len(s) + Len(r))
      BY <1>1, <2>3
    <3>2. (s \o r)[i] = r[i - Len(s)]
      BY <1>1, <2>3, <3>1, ConcatProperties
    <3> QED BY <1>1, <1>2, <1>3, <1>4, <2>3, <3>1, <3>2
  <2> QED BY <1>1, <2>1, <2>2, <2>3
<1> QED BY <1>3, <1>4, <1>5, SeqEqual

\* The head of a concatenation is that of its first part.
LEMMA ConcatHeadTail ==
    ASSUME NEW S, NEW s \in Seq(S), NEW r \in Seq(S), s # <<>>
    PROVE  /\ s \o r # <<>>
           /\ Head(s \o r) = Head(s)
           /\ Tail(s \o r) = Tail(s) \o r
<1>1. /\ Len(s) \in Nat /\ Len(r) \in Nat /\ Len(s) >= 1
      /\ Tail(s) \in Seq(S) /\ Len(Tail(s)) = Len(s) - 1
      /\ \A i \in 1..(Len(s) - 1) : Tail(s)[i] = s[i + 1]
  BY HeadTailProperties, LenProperties, EmptySeq
<1>2. /\ s \o r \in Seq(S) /\ Len(s \o r) = Len(s) + Len(r)
      /\ \A i \in 1..(Len(s) + Len(r)) :
             (s \o r)[i] = IF i <= Len(s) THEN s[i] ELSE r[i - Len(s)]
  BY ConcatProperties
<1>3. s \o r # <<>>
  BY <1>1, <1>2, EmptySeq
<1>4. Head(s \o r) = Head(s)
  BY <1>1, <1>2
<1>5. /\ Tail(s \o r) \in Seq(S) /\ Len(Tail(s \o r)) = Len(s) + Len(r) - 1
      /\ \A i \in 1..(Len(s) + Len(r) - 1) : Tail(s \o r)[i] = (s \o r)[i + 1]
  BY <1>2, <1>3, HeadTailProperties
<1>6. /\ Tail(s) \o r \in Seq(S) /\ Len(Tail(s) \o r) = Len(s) - 1 + Len(r)
      /\ \A i \in 1..(Len(s) - 1 + Len(r)) :
             (Tail(s) \o r)[i] = IF i <= Len(s) - 1 THEN Tail(s)[i] ELSE r[i - (Len(s) - 1)]
  BY <1>1, ConcatProperties
<1>7. ASSUME NEW i \in 1..(Len(s) + Len(r) - 1)
      PROVE  Tail(s \o r)[i] = (Tail(s) \o r)[i]
  <2>1. i + 1 \in 1..(Len(s) + Len(r)) /\ i \in 1..(Len(s) - 1 + Len(r))
    BY <1>1
  <2>2. CASE i <= Len(s) - 1
    BY <1>1, <1>2, <1>5, <1>6, <2>1, <2>2
  <2>3. CASE i > Len(s) - 1
    BY <1>1, <1>2, <1>5, <1>6, <2>1, <2>3
  <2> QED BY <1>1, <2>2, <2>3
<1>8. Len(Tail(s \o r)) = Len(Tail(s) \o r)
  BY <1>1, <1>5, <1>6
<1>9. Tail(s \o r) = Tail(s) \o r
  BY <1>1, <1>5, <1>6, <1>7, <1>8, SeqEqual
<1> QED BY <1>3, <1>4, <1>9

\* What the loop is still to run, in order.
Queue == functors \o PendingFunctors

\* Every step of the loop and of the other threads is a step of Executor.
LEMMA StepWorks == TypeOK /\ BatchFinished /\ [Next]_vars => [Work!Next]_<<Queue, done>>
<1> SUFFICES ASSUME TypeOK, BatchFinished, [Next]_vars PROVE [Work!Next]_<<Queue, done>>
  OBVIOUS
<1> USE DEF TypeOK, BatchFinished
<1>1. ASSUME NEW t \in Threads, NEW f \in Functors, QueueInloop(t, f)
      PROVE  Work!Submit(f)
  <2>1. Queue' = Append(Queue, f)
    BY <1>1, ConcatAppend DEF QueueInloop, Queue
  <2> QED BY <1>1, <2>1 DEF QueueInloop, Work!Submit, Queue
<1>2. CASE Swap
  <2>1. functors = <<>> /\ <<>> \in Seq(Functors)
    BY <1>2 DEF Swap
  <2>2. Queue' = Queue
    BY <1>2, <2>1, ConcatEmptySeq DEF Swap, Queue
  <2> QED BY <1>2, <2>2 DEF Swap
<1>3. CASE Run
  <2> DEFINE f == Head(functors)
  <2>1. f \in Functors /\ Tail(functors) \in Seq(Functors) /\ functors # <<>>
    BY <1>3, HeadTailProperties DEF Run
  <2>2. Queue # <<>> /\ Head(Queue) = f /\ Tail(Queue) = Tail(functors) \o PendingFunctors
    BY <2>1, ConcatHeadTail DEF Queue
  <2>3. done' = Append(done, Head(Queue))
    BY <1>3, <2>2 DEF Run
  <2>4. CASE Then[f] = None
    <3>1. Queue' = Tail(Queue)
      BY <1>3, <2>2, <2>4 DEF Run, Queue
    <3> QED BY <2>2, <2>3, <2>4, <3>1 DEF Work!Next, Work!Execute, Queue
  <2>5. CASE Then[f] # None
    <3>1. Then[f] \in Functors
      BY <2>1, <2>5, LoopAssumption
    <3>2. Queue' = Tail(functors) \o Append(PendingFunctors, Then[f])
      BY <1>3, <2>5 DEF Run, Queue
    <3>3. Tail(functors) \o Append(PendingFunctors, Then[f])
             = Append(Tail(functors) \o PendingFunctors, Then[f])
      <4> HIDE DEF f
      <4> QED BY <2>1, <3>1, ConcatAppend
    <3>4. Queue' = Append(Tail(Queue), Then[f])
      BY <2>2, <3>2, <3>3
    <3> QED BY <2>2, <2>3, <2>5, <3>4 DEF Work!Next, Work!Execute, Queue
  <2> QED BY <2>4, <2>5
<1>4. ASSUME NEW t \in Threads, quit(t) \/ Wakeup(t) PROVE UNCHANGED <<Queue, done>>
  BY <1>4 DEF quit, Wakeup, Queue
<1>5. CASE Enter \/ Check \/ Poll \/ HandleRead \/ EndRun
  BY <1>5 DEF Enter, Check, Poll, HandleRead, EndRun, Queue
<1>6. CASE UNCHANGED vars
  BY <1>6 DEF vars, Queue
<1> QED BY <1>1, <1>2, <1>3, <1>4, <1>5, <1>6 DEF Next, Loop, Other, Work!Next

\* The event loop implements Executor: swapping the vector under the lock and
\* running the batch outside it keeps every functor, in order, to be run once
\* (EventLoop.cpp:67-75, 91-102).
THEOREM RunsInOrder == Spec => ImplementsExecutor
<1>1. Init => Work!Init
  BY DEF Init, Work!Init
<1>2. Inv /\ [Next]_vars => [Work!Next]_<<Queue, done>>
  BY StepWorks DEF Inv
<1> QED BY <1>1, <1>2, Invariance, PTL DEF Spec, ImplementsExecutor, Work!Spec, Queue

-----------------------------------------------------------------------------
(* The loop in its thread.                                                  *)

\* Every step of the thread, its owner and those who queue is a step of the loop
\* or leaves it alone.
LEMMA StepOfLoop == [ThreadNext]_allVars => [Next]_vars
<1> SUFFICES ASSUME [ThreadNext]_allVars PROVE [Next]_vars
  OBVIOUS
<1>1. CASE OwnerStep
  BY <1>1, ThreadAssumption DEF OwnerStep, start, AwaitLoop, QuitLoop, join, Next, Other
<1>2. CASE ThreadStep
  BY <1>2 DEF ThreadStep, Publish, RunLoop, Leave, EndLoop, Next
<1>3. CASE Spurious \/ Destroy
  BY <1>3 DEF Spurious, Destroy
<1>4. CASE Submit
  BY <1>4 DEF Submit, Next, Other
<1>5. ASSUME NEW t \in Threads, Wake(t)
      PROVE  [Next]_vars
  BY <1>5 DEF Wake, Next, Other
<1>6. CASE UNCHANGED allVars
  BY <1>6 DEF allVars
<1> QED BY <1>1, <1>2, <1>3, <1>4, <1>5, <1>6 DEF ThreadNext

\* The loop in its thread behaves as EventLoop says, so that every theorem about
\* EventLoop holds of it (EventLoopThread.cpp:28-41).
THEOREM ThreadRunsLoop == ThreadSpec => Spec
<1>1. ThreadInit => Init
  BY DEF ThreadInit
<1> QED BY <1>1, StepOfLoop, PTL DEF ThreadSpec, Spec

-----------------------------------------------------------------------------
\* Loop points to the loop while threadFunc runs it, which it has not begun before;
\* a thread that is through with it has left a loop that had stopped.
LoopInFrame ==
    /\ Loop_ <=> thread = "loop"
    /\ owner = "new" => thread = "none"
    /\ owner \in {"started", "quit"} => thread \in {"loop", "ending", "gone"}
    /\ thread \in {"none", "init"} => loop = "start"
    /\ thread \in {"ending", "gone"} => loop = "stopped"

\* A functor has called quit().
Told == Range(done) \cap Quitters # {}

\* Before the destructor has called quit, only a functor can have, and the process
\* does not end before the loop has stopped.
QuitIsAsked ==
    /\ loop = "stopped" => Quit
    /\ Quit => owner \in {"join", "gone"} \/ Told
    /\ process = "exit" => owner \in {"join", "gone"} \/ Told

\* The invariant of the thread around the loop.
ThreadInv == ThreadTypeOK /\ LoopInFrame /\ QuitIsAsked

\* The steps of the loop alone.
LEMMA LoopKeepsInv ==
    ASSUME TypeOK, ThreadInv, Loop, thread = "loop", UNCHANGED threadVars
    PROVE  ThreadInv'
<1>1. LoopInFrame' /\ ThreadTypeOK'
  BY DEF threadVars, ThreadInv, LoopInFrame, ThreadTypeOK
<1>2. QuitIsAsked'
  <2>1. CASE Run
    <3>1. /\ functors # <<>> /\ done' = Append(done, Head(functors))
          /\ Quit' = (Quit \/ Head(functors) \in Quitters)
          /\ loop' = loop
      BY <2>1 DEF Run
    <3>2. Range(done') = Range(done) \cup {Head(functors)}
      <4>1. Head(functors) \in Functors
        BY <3>1 DEF TypeOK
      <4>2. /\ DOMAIN done = 1..Len(done) /\ Len(done) \in Nat
            /\ DOMAIN done' = 1..Len(done) + 1
            /\ done'[Len(done) + 1] = Head(functors)
            /\ \A i \in 1..Len(done) : done'[i] = done[i]
        BY <3>1, <4>1 DEF TypeOK
      <4>3. 1..Len(done) + 1 = (1..Len(done)) \cup {Len(done) + 1}
        BY <4>2
      <4> QED BY <4>2, <4>3 DEF Range
    <3>3. Quit' => Quit \/ Head(functors) \in Quitters
      BY <3>1
    <3>4. loop # "stopped"
      BY <2>1 DEF Run
    <3>5. UNCHANGED owner
      BY DEF threadVars
    <3> QED BY <3>1, <3>2, <3>3, <3>4, <3>5 DEF ThreadInv, QuitIsAsked, Told, threadVars
  <2>2. CASE Enter
    BY <2>2 DEF Enter, threadVars, ThreadInv, QuitIsAsked, Told
  <2>3. CASE Check
    BY <2>3 DEF Check, threadVars, ThreadInv, QuitIsAsked, Told
  <2>4. CASE Poll \/ HandleRead \/ Swap \/ EndRun
    BY <2>4 DEF Poll, HandleRead, Swap, EndRun, threadVars, ThreadInv, QuitIsAsked, Told
  <2> QED BY <2>1, <2>2, <2>3, <2>4 DEF Loop
<1> QED BY <1>1, <1>2 DEF ThreadInv

\* Every step keeps it.
LEMMA ThreadStepInv == TypeOK /\ ThreadInv /\ [ThreadNext]_allVars => ThreadInv'
<1> SUFFICES ASSUME TypeOK, ThreadInv, [ThreadNext]_allVars PROVE ThreadInv'
  OBVIOUS
<1> USE DEF ThreadInv, ThreadTypeOK, LoopInFrame, QuitIsAsked, Told
<1>1. CASE start
  BY <1>1 DEF start, vars
<1>2. CASE AwaitLoop
  <2>1. thread = "loop" => owner' = "started"
    BY <1>2 DEF AwaitLoop
  <2>2. thread # "loop" => owner' = "wait"
    BY <1>2 DEF AwaitLoop
  <2>3. /\ owner = "check"
        /\ UNCHANGED <<vars, thread, Loop_, process, early>>
    BY <1>2 DEF AwaitLoop
  <2> QED BY <2>1, <2>2, <2>3 DEF vars
<1>10. CASE Destroy
  <2>1. owner' \in {"quit", "gone"}
    BY <1>10 DEF Destroy
  <2>2. /\ owner = "started"
        /\ UNCHANGED <<vars, thread, Loop_, process, early>>
    BY <1>10 DEF Destroy
  <2> QED BY <2>1, <2>2 DEF vars
<1>11. CASE Spurious \/ join
  BY <1>11 DEF Spurious, join, vars
<1>3. CASE QuitLoop
  BY <1>3 DEF QuitLoop, quit, vars
<1>4. CASE Publish
  BY <1>4 DEF Publish, vars
<1>5. CASE RunLoop
  <2> USE <1>5 DEF RunLoop
  <2> QED BY LoopKeepsInv
<1>6. CASE Leave
  BY <1>6 DEF Leave, vars
<1>12. CASE EndLoop
  BY <1>12 DEF EndLoop, vars
<1>7. CASE Submit
  BY <1>7 DEF Submit, QueueInloop, vars
<1>8. ASSUME NEW t \in Threads, Wake(t)
      PROVE  ThreadInv'
  BY <1>8 DEF Wake, Wakeup, threadVars, vars
<1>9. CASE UNCHANGED allVars
  BY <1>9 DEF allVars, vars, threadVars
<1> QED BY <1>1, <1>2, <1>3, <1>4, <1>5, <1>6, <1>7, <1>8, <1>9, <1>10, <1>11, <1>12
        DEF ThreadNext, OwnerStep, ThreadStep

\* It holds throughout.
LEMMA ThreadInvariance == ThreadSpec => []ThreadInv
<1>1. ThreadInit => ThreadInv
  BY DEF ThreadInit, Init, ThreadInv, ThreadTypeOK, LoopInFrame, QuitIsAsked, Told
<1> QED BY <1>1, ThreadStepInv, ThreadRunsLoop, TypeCorrect, PTL DEF ThreadSpec

\* For any threads and functors, and whichever way the end of a loop goes, the
\* pointer that StartLoop handed out is good for every caller until the destructor
\* has asked the loop to quit or a functor has (EventLoopThread.cpp:9-12, 35-41,
\* EventLoop.cpp:51-56, 67-84).
THEOREM PointerIsGood == ThreadSpec => []EndsOnlyOnceTold
<1>1. ThreadInv => EndsOnlyOnceTold
  BY DEF ThreadInv, QuitIsAsked, Told, EndsOnlyOnceTold
<1> QED BY <1>1, ThreadInvariance, PTL
=============================================================================
