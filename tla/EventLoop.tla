------------------------------- MODULE EventLoop -------------------------------
(****************************************************************************)
(* One event loop, webserver/EventLoop.cpp: the thread that polls and runs  *)
(* the pending functors, and the other threads that queue functors or ask   *)
(* it to quit, waking it through an eventfd.                                *)
(*                                                                          *)
(* Reported says whether poll() reports the wakeup channel.  At this commit *)
(* it does not: Poller::UpdateChannel leaves ChannelMap as it is, poll()    *)
(* finds no channel, HandleRead is never called and the eventfd, once       *)
(* written, stays readable.  With a Poller that keeps its map it is TRUE.   *)
(* The theorems hold for both; the run that checks liveness takes TRUE.     *)
(****************************************************************************)
EXTENDS Integers, Sequences, Functions

CONSTANTS
    Threads,        \* threads other than the loop's own
    Functors,       \* functors, each queued at most once
    Then,           \* Then[f]: the functor that f queues on this loop, or None
    Quitters,       \* functors that call quit()
    None,
    Reported,       \* poll() reports the wakeup channel
    MaxQuits        \* bound: calls of quit() by other threads

ASSUME LoopAssumption ==
    /\ None \notin Functors
    /\ Then \in [Functors -> Functors \cup {None}]
    /\ Quitters \in SUBSET Functors
    /\ Reported \in BOOLEAN
    /\ MaxQuits \in Nat

VARIABLES
    PendingFunctors,
    functors,       \* what is left of the batch DoPendingFunctors swapped out
    WakeupFd,       \* the counter of the eventfd
    Quit,
    loop,           \* where the loop's thread is
    pc,             \* pc[t]: "wakeup" between the two halves of QueueInloop or quit
    quits,          \* calls of quit() by other threads so far
    done            \* history: functors run, in order

vars == <<PendingFunctors, functors, WakeupFd, Quit, loop, pc, quits, done>>

TypeOK ==
    /\ PendingFunctors \in Seq(Functors)
    /\ functors \in Seq(Functors)
    /\ WakeupFd \in Nat
    /\ Quit \in BOOLEAN
    /\ loop \in {"start", "check", "poll", "read", "swap", "run", "stopped"}
    /\ pc \in [Threads -> {"idle", "wakeup"}]
    /\ quits \in 0..MaxQuits
    /\ done \in Seq(Functors)

\* The constructor has returned, loop() has not been called yet.
Init ==
    /\ PendingFunctors = <<>>
    /\ functors = <<>>
    /\ WakeupFd = 0
    /\ Quit = FALSE
    /\ loop = "start"
    /\ pc = [t \in Threads |-> "idle"]
    /\ quits = 0
    /\ done = <<>>

Fresh(f) == f \notin Range(PendingFunctors) \cup Range(functors) \cup Range(done)

-----------------------------------------------------------------------------
(* Other threads.                                                           *)

\* Mutant: the loop is woken only while it runs functors.
QueueSilently(t, f) ==
    /\ pc[t] = "idle"
    /\ Fresh(f) /\ \A g \in Functors : Then[g] # f
    /\ PendingFunctors' = Append(PendingFunctors, f)
    /\ pc' = [pc EXCEPT ![t] = IF loop = "run" THEN "wakeup" ELSE "idle"]
    /\ UNCHANGED <<functors, WakeupFd, Quit, loop, quits, done>>

\* RunInloop and QueueInloop called from another thread: the functor is pushed
\* under Mutex, then the loop is woken.
QueueInloop(t, f) ==
    /\ pc[t] = "idle"
    /\ Fresh(f) /\ \A g \in Functors : Then[g] # f
    /\ PendingFunctors' = Append(PendingFunctors, f)
    /\ pc' = [pc EXCEPT ![t] = "wakeup"]
    /\ UNCHANGED <<functors, WakeupFd, Quit, loop, quits, done>>

quit(t) ==
    /\ pc[t] = "idle"
    /\ quits < MaxQuits
    /\ quits' = quits + 1
    /\ Quit' = TRUE
    /\ pc' = [pc EXCEPT ![t] = "wakeup"]
    /\ UNCHANGED <<PendingFunctors, functors, WakeupFd, loop, done>>

Wakeup(t) ==
    /\ pc[t] = "wakeup"
    /\ WakeupFd' = WakeupFd + 1
    /\ pc' = [pc EXCEPT ![t] = "idle"]
    /\ UNCHANGED <<PendingFunctors, functors, Quit, loop, quits, done>>

-----------------------------------------------------------------------------
(* The loop's own thread.                                                   *)

\* loop() begins: Quit is cleared, whoever may have set it.
Enter ==
    /\ loop = "start"
    /\ Quit' = FALSE
    /\ loop' = "check"
    /\ UNCHANGED <<PendingFunctors, functors, WakeupFd, pc, quits, done>>

\* while (!Quit)
Check ==
    /\ loop = "check"
    /\ loop' = IF Quit THEN "stopped" ELSE "poll"
    /\ UNCHANGED <<PendingFunctors, functors, WakeupFd, Quit, pc, quits, done>>

\* epoll_wait returns because the eventfd is readable or because TIMEOUT has
\* passed.
Poll ==
    /\ loop = "poll"
    /\ loop' = IF Reported /\ WakeupFd > 0 THEN "read" ELSE "swap"
    /\ UNCHANGED <<PendingFunctors, functors, WakeupFd, Quit, pc, quits, done>>

\* The callback of the wakeup channel: a read of an eventfd empties its counter,
\* whatever was added since epoll_wait returned.
HandleRead ==
    /\ loop = "read"
    /\ WakeupFd' = 0
    /\ loop' = "swap"
    /\ UNCHANGED <<PendingFunctors, functors, Quit, pc, quits, done>>

\* Mutant: the vector is copied, not swapped.
SwapCopies ==
    /\ loop = "swap"
    /\ functors' = PendingFunctors
    /\ loop' = "run"
    /\ UNCHANGED <<PendingFunctors, WakeupFd, Quit, pc, quits, done>>

\* Mutant: one functor per round is taken and the vector cleared all the same.
SwapFirst ==
    /\ loop = "swap"
    /\ functors' = IF PendingFunctors = <<>> THEN <<>> ELSE <<Head(PendingFunctors)>>
    /\ PendingFunctors' = <<>>
    /\ loop' = "run"
    /\ UNCHANGED <<WakeupFd, Quit, pc, quits, done>>

\* DoPendingFunctors takes the whole vector under Mutex.
Swap ==
    /\ loop = "swap"
    /\ functors' = PendingFunctors
    /\ PendingFunctors' = <<>>
    /\ loop' = "run"
    /\ UNCHANGED <<WakeupFd, Quit, pc, quits, done>>

\* The next functor of the batch.  QueueInloop on the loop's own thread wakes
\* the loop because CallingPendingFunctors is set: its functor has missed the
\* batch.  quit() on the loop's own thread does not wake it.
Run ==
    /\ loop = "run"
    /\ functors # <<>>
    /\ LET f == Head(functors) IN
       /\ done' = Append(done, f)
       /\ Quit' = (Quit \/ f \in Quitters)
       /\ \/ /\ Then[f] # None
             /\ PendingFunctors' = Append(PendingFunctors, Then[f])
             /\ WakeupFd' = WakeupFd + 1
          \/ /\ Then[f] = None
             /\ UNCHANGED <<PendingFunctors, WakeupFd>>
    /\ functors' = Tail(functors)
    /\ UNCHANGED <<loop, pc, quits>>

EndRun ==
    /\ loop = "run"
    /\ functors = <<>>
    /\ loop' = "check"
    /\ UNCHANGED <<PendingFunctors, functors, WakeupFd, Quit, pc, quits, done>>

-----------------------------------------------------------------------------
Loop == Enter \/ Check \/ Poll \/ HandleRead \/ Swap \/ Run \/ EndRun

Other(t) == quit(t) \/ Wakeup(t) \/ \E f \in Functors : QueueInloop(t, f)

Next == Loop \/ \E t \in Threads : Other(t)

Spec == Init /\ [][Next]_vars

\* The thread of the loop runs, epoll_wait returns after TIMEOUT at the latest,
\* and a thread inside QueueInloop or quit gets on with it.
Fairness == WF_vars(Loop) /\ \A t \in Threads : WF_vars(Wakeup(t))

FairSpec == Spec /\ Fairness

-----------------------------------------------------------------------------
(* Properties.                                                              *)

Waking == \E t \in Threads : pc[t] = "wakeup"

\* The loop never sits in epoll_wait, with nothing to end the wait but TIMEOUT,
\* while a functor or a request to quit is waiting for it, unless the thread that
\* brought it is just about to write the eventfd (EventLoop.cpp:53-55, 72-74).
NoSleepOnWork ==
    loop = "poll" /\ WakeupFd = 0 /\ ~ Waking => PendingFunctors = <<>> /\ ~ Quit

\* Swapping the vector, running the batch without the lock and queueing from
\* inside a functor amount to a queue served in order (EventLoop.cpp:67-75, 91-102).
Work == INSTANCE Executor WITH queue <- functors \o PendingFunctors

ImplementsExecutor == Work!Spec

\* What is queued is run, unless the loop ends (EventLoop.cpp:40-47, 91-102).
QueuedIsRun ==
    \A f \in Functors :
        f \in Range(PendingFunctors) ~> f \in Range(done) \/ loop = "stopped"
=============================================================================
