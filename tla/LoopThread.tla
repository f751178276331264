------------------------------- MODULE LoopThread -------------------------------
(****************************************************************************)
(* An I/O thread and its loop: EventLoopThread and Thread.  threadFunc has  *)
(* the EventLoop in its frame, publishes a pointer to it and runs it; the   *)
(* owner waits in StartLoop for the pointer, which every other thread uses  *)
(* from then on, and which nobody takes from them when the loop goes; the   *)
(* destructor asks the loop to quit and joins.  The steps of the loop, and  *)
(* of those who queue functors, are those of EventLoop.                     *)
(*                                                                          *)
(* Modifies is what it is in TcpServer: FALSE at this commit, where the     *)
(* destructor of EventLoop ends the process by changing its channel's mask. *)
(****************************************************************************)
EXTENDS EventLoop

CONSTANTS
    Owner,          \* the thread that has the EventLoopThread
    Modifies        \* UpdateChannel modifies a descriptor already registered

ASSUME ThreadAssumption == Owner \in Threads /\ Modifies \in BOOLEAN

VARIABLES
    owner,          \* where the owner is in StartLoop or in the destructor
    thread,         \* where threadFunc is
    Loop_,          \* Loop is not NULL
    process,        \* "running" or "exit"
    early           \* history: the destructor's quit came before loop()

threadVars == <<owner, thread, Loop_, process, early>>
allVars == <<vars, threadVars>>

ThreadTypeOK ==
    /\ owner \in {"new", "check", "wait", "started", "quit", "join", "gone"}
    /\ thread \in {"none", "init", "loop", "ending", "gone"}
    /\ Loop_ \in BOOLEAN
    /\ process \in {"running", "exit"}
    /\ early \in BOOLEAN

ThreadInit ==
    /\ Init
    /\ owner = "new" /\ thread = "none"
    /\ Loop_ = FALSE
    /\ process = "running"
    /\ early = FALSE

-----------------------------------------------------------------------------
(* The owner: StartLoop.                                                    *)

\* Thread::start returns when the new thread has posted its semaphore.
start ==
    /\ owner = "new"
    /\ owner' = "check" /\ thread' = "init"
    /\ UNCHANGED <<vars, Loop_, process, early>>

\* The loop around Cond.wait, which releases Mutex as it goes to sleep.
AwaitLoop ==
    /\ owner = "check"
    /\ owner' = IF Loop_ THEN "started" ELSE "wait"
    /\ UNCHANGED <<vars, thread, Loop_, process, early>>

Spurious ==
    /\ owner = "wait"
    /\ owner' = "check"
    /\ UNCHANGED <<vars, thread, Loop_, process, early>>

-----------------------------------------------------------------------------
(* threadFunc.                                                              *)

\* Mutant: the owner is not notified.
PublishSilently ==
    /\ thread = "init"
    /\ thread' = "loop" /\ Loop_' = TRUE
    /\ UNCHANGED <<vars, owner, process, early>>

\* The EventLoop is made; Loop is set and the owner notified under Mutex.
Publish ==
    /\ thread = "init"
    /\ thread' = "loop" /\ Loop_' = TRUE
    /\ owner' = IF owner = "wait" THEN "check" ELSE owner
    /\ UNCHANGED <<vars, process, early>>

RunLoop ==
    /\ thread = "loop"
    /\ Loop
    /\ UNCHANGED threadVars

\* Mutant: the loop is left after any round.
LeaveEarly ==
    /\ thread = "loop" /\ loop \in {"check", "stopped"}
    /\ thread' = "ending" /\ Loop_' = FALSE
    /\ UNCHANGED <<vars, owner, process, early>>

\* loop() has returned: Loop is set to NULL under Mutex,
Leave ==
    /\ thread = "loop" /\ loop = "stopped"
    /\ thread' = "ending" /\ Loop_' = FALSE
    /\ UNCHANGED <<vars, owner, process, early>>

\* and ~EventLoop takes the channel off the epoll set and closes the eventfd.
EndLoop ==
    /\ thread = "ending"
    /\ thread' = "gone"
    /\ process' = IF Modifies THEN process ELSE "exit"
    /\ UNCHANGED <<vars, owner, Loop_, early>>

-----------------------------------------------------------------------------
(* Those who have the pointer.                                              *)

\* Nothing keeps them from using it while the destructor runs and after it.  When
\* the loop is gone, its vector and its Mutex are memory that is no longer theirs:
\* the process ends, or nothing comes of it but a functor that nobody runs.
Submit ==
    /\ owner \notin {"new", "check", "wait"}
    /\ \E t \in Threads, f \in Functors :
           /\ t = Owner => owner \in {"started", "gone"}
           /\ \/ QueueInloop(t, f) /\ UNCHANGED process
              \/ /\ thread = "gone" /\ pc[t] = "idle"
                 /\ process' = "exit"
                 /\ UNCHANGED vars
    /\ UNCHANGED <<owner, thread, Loop_, early>>

\* The second half of QueueInloop or quit.  When the loop is gone by then, the
\* write to a closed descriptor fails, which ends the process, or it finds some
\* other descriptor behind the number.
Wake(t) ==
    \/ /\ Wakeup(t)
       /\ UNCHANGED threadVars
    \/ /\ thread = "gone" /\ pc[t] = "wakeup"
       /\ process' = "exit"
       /\ UNCHANGED <<vars, owner, thread, Loop_, early>>

-----------------------------------------------------------------------------
(* The owner: the destructor.                                               *)

\* Loop is read without Mutex; with NULL the thread, which has ended its loop, is
\* detached by ~Thread.
Destroy ==
    /\ owner = "started" /\ pc[Owner] = "idle"
    /\ owner' = IF Loop_ THEN "quit" ELSE "gone"
    /\ UNCHANGED <<vars, thread, Loop_, process, early>>

\* Mutant: the thread is joined and nobody has told it to end.
JoinWithoutQuit ==
    /\ owner = "quit"
    /\ owner' = "join"
    /\ UNCHANGED <<vars, thread, Loop_, process, early>>

\* The first half of quit.  Loop may be NULL since it was looked at, which ends the
\* process unless the build has kept the pointer; quit then writes to what is left
\* of the loop.
QuitLoop ==
    /\ owner = "quit"
    /\ owner' = "join"
    /\ \/ /\ quit(Owner)
          /\ early' = (loop = "start")
          /\ UNCHANGED process
       \/ /\ ~ Loop_
          /\ process' = "exit"
          /\ UNCHANGED <<vars, early>>
    /\ UNCHANGED <<thread, Loop_>>

join ==
    /\ owner = "join" /\ pc[Owner] = "idle"
    /\ thread = "gone"
    /\ owner' = "gone"
    /\ UNCHANGED <<vars, thread, Loop_, process, early>>

-----------------------------------------------------------------------------
OwnerStep == start \/ AwaitLoop \/ QuitLoop \/ join

ThreadStep == Publish \/ RunLoop \/ Leave \/ EndLoop

ThreadNext ==
    /\ process = "running"
    /\ \/ OwnerStep \/ ThreadStep
       \/ Spurious \/ Submit \/ Destroy
       \/ \E t \in Threads : Wake(t)

ThreadSpec == ThreadInit /\ [][ThreadNext]_allVars

\* The owner gets on with what it has begun, the new thread runs, and so does
\* whoever is waking the loop; nobody is obliged to destroy the object.
Runs(A) == process = "running" /\ A

ThreadFairness ==
    /\ WF_allVars(Runs(OwnerStep))
    /\ WF_allVars(Runs(ThreadStep))
    /\ \A t \in Threads : WF_allVars(Runs(Wake(t)))

ThreadFairSpec == ThreadSpec /\ ThreadFairness

-----------------------------------------------------------------------------
(* Properties.                                                              *)

\* StartLoop returns: the pointer is set either before it looks or after it has
\* gone to sleep on Cond (EventLoopThread.cpp:20-23, 33-37).
StartLoopReturns == owner = "check" ~> owner = "started"

\* The destructor comes back from join, whether the loop polls, swaps or runs
\* functors when it is told to quit, or had already been; unless the quit came
\* before loop(), which forgets it, or the eventfd was closed before the quit, or
\* a QueueInloop, had written it (EventLoopThread.cpp:7-13, EventLoop.cpp:37-56).
DestructorReturns == owner = "quit" ~> owner = "gone" \/ early \/ process = "exit"

\* The pointer that StartLoop handed out is good until the destructor has asked the
\* loop to quit: nobody's call on it, and not the end of the loop, ends the process
\* before, unless a functor has made the loop quit behind its owner's back
\* (EventLoopThread.cpp:9-12, 35-41, EventLoop.cpp:51-56, 67-84).
EndsOnlyOnceTold ==
    process = "exit" => owner \in {"join", "gone"} \/ Range(done) \cap Quitters # {}
=============================================================================
