------------------------------- MODULE Executor --------------------------------
(****************************************************************************)
(* What an event loop promises to whoever gives it work: functors are run   *)
(* one at a time, each exactly once, in the order they were queued, and a   *)
(* functor may queue another one while it runs.                             *)
(****************************************************************************)
EXTENDS Sequences

CONSTANTS Functors, Then, None

VARIABLES
    queue,  \* functors queued and not yet run
    done    \* functors run, in order

Init == queue = <<>> /\ done = <<>>

Submit(f) ==
    /\ queue' = Append(queue, f)
    /\ UNCHANGED done

Execute ==
    LET f == Head(queue) IN
    /\ queue # <<>>
    /\ done' = Append(done, f)
    /\ queue' = IF Then[f] = None THEN Tail(queue) ELSE Append(Tail(queue), Then[f])

Next == Execute \/ \E f \in Functors : Submit(f)

Spec == Init /\ [][Next]_<<queue, done>>
=============================================================================
