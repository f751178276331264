------------------------------ MODULE MCLoopThread ------------------------------
(* Values for the constants of LoopThread in the runs of TLC.               *)
EXTENDS LoopThread

CONSTANTS t1, t2, f1, f2, f3, f4

\* f1 queues f4, as sendInLoop queues the callback of a completed write.
Follow == [f \in Functors |-> IF f = f1 THEN f4 ELSE None]
=============================================================================
