---------------------------- MODULE MCConnectionpool ----------------------------
(* Values for the constants of Connectionpool in the runs of TLC.           *)
EXTENDS Connectionpool, TLC

CONSTANTS t1, t2, t3, o1, o2, o3, o4

PoolSymmetry == Permutations(Threads) \cup Permutations(Objects)
=============================================================================
