------------------------------ MODULE MCTcpServer ------------------------------
(* Instances of TcpServer: a base loop and two I/O loops, served in turn.    *)
EXTENDS TcpServer
CONSTANTS u1, u2, l1, l2
TwoLoops == <<l1, l2>>
=============================================================================
