----------------------------- MODULE MCChatService -----------------------------
(* Values for the constants of ChatService in the runs of TLC.              *)
EXTENDS ChatService, TLC

CONSTANTS s1, s2, c1, c2, c3, u1, u2, m1

\* All connections on one server.
OneServer == [c \in Conns |-> s1]

\* c1 on one server, the others on a second one.
TwoServers == [c \in Conns |-> IF c = c1 THEN s1 ELSE s2]

\* Interchangeable connections (when on one server), users and messages.
OneServerSymmetry == Permutations(Conns) \cup Permutations(Users) \cup Permutations(Msgs)

TwoServersSymmetry == Permutations(Users) \cup Permutations(Conns \ {c1})
=============================================================================
