------------------------------- MODULE ByteQueue -------------------------------
(****************************************************************************)
(* What webserver/Buffer promises to its users: bytes come out in the order *)
(* they were put in, none lost, none repeated, none invented.               *)
(****************************************************************************)
EXTENDS Integers, Sequences

CONSTANTS Bytes

VARIABLES
    bytes,  \* the readable bytes
    given,  \* what the last operation was given by the caller or by the kernel
    taken   \* what the last operation handed to the caller or to the kernel

Init == bytes = <<>> /\ given = <<>> /\ taken = <<>>

Put ==
    /\ given' \in Seq(Bytes)
    /\ bytes' = bytes \o given'
    /\ taken' = <<>>

Get(n) ==
    /\ taken' = SubSeq(bytes, 1, n)
    /\ bytes' = SubSeq(bytes, n + 1, Len(bytes))
    /\ given' = <<>>

Next == Put \/ \E n \in 0..Len(bytes) : Get(n)

Spec == Init /\ [][Next]_<<bytes, given, taken>>
=============================================================================
