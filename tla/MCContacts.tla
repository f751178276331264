------------------------------- MODULE MCContacts -------------------------------
(* Two I/O threads over a pool of two connections. *)
EXTENDS Contacts

CONSTANTS t1, t2, k1, k2
=============================================================================
