-------------------------------- MODULE MCClient -------------------------------
\* A client process of which two people make use in turn.
EXTENDS Client

CONSTANTS u1, u2
=============================================================================
