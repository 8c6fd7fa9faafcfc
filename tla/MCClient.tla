------------------------------ MODULE MCClient ------------------------------
EXTENDS Client

\* A price within the caller's ceiling, at it, and over it.
MCSendMaxes == {1, 2, 3}
=============================================================================
