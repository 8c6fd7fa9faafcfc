------------------------------- MODULE MCKeys -------------------------------
EXTENDS Keys

Symmetry == {[a \in Accounts |-> IF a = b THEN c ELSE IF a = c THEN b ELSE a] : b, c \in Accounts}
=============================================================================
