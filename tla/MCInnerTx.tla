----------------------------- MODULE MCInnerTx -----------------------------
EXTENDS InnerTx

\* The base fee doubles or halves, and the market moves either way, between the
\* calls; a price of 1/3 or 2/3 rounds, 4/3 makes the token the cheaper side.
MCBaseFees == {1, 2}

\* Two routes: either may be the cheaper one, rise while the other falls, or be
\* the only one; and there may be none.
MCRoute == {"direct", "hop"}
Market(direct, hop) == [way \in MCRoute |-> IF way = "direct" THEN direct ELSE hop]
MCMarkets == {Market(1, 2), Market(4, 2), Market(2, 1), Market(Gone, 1), Market(Gone, Gone)}

\* Broke, enough for some transactions, enough for all.
MCFloats == {0, 20, 80}
=============================================================================
