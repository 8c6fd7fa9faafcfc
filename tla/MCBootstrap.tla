---------------------------- MODULE MCBootstrap ----------------------------
EXTENDS Bootstrap, TLC

RequestSymmetry == Permutations(Quote) \cup Permutations(Submit)
=============================================================================
