--------------------------- MODULE MCSponsorFloat ---------------------------
EXTENDS SponsorFloat, TLC

Alike == Permutations(Quote) \cup Permutations(Submit)
=============================================================================
