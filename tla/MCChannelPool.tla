--------------------------- MODULE MCChannelPool ---------------------------
EXTENDS ChannelPool, TLC

QuoteSymmetry == Permutations(Quote)
=============================================================================
