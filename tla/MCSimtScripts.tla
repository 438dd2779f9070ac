---------------------------- MODULE MCSimtScripts ----------------------------
EXTENDS SimtScripts, TLC

CONSTANTS p, q

MCProcs == {p, q}
MCCounts == {2, 3}
MCWarmups == {0, 2}

Symmetric == Permutations(MCProcs)
=============================================================================
