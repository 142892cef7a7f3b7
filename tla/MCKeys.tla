------------------------------- MODULE MCKeys -------------------------------
EXTENDS Keys, TLC

CONSTANTS b1, h1, c1, c2, p1, p2

MCKeys == {b1, h1}
MCByok == {b1}
MCConfigs == {c1}
MCTwoConfigs == {c1, c2}
MCProcs == {p1, p2}
MCOneProc == {p1}
Sym == Permutations(MCProcs)
=============================================================================
