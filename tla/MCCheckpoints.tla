--------------------------- MODULE MCCheckpoints ---------------------------
EXTENDS Checkpoints, TLC

CONSTANTS p1, p2, c1

FileSymmetry == Permutations(Paths)
=============================================================================
