----------------------------- MODULE MCRetryQueue -----------------------------
EXTENDS RetryQueue, TLC
CONSTANTS n1, n2, n3
Symmetry == Permutations(Rows)
=============================================================================
