---------------------------- MODULE MCUsersOutbox ----------------------------
EXTENDS UsersOutbox, TLC
CONSTANTS t1, t2
Symmetry == Permutations(Tickers)
=============================================================================
