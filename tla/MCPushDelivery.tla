---------------------------- MODULE MCPushDelivery ----------------------------
EXTENDS PushDelivery, TLC
CONSTANTS h1, h2, t1, t2
Symmetry == Permutations(Handlers) \cup Permutations(Tickers)
=============================================================================
