-------------------------- MODULE MCConsumerShutdown --------------------------
EXTENDS ConsumerShutdown, TLC
CONSTANTS m1, m2, r1, r2
=============================================================================
