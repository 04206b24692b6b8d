------------------------------ MODULE MCEndToEnd ------------------------------
EXTENDS EndToEnd, TLC
CONSTANTS i1, p1, n1
=============================================================================
