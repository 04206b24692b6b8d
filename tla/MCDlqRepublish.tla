---------------------------- MODULE MCDlqRepublish ----------------------------
EXTENDS DlqRepublish
CONSTANTS m1, m2, r1, r2
=============================================================================
