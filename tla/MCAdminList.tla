----------------------------- MODULE MCAdminList -----------------------------
EXTENDS AdminList, TLC
=============================================================================
