---------------------------- MODULE MCFwdClient ----------------------------
EXTENDS FwdClient, TLC
CONSTANTS f1, f2, l1, l2
HomeTwo == f1 :> l1 @@ f2 :> l2
=============================================================================
