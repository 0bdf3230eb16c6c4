--------------------------- MODULE MCOfflineSync ---------------------------
(* OfflineSync under TLC: the configurations give the sales, the posts and *)
(* the faults.                                                             *)
EXTENDS OfflineSync
=============================================================================
