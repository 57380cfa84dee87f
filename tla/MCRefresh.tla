----------------------------- MODULE MCRefresh -----------------------------
(* Instances of Refresh for TLC: two commits and one branch.  HEAD can be   *)
(* detached from it and come back, so every way of following it is there.   *)
EXTENDS Refresh

CONSTANTS c1, c2, main
=============================================================================
