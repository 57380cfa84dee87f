---------------------------- MODULE MCBatchPool ----------------------------
(* Instances of BatchPool for TLC: a hydrator worker, a reader of symlinks,  *)
(* a small blob, a large one and one that git does not have.               *)
EXTENDS BatchPool, TLC

CONSTANTS w1, r1, q1, q2, small, large, gone

MCWanted == (w1 :> {large, gone}) @@ (r1 :> {small, large})
=============================================================================
