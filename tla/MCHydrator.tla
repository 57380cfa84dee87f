----------------------------- MODULE MCHydrator -----------------------------
(* Instances of Hydrator for TLC: readers r1 and r2 (one blob, its size     *)
(* known to r1 only), reader r3 (another blob), symlink reader s1, prefetch *)
(* p1 of the first blob and p2 of the second.                               *)
EXTENDS Hydrator, TLC

CONSTANTS r1, r2, r3, s1, p1, p2, b1, b2, w1, w2

MCOidOf == [t \in Tasks |-> IF t \in {r3, p2} THEN b2 ELSE b1]

MCPrefetchPri == [p \in Prefetches |-> IF p = p1 THEN 500 ELSE 100]

MCWorkerSymmetry == Permutations(Workers)
=============================================================================
