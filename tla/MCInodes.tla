------------------------------ MODULE MCInodes ------------------------------
(* Instances of Inodes for TLC: two names and two open files.                *)
EXTENDS Inodes, TLC

CONSTANTS a, b, f1, f2

MCSymmetry == Permutations(Names) \cup Permutations(Opens)
=============================================================================
