------------------------------ MODULE MCOverlay ------------------------------
(* Instances of Overlay for TLC: file f, which the first commit has, the    *)
(* free name g, which plays f.tmp where there is one, and a directory d     *)
(* with the file x.                                                         *)
EXTENDS Overlay

CONSTANTS f, g, d, x, tmp

(* Copies run one at a time, and leave nothing another one would read.      *)
MCTmpOf == [p \in Paths \ DirPaths |-> IF p = f /\ g \in Paths THEN g ELSE tmp]

MCParent == [p \in Paths |-> IF p = x THEN d ELSE Root]

MCRank ==
    [p \in Paths |-> CASE p = d -> 1 [] p = x -> 2 [] p = f -> 3 [] p = g -> 4]

MCInitTree ==
    [p \in Paths |->
        CASE p = f -> File({0})
          [] p = d -> Directory
          [] p = x -> File({90})
          [] OTHER -> Nothing]

(* Another commit changes f, adds g and drops the directory.                *)
MCOtherTree ==
    [p \in Paths |->
        CASE p = f -> File({0, 91})
          [] p = g -> File({92})
          [] OTHER -> Nothing]

MCNoTrees == {}

MCOtherTrees == {MCOtherTree}
=============================================================================
