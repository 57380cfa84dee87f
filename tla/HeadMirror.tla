----------------------------- MODULE HeadMirror -----------------------------
(***************************************************************************)
(* What a mount promises of HEAD, however late it notices that HEAD moved: *)
(* it shows the whole tree of one commit, or none; and what it newly shows *)
(* is a commit that HEAD was at after the mount last showed something new. *)
(* So it may lag behind, but never goes back to what HEAD had left before. *)
(***************************************************************************)
CONSTANTS Commits, None

VARIABLES
    head,   \* the commit of HEAD
    taken,  \* the commit that is being prepared
    shown   \* the commit whose tree is mounted

mirrorVars == <<head, taken, shown>>

Init ==
    /\ head \in Commits
    /\ taken = None
    /\ shown = None

(* git moves HEAD.                                                          *)
Move ==
    /\ head' \in Commits
    /\ UNCHANGED <<taken, shown>>

Take ==
    /\ taken' = head
    /\ UNCHANGED <<head, shown>>

(* One commit is taken for each that is shown.                              *)
Show ==
    /\ taken # None
    /\ shown' = taken
    /\ taken' = None
    /\ UNCHANGED head

(* Nothing new after all, or an error.                                      *)
GiveUp ==
    /\ taken' = None
    /\ UNCHANGED <<head, shown>>

(* The daemon dies, or somebody deletes the tree.                           *)
Lose ==
    /\ shown' = None
    /\ taken' \in {taken, None}
    /\ UNCHANGED head

Next == Move \/ Take \/ Show \/ GiveUp \/ Lose

Spec == Init /\ [][Next]_mirrorVars
=============================================================================
