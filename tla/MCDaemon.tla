------------------------------ MODULE MCDaemon ------------------------------
(* Instance of Daemon for TLC.                                              *)
EXTENDS Daemon

CONSTANTS r1, m1, m2, c1, c2

(* Half a second, which the registry stores as none, and two seconds.       *)
MCDurations == {1, 4}

(* Less than three times two seconds.                                       *)
MCMaxBackoff == 10
=============================================================================
