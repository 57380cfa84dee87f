---------------------------- MODULE DaemonProofs ----------------------------
(***************************************************************************)
(* Theorems about Daemon, for any repositories, remotes, intervals,        *)
(* commands and faults.                                                    *)
(***************************************************************************)
EXTENDS Daemon, SequenceTheorems, TLAPS

Mounting == {"prepare", "mount", "start"}

(* What the daemon's local variables hold by where it is in syncRepos.      *)
LoopInv ==
    /\ IF pc \in Mounting THEN repo \in todo /\ running[repo] = None ELSE repo = None
    /\ pc \in {"mount", "start"} => clone[repo] # None
    /\ mfs => pc = "start"
    /\ pc \in Mounting \cup {"visit"} => \A r \in todo : listed[r] # None
    /\ pc \in {"stop", "close"} => \A r \in todo : running[r] # None
    /\ pc = "close" => \A r \in Repos : running[r] # None => r \in todo
    /\ pc = "first" => todo = {} /\ \A r \in Repos : running[r] = None
    /\ pc = "down" => todo = {}

(* What a command holds by where it is.                                     *)
CommandInv ==
    \A c \in Clis : cmd[c] # None =>
        LET x == cmd[c]
        IN  /\ x.op \in {"add", "set"} => x.d \in Durations
            /\ x.op = "add" =>
                  x.remote \in Remotes /\ x.at \in {"begin", "clone", "rename"}
            /\ x.op # "add" => x.at \in {"begin", "got", "mounted"}
            /\ x.at = "got" => x.row # None
            /\ x.at = "mounted" => x.op = "remount" /\ x.repo \in upset

Inv == TypeOK /\ LoopInv /\ CommandInv

-----------------------------------------------------------------------------
(* What happens to the mounts keeps their type.                             *)
LEMMA PoppedTyped ==
    ASSUME FilesTyped, NEW r \in Repos, mounts[r] # <<>>
    PROVE  Popped(r) \in [Repos -> Seq(Servers)]
<1>1. mounts[r] \in Seq(Servers)
  BY DEF FilesTyped
<1>2. Len(mounts[r]) \in Nat /\ Len(mounts[r]) >= 1
  BY <1>1, EmptySeq, LenProperties
<1>3. SubSeq(mounts[r], 1, Len(mounts[r]) - 1) \in Seq(Servers)
  BY <1>1, <1>2, SubSeqProperties
<1>. QED  BY <1>3 DEF FilesTyped, Popped

LEMMA PushedTyped ==
    ASSUME FilesTyped, NEW r \in Repos, NEW server \in Servers
    PROVE  Pushed(r, server) \in [Repos -> Seq(Servers)]
<1>1. Append(mounts[r], server) \in Seq(Servers)
  BY AppendProperties DEF FilesTyped
<1>. QED  BY <1>1 DEF FilesTyped, Pushed

(* What is left of the mounts of a path when one server exits.              *)
Left(s, server) == [i \in DOMAIN s |-> IF s[i] = server THEN "dead" ELSE s[i]]

LEMMA LeftTyped ==
    ASSUME NEW s \in Seq(Servers), NEW server
    PROVE  Left(s, server) \in Seq(Servers)
<1>1. Len(s) \in Nat /\ DOMAIN s = 1..Len(s) /\ \A i \in 1..Len(s) : s[i] \in Servers
  BY LenProperties, ElementOfSeq
<1>2. Left(s, server) \in [1..Len(s) -> Servers]
  BY <1>1 DEF Servers, Left
<1>. QED  BY <1>1, <1>2, SeqDef

LEMMA OrphanedTyped ==
    ASSUME FilesTyped, NEW server
    PROVE  Orphaned(server) \in [Repos -> Seq(Servers)]
<1>1. Orphaned(server) = [r \in Repos |-> Left(mounts[r], server)]
  BY DEF Orphaned, Left
<1>. QED  BY <1>1, LeftTyped DEF FilesTyped

(* Faults are counted up to their bound.                                    *)
LEMMA FaultCounted ==
    ASSUME CommandsTyped, Fault PROVE faults' \in 0..MaxFaults
BY DaemonAssumption DEF CommandsTyped, Fault

(* A command moves on.                                                      *)
Places == {"begin", "clone", "rename", "got", "mounted"}

LEMMA GotoTyped ==
    ASSUME CommandsTyped, NEW c \in Clis, cmd[c] # None, NEW at \in Places, Goto(c, at)
    PROVE  /\ cmd' \in [Clis -> CommandsUnderWay \cup {None}]
           /\ cmd' = [cmd EXCEPT ![c] = cmd'[c]]
           /\ cmd'[c] # None
           /\ cmd'[c].at = at
           /\ cmd'[c].op = cmd[c].op /\ cmd'[c].repo = cmd[c].repo
           /\ cmd'[c].remote = cmd[c].remote /\ cmd'[c].d = cmd[c].d
           /\ cmd'[c].row = cmd[c].row
<1>1. cmd[c] \in CommandsUnderWay /\ cmd'[c] = [cmd[c] EXCEPT !.at = at]
  BY DEF CommandsTyped, Goto
<1>2. cmd'[c] \in CommandsUnderWay
  BY <1>1 DEF CommandsUnderWay, Places
<1>3. cmd'[c] # None
  BY <1>2, DaemonAssumption
<1>4. cmd' = [cmd EXCEPT ![c] = cmd'[c]]
  BY <1>1 DEF Goto, CommandsTyped
<1>5. cmd' \in [Clis -> CommandsUnderWay \cup {None}]
  BY <1>2, <1>4 DEF CommandsTyped
<1>. QED  BY <1>1, <1>3, <1>4, <1>5 DEF CommandsUnderWay

(* A fetch changes the delay and the state of one runtime.                  *)
LEMMA FetchTyped ==
    ASSUME NEW rt \in Runtimes, NEW delay \in Nat, NEW st \in {"ready", "degraded"}
    PROVE  [rt EXCEPT !.delay = delay, !.state = st] \in Runtimes
BY DEF Runtimes

(* The row that was listed and the clone that was found make a runtime.      *)
LEMMA StartTyped ==
    ASSUME TypeOK, LoopInv, StartRuntime
    PROVE  Runtime(listed[repo], clone[repo], mfs) \in Runtimes
<1>. USE DEF TypeOK, FilesTyped, LoopTyped, LoopInv, Mounting, StartRuntime, Runtime
<1>1. listed[repo] \in Rows /\ clone[repo] \in Remotes
  OBVIOUS
<1>2. listed[repo].seconds \in Nat
  BY <1>1, DaemonAssumption DEF Rows, Row, Seconds
<1>. QED  BY <1>1, <1>2 DEF Runtimes

LEMMA InitInv == Init => Inv
<1>. SUFFICES ASSUME Init PROVE Inv
  OBVIOUS
<1>1. FilesTyped
  BY EmptySeq DEF Init, FilesTyped
<1>2. LoopTyped /\ RunningTyped
  BY DEF Init, LoopTyped, RunningTyped
<1>3. CommandsTyped
  BY DaemonAssumption DEF Init, CommandsTyped
<1>4. LoopInv /\ CommandInv
  BY DEF Init, LoopInv, CommandInv, Mounting
<1>. QED  BY <1>1, <1>2, <1>3, <1>4 DEF Inv, TypeOK

LEMMA StepInv == Inv /\ [Next]_vars => Inv'
<1>. SUFFICES ASSUME Inv, [Next]_vars PROVE Inv'
  OBVIOUS
<1>. USE DEF Inv, TypeOK, FilesTyped, LoopTyped, RunningTyped, CommandsTyped, LoopInv,
             CommandInv, Mounting, loopVars, runVars, cliVars
<1>1. CASE Start
  BY <1>1 DEF Start
<1>2. CASE List
  BY <1>2 DEF List, ListRepos
<1>2a. CASE ListFails
  <2>. USE <1>2a DEF ListFails
  <2>1. CommandsTyped'
    BY FaultCounted
  <2>2. FilesTyped' /\ LoopTyped' /\ RunningTyped' /\ LoopInv' /\ CommandInv'
    OBVIOUS
  <2>. QED
    BY <2>1, <2>2
<1>3. ASSUME NEW r \in Repos, Visit(r) PROVE Inv'
  BY <1>3 DEF Visit
<1>4. ASSUME NEW r \in Repos, BackoffOver(r) PROVE Inv'
  BY <1>4 DEF BackoffOver
<1>5. CASE Prepare
  BY <1>5 DEF Prepare
<1>6. CASE PrepareFails
  <2>. USE <1>6 DEF PrepareFails
  <2>1. CommandsTyped'
    BY FaultCounted
  <2>2. FilesTyped' /\ LoopTyped' /\ RunningTyped' /\ LoopInv' /\ CommandInv'
    OBVIOUS
  <2>. QED
    BY <2>1, <2>2
<1>7. CASE Mount
  <2>. USE <1>7 DEF Mount
  <2>1. FilesTyped'
    BY PushedTyped DEF Servers
  <2>2. CommandsTyped'
    BY FaultCounted
  <2>3. LoopTyped' /\ RunningTyped' /\ LoopInv' /\ CommandInv'
    OBVIOUS
  <2>. QED
    BY <2>1, <2>2, <2>3
<1>8. CASE StartRuntime
  <2>. USE <1>8 DEF StartRuntime, Runtime
  <2>1. Runtime(listed[repo], clone[repo], mfs) \in Runtimes
    BY StartTyped
  <2>2. RunningTyped'
    BY <2>1
  <2>3. FilesTyped' /\ LoopTyped' /\ CommandsTyped' /\ LoopInv' /\ CommandInv'
    OBVIOUS
  <2>. QED
    BY <2>2, <2>3
<1>9. CASE AllVisited
  BY <1>9 DEF AllVisited, Stale
<1>10. ASSUME NEW r \in Repos, StopRuntime(r) PROVE Inv'
  <2>. USE <1>10 DEF StopRuntime, AfterUnmount
  <2>1. FilesTyped'
    BY PoppedTyped
  <2>2. CommandsTyped'
    BY FaultCounted
  <2>3. LoopTyped' /\ RunningTyped' /\ LoopInv' /\ CommandInv'
    OBVIOUS
  <2>. QED
    BY <2>1, <2>2, <2>3
<1>11. CASE Synced
  BY <1>11 DEF Synced
<1>12. CASE Terminate
  <2>. USE <1>12 DEF Terminate, ToStop
  <2>1. CommandsTyped'
    BY FaultCounted
  <2>2. FilesTyped' /\ LoopTyped' /\ RunningTyped' /\ LoopInv' /\ CommandInv'
    OBVIOUS
  <2>. QED
    BY <2>1, <2>2
<1>13. CASE Closed
  <2>. USE <1>13 DEF Closed
  <2>1. FilesTyped'
    BY OrphanedTyped
  <2>2. LoopTyped' /\ RunningTyped' /\ CommandsTyped' /\ LoopInv' /\ CommandInv'
    OBVIOUS
  <2>. QED
    BY <2>1, <2>2
<1>14. CASE Crash
  <2>. USE <1>14 DEF Crash, Die
  <2>1. FilesTyped'
    BY OrphanedTyped
  <2>2. CommandsTyped'
    BY FaultCounted
  <2>3. LoopTyped' /\ RunningTyped' /\ LoopInv' /\ CommandInv'
    OBVIOUS
  <2>. QED
    BY <2>1, <2>2, <2>3
<1>15. ASSUME NEW r \in Repos, TickerPanics(r) PROVE Inv'
  <2>. USE <1>15 DEF TickerPanics, Die
  <2>1. FilesTyped'
    BY OrphanedTyped
  <2>2. LoopTyped' /\ RunningTyped' /\ CommandsTyped' /\ LoopInv' /\ CommandInv'
    OBVIOUS
  <2>. QED
    BY <2>1, <2>2
<1>16. ASSUME NEW r \in Repos, FetchFails(r) PROVE Inv'
  <2>. USE <1>16 DEF FetchFails, Fetching
  <2>1. running[r] \in Runtimes /\ Longer(running[r].delay) \in Nat
    BY DaemonAssumption DEF Runtimes, Longer
  <2>2. running'[r] = [running[r] EXCEPT !.delay = Longer(running[r].delay),
                                         !.state = "degraded"]
    BY <2>1
  <2>3. running' = [running EXCEPT ![r] = running'[r]] /\ running'[r] \in Runtimes
    BY <2>1, <2>2, FetchTyped
  <2>4. RunningTyped'
    BY <2>3
  <2>5. LoopInv'
    <3>1. /\ running'[r] # None /\ running[r] # None
          /\ \A q \in Repos : q # r => running'[q] = running[q]
      BY <2>3, DaemonAssumption
    <3>2. \A q \in Repos : (running'[q] = None) <=> (running[q] = None)
      BY <3>1
    <3>. QED  BY <3>2
  <2>6. FilesTyped' /\ LoopTyped' /\ CommandsTyped' /\ CommandInv'
    OBVIOUS
  <2>. QED
    BY <2>4, <2>5, <2>6
<1>17. ASSUME NEW r \in Repos, FetchSucceeds(r) PROVE Inv'
  <2>. USE <1>17 DEF FetchSucceeds, Fetching
  <2>1. running[r] \in Runtimes /\ AfterSuccess(running[r]) \in Nat
    BY DaemonAssumption DEF Runtimes, AfterSuccess
  <2>2. running'[r] = [running[r] EXCEPT !.delay = AfterSuccess(running[r]),
                                         !.state = "ready"]
    BY <2>1
  <2>3. running' = [running EXCEPT ![r] = running'[r]] /\ running'[r] \in Runtimes
    BY <2>1, <2>2, FetchTyped
  <2>4. RunningTyped'
    BY <2>3
  <2>5. LoopInv'
    <3>1. /\ running'[r] # None /\ running[r] # None
          /\ \A q \in Repos : q # r => running'[q] = running[q]
      BY <2>3, DaemonAssumption
    <3>2. \A q \in Repos : (running'[q] = None) <=> (running[q] = None)
      BY <3>1
    <3>. QED  BY <3>2
  <2>6. FilesTyped' /\ LoopTyped' /\ CommandsTyped' /\ CommandInv'
    OBVIOUS
  <2>. QED
    BY <2>4, <2>5, <2>6
<1>18. ASSUME NEW c \in Clis, NEW x \in Commands, Issue(c, x) PROVE Inv'
  <2>. USE <1>18 DEF Issue
  <2>. USE DEF Command, Commands, AddRepoCommands, RemoveRepoCommands, RemountCommands,
           SetRefreshCommands
  <2>1. x \in CommandsUnderWay
    BY DEF CommandsUnderWay
  <2>2. /\ x.at = "begin"
        /\ x.op \in {"add", "set"} => x.d \in Durations
        /\ x.op = "add" => x.remote \in Remotes
    OBVIOUS
  <2>4. CommandsTyped'
    BY <2>1, DaemonAssumption
  <2>5. CommandInv'
    BY <2>1, <2>2
  <2>6. FilesTyped' /\ LoopTyped' /\ RunningTyped' /\ LoopInv'
    OBVIOUS
  <2>. QED
    BY <2>4, <2>5, <2>6
<1>19. ASSUME NEW c \in Clis, AddRepo(c) PROVE Inv'
  <2>. USE <1>19 DEF AddRepo, At, Write, Upsert
  <2>1. cmd[c].repo \in Repos /\ Row(cmd[c].remote, cmd[c].d) \in Rows
    BY DEF CommandsUnderWay, Rows
  <2>2. /\ cmd' \in [Clis -> CommandsUnderWay \cup {None}]
        /\ cmd' = [cmd EXCEPT ![c] = cmd'[c]] /\ cmd'[c].at = "clone"
        /\ cmd'[c].op = "add" /\ cmd'[c].remote = cmd[c].remote /\ cmd'[c].d = cmd[c].d
    BY GotoTyped DEF Places
  <2>3. FilesTyped'
    BY <2>1
  <2>4. CommandsTyped'
    BY <2>1, <2>2
  <2>5. CommandInv'
    BY <2>2
  <2>6. LoopTyped' /\ RunningTyped' /\ LoopInv'
    OBVIOUS
  <2>. QED
    BY <2>3, <2>4, <2>5, <2>6
<1>20. ASSUME NEW c \in Clis, FindClone(c) PROVE Inv'
  BY <1>20 DEF FindClone, At, Exit
<1>21. ASSUME NEW c \in Clis, Clone(c) PROVE Inv'
  <2>. USE <1>21 DEF Clone, At, Exit
  <2>1. Goto(c, "rename") =>
          /\ cmd' \in [Clis -> CommandsUnderWay \cup {None}]
          /\ cmd' = [cmd EXCEPT ![c] = cmd'[c]] /\ cmd'[c].at = "rename"
          /\ cmd'[c].op = "add" /\ cmd'[c].remote = cmd[c].remote /\ cmd'[c].d = cmd[c].d
    BY GotoTyped DEF Places
  <2>2. CommandsTyped'
    BY <2>1, FaultCounted
  <2>3. CommandInv'
    <3>1. CASE Goto(c, "rename")
      <4>1. \A d \in Clis : d # c => cmd'[d] = cmd[d]
        BY <2>1, <3>1
      <4>2. upset' = upset
        OBVIOUS
      <4>3. cmd[c].d \in Durations /\ cmd[c].remote \in Remotes
        OBVIOUS
      <4>. QED
        BY <2>1, <3>1, <4>1, <4>2, <4>3
    <3>2. CASE cmd' = [cmd EXCEPT ![c] = None]
      BY <3>2
    <3>. QED  BY <3>1, <3>2
  <2>4. FilesTyped' /\ LoopTyped' /\ RunningTyped' /\ LoopInv'
    OBVIOUS
  <2>. QED
    BY <2>2, <2>3, <2>4
<1>22. ASSUME NEW c \in Clis, RenameClone(c) PROVE Inv'
  BY <1>22 DEF RenameClone, At, Exit, Renamed, CommandsUnderWay
<1>23. ASSUME NEW c \in Clis, GetRepo(c) PROVE Inv'
  <2>. USE <1>23 DEF GetRepo
  <2>. DEFINE row == registry[cmd[c].repo]
              got == [cmd[c] EXCEPT !.at = "got", !.row = row]
  <2>1. cmd[c] \in CommandsUnderWay /\ row \in Rows \cup {None}
    BY DEF CommandsUnderWay
  <2>2. row # None =>
          /\ got \in CommandsUnderWay
          /\ got.at = "got" /\ got.row = row /\ got.op = cmd[c].op /\ got.d = cmd[c].d
    BY <2>1 DEF CommandsUnderWay
  <2>3. cmd' = [cmd EXCEPT ![c] = IF row = None THEN None ELSE got]
    OBVIOUS
  <2>. HIDE DEF row, got
  <2>5. CommandsTyped'
    BY <2>2, <2>3
  <2>6. CommandInv'
    BY <2>2, <2>3
  <2>4. FilesTyped' /\ LoopTyped' /\ RunningTyped' /\ LoopInv'
    OBVIOUS
  <2>. QED
    BY <2>4, <2>5, <2>6
<1>24. ASSUME NEW c \in Clis, RemoveRepo(c) PROVE Inv'
  BY <1>24 DEF RemoveRepo, At, Exit, Write, Delete, CommandsUnderWay
<1>25. ASSUME NEW c \in Clis, SetRefresh(c) PROVE Inv'
  BY <1>25 DEF SetRefresh, At, Exit, Write, Upsert, Rows, Row, CommandsUnderWay
<1>26. ASSUME NEW c \in Clis, Remount(c) PROVE Inv'
  <2>. USE <1>26 DEF Remount, At, Exit
  <2>1. cmd[c].repo \in Repos
    BY DEF CommandsUnderWay
  <2>2. Goto(c, "mounted") =>
          /\ cmd' \in [Clis -> CommandsUnderWay \cup {None}]
          /\ cmd' = [cmd EXCEPT ![c] = cmd'[c]] /\ cmd'[c].at = "mounted"
          /\ cmd'[c].op = "remount" /\ cmd'[c].repo = cmd[c].repo
    BY GotoTyped DEF Places
  <2>3. FilesTyped'
    <3>1. c \in Servers
      BY DEF Servers
    <3>2. Pushed(cmd[c].repo, c) \in [Repos -> Seq(Servers)]
      BY <2>1, <3>1, PushedTyped
    <3>. QED  BY <3>2
  <2>4. CommandsTyped'
    <3>1. upset' \subseteq Repos
      BY <2>1
    <3>2. cmd' \in [Clis -> CommandsUnderWay \cup {None}]
      BY <2>2
    <3>3. faults' \in 0..MaxFaults
      BY FaultCounted
    <3>. QED  BY <3>1, <3>2, <3>3
  <2>5. CommandInv'
    BY <2>1, <2>2
  <2>6. LoopTyped' /\ RunningTyped' /\ LoopInv'
    OBVIOUS
  <2>. QED
    BY <2>3, <2>4, <2>5, <2>6
<1>27. ASSUME NEW c \in Clis, RemountCloses(c) PROVE Inv'
  <2>. USE <1>27 DEF RemountCloses, At, Exit
  <2>1. FilesTyped'
    <3>. DEFINE r == cmd[c].repo
                after == IF mounts[r] = <<>> THEN mounts ELSE Popped(r)
    <3>1. r \in Repos
      BY DEF CommandsUnderWay
    <3>2. after \in [Repos -> Seq(Servers)]
      BY <3>1, PoppedTyped
    <3>3. mounts' = [after EXCEPT ![r] = Left(after[r], c)]
      BY <3>1, <3>2 DEF Left
    <3>4. Left(after[r], c) \in Seq(Servers)
      <4>. HIDE DEF after, r
      <4>1. after[r] \in Seq(Servers)
        BY <3>1, <3>2
      <4>. QED  BY <4>1, LeftTyped
    <3>. HIDE DEF r, after
    <3>5. mounts' \in [Repos -> Seq(Servers)]
      BY ONLY <3>1, <3>2, <3>3, <3>4
    <3>. QED  BY <3>5
  <2>2. LoopTyped' /\ RunningTyped' /\ CommandsTyped' /\ LoopInv' /\ CommandInv'
    OBVIOUS
  <2>. QED
    BY <2>1, <2>2
<1>28. CASE UNCHANGED vars
  BY <1>28 DEF vars
<1>. QED
  BY <1>1, <1>2, <1>2a, <1>3, <1>4, <1>5, <1>6, <1>7, <1>8, <1>9, <1>10, <1>11, <1>12,
     <1>13, <1>14, <1>15, <1>16, <1>17, <1>18, <1>19, <1>20, <1>21, <1>22, <1>23,
     <1>24, <1>25, <1>26, <1>27, <1>28
    DEF Next, LoopStep, CliStep

LEMMA Invariant == Spec => []Inv
BY InitInv, StepInv, PTL DEF Spec

(* Every variable has its type, always.                                     *)
THEOREM TypeCorrect == Spec => []TypeOK
<1>1. Inv => TypeOK
  BY DEF Inv
<1>. QED  BY Invariant, <1>1, PTL

-----------------------------------------------------------------------------
(* Who writes the registry, who starts, stops and changes what runs, and    *)
(* who mounts and unmounts.                                                 *)
LEMMA RegistryWriters ==
    ASSUME [Next]_vars
    PROVE  \/ UNCHANGED <<registry, told, lost>>
           \/ \E c \in Clis : AddRepo(c) \/ RemoveRepo(c) \/ SetRefresh(c)
BY DEF Next, LoopStep, CliStep, vars, loopVars, runVars, cliVars, Start, List, ListFails,
       Visit, BackoffOver, Prepare, PrepareFails, Mount, StartRuntime, AllVisited, StopRuntime,
       Synced, Terminate, Closed, Crash, TickerPanics, Die, FetchFails, FetchSucceeds,
       Fetching, Issue, FindClone, Clone, RenameClone, GetRepo, Remount, RemountCloses

LEMMA RunningWriters ==
    ASSUME [Next]_vars
    PROVE  \/ UNCHANGED <<running, clone>>
           \/ StartRuntime
           \/ \E r \in Repos : StopRuntime(r) \/ FetchFails(r) \/ FetchSucceeds(r)
           \/ Die
           \/ \E c \in Clis : RenameClone(c)
BY DEF Next, LoopStep, CliStep, vars, loopVars, runVars, cliVars, Start, List, ListFails,
       Visit, BackoffOver, Prepare, PrepareFails, Mount, AllVisited, Synced, Terminate, Closed,
       Crash, TickerPanics, Issue, AddRepo, FindClone, Clone, GetRepo, RemoveRepo,
       SetRefresh, Remount, RemountCloses

LEMMA MountWriters ==
    ASSUME mfs => pc = "start", [Next]_vars
    PROVE  \/ UNCHANGED <<mounts, upset, running, mfs>> /\ (repo' = repo \/ ~mfs)
           \/ Mount \/ StartRuntime \/ Closed \/ Die
           \/ \E r \in Repos : StopRuntime(r) \/ FetchFails(r) \/ FetchSucceeds(r)
           \/ \E c \in Clis : Remount(c) \/ RemountCloses(c)
BY DEF Next, LoopStep, CliStep, vars, loopVars, runVars, cliVars, Start, List, ListFails,
       Visit, BackoffOver, Prepare, PrepareFails, AllVisited, Synced, Terminate,
       Crash, TickerPanics, Issue, AddRepo, FindClone, Clone, RenameClone, GetRepo,
       RemoveRepo, SetRefresh

-----------------------------------------------------------------------------
(* Whatever the commands race, the registry is what they asked for in the   *)
(* order of their writes, save where a set-refresh wrote back a row that    *)
(* had changed since it was read.                                           *)
THEOREM RegistryFollowsCommands == Spec => []RegistryAsTold
<1>1. Init => RegistryAsTold
  BY DEF Init, RegistryAsTold
<1>2. Inv /\ RegistryAsTold /\ [Next]_vars => RegistryAsTold'
  <2>. SUFFICES ASSUME Inv, RegistryAsTold, [Next]_vars PROVE RegistryAsTold'
    OBVIOUS
  <2>. USE DEF RegistryAsTold
  <2>. registry \in [Repos -> Rows \cup {None}] /\ told \in [Repos -> Rows \cup {None}]
    BY DEF Inv, TypeOK, FilesTyped, CommandsTyped
  <2>1. CASE UNCHANGED <<registry, told, lost>>
    BY <2>1
  <2>2. ASSUME NEW c \in Clis, AddRepo(c) PROVE RegistryAsTold'
    BY <2>2 DEF AddRepo, Upsert, Write
  <2>3. ASSUME NEW c \in Clis, RemoveRepo(c) PROVE RegistryAsTold'
    BY <2>3 DEF RemoveRepo, Delete, Write
  <2>4. ASSUME NEW c \in Clis, SetRefresh(c) PROVE RegistryAsTold'
    <3>. DEFINE x == cmd[c]
    <3>1. x.row # None
      BY <2>4 DEF SetRefresh, At, Inv, CommandInv
    <3>2. ASSUME registry[x.repo] = x.row, x.repo \notin lost, x.repo \in Repos
          PROVE  told'[x.repo] = registry'[x.repo]
      <4>1. told[x.repo] = x.row
        BY <3>2
      <4>. QED  BY <2>4, <3>1, <3>2, <4>1 DEF SetRefresh, Upsert, Write
    <3>3. \A r \in Repos \ {x.repo} : told'[r] = told[r] /\ registry'[r] = registry[r]
      BY <2>4 DEF SetRefresh, Upsert, Write
    <3>4. lost' = IF registry[x.repo] = x.row THEN lost ELSE lost \cup {x.repo}
      BY <2>4 DEF SetRefresh
    <3>. QED  BY <3>2, <3>3, <3>4
  <2>. QED  BY <2>1, <2>2, <2>3, <2>4, RegistryWriters
<1>. QED  BY Invariant, <1>1, <1>2, PTL DEF Spec

(* However many add-repo commands clone into the same directory, a          *)
(* repository that runs is served from the clone it was mounted from: no    *)
(* rename replaces a clone.                                                 *)
THEOREM RunningServesItsClone == Spec => []ServesItsClone
<1>1. Init => ServesItsClone
  BY DEF Init, ServesItsClone
<1>2. Inv /\ ServesItsClone /\ [Next]_vars => ServesItsClone'
  <2>. SUFFICES ASSUME Inv, ServesItsClone, [Next]_vars PROVE ServesItsClone'
    OBVIOUS
  <2>. USE DEF ServesItsClone
  <2>. /\ clone \in [Repos -> Remotes \cup {None}]
       /\ running \in [Repos -> Runtimes \cup {None}]
    BY DEF Inv, TypeOK, FilesTyped, RunningTyped
  <2>1. CASE UNCHANGED <<running, clone>>
    BY <2>1
  <2>2. CASE StartRuntime
    BY <2>2 DEF StartRuntime, Runtime
  <2>3. ASSUME NEW r \in Repos, StopRuntime(r) PROVE ServesItsClone'
    BY <2>3 DEF StopRuntime
  <2>4. ASSUME NEW r \in Repos, FetchFails(r) \/ FetchSucceeds(r) PROVE ServesItsClone'
    <3>1. running[r] \in Runtimes /\ UNCHANGED clone
      BY <2>4 DEF FetchFails, FetchSucceeds, Fetching
    <3>2. running'[r].remote = running[r].remote
      BY <2>4, <3>1 DEF FetchFails, FetchSucceeds, Runtimes
    <3>3. \A q \in Repos \ {r} : running'[q] = running[q]
      BY <2>4 DEF FetchFails, FetchSucceeds
    <3>4. running[r] # None
      BY <2>4 DEF FetchFails, FetchSucceeds, Fetching
    <3>. QED  BY <3>1, <3>2, <3>3, <3>4
  <2>5. CASE Die
    BY <2>5 DEF Die
  <2>6. ASSUME NEW c \in Clis, RenameClone(c) PROVE ServesItsClone'
    <3>1. \A r \in Repos : clone[r] # None => clone'[r] = clone[r]
      BY <2>6 DEF RenameClone, Renamed
    <3>2. \A r \in Repos : running[r] # None => clone[r] # None
      BY DaemonAssumption DEF Runtimes
    <3>. QED  BY <2>6, <3>1, <3>2 DEF RenameClone, runVars
  <2>. QED  BY <2>1, <2>2, <2>3, <2>4, <2>5, <2>6, RunningWriters
<1>. QED  BY Invariant, <1>1, <1>2, PTL DEF Spec

(* The delay of a repository that fetches is its interval; after failures   *)
(* it is twice that or more, up to the maximum and never above it.          *)
THEOREM DelaysAreBounded == Spec => []DelayBounds
<1>1. Init => DelayBounds
  BY DEF Init, DelayBounds
<1>2. Inv /\ DelayBounds /\ [Next]_vars => DelayBounds'
  <2>. SUFFICES ASSUME Inv, DelayBounds, [Next]_vars PROVE DelayBounds'
    OBVIOUS
  <2>. USE DEF DelayBounds
  <2>. running \in [Repos -> Runtimes \cup {None}]
    BY DEF Inv, TypeOK, RunningTyped
  <2>1. CASE UNCHANGED <<running, clone>>
    BY <2>1
  <2>2. CASE StartRuntime
    BY <2>2 DEF StartRuntime, Runtime
  <2>3. ASSUME NEW r \in Repos, StopRuntime(r) PROVE DelayBounds'
    BY <2>3 DEF StopRuntime
  <2>4. ASSUME NEW r \in Repos, FetchFails(r) PROVE DelayBounds'
    <3>. DEFINE rt == running[r]
    <3>1. rt \in Runtimes /\ rt # None
      BY <2>4 DEF FetchFails, Fetching
    <3>2. /\ running'[r].state = "degraded" /\ running'[r].interval = rt.interval
          /\ running'[r].delay = Longer(rt.delay)
      BY <2>4, <3>1 DEF FetchFails, Runtimes
    <3>3. /\ rt.delay \in Nat /\ rt.interval \in Nat /\ rt.state \in {"ready", "degraded"}
      BY <3>1 DEF Runtimes
    <3>4. /\ Longer(rt.delay) <= MaxBackoff
          /\ Longer(rt.delay) >= 2 * rt.interval \/ Longer(rt.delay) = MaxBackoff
      BY <3>1, <3>3, DaemonAssumption DEF Longer
    <3>5. \A q \in Repos \ {r} : running'[q] = running[q]
      BY <2>4 DEF FetchFails
    <3>. QED  BY <3>2, <3>4, <3>5
  <2>5. ASSUME NEW r \in Repos, FetchSucceeds(r) PROVE DelayBounds'
    <3>1. running[r] \in Runtimes
      BY <2>5 DEF FetchSucceeds, Fetching
    <3>2. /\ running'[r].state = "ready"
          /\ running'[r].delay = running'[r].interval
      BY <2>5, <3>1 DEF FetchSucceeds, AfterSuccess, Runtimes
    <3>3. \A q \in Repos \ {r} : running'[q] = running[q]
      BY <2>5 DEF FetchSucceeds
    <3>. QED  BY <3>2, <3>3
  <2>6. CASE Die
    BY <2>6 DEF Die
  <2>7. ASSUME NEW c \in Clis, RenameClone(c) PROVE DelayBounds'
    BY <2>7 DEF RenameClone, runVars
  <2>. QED  BY <2>1, <2>2, <2>3, <2>4, <2>5, <2>6, <2>7, RunningWriters
<1>. QED  BY Invariant, <1>1, <1>2, PTL DEF Spec

-----------------------------------------------------------------------------
(* A path is mounted once, by the daemon, when the daemon runs its          *)
(* repository with a mount, and not at all otherwise, as long as no crash,  *)
(* failed unmount or remount has touched it.                                *)
THEOREM MountsFollowRuntimes == Spec => []MountsMatch
<1>1. Init => MountsMatch
  BY DEF Init, MountsMatch
<1>2. Inv /\ MountsMatch /\ [Next]_vars => MountsMatch'
  <2>. SUFFICES ASSUME Inv, MountsMatch, [Next]_vars PROVE MountsMatch'
    OBVIOUS
  <2>. DEFINE Runs(r) == running[r] # None /\ running[r].mfs
  <2>. USE DEF MountsMatch
  <2>. /\ running \in [Repos -> Runtimes \cup {None}]
       /\ mounts \in [Repos -> Seq(Servers)]
    BY DEF Inv, TypeOK, FilesTyped, RunningTyped
  <2>0. mfs => pc = "start"
    BY DEF Inv, LoopInv
  <2>1. CASE UNCHANGED <<mounts, upset, running, mfs>> /\ (repo' = repo \/ ~mfs)
    BY <2>1
  <2>2. CASE Mount
    <3>1. ~mfs /\ repo \in Repos /\ running[repo] = None
      BY <2>0, <2>2 DEF Mount, Inv, TypeOK, LoopTyped, LoopInv, Mounting
    <3>2. repo \notin upset => mounts[repo] = <<>>
      BY <3>1
    <3>3. UNCHANGED <<running, upset, repo>>
      BY <2>2 DEF Mount, runVars
    <3>4. CASE mfs' = TRUE /\ mounts' = Pushed(repo, "daemon")
      <4>1. repo \notin upset => mounts'[repo] = <<"daemon">>
        BY <3>1, <3>2, <3>4 DEF Pushed
      <4>2. \A q \in Repos \ {repo} : mounts'[q] = mounts[q]
        BY <3>4 DEF Pushed
      <4>. QED  BY <3>1, <3>3, <3>4, <4>1, <4>2
    <3>5. CASE mfs' = FALSE /\ UNCHANGED mounts
      BY <3>1, <3>3, <3>5
    <3>. QED  BY <2>2, <3>4, <3>5 DEF Mount
  <2>3. CASE StartRuntime
    <3>1. /\ running' = [running EXCEPT ![repo] = Runtime(listed[repo], clone[repo], mfs)]
          /\ mfs' = FALSE /\ UNCHANGED <<mounts, upset>>
      BY <2>3 DEF StartRuntime
    <3>2. repo \in Repos /\ running[repo] = None
      BY <2>3 DEF StartRuntime, Inv, TypeOK, LoopTyped, LoopInv, Mounting
    <3>3. running'[repo].mfs = mfs /\ running'[repo] # None
      <4>1. repo \in Repos /\ running'[repo] = Runtime(listed[repo], clone[repo], mfs)
        BY <3>1, <3>2
      <4>2. Runtime(listed[repo], clone[repo], mfs) # None
        BY <2>3, StartTyped, DaemonAssumption DEF Inv
      <4>. QED  BY <4>1, <4>2 DEF Runtime
    <3>4. \A q \in Repos \ {repo} : running'[q] = running[q]
      BY <3>1
    <3>. QED  BY <3>1, <3>2, <3>3, <3>4
  <2>4. CASE Closed
    <3>1. /\ \A r \in Repos : running[r] = None
          /\ ~mfs /\ ~mfs' /\ UNCHANGED <<running, upset>>
      BY <2>0, <2>4 DEF Closed, Inv, LoopInv
    <3>2. \A r \in Repos \ upset : mounts[r] = <<>>
      BY <3>1
    <3>3. \A r \in Repos \ upset : mounts'[r] = <<>>
      BY <2>4, <3>2 DEF Closed, Orphaned
    <3>. QED  BY <3>1, <3>3
  <2>5. CASE Die
    <3>1. /\ \A r \in Repos : running'[r] = None
          /\ ~mfs' /\ upset' = upset \cup {r \in Repos : mounts'[r] # mounts[r]}
          /\ mounts' = Orphaned("daemon")
      BY <2>5 DEF Die
    <3>2. ASSUME NEW r \in Repos \ upset' PROVE mounts'[r] = <<>>
      <4>1. mounts'[r] = mounts[r] /\ r \notin upset
        BY <3>1
      <4>2. mounts[r] # <<"daemon">>
        <5>1. ASSUME mounts[r] = <<"daemon">> PROVE mounts'[r][1] = "dead"
          BY <3>1, <5>1 DEF Orphaned
        <5>. QED  BY <4>1, <5>1
      <4>. QED  BY <4>1, <4>2
    <3>. QED  BY <3>1, <3>2
  <2>6. ASSUME NEW r \in Repos, StopRuntime(r) PROVE MountsMatch'
    <3>1. ~mfs /\ ~mfs' /\ running' = [running EXCEPT ![r] = None] /\ running[r] # None
      BY <2>0, <2>6 DEF StopRuntime, Inv, LoopInv
    <3>2. r \notin upset' => mounts'[r] = <<>>
      <4>1. CASE /\ running[r].mfs /\ mounts[r] # <<>>
                 /\ mounts' = Popped(r) /\ upset' = upset
        <5>1. r \notin upset => mounts[r] = <<"daemon">>
          BY <4>1
        <5>2. mounts'[r] = SubSeq(mounts[r], 1, Len(mounts[r]) - 1)
          BY <4>1 DEF Popped
        <5>. QED  BY <4>1, <5>1, <5>2
      <4>2. CASE r \in upset'
        BY <4>2
      <4>3. CASE ~running[r].mfs /\ UNCHANGED <<mounts, upset>>
        BY <3>1, <4>3
      <4>4. CASE mounts[r] = <<>> /\ UNCHANGED <<mounts, upset>>
        BY <4>4
      <4>. QED  BY <2>6, <4>1, <4>2, <4>3, <4>4 DEF StopRuntime, AfterUnmount
    <3>3. \A q \in Repos \ {r} : mounts'[q] = mounts[q] /\ running'[q] = running[q]
      BY <2>6 DEF StopRuntime, AfterUnmount, Popped
    <3>4. upset \subseteq upset'
      BY <2>6 DEF StopRuntime
    <3>. QED  BY <3>1, <3>2, <3>3, <3>4
  <2>7. ASSUME NEW r \in Repos, FetchFails(r) \/ FetchSucceeds(r) PROVE MountsMatch'
    <3>1. /\ running[r] \in Runtimes /\ running[r] # None
          /\ UNCHANGED <<mounts, upset, mfs, repo>>
      BY <2>7 DEF FetchFails, FetchSucceeds, Fetching, loopVars
    <3>2. running'[r] \in Runtimes /\ running'[r].mfs = running[r].mfs
      <4>1. Longer(running[r].delay) \in Nat /\ running[r].interval \in Nat
        BY <3>1, DaemonAssumption DEF Longer, Runtimes
      <4>. QED  BY <2>7, <3>1, <4>1 DEF FetchFails, FetchSucceeds, AfterSuccess, Runtimes
    <3>3. running'[r] # None
      BY <3>2, DaemonAssumption
    <3>4. \A q \in Repos \ {r} : running'[q] = running[q]
      BY <2>7 DEF FetchFails, FetchSucceeds
    <3>. QED  BY <3>1, <3>2, <3>3, <3>4
  <2>8. ASSUME NEW c \in Clis, Remount(c) PROVE MountsMatch'
    <3>1. /\ UNCHANGED <<running, mfs, repo>>
          /\ \A q \in Repos : mounts'[q] # mounts[q] => q \in upset'
          /\ upset \subseteq upset'
      BY <2>8 DEF Remount, Pushed, runVars, loopVars
    <3>. QED  BY <3>1
  <2>9. ASSUME NEW c \in Clis, RemountCloses(c) PROVE MountsMatch'
    <3>1. cmd[c].repo \in upset
      BY <2>9 DEF RemountCloses, At, Inv, CommandInv
    <3>2. /\ UNCHANGED <<running, mfs, repo, upset>>
          /\ \A q \in Repos \ {cmd[c].repo} : mounts'[q] = mounts[q]
      BY <2>9 DEF RemountCloses, Popped, runVars, loopVars
    <3>. QED  BY <3>1, <3>2
  <2>. QED
    BY <2>0, <2>1, <2>2, <2>3, <2>4, <2>5, <2>6, <2>7, <2>8, <2>9, MountWriters
<1>. QED  BY Invariant, <1>1, <1>2, PTL DEF Spec
-----------------------------------------------------------------------------
(* What the sync under way will do with a repository that is registered all *)
(* along.                                                                   *)
Spared(r) ==
    /\ pc \in Mounting \cup {"visit"} => listed[r] # None
    /\ pc = "stop" => r \notin todo

(* A repository that runs is stopped by a shutdown or crash only.           *)
StoppedAtExit(r) ==
    running[r] # None /\ running'[r] = None => pc' = "down" \/ pc = "close"

(* From a sync on that finds it registered, a repository that stays         *)
(* registered is not unmounted under its users: whatever add-repo,          *)
(* set-refresh and failed fetches do, no sync stops it, also not one that   *)
(* mounts others meanwhile.  (A sync that listed the registry before        *)
(* add-repo wrote the row back does stop it.)                               *)
THEOREM RegisteredRunsOn ==
    ASSUME NEW r \in Repos
    PROVE  Spec => []([](registry[r] # None) /\ pc = "list" => [][StoppedAtExit(r)]_vars)
<1>. DEFINE Registered == registry[r] # None
            Lists == pc = "list"
            Safe == Spared(r)
<1>1. Lists => Safe
  BY DEF Spared, Mounting
<1>2. Inv /\ Registered /\ Safe /\ [Next]_vars => Safe'
  <2>. SUFFICES ASSUME Inv, Registered, Safe, [Next]_vars PROVE Safe'
    OBVIOUS
  <2>. USE DEF Spared, Mounting
  <2>1. CASE List
    BY <2>1 DEF List
  <2>2. CASE AllVisited
    BY <2>2 DEF AllVisited, Stale
  <2>3. CASE \/ Start \/ ListFails \/ Terminate \/ Crash \/ Closed \/ Synced
             \/ \E q \in Repos : TickerPanics(q)
    BY <2>3 DEF Start, ListFails, Terminate, Crash, TickerPanics, Die, Closed, Synced
  <2>4. CASE \/ Prepare \/ PrepareFails \/ Mount \/ StartRuntime
             \/ \E q \in Repos : Visit(q) \/ StopRuntime(q)
    BY <2>4 DEF Prepare, PrepareFails, Mount, StartRuntime, Visit, StopRuntime
  <2>5. CASE UNCHANGED loopVars
    BY <2>5 DEF loopVars
  <2>6. \/ List \/ AllVisited \/ Start \/ ListFails \/ Terminate \/ Crash
        \/ Closed \/ Synced
        \/ Prepare \/ PrepareFails \/ Mount \/ StartRuntime
        \/ \E q \in Repos : TickerPanics(q) \/ Visit(q) \/ StopRuntime(q)
        \/ UNCHANGED loopVars
    BY DEF Next, LoopStep, CliStep, vars, AddRepo, FindClone, Clone, RenameClone,
       GetRepo, RemoveRepo, SetRefresh, Remount, RemountCloses, Issue, BackoffOver,
       FetchFails, FetchSucceeds, Fetching
  <2>. QED  BY <2>1, <2>2, <2>3, <2>4, <2>5, <2>6
<1>3. Inv /\ Safe /\ [Next]_vars => [StoppedAtExit(r)]_vars
  <2>. SUFFICES ASSUME Inv, Safe, [Next]_vars, running[r] # None, running'[r] = None
                PROVE  pc' = "down" \/ pc = "close"
    BY DEF StoppedAtExit
  <2>. running \in [Repos -> Runtimes \cup {None}]
    BY DEF Inv, TypeOK, RunningTyped
  <2>1. ~UNCHANGED <<running, clone>>
    OBVIOUS
  <2>2. CASE StartRuntime
    <3>1. running[repo] = None /\ running' = [running EXCEPT
              ![repo] = Runtime(listed[repo], clone[repo], mfs)]
      BY <2>2 DEF StartRuntime, Inv, LoopInv, Mounting
    <3>. QED  BY <3>1
  <2>3. ASSUME NEW q \in Repos, StopRuntime(q) PROVE pc = "close"
    <3>1. q = r /\ q \in todo /\ pc \in {"stop", "close"}
      BY <2>3 DEF StopRuntime
    <3>. QED  BY <3>1 DEF Spared
  <2>4. ASSUME NEW q \in Repos, FetchFails(q) \/ FetchSucceeds(q) PROVE FALSE
    <3>1. q = r /\ running[r] \in Runtimes
      BY <2>4 DEF FetchFails, FetchSucceeds, Fetching
    <3>2. Longer(running[r].delay) \in Nat /\ running[r].interval \in Nat
      BY <3>1, DaemonAssumption DEF Longer, Runtimes
    <3>3. running'[r] \in Runtimes
      BY <2>4, <3>1, <3>2 DEF FetchFails, FetchSucceeds, AfterSuccess, Runtimes
    <3>. QED  BY <3>3, DaemonAssumption
  <2>5. CASE Die
    BY <2>5 DEF Die
  <2>6. ASSUME NEW c \in Clis, RenameClone(c) PROVE FALSE
    BY <2>6 DEF RenameClone, runVars
  <2>. QED  BY <2>1, <2>2, <2>3, <2>4, <2>5, <2>6, RunningWriters
<1>4. Spec => []Inv /\ [][Next]_vars
  BY Invariant, PTL DEF Spec
<1>. HIDE DEF Registered, Lists, Safe
<1>5. []Inv /\ [][Next]_vars => []([]Registered /\ Lists => [][StoppedAtExit(r)]_vars)
  BY <1>1, <1>2, <1>3, PTL
<1>. QED  BY <1>4, <1>5, PTL DEF Registered, Lists
=============================================================================
