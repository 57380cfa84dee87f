------------------------------- MODULE Daemon -------------------------------
(***************************************************************************)
(* The daemon follows the registry: every three seconds it lists the       *)
(* registered repositories, mounts those that are not running and unmounts *)
(* those that are gone.  add-repo, remove-repo, set-refresh and remount    *)
(* are processes of their own: each has a Service with nothing running,    *)
(* and shares with the daemon only the registry, the clones and the mount  *)
(* points.  For that reason unmount, fetch and status change nothing here. *)
(*                                                                         *)
(* One SQL statement, git command or system call is one action.  Refresh   *)
(* and Overlay have what a mounted repository does.                        *)
(***************************************************************************)
EXTENDS Naturals, Sequences, FiniteSets

CONSTANTS
    Repos,
    Remotes,
    Durations,   \* refresh intervals that are asked for, in half seconds
    MaxBackoff,  \* maxBackoff of refreshLoop, in half seconds
    Clis,        \* processes of the command line
    MaxCommands, \* bound on the commands
    MaxFaults,   \* bound on crashes, restarts, and calls that fail
    None

(* The registry keeps whole seconds.                                        *)
Seconds(d) == d \div 2

Row(remote, d) == [remote |-> remote, seconds |-> Seconds(d)]

Rows == {Row(m, d) : m \in Remotes, d \in Durations}

Runtimes == [remote : Remotes, mfs : BOOLEAN, interval : Nat, delay : Nat,
             state : {"ready", "degraded"}]

(* A command is a record of its arguments, of how far it is, and of the row *)
(* it has read.                                                             *)
CommandsUnderWay ==
    [op : {"add", "set", "remove", "remount"}, repo : Repos,
     remote : Remotes \cup {None}, d : Durations \cup {0},
     at : {"begin", "clone", "rename", "got", "mounted"}, row : Rows \cup {None}]

(* Who serves a mount: "dead" is nobody.                                     *)
Servers == {"daemon", "dead"} \cup Clis

ASSUME DaemonAssumption ==
    /\ Durations \subseteq Nat \ {0}
    /\ MaxBackoff \in Nat \ {0} /\ MaxCommands \in Nat /\ MaxFaults \in Nat
    /\ None \notin Repos \cup Remotes \cup Rows
    /\ None \notin Runtimes /\ None \notin CommandsUnderWay
    /\ "daemon" \notin Clis /\ "dead" \notin Clis

VARIABLES
    registry,  \* repos: per repository its row, None if it is not registered
    clone,     \* per repository, the remote that its git directory was cloned from
    mounts,    \* who serves the mounts on its path, the last one is seen
    pc,        \* where the daemon is
    listed,    \* repos of syncRepos: the registry when it was listed, until it is used up
    todo,      \* the repositories it has yet to look at, or to stop
    repo,      \* the one it is mounting
    mfs,       \* mfs: it has a FUSE mount
    running,   \* running: the runtime of each repository, or None
    backoff,   \* mountFailures: repositories whose next attempt must wait
    cmd,       \* the command of each command line process, None if there is none
    commands,  \* how many there were
    faults,    \* how many faults there were
    told,      \* history: the registry if every command took effect at its write
    lost,      \* history: repositories whose row was overwritten by one read before
    upset      \* history: repositories with a crash, a failed unmount or a remount

loopVars == <<pc, listed, todo, repo, mfs>>
runVars == <<running, backoff>>
cliVars == <<cmd, commands, told, lost>>
vars == <<registry, clone, mounts, loopVars, runVars, cliVars, faults, upset>>

-----------------------------------------------------------------------------
(* Newly mounted from a clone: refreshLoop starts with the interval of the  *)
(* row.                                                                     *)
Runtime(row, remote, m) ==
    [remote |-> remote, mfs |-> m, interval |-> 2 * row.seconds,
     delay |-> 2 * row.seconds, state |-> "ready"]

Init ==
    /\ registry = [r \in Repos |-> None]
    /\ clone = [r \in Repos |-> None]
    /\ mounts = [r \in Repos |-> <<>>]
    /\ pc = "down"
    /\ listed = [r \in Repos |-> None]
    /\ todo = {} /\ repo = None /\ mfs = FALSE
    /\ running = [r \in Repos |-> None]
    /\ backoff = {}
    /\ cmd = [c \in Clis |-> None]
    /\ commands = 0 /\ faults = 0
    /\ told = registry
    /\ lost = {} /\ upset = {}

Fault == faults < MaxFaults /\ faults' = faults + 1

(* A mount whose server is gone: stat fails on it, and so does MkdirAll.    *)
Dead(r) == mounts[r] # <<>> /\ mounts[r][Len(mounts[r])] = "dead"

(* What unmounting a path removes is the mount on top, whosever it is.      *)
Popped(r) == [mounts EXCEPT ![r] = SubSeq(@, 1, Len(@) - 1)]

Pushed(r, server) == [mounts EXCEPT ![r] = Append(@, server)]

(* The server of some mounts exits.                                         *)
Orphaned(server) ==
    [r \in Repos |-> [i \in DOMAIN mounts[r] |->
        IF mounts[r][i] = server THEN "dead" ELSE mounts[r][i]]]

-----------------------------------------------------------------------------
(* syncRepos                                                                *)

Start ==
    /\ pc = "down"
    /\ pc' = "first"
    /\ UNCHANGED <<registry, clone, mounts, listed, todo, repo, mfs, runVars, cliVars,
                   faults, upset>>

ListRepos == {r \in Repos : registry[r] # None}

List ==
    /\ pc \in {"first", "list"}
    /\ listed' = registry
    /\ todo' = ListRepos
    /\ pc' = "visit"
    /\ UNCHANGED <<registry, clone, mounts, repo, mfs, runVars, cliVars, faults, upset>>

(* The failure of the first listing ends Start, and then Close comes; of a  *)
(* later one it is logged.                                                  *)
ListFails ==
    /\ pc \in {"first", "list"}
    /\ Fault
    /\ pc' = IF pc = "first" THEN "close" ELSE "list"
    /\ UNCHANGED <<registry, clone, mounts, listed, todo, repo, mfs, runVars, cliVars,
                   upset>>

(* Every row is enabled, nothing writes another.                            *)
Visit(r) ==
    /\ pc = "visit"
    /\ r \in todo
    /\ IF running[r] # None \/ r \in backoff
       THEN todo' = todo \ {r} /\ UNCHANGED <<pc, repo>>
       ELSE pc' = "prepare" /\ repo' = r /\ UNCHANGED todo
    /\ UNCHANGED <<registry, clone, mounts, listed, mfs, runVars, cliVars, faults, upset>>

BackoffOver(r) ==
    /\ r \in backoff
    /\ backoff' = backoff \ {r}
    /\ UNCHANGED <<registry, clone, mounts, loopVars, running, cliVars, faults, upset>>

(* The registry has only the redacted URL, which is not read back: the      *)
(* daemon cannot clone, it waits for add-repo to do so.                     *)
Prepare ==
    /\ pc = "prepare"
    /\ clone[repo] # None
    /\ ~Dead(repo)
    /\ pc' = "mount"
    /\ UNCHANGED <<registry, clone, mounts, listed, todo, repo, mfs, runVars, cliVars,
                   faults, upset>>

PrepareFails ==
    /\ pc = "prepare"
    /\ IF clone[repo] = None \/ Dead(repo) THEN UNCHANGED faults ELSE Fault
    /\ backoff' = backoff \cup {repo}
    /\ todo' = todo \ {repo}
    /\ pc' = "visit" /\ repo' = None
    /\ UNCHANGED <<registry, clone, mounts, listed, mfs, running, cliVars, upset>>

(* "fuse mount failed, running without FUSE"                                *)
Mount ==
    /\ pc = "mount"
    /\ pc' = "start"
    /\ \/ mfs' = TRUE /\ mounts' = Pushed(repo, "daemon") /\ UNCHANGED faults
       \/ mfs' = FALSE /\ Fault /\ UNCHANGED mounts
    /\ UNCHANGED <<registry, clone, listed, todo, repo, runVars, cliVars, upset>>

StartRuntime ==
    /\ pc = "start"
    /\ running' = [running EXCEPT ![repo] = Runtime(listed[repo], clone[repo], mfs)]
    /\ backoff' = backoff \ {repo}
    /\ todo' = todo \ {repo}
    /\ pc' = "visit" /\ repo' = None /\ mfs' = FALSE
    /\ UNCHANGED <<registry, clone, mounts, listed, cliVars, faults, upset>>

(* Mutation: nobody looks for repositories that were removed.               *)
NoStale == {}

Stale == {r \in Repos : running[r] # None /\ listed[r] = None}

AllVisited ==
    /\ pc = "visit"
    /\ todo = {}
    /\ todo' = Stale
    /\ backoff' = backoff \ {r \in Repos : listed[r] = None}
    /\ listed' = [r \in Repos |-> None]
    /\ pc' = "stop"
    /\ UNCHANGED <<registry, clone, mounts, repo, mfs, running, cliVars, faults, upset>>

(* Mutation: stopRuntime leaves the mount.                                  *)
StillMounted(r) == mounts

AfterUnmount(r) == Popped(r)

(* unmount and stopRuntime hold the mutex of the service until TryUnmount   *)
(* is done, or has failed twenty times.                                     *)
StopRuntime(r) ==
    /\ pc \in {"stop", "close"}
    /\ r \in todo
    /\ \/ running[r].mfs /\ mounts[r] # <<>> /\ mounts' = AfterUnmount(r)
          /\ UNCHANGED <<faults, upset>>
       \/ running[r].mfs /\ mounts[r] # <<>> /\ Fault /\ upset' = upset \cup {r}
          /\ UNCHANGED mounts
       \/ (~running[r].mfs \/ mounts[r] = <<>>) /\ UNCHANGED <<mounts, faults, upset>>
    /\ running' = [running EXCEPT ![r] = None]
    /\ todo' = todo \ {r}
    /\ UNCHANGED <<registry, clone, pc, listed, repo, mfs, backoff, cliVars>>

Synced ==
    /\ pc = "stop"
    /\ todo = {}
    /\ pc' = "list"
    /\ UNCHANGED <<registry, clone, mounts, listed, todo, repo, mfs, runVars, cliVars,
                   faults, upset>>

(* Mutation: Close stops what the sync has listed.                          *)
Listed == {r \in Repos : listed[r] # None}

(* SIGTERM ends Start, then Close stops what is running.                    *)
ToStop == {r \in Repos : running[r] # None}

Terminate ==
    /\ pc = "list"
    /\ Fault
    /\ pc' = "close"
    /\ todo' = ToStop
    /\ UNCHANGED <<registry, clone, mounts, listed, repo, mfs, runVars, cliVars, upset>>

Closed ==
    /\ pc = "close"
    /\ todo = {}
    /\ pc' = "down"
    /\ backoff' = {}
    /\ mounts' = Orphaned("daemon")
    /\ UNCHANGED <<registry, clone, listed, todo, repo, mfs, running, cliVars, faults,
                   upset>>

Die ==
    /\ pc' = "down"
    /\ listed' = [r \in Repos |-> None]
    /\ todo' = {} /\ repo' = None /\ mfs' = FALSE
    /\ running' = [r \in Repos |-> None]
    /\ backoff' = {}
    /\ mounts' = Orphaned("daemon")
    /\ upset' = upset \cup {r \in Repos : mounts'[r] # mounts[r]}
    /\ UNCHANGED <<registry, clone, cliVars>>

Crash == pc # "down" /\ Die /\ Fault

(* NewTicker panics when the interval is not positive.                      *)
TickerPanics(r) ==
    /\ running[r] # None
    /\ running[r].interval = 0
    /\ Die
    /\ UNCHANGED faults

-----------------------------------------------------------------------------
(* refreshLoop                                                              *)

(* Close holds the mutex that the result needs.                             *)
Fetching(r) ==
    /\ running[r] # None
    /\ running[r].interval > 0
    /\ pc # "close"
    /\ UNCHANGED <<registry, clone, mounts, loopVars, backoff, cliVars, faults, upset>>

(* Mutation: the delay of a failure is kept.                                *)
AsBefore(rt) == rt.delay

Longer(d) == IF 2 * d > MaxBackoff THEN MaxBackoff ELSE 2 * d

AfterSuccess(rt) == rt.interval

FetchFails(r) ==
    /\ Fetching(r)
    /\ running' = [running EXCEPT ![r].delay = Longer(@), ![r].state = "degraded"]

FetchSucceeds(r) ==
    /\ Fetching(r)
    /\ running' = [running EXCEPT ![r].delay = AfterSuccess(running[r]),
                                  ![r].state = "ready"]

-----------------------------------------------------------------------------
(* The command line                                                         *)

Command(op, r, remote, d) ==
    [op |-> op, repo |-> r, remote |-> remote, d |-> d, at |-> "begin", row |-> None]

AddRepoCommands ==
    {Command("add", r, m, d) : r \in Repos, m \in Remotes, d \in Durations}

RemoveRepoCommands == {Command("remove", r, None, 0) : r \in Repos}

RemountCommands == {Command("remount", r, None, 0) : r \in Repos}

SetRefreshCommands == {Command("set", r, None, d) : r \in Repos, d \in Durations}

Commands ==
    AddRepoCommands \cup RemoveRepoCommands \cup RemountCommands \cup SetRefreshCommands

Issue(c, x) ==
    /\ cmd[c] = None
    /\ commands < MaxCommands
    /\ commands' = commands + 1
    /\ cmd' = [cmd EXCEPT ![c] = x]
    /\ UNCHANGED <<registry, clone, mounts, loopVars, runVars, told, lost, faults, upset>>

At(c, op, at) == cmd[c] # None /\ cmd[c].op = op /\ cmd[c].at = at

Goto(c, at) == cmd' = [cmd EXCEPT ![c].at = at]

Exit(c) == cmd' = [cmd EXCEPT ![c] = None]

Write(r, row) == registry' = [registry EXCEPT ![r] = row]

(* Mutation: ON CONFLICT leaves the interval alone.                         *)
UpsertRemote(r, row) ==
    Write(r, IF registry[r] = None THEN row
             ELSE [row EXCEPT !.seconds = registry[r].seconds])

Upsert(r, row) == Write(r, row)

Delete(r) == Write(r, None)

(* AddRepo registers, then clones.                                          *)
AddRepo(c) ==
    LET x == cmd[c]
        row == Row(x.remote, x.d)
    IN  /\ At(c, "add", "begin")
        /\ Upsert(x.repo, row)
        /\ told' = [told EXCEPT ![x.repo] = row]
        /\ lost' = lost \ {x.repo}
        /\ Goto(c, "clone")
        /\ UNCHANGED <<clone, mounts, loopVars, runVars, commands, faults, upset>>

(* A git directory that exists is taken as it is, wherever it is from.      *)
FindClone(c) ==
    /\ At(c, "add", "clone")
    /\ clone[cmd[c].repo] # None \/ Dead(cmd[c].repo)
    /\ Exit(c)
    /\ UNCHANGED <<registry, clone, mounts, loopVars, runVars, commands, told, lost,
                   faults, upset>>

Clone(c) ==
    /\ At(c, "add", "clone")
    /\ clone[cmd[c].repo] = None
    /\ ~Dead(cmd[c].repo)
    /\ \/ Goto(c, "rename") /\ UNCHANGED faults
       \/ Exit(c) /\ Fault
    /\ UNCHANGED <<registry, clone, mounts, loopVars, runVars, commands, told, lost,
                   upset>>

(* Mutation: the later one of two clones replaces the other.                *)
Replaced(r, remote) == [clone EXCEPT ![r] = remote]

(* os.Rename onto a directory that is not empty fails.                      *)
Renamed(r, remote) == [clone EXCEPT ![r] = IF @ = None THEN remote ELSE @]

RenameClone(c) ==
    /\ At(c, "add", "rename")
    /\ clone' = Renamed(cmd[c].repo, cmd[c].remote)
    /\ Exit(c)
    /\ UNCHANGED <<registry, mounts, loopVars, runVars, commands, told, lost, faults,
                   upset>>

(* RemoveRepo, SetRefresh and Remount read the row first.                   *)
GetRepo(c) ==
    LET x == cmd[c]
    IN  /\ x # None /\ x.op # "add" /\ x.at = "begin"
        /\ cmd' = [cmd EXCEPT ![c] =
              IF registry[x.repo] = None THEN None
              ELSE [x EXCEPT !.at = "got", !.row = registry[x.repo]]]
        /\ UNCHANGED <<registry, clone, mounts, loopVars, runVars, commands, told, lost,
                       faults, upset>>

RemoveRepo(c) ==
    /\ At(c, "remove", "got")
    /\ Delete(cmd[c].repo)
    /\ told' = [told EXCEPT ![cmd[c].repo] = None]
    /\ lost' = lost \ {cmd[c].repo}
    /\ Exit(c)
    /\ UNCHANGED <<clone, mounts, loopVars, runVars, commands, faults, upset>>

(* The whole row is written back, also when it was removed or replaced      *)
(* since it was read.                                                       *)
SetRefresh(c) ==
    LET x == cmd[c]
    IN  /\ At(c, "set", "got")
        /\ Upsert(x.repo, [x.row EXCEPT !.seconds = Seconds(x.d)])
        /\ told' = [told EXCEPT ![x.repo] =
              IF @ = None THEN None ELSE [@ EXCEPT !.seconds = Seconds(x.d)]]
        /\ lost' = IF registry[x.repo] = x.row THEN lost ELSE lost \cup {x.repo}
        /\ Exit(c)
        /\ UNCHANGED <<clone, mounts, loopVars, runVars, commands, faults, upset>>

(* Remount in a process with nothing running mounts once more, on top of    *)
(* what is there; without a clone it fails, as it may anywhere in mountRepo.*)
(* (What mountRepo writes to the databases it shares with the daemon is not *)
(* here.)                                                                   *)
Remount(c) ==
    LET r == cmd[c].repo
    IN  /\ At(c, "remount", "got")
        /\ \/ /\ clone[r] = None \/ Dead(r)
              /\ Exit(c)
              /\ UNCHANGED <<mounts, upset, faults>>
           \/ /\ clone[r] # None /\ ~Dead(r)
              /\ Goto(c, "mounted")
              /\ mounts' = Pushed(r, c)
              /\ upset' = upset \cup {r}
              /\ UNCHANGED faults
           \/ /\ Fault
              /\ Exit(c)
              /\ UNCHANGED <<mounts, upset>>
        /\ UNCHANGED <<registry, clone, loopVars, runVars, commands, told, lost>>

(* Then the command ends, and its Close takes down the mount on top.        *)
RemountCloses(c) ==
    LET r == cmd[c].repo
    IN  /\ At(c, "remount", "mounted")
        /\ Exit(c)
        /\ LET after == IF mounts[r] = <<>> THEN mounts ELSE Popped(r)
           IN  mounts' = [after EXCEPT ![r] =
                   [i \in DOMAIN @ |-> IF @[i] = c THEN "dead" ELSE @[i]]]
        /\ UNCHANGED <<registry, clone, loopVars, runVars, commands, told, lost, faults,
                       upset>>

-----------------------------------------------------------------------------
LoopStep ==
    \/ List \/ Prepare \/ PrepareFails \/ Mount \/ StartRuntime \/ AllVisited \/ Synced
    \/ Closed
    \/ \E r \in Repos : Visit(r) \/ StopRuntime(r)

CliStep(c) ==
    \/ AddRepo(c) \/ FindClone(c) \/ Clone(c) \/ RenameClone(c)
    \/ GetRepo(c) \/ RemoveRepo(c) \/ SetRefresh(c) \/ Remount(c) \/ RemountCloses(c)

Next ==
    \/ LoopStep
    \/ Start \/ ListFails \/ Terminate \/ Crash
    \/ \E r \in Repos :
          BackoffOver(r) \/ TickerPanics(r) \/ FetchFails(r) \/ FetchSucceeds(r)
    \/ \E c \in Clis : CliStep(c) \/ \E x \in Commands : Issue(c, x)

Spec == Init /\ [][Next]_vars

(* The loop and the commands go on, time passes.                            *)
FairSpec ==
    /\ Spec
    /\ WF_vars(LoopStep)
    /\ \A r \in Repos : WF_vars(BackoffOver(r)) /\ WF_vars(TickerPanics(r))
    /\ \A c \in Clis : WF_vars(CliStep(c))

-----------------------------------------------------------------------------
FilesTyped ==
    /\ registry \in [Repos -> Rows \cup {None}]
    /\ clone \in [Repos -> Remotes \cup {None}]
    /\ mounts \in [Repos -> Seq(Servers)]

LoopTyped ==
    /\ pc \in {"down", "first", "list", "visit", "prepare", "mount", "start", "stop",
               "close"}
    /\ listed \in [Repos -> Rows \cup {None}]
    /\ todo \subseteq Repos
    /\ repo \in Repos \cup {None}
    /\ mfs \in BOOLEAN
    /\ backoff \subseteq Repos

RunningTyped ==
    /\ running \in [Repos -> Runtimes \cup {None}]
    /\ pc = "down" => \A r \in Repos : running[r] = None

CommandsTyped ==
    /\ cmd \in [Clis -> CommandsUnderWay \cup {None}]
    /\ commands \in 0..MaxCommands
    /\ faults \in 0..MaxFaults
    /\ told \in [Repos -> Rows \cup {None}]
    /\ lost \subseteq Repos
    /\ upset \subseteq Repos

(* Every variable has its type; a daemon that is down runs nothing.         *)
TypeOK == FilesTyped /\ LoopTyped /\ RunningTyped /\ CommandsTyped

(* A path has one mount, of the daemon, when the daemon runs the repository *)
(* with one, and none otherwise: until a crash, an unmount that fails or a  *)
(* remount of the command line.                                             *)
MountsMatch ==
    \A r \in Repos \ upset :
        LET runs == running[r] # None /\ running[r].mfs
            starts == repo = r /\ mfs
        IN  mounts[r] = IF runs \/ starts THEN <<"daemon">> ELSE <<>>

(* The registry is what the commands asked for, in the order of their       *)
(* writes, except where a set-refresh wrote back a row that had changed:    *)
(* then, until the next add or remove, a repository may have come back or   *)
(* an add may be undone.                                                    *)
RegistryAsTold == \A r \in Repos \ lost : registry[r] = told[r]

(* Whatever add-repo commands race, a repository that runs is served from   *)
(* the clone it was mounted from.                                           *)
ServesItsClone == \A r \in Repos : running[r] # None => running[r].remote = clone[r]

(* A repository that fetches is retried at its interval, one whose fetch    *)
(* fails after twice that or more: but never later than the maximum, so     *)
(* with an interval above the maximum it is retried sooner.                 *)
DelayBounds ==
    \A r \in Repos : running[r] # None =>
        LET rt == running[r]
        IN  IF rt.state = "ready" THEN rt.delay = rt.interval
            ELSE /\ rt.delay <= MaxBackoff
                 /\ rt.delay >= 2 * rt.interval \/ rt.delay = MaxBackoff

(* A daemon that stays up comes to run what is registered and has a clone,  *)
(* unless a dead mount covers its path, and nothing else.                   *)
Followed(r) ==
    /\ running[r] # None => registry[r] # None
    /\ registry[r] # None /\ clone[r] # None /\ ~Dead(r) => running[r] # None

RegistryFollowed == \A r \in Repos : <>[](pc = "down" \/ Followed(r))
=============================================================================
