# Verification of ArtifactFS in TLA+

ArtifactFS mounts a blobless git clone as a file system: the tree of HEAD is
kept in SQLite, file contents are fetched from git when they are first read,
and what users write goes to an overlay. One daemon serves many repositories;
command line processes share only its files and databases.

This directory holds the TLA+ modules that model it, the configurations TLC
checks them with, and proofs for TLAPS. `PROJECT.json` lists, for every
definition that models code, the lines it models (`map`), the runs, the hazards
and the theorems.

    tlc -workers 4 -config MCOverlay.cfg MCOverlay     # any .cfg, with its module
    tlapm HydratorProofs.tla                           # or another *Proofs.tla

## The system

| component | state it keeps | operations | modelled in |
|---|---|---|---|
| hydrator (`internal/hydrator`) | priority queue, wait lists, verified set, verifications, one-element `workReady`, `stopCh` | EnsureHydrated, ReadBlob, Enqueue, worker, Stop | Hydrator |
| blob fetch (`internal/gitstore`, BlobToCache) | `<oid>` and `<oid>.tmp` in the cache directory | fetchToFile, VerifyBlob | Hydrator |
| batch pool (`internal/gitstore`) | free `git cat-file` processes, and what each still has to say | BlobToCache, ReadBlob, acquire, release, Close, SetBatchPoolSize | BatchPool |
| overlay store (`internal/overlay`) | table `overlay_entries`, backing files in `upper/` | copy-up, create, write, remove, rename, mkdir, SetMtime, Reconcile | Overlay |
| Engine and Resolver (`internal/fusefs`) | the generation, the commit time | the file system operations; ResolvePath, ReaddirTyped | Overlay |
| FUSE adapter (`fuse_unix.go`) | inodes with lookup counts, handles | the kernel's requests | Inodes; what they do to the tree in Overlay |
| watcher (`internal/watcher`) | last modification time seen of HEAD and of the ref it names | the 500 ms poll | Refresh |
| snapshot store (`internal/snapshot`) | `base_nodes` by generation, `repo_state` | PublishGeneration, ReadState, UpdateHEADRef, UpdateSize | Refresh |
| daemon, per repository (`internal/daemon`) | `rt.state`: HEAD, ref, generation | ensurePreparedRepo, mountRepo, onHEADChanged | Refresh, Overlay |
| daemon, lifecycle | `running`, `mountFailures`, the mounts | Start, syncRepos, mountRepo, stopRuntime, Close, refreshLoop | Daemon |
| registry (`internal/registry`) | table `repos` | AddRepo, RemoveRepo, GetRepo, ListRepos | Daemon |
| command line (`internal/cli`) | a Service with nothing running | add-repo, remove-repo, set-refresh, remount | Daemon; add-repo as a publisher in Refresh |
| types, SQLite, redaction, logging, platform files | | | not modelled, below |

How they interact. The kernel sends a request to the FUSE adapter, which calls
the Engine; the Engine asks the Resolver what a path is (an overlay row hides
the base row of the current generation), the hydrator for a blob, and the
overlay store for changes. A hydrator worker calls the git store, which writes
the cache file the overlay store later copies; its callback writes the size to
the snapshot store. Independently of all this, git changes HEAD in the
repository's directory; the watcher notices, and onHEADChanged publishes a
generation, reconciles the overlay with it, refreshes the index and switches
the Resolver. Above the repositories, the daemon's loop reads the registry every
three seconds and mounts and unmounts what changed; the commands write the
registry, clone, and never speak to the daemon. Nothing locks a file system operation out of a refresh: the two
meet in SQLite and in `upper/`. Another process, `add-repo`, writes to the same
snapshot database.

What is hard: goroutines that share wait lists, channels and files by name;
operations that are several SQL statements and file changes long, overlapped
by a refresh or cut short by a crash or by a statement that fails; a watcher that polls modification times;
two processes publishing to one database; git processes that die or still have
something to say when a call gives up on them; a kernel that counts what the
server counts too; a daemon that only sees the registry and what a crash left. What makes each component right:

- hydrator: every caller gets exactly one answer; no task is forgotten; a
  damaged cache file is never served; the cache receives only whole blobs.
- overlay: the mount behaves like a plain tree; a refresh neither loses what
  was not committed nor shows what was; sizes are true; what fails half-way
  harms no name but its own.
- refresh: the tree served exists, is the one the daemon believes it serves,
  comes to be that of HEAD, and knows the sizes of what was hydrated.
- batch pool: a call gets the blob it asked for; a process has one user or is idle
  in one pool within its limit; nobody waits for a process without end.
- inodes: server and kernel count alike, an inode in use is in the table, a
  handle goes on naming the file it was opened on.
- lifecycle: what is registered and cloned comes to be mounted, once; what is
  removed comes to be unmounted; a repository that runs keeps its clone.

## The modules

**Hydrator.tla** - `hydrator.go`, `inflight.go`, and BlobToCache, fetchToFile
and VerifyBlob of `gitstore.go`. A critical section of `Service.mu` is one
action; each file system call is another. `pc[c]` is the place of a call in
EnsureHydrated (or ReadBlob, for `Direct` calls): `stat` and `gate` are
validateCachedBlob, `verify` awaitVerification, `miss` the way to the wait
list, `await` the select. `verif[c]` is the goroutine runVerification that the
call may have started and that outlives it. `wpc[w]` is the place of a worker
in worker, step, BlobToCache and fetchToFile. `wait` and `verifying` are the
two `inflight` lists, `token` is `workReady`, `stop` the progress of Stop. Of a
file only this matters: missing, of wrong length, of wrong content, or the
blob; `fd` says what the file a worker has open is called by now, as another
worker may have renamed or unlinked it, and `clean` whether one truncated it.

**WorkTree.tla** - the abstract specification of a mount between two moves of
HEAD: a tree, and at most one request, which changes the tree once and as
asked, or fails. What a failure may do besides is spelled out as `Spoil`, four
disjuncts that no comment of the code promises to avoid: an unlink or a rename left
half-way, a file emptied because its blob could not be had, and the file that is
named as the `<path>.tmp` of the one a request is about. `faults` counts what
failed: each of these but the last needs a failure. `Rooted`, that whatever is there is in
a directory that is there, is proved of it.

**Overlay.tla** - `overlay/store.go`, `fusefs/ops.go`, `fusefs/merged.go`, and of
`daemon.go` what a refresh does to them. `rows` is `overlay_entries`, `upper` the
backing files, `base` the tree of the Resolver's generation, `head` and `index`
git's. A file's content is the set of the edits it shows, so an old version, a
lost edit and an empty copy can be told apart. `op` is the running operation
with the local variables its next steps use, `refresh` the running
onHEADChanged with the rows Reconcile has read. Operations start as the
FUSE handlers do, after the kernel looked the names up; a write or a truncation
comes with a handle or an inode, so the name may be gone since it was opened
(`former`). `OpFails` is the error of the statement or file operation that comes next:
the context of a FUSE request can be cancelled, a database be locked, a disk be
full. Errors that the code ignores (os.Remove, the two statements that undo a rename,
a lookup of Reconcile) are alternatives of their own steps. `TmpOf` names
the user's file whose backing file is the `<path>.tmp` of a copy-up, `Temps` those
temporary files that are nobody's. Instance `WT` is WorkTree under the refinement
mapping `Tree`, which says when an operation takes effect: a write or a truncation
with its bytes, an unlink when the backing file is removed, where there is one,
a rename when the file is moved, all others with their row. `doubt` is history:
it says of a path whether its row is not about the last change of the file
("size") or the file may be gone ("file"); both are set where the code leaves it so and
cleared where it writes row and file anew.

**HeadMirror.tla** - the abstract specification of what a mount shows of HEAD: one
whole commit or none; it may be late, but what it newly shows is a commit that
HEAD was at after the last time it showed something new.

**Refresh.tla** - `watcher.go`, `snapshot/store.go` and, of `daemon.go`,
ensurePreparedRepo, mountRepo and onHEADChanged. git's side is `headRef`, `tip`,
the branches with a `loose` file and the modification times `stamp`; the
watcher's is `prev` and `firstSeen`. The daemon's goroutine, whose poll calls
onHEADChanged itself, is `pc["daemon"]`; the other publisher is `pc["cli"]`; they
run the same PrepareStep. ReadState is three actions, ResolveHEAD two, a look at a
ref file two, as in the code. One blob, in all commits, stands for the sizes: `blob` is how far its
hydration is, `sized` the generations that record it. `seen` holds history
variables that no action reads: they name the races which the properties
except, and each was found to be needed. Instance `HM` is HeadMirror: `Taken` is the
commit a refresh works on until it has switched to it, `Shown` the commit of the
generation served, unless add-repo published in the middle of mountRepo's ReadState.

**BatchPool.tla** - of `gitstore.go` the pool, BlobToCache, ReadBlob and their
protocol with `git cat-file --batch`. `life` is a process's way from Start to
Wait, `unread` what it was asked and whose answer was not read: a request names
an object, but nobody compares the name in the answer. `pc` is where a call is,
`batch` the process it holds. `keeper` is Close or SetBatchPoolSize, which hold
the store's mutex while they close `extras`. A process may die whenever it runs;
at the end of its input it exits unless it is writing an answer that the pipe
does not hold.

**Inodes.tla** - the table of `fuse_unix.go`: `pathOf` and `refcnt` are `inodes`,
`pathToInode`, `handle` is `fileHandles`. The other side is the kernel: its names
(`dentry`), its counts (`nlookup`), the FORGETs and answers under way; its
actions are external, and say what it locks. Every handler is split between
the tree and the table, as their locks are. `tree` says which file a name
stands for; `opened` and `moved` are history.

**Daemon.tla** - Start, syncRepos, mountRepo, stopRuntime, Close and refreshLoop
of `daemon.go`, `registry.go`, CloneBlobless of `gitstore.go` and the commands of
`cli.go`. `pc`, `listed`, `todo`, `repo` and `mfs` are the daemon's place and local
variables in syncRepos, `cmd` those of each command. `mounts` is the stack of
mounts on a path: unmounting takes the top one away, and a server that
exits leaves a dead one, on which MkdirAll fails. Intervals are in half seconds,
so that one below a second exists and is stored as none. `told`, `lost` and `upset`
are history.

Refresh leaves Reconcile out and Overlay leaves generations out: they meet in
Switch (Overlay) and SetGeneration (Refresh), the same line of onHEADChanged.
The Hydrator's result, a path in the cache directory, enters Overlay as the
copy of a blob, with the fault "blob file vanishes" for a cache file removed
between the two. The process that a worker of Hydrator talks to fails in
FetchFails and RequestFails; BatchPool has why. Inodes has the requests that meet in
Overlay's tree as one file per name. What a runtime of Daemon does while it
runs is Refresh and Overlay.

**HydratorProofs.tla**, **OverlayProofs.tla**, **RefreshProofs.tla**,
**BatchPoolProofs.tla**, **InodesProofs.tla** and **DaemonProofs.tla** hold the theorems
about each, below.

MCHydrator, MCOverlay, MCRefresh, MCBatchPool, MCInodes and MCDaemon give the constants their values for TLC.
Definitions whose comment begins with "Mutation:" are variants of the one below
them with a plausible mistake; the properties were checked to notice it.

## The runs

| run | configuration | properties | result |
|---|---|---|---|
| hydrator | MCHydrator.cfg | TypeOK, NoOrphanWaiter, NoLostWakeup, ChannelHeldOnce, VerificationRuns | hold |
| hydrator_files | MCHydratorFiles.cfg | VerifiedIsWhole, NoDamagedRead, FetchInstallsWhole, CallsReturn | hold with one worker |
| hydrator_tmp | MCHydratorTmp.cfg | FetchInstallsWhole | violated with two workers |
| overlay | MCOverlay.cfg | TypeOK, SizeIsRecorded, ImplementsWorkTree | hold |
| overlay_refresh | MCOverlayRefresh.cfg | CleanRowsHaveFiles, RefreshKeepsView | hold |
| overlay_race | MCOverlayRace.cfg | NoDanglingRow | violated |
| overlay_staged | MCOverlayStaged.cfg | CommitKeepsWorkTree | violated |
| refresh | MCRefresh.cfg | TypeOK, ServedTreeExists, ServesCurrent, HydratedHasSize, ImplementsMirror, HEADServedUnlessMissed | hold |
| refresh_missed | MCRefreshMissed.cfg | HEADServed | violated |
| pool | MCBatchPool.cfg | TypeOK, RightBlob, OneHolder, PoolBound, Leftover, CallsReturn, KeeperReturns | hold |
| inodes | MCInodes.cfg | TypeOK, LookupCountsAgree, TableInverse, NoStaleInode, HandleNamesFile | hold |
| daemon | MCDaemon.cfg | TypeOK, MountsMatch, RegistryAsTold, ServesItsClone, DelayBounds, RegistryFollowed | hold |

Deadlock is checked in pool and daemon. The other instances have a bounded number
of calls, operations or events and then stop; CallsReturn and
HEADServedUnlessMissed say that they do not stop too early.

Bounds, and why they are enough for the questions asked.

- hydrator: two readers and a prefetch of one blob, two workers, Stop; git and the
  system calls of those tasks in `Flaky` may fail. The wait
  lists, channels and tasks of different blobs do not meet except in the queue,
  where only the order differs; two readers give every order of
  first and later waiter, one of them may be cancelled. Workers are symmetric.
  The theorems hold for any number.
- hydrator_files: one worker, two readers and a symlink reader, every content a
  leftover cache file can have, without Stop, after which CallsReturn would be
  about the contexts of the kernel's requests. With two workers the first three are
  false; the theorems below say that two fetches of one blob are the only reason.
- overlay: four operations on a file of the base, a free name, a directory and a
  file in it: enough for unlink, create, rename away and rename back on the
  same path, and for the emptying of a directory. The free name is also the
  `.tmp` of the file, so a copy-up meets a user's file. Two failures: a rename that
  fails and an undo that fails. HEAD stays.
- overlay_refresh: two operations, two moves of HEAD (so a row that survives the
  first refresh meets a second), one fault anywhere: a crash, a step that fails, a
  cache file that is gone, a lookup of Reconcile, a Reconcile or a read-tree that
  fails. Truncate and touch, which the "overlay" run has, are left out here.
- refresh: three events of five kinds, one branch besides a detached HEAD, two
  commits; generations are bounded by the events. With two branches the run
  also passes, on more than twice as many states.
- pool: one fetching and one reading caller, each any number of times, two
  processes (a third is never started: who acquires holds none), a small, a
  large and a missing object, a limit lowered from two to one, one Close. `Pools`
  is 1 before Close and 2 after it. Identities of processes are used again once
  waited for, so that a process handed out after its end would be noticed.
- inodes: two names, two open files, three inodes, three files, two answers per
  inode: enough for a name that is forgotten and found again, for a rename onto
  a name with an inode, and for a file made under the name of an open one.
- daemon: one repository, two remotes, three commands, one fault, an interval
  below a second and one that reaches the maximum after two failures.
  Repositories do not share rows, clones or mounts, and meet only in the order of
  the loop; an instance with two repositories, one remote and one interval also passes.

Fairness. CallsReturn assumes that runnable goroutines are scheduled (weak
fairness of every caller, verification, prefetch and worker: the Go scheduler
starves none, and sync.Mutex none that waits) and that each git process answers
or dies. The code does not enforce the latter: the two minute context of step is
not used by BlobToCache. HEADServedUnlessMissed assumes weak fairness of the
goroutine of the watcher: its ticker fires and onHEADChanged runs on. Nothing is
assumed of users, git commands, add-repo, hydration, cancellation or Stop.

CallsReturn and KeeperReturns of BatchPool assume that a goroutine that can go on
does, and that a git process answers and exits at the end of its input unless its
output is full; it need not die, and no call is forced to be made.
RegistryFollowed assumes that the daemon's loop and the commands go on, that the
time of a backoff passes and that a ticker which panics does so. The daemon is
not assumed to be started again: the property is about one that stays up.

## What is proved

Each component's proofs are in a module of their own, with one lemma for the
initial states, one for the steps, with a case per action, and the temporal
theorems drawn from the two.

`HydratorProofs.tla`, for every number of calls, prefetches, workers and blobs,
from HydratorAssumption alone (disjointness and types of the constants):

- TypeCorrect, WaitersHaveTasks, WakeupsNotLost: TypeOK; with it, NoOrphanWaiter
  and NoLostWakeup are inductive as they stand.
- ChannelsHeldOnce: ChannelHeldOnce does not say where a channel cannot be, so a
  call about to register might already be held by a worker. ChannelInv adds
  that before registration a channel is nowhere, that lists are filed under the
  right blob, that an idle worker holds nothing and that a worker has an outcome
  when it comes to notifyWaiters.
- VerificationsRun: in the same way from VerificationInv.
- VerifiesWhole, ServesWhole, InstallsWhole: as long as no two workers fetch one blob
  at the same time ([]OneFetchPerBlob), what is verified is whole or gone, nobody
  reads a damaged file and the cache name only receives whole blobs. FilesInv
  follows a fetch: the worker's file is still its own `.tmp`, it is renamed only when
  it holds the whole blob, and every "ok" that is under way is about a whole file. The
  condition is necessary: run hydrator_tmp is the counterexample without it. It is
  about behaviours and not about constants, since many workers that fetch
  different blobs do no harm: with it, the fault is two fetches and nothing else.
- FetchesApart says when the condition holds: with one worker, and with many when
  no blob has two tasks, since a task is never in the queue and with a worker, nor
  with two (TaskInv). step breaks it by taking the waiters when it pops the task.
- CallsAnsweredOnce: an answer that was sent to a call is the last one; from ChannelInv.

`OverlayProofs.tla`, for any names and directories, trees of commits, operations, bounds
and faults (OverlayAssumption; a name is used for directories or for files):

- TypeCorrect: TypeOK, from TypeInv, which adds what an operation is about at each
  of its steps (OpInv): kinds of names, that a copy is made where there is no row.
- RowsKeepTheirFiles: CleanRowsHaveFiles, from CleanInv. FilesThere says of the
  middle of an operation which of row and file is ahead, and that a step which takes
  a file from under a live row puts the name in doubt at once: so the property survives an
  error and a crash at any place. What it excepts is what the code leaves broken: a
  refresh that an operation met, an unlink or a rename left half-way, the
  `<path>.tmp` of a copy-up.
- RefreshesKeepTheView: RefreshKeepsView. RefreshInv: from Publish to Switch every
  path shows what was seen, or lost its row because Stale said so of the row that
  was read; then the rules of Stale, one by one, give the old view back. Without
  operations in between, the guard of the DELETE never spares a row. A lookup that fails
  counts as a path that the base has not (`GetNodeCtx`) and is excepted by `clean`.
- SizesAreRecorded: SizeIsRecorded, also with HEAD moving, operations during a
  refresh, errors and crashes. Excepted is a file whose last change was
  a truncation, a write whose row was not stored, or its loss, until a row
  is written with its size again. SizeInv has the size that a rename
  carries in `op.row` from one row to the next and back.
- CrashesLeaveAWorkTree: while HEAD stays, Overlay implements WorkTree
  (ImplementsWorkTree) through errors, crashes and the Reconcile of the next mount,
  if no lookup of Reconcile fails (it would take a path for one that is not
  in the commit, and drop its row) and under one condition about behaviours, RowsOfBase: when a
  mount begins, every row says what it changed of the base. After a rename, or a create where a tracked
  file was deleted, it does not, Reconcile drops it, and the tree falls back to the
  commit; OfBase of RefreshKeepsView excepts the same rows. TLC refutes the theorem
  without either. A crash is a stutter of WorkTree, an Answer, or a Spoil, when it comes between
  the halves of an unlink or a rename: what the operation had not yet made
  visible never happens.
  TreeInv: what the FUSE handler found when the operation began
  (the path resolves, its new parent is a directory, an emptied directory has
  no children, an opened file is whited out or has a blob) stays true until the
  step at which Tree changes. Each step is then a stutter, Answer, Fail, Spoil or the
  Perform of the request, one case per action, and a request performs once.
  EmptyDirectory is where ReaddirTyped and ResolvePath have to agree.
- MountIsAWorkTree: the same without any condition on behaviours, when the daemon
  does not crash.
- NothingIsOrphaned: under the conditions of CrashesLeaveAWorkTree, and if it is so in
  the commit, whatever the mount shows is in a directory it shows, also after a
  Spoil. The proof is about
  WorkTree (StaysRooted, one case per request), and Overlay has it by refinement: this is
  what the abstract specification is good for.

`RefreshProofs.tla`, for any commits, branches and kinds and number of events, from
RefreshAssumption alone:

- TypeCorrect: TypeOK, from TypeInv, which adds what a process holds by where it
  is: a commit once HEAD is resolved, a generation no newer than repo_state's once
  it has read or published one, and that nothing is stored beyond the newest.
- ServedTreesExist, ServedIsCurrent, SizesAreKept: ServedTreeExists, ServesCurrent
  and HydratedHasSize, from ServedInv. None is inductive alone, since each step of a
  refresh only moves one of repo_state, base_nodes, the generation served and the
  daemon's record. SnapshotInv: the newest generation exists and is of the commit in
  repo_state. ServedIsNear: while nobody else publishes, the generation served is
  the newest, or the one before until the daemon has switched; Prune keeps
  both. WorkMatches: from ReadState or PublishGeneration to setHeadState the
  commit and the generation in the daemon's local variables belong together.
  SizeInv: a hydration records the size where it is served, and who publishes
  next has read it. The exceptions in the three properties (add-repo publishing,
  in the middle of ReadState or not; a hydration that overlaps a refresh or whose UPDATE
  fails) are where
  the step lemma fails without them, and TLC has a counterexample for each.
- MountMirrorsHEAD: Refresh implements HeadMirror (ImplementsMirror). Every step of the
  daemon is a Take (ResolveHEAD), a Show (SetGeneration, of onHEADChanged and of
  mountRepo), a GiveUp (nothing new, a failure) or a stutter; a crash and a generation
  deleted are a Lose. WorkMatches is what makes Show show what was taken.
- GenerationsStay: what is published under a number stays until it is deleted,
  the number in repo_state grows, and a mount only switches forward.

`BatchPoolProofs.tla`, for any processes, objects and sizes and any finite sets of
calls (BatchPoolAssumption; that they are finite is only needed to count them in
CloseLeavesFew):

- TypeCorrect, AnswersAreRight, PoolsAreBounded, CloseLeavesFew,
  ProcessesHaveOneHolder: TypeOK, RightBlob, PoolBound, Leftover and OneHolder. RightBlob
  says nothing of processes, so alone it is not inductive. PlaceInv: a process is
  with one call, in one pool or to be shut down, and is so exactly until it was
  waited for. Silent: one that no call has, has nothing left to say. Talks: one that a
  call has holds the answer to this call or nothing, save on the way to be
  closed; so what goes back to a pool is silent. StoreInv: the pool Close emptied
  has room only for the calls that still hold one of its processes. The lemmas at the
  head say what Append and the cuts of a free list do to its elements.
- FewHang: what CallsReturn and KeeperReturns rest on. A process that its caller
  closes and waits for is silent, or is writing the blob that a worker could not store
  (Waits): so only a worker hangs, and only over a large blob; a process
  that Close or SetBatchPoolSize waits for has nothing left to say.

`InodesProofs.tla`, for any finite set of names and any open files, files and inode
numbers (InodesAssumption):

- TypeCorrect, CountsAgree, TablesAreInverse, NoInodeIsStale, HandlesNameTheirFile:
  TypeOK, LookupCountsAgree, TableInverse, NoStaleInode and HandleNamesFile. The
  invariant is these, without NoStaleInode, and: what the kernel has for a name or
  an open file it has counted (Held), numbers not given out are in no table (Fresh),
  what a request may rely on under the kernel's lock of the directory (DirInv), and the
  path of an inode in an answer or in use is the name it was asked by (PathInv).
  NoStaleInode then follows from the counts: an inode in use counts, so the
  server's count is not zero.
- NumbersStay: an inode number keeps its path for as long as it is in the table, also
  over a rename, and is not given out again once it was dropped; from Fresh.

`DaemonProofs.tla`, for any repositories, remotes, intervals, commands and faults
(DaemonAssumption):

- TypeCorrect, RegistryFollowsCommands, RunningServesItsClone, DelaysAreBounded,
  MountsFollowRuntimes: TypeOK, RegistryAsTold, ServesItsClone, DelayBounds and
  MountsMatch. Inv adds to TypeOK what syncRepos knows at each place of its loop
  (LoopInv: a repository about to be mounted does not run, one about to be stopped
  does, one that is mounted has a clone) and what a command holds (CommandInv). With
  it, each of the others is inductive, after one lemma that names the few
  actions that write the registry, the runtimes or the mounts.
- RegisteredRunsOn: from a sync on that finds a repository registered, and while it
  stays so, only a shutdown or a crash stops it, whatever commands do meanwhile. A
  sync that has listed the registry between a remove-repo and the add-repo that brings the
  row back does stop it, which is why the theorem begins at a listing.

Every invariant, action property and refinement that a passing run checks is stated
by a theorem. What two conditions assume ([]OneFetchPerBlob, []RowsOfBase) holds in many
behaviours and fails in others, and the sections above and below say how the code
comes to break it.

Only model-checked: liveness (CallsReturn, KeeperReturns, HEADServedUnlessMissed,
RegistryFollowed) and whatever needs ENABLED, which TLAPS 1.4.5 does not support.
Proofs by induction over data (what a recursive definition computes, such as Overlay's
`Above`) are out of its reach too; the theorems about Overlay hold whatever `Above`
computes: EmptyDirectory needs of ReaddirTyped only that a row of the child itself
counts.

## Where code and documentation differ

1. (hydrator_tmp) `gitstore.go:469` promises an atomic rename of a temporary
   file; two fetches of one blob share the temporary file. The second one is
   possible because step takes the waiters at the pop (`hydrator.go:338`).
2. (overlay_race) `store.go:277` guards the DELETE so that a concurrent write is
   not lost; the removal of backing files at line 300 has no guard.
3. (overlay_staged) `e2e_git_test.go:323` expects unstaged lines to survive a
   commit of the staged ones; Reconcile drops them once it has run.
4. (refresh_missed) `README.md:187`: the watcher does not notice a change made
   before its first poll.

Others, which no run shows by itself, but which the named properties except or
would fail without their exception:

- `hydrator.go:345` has the fetch time out "so stuck blob fetches don't block a worker
  forever": BlobToCache ignores its context. It need not even be git that is
  stuck: when the write of a large blob fails (a full disk), close() waits
  for a process that waits for somebody to read the rest (`Hung` in BatchPool).
- `gitstore.go:44` "Close shuts down all persistent batch processes": not those of
  calls under way, which go back to a pool that nobody closes (Leftover).
- After RENAME the inode and open handles keep the old path (`fuse_unix.go:466`), so
  the new name is ENOENT until the kernel looks it up anew, and a handle reads
  and writes whatever is made under the old name (HandleNamesFile). `README.md:217`
  lists renames of files as supported.
- `refresh interval must be positive` (`daemon.go:718`) lets 500ms pass; the registry
  stores 0 seconds, and the daemon that reads it panics in NewTicker. Its mount is
  then dead, MkdirAll fails on it, and no later daemon mounts the repository
  until somebody unmounts by hand; the same after any crash (RegistryFollowed).
- `unmount` and `set-refresh` print that they did so; the daemon goes on as before.
  `remount` mounts on top of the daemon's mount for as long as the command
  lives, and its Close takes down that mount (MountsMatch, `upset`).
- set-refresh writes back the row it read, and may bring back a repository that was
  removed meanwhile (RegistryAsTold, `lost`).
- remove-repo and add-repo with another remote serve the old clone: nothing removes
  it, and a clone that exists is taken as it is. A FUSE mount that fails leaves a
  runtime without one, and is not tried again while the daemon lives.
- The temporary file of a copy-up is `upper/<path>.tmp` (`store.go:79`), and that is the backing
  file of a user's `<path>.tmp`: the first write of `a` empties or takes away what was written to
  `a.tmp`, whose row stays (`Overwritten` in WorkTree).
- Remove and Rename change a file and a row in two steps with the context of the FUSE
  request: a request that is cancelled in between leaves a row without its file, with no crash
  (`HalfUnlink`, `HalfRename`). `store.go:196-198` has the failed undo of a rename
  logged upstream by the daemon; nothing looks at its errors.
- Engine.Truncate leaves `size_bytes` (`ops.go:129`), which stat shows; `e2e_test.go:299-310` truncates a
  tracked file and expects size 0 (SizeIsRecorded excepts it).
- UpdateSize ignores the error of its UPDATE (`snapshot/store.go:167`); the busy timeout is set on
  one connection of the pool (`sqlite.go:21`), so two writers suffice, and the size of
  a cached blob is never asked for again (HydratedHasSize, `sizeLost`).
- With an interval above ten minutes a failing fetch is retried sooner than a
  succeeding one (DelayBounds).

Seen while modelling, covered by an exception in a property or not at all, each
in the list of hazards: renamed rows and files created over a deleted tracked
one are dropped by the next refresh; Rename fails onto a path with a row;
DirtyCount omits deletions; a directory is listed with
the type of a row below it; a failed onHEADChanged is not tried again; two equal
modification times hide a change, and so does a pack of the refs between the two
stats of a first look; add-repo can delete the generation that is
served or be read half-way by ReadState; sizes recorded during a refresh are
lost; a call that registers after Stop hangs.

## What is not modelled, and why

- Text and numbers: path cleaning, redaction, parsing of git's output, modes, mtimes
  of base files. The model has names and trees.
- Renames of directories, which the code does as those of a file (the row becomes
  kind "rename", which NodeType shows as a file, and children stay behind).
- Concurrent operations of users on one mount: Linux serialises those that
  change one file or one directory (inode locks, held across the FUSE request),
  so the model runs one at a time and interleaves it with the refresh.
- In Overlay: a read error of Get, which counts as no row (`store.go:62`), otherwise than as
  an operation that fails; a crash in the middle of a copy, which leaves the temporary
  file short instead of whole: nobody looks at it before it is written anew, or it is a user's, lost either way.
- Readers that look between Reconcile and the switch: RefreshKeepsView compares
  the views before and after.
- In Inodes: the synthesized .git, directory handles, inodes of directories
  with names below them.
- In Daemon: Status, DirtyCount behind it, and the other commands that only read, the
  closing of stores and goroutines inside stopRuntime (one step), the length of
  backoffs; the unmount of a row that is not enabled, which no command writes; what a
  Remount's mountRepo does to the databases it shares with the daemon (it runs Reconcile
  and publishes, as add-repo does in Refresh).
- SQLite helpers, logging, redaction, platform files, examples: pure I/O or
  strings.

## Plan

1. Hydrator, WorkTree and Overlay, Refresh, BatchPool, Inodes, Daemon: done.
2. Theorems about all six: every invariant and action property of the passing runs,
   the refinements of WorkTree by Overlay and of HeadMirror by Refresh: done.
3. Left: an abstract specification of the pool and of the hydrator's answers, with
   their refinements; renames of directories in Overlay.
