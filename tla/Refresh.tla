------------------------------ MODULE Refresh ------------------------------
(***************************************************************************)
(* How a mount follows HEAD: git moves HEAD and branches behind the        *)
(* daemon's back, the watcher polls two files for it, onHEADChanged        *)
(* publishes the new tree as a snapshot generation and switches the        *)
(* resolver to it, and mountRepo does the same after a restart.  Another   *)
(* process, add-repo, prepares the same repository in the same database,   *)
(* and the hydrator records sizes in the generation that is served.        *)
(*                                                                         *)
(* One git command, SQL transaction or system call is one action.  What    *)
(* Reconcile and ReadTreeHEAD do to overlay and index is in Overlay.       *)
(***************************************************************************)
EXTENDS Naturals

CONSTANTS
    Commits,
    Branches,
    FirstCommit,  \* what every branch points at when the daemon starts
    FirstBranch,  \* what HEAD points at when the daemon starts
    Detached,     \* HEAD holds a commit instead of a branch
    HEAD,         \* the file of that name
    None,
    Events,       \* what happens to the daemon
    MaxEvents     \* bound on how often

Refs == Branches \cup {Detached}
Files == Branches \cup {HEAD}
Procs == {"daemon", "cli"}

(* One more than the events: only after one is there anything to publish.   *)
Generations == 1..(1 + MaxEvents)

ASSUME RefreshAssumption ==
    /\ FirstCommit \in Commits
    /\ FirstBranch \in Branches
    /\ Detached \notin Branches /\ HEAD \notin Branches
    /\ None \notin Commits /\ None \notin Refs /\ None \notin Files
    /\ Events \subseteq {"move", "pack", "prepare", "crash", "error"}
    /\ MaxEvents \in Nat

VARIABLES
    headRef,   \* the branch in HEAD, or Detached
    tip,       \* the commit each branch, or a detached HEAD, is at
    loose,     \* the branches with a file of their own
    stamp,     \* modification time of each file
    clock,     \* its granularity is that of the file system
    prev,      \* prev: the time the watcher last saw on each file
    firstSeen, \* firstSeenChange: files that were missing when looked at
    pc,        \* where the daemon and add-repo are
    new,       \* oid, ref, generation and sizes they work on
    path,      \* the ref file the watcher found in HEAD
    nodes,     \* base_nodes: the commit of each generation that has rows
    sized,     \* the generations that record the size of the blob
    state,     \* repo_state: generation, oid and ref
    served,    \* the resolver's generation, 0 while nothing is mounted
    current,   \* rt.state: oid and ref
    blob,      \* how far the hydration of a file of all commits has come
    seen,      \* history: see Ghosts
    events     \* how many Events happened

gitVars == <<headRef, tip, loose, stamp, clock>>
watchVars == <<prev, firstSeen, path>>
dbVars == <<nodes, sized, state>>
mountVars == <<served, current>>
vars == <<gitVars, watchVars, pc, new, dbVars, mountVars, blob, seen, events>>

-----------------------------------------------------------------------------
HeadCommit == tip[headRef]

Work(oid) == [oid |-> oid, ref |-> None, gen |-> 0, sized |-> FALSE]

NoWork == Work(None)

(* Ghosts: primed, the watcher has finished its first poll; missed, some    *)
(* change may never be noticed; foreign, add-repo published a generation    *)
(* newer than the one served; torn, add-repo published while mountRepo      *)
(* was inside ReadState; sizeLost, a size was recorded in a generation      *)
(* that was about to be replaced, or nowhere.                               *)
Ghosts == [primed |-> FALSE, missed |-> FALSE, foreign |-> FALSE,
           torn |-> FALSE, sizeLost |-> FALSE]

Init ==
    /\ headRef = FirstBranch
    /\ tip = [r \in Refs |-> FirstCommit]
    /\ loose = Branches
    /\ stamp = [f \in Files |-> 0]
    /\ clock = 0
    /\ prev = [f \in Files |-> None]
    /\ firstSeen = {}
    /\ pc = [p \in Procs |-> IF p = "daemon" THEN "resolve" ELSE "off"]
    /\ new = [p \in Procs |-> NoWork]
    /\ path = None
    /\ nodes = [g \in Generations |-> None]
    /\ sized = {}
    /\ state = [gen |-> 0, oid |-> None, ref |-> None]
    /\ served = 0
    /\ current = [oid |-> None, ref |-> None]
    /\ blob = "remote"
    /\ seen = Ghosts
    /\ events = 0

Event(kind) ==
    /\ kind \in Events
    /\ events < MaxEvents
    /\ events' = events + 1

To(p, at) == pc' = [pc EXCEPT ![p] = at]

-----------------------------------------------------------------------------
(* git.                                                                     *)

(* mountRepo has resolved HEAD and the watcher has no baseline yet.         *)
Unwatched == pc["daemon"] \notin {"off", "resolve"} /\ ~seen.primed

(* A change of file: the time may be that of the change before.             *)
Changed(file) ==
    /\ Event("move")
    /\ clock' \in {clock, clock + 1}
    /\ stamp' = [stamp EXCEPT ![file] = clock']
    /\ seen' = [seen EXCEPT !.missed = @ \/ Unwatched \/ prev[file] = clock']
    /\ UNCHANGED <<watchVars, pc, new, dbVars, mountVars, blob>>

(* git commit, reset or pull on a branch.                                   *)
Advance(b, c) ==
    /\ tip[b] # c
    /\ tip' = [tip EXCEPT ![b] = c]
    /\ loose' = loose \cup {b}
    /\ Changed(b)
    /\ UNCHANGED headRef

(* git checkout of a branch, or of a commit.                                *)
CheckoutBranch(b) ==
    /\ headRef # b
    /\ headRef' = b
    /\ Changed(HEAD)
    /\ UNCHANGED <<tip, loose>>

CheckoutCommit(c) ==
    /\ headRef # Detached \/ tip[Detached] # c
    /\ headRef' = Detached
    /\ tip' = [tip EXCEPT ![Detached] = c]
    /\ Changed(HEAD)
    /\ UNCHANGED loose

(* git gc, which git commit may start by itself, moves the branches to      *)
(* packed-refs; the time of the current one may not have been seen, nor may *)
(* the file be known to be missing when it goes between the two stats.      *)
PackRefs ==
    /\ loose # {}
    /\ Event("pack")
    /\ loose' = {}
    /\ seen' = [seen EXCEPT !.missed =
                   @ \/ (/\ headRef \in loose
                         /\ prev[headRef] # stamp[headRef]
                         /\ \/ prev[headRef] # None \/ headRef \in firstSeen
                            \/ path = headRef /\ pc["daemon"] \in {"primelook", "polllook"})]
    /\ UNCHANGED <<headRef, tip, stamp, clock, watchVars, pc, new, dbVars, mountVars, blob>>

-----------------------------------------------------------------------------
(* The watcher.  Its loop runs on the daemon's pc: a poll, then what it     *)
(* calls.                                                                   *)

(* Mutation: a file that appears is only a new baseline.                    *)
AppearedIsBaseline(f) == prev[f] # None /\ stamp[f] > prev[f]

(* changed, of a file that exists.                                          *)
Newer(f) == IF prev[f] = None THEN f \in firstSeen ELSE stamp[f] > prev[f]

LookAt(f) ==
    /\ prev' = [prev EXCEPT ![f] = stamp[f]]
    /\ firstSeen' = firstSeen \ {f}

StatHEAD ==
    /\ pc["daemon"] = "wait"
    /\ LookAt(HEAD)
    /\ To("daemon", IF Newer(HEAD) THEN "prime" ELSE "poll")
    /\ UNCHANGED <<gitVars, path, new, dbVars, mountVars, blob, seen, events>>

Polled == seen' = [seen EXCEPT !.primed = TRUE]

(* headRefPath                                                              *)
ReadHEAD ==
    /\ pc["daemon"] \in {"prime", "poll"}
    /\ path' = headRef
    /\ IF headRef \in Branches
       THEN /\ To("daemon", IF pc["daemon"] = "prime" THEN "primeref" ELSE "pollref")
            /\ UNCHANGED seen
       ELSE /\ To("daemon", IF pc["daemon"] = "prime" THEN "resolve" ELSE "wait")
            /\ Polled
    /\ UNCHANGED <<gitVars, prev, firstSeen, new, dbVars, mountVars, blob, events>>

(* currentRefChanged, after a change of HEAD only to have a baseline, looks *)
(* whether there is a file ...                                              *)
StatRef ==
    /\ pc["daemon"] \in {"primeref", "pollref"}
    /\ \/ /\ path \in loose
          /\ To("daemon", IF pc["daemon"] = "primeref" THEN "primelook" ELSE "polllook")
          /\ UNCHANGED <<firstSeen, path, seen>>
       \/ /\ path \notin loose
          /\ firstSeen' = firstSeen \cup {path}
          /\ To("daemon", IF pc["daemon"] = "primeref" THEN "resolve" ELSE "wait")
          /\ path' = None
          /\ Polled
    /\ UNCHANGED <<gitVars, prev, new, dbVars, mountVars, blob, events>>

(* ... and has changed look at it, which lets a file that went go.          *)
LookAtRef ==
    /\ pc["daemon"] \in {"primelook", "polllook"}
    /\ IF path \in loose THEN LookAt(path) ELSE UNCHANGED <<prev, firstSeen>>
    /\ To("daemon", IF pc["daemon"] = "primelook" \/ (path \in loose /\ Newer(path))
                    THEN "resolve" ELSE "wait")
    /\ path' = None
    /\ Polled
    /\ UNCHANGED <<gitVars, new, dbVars, mountVars, blob, events>>

-----------------------------------------------------------------------------
(* ensurePreparedRepo, by mountRepo and by add-repo, and onHEADChanged.     *)

Mounted == served # 0
Refreshing(p) == p = "daemon" /\ Mounted

StartPrepare ==
    /\ pc["cli"] = "off"
    /\ Event("prepare")
    /\ To("cli", "resolve")
    /\ UNCHANGED <<gitVars, watchVars, new, dbVars, mountVars, blob, seen>>

(* ResolveHEAD asks git twice: for the commit ...                           *)
ResolveOid(p) ==
    /\ pc[p] = "resolve"
    /\ new' = [new EXCEPT ![p] = Work(HeadCommit)]
    /\ To(p, "resolveref")
    /\ UNCHANGED <<gitVars, watchVars, dbVars, mountVars, blob, seen, events>>

(* ... and for the branch.                                                  *)
ResolveRef(p) ==
    /\ pc[p] = "resolveref"
    /\ \/ /\ Refreshing(p) /\ new[p].oid = current.oid /\ headRef = current.ref
          /\ To(p, "wait")
          /\ new' = [new EXCEPT ![p] = NoWork]
       \/ /\ \/ ~Refreshing(p) /\ To(p, "readgen")
             \/ Refreshing(p) /\ new[p].oid # current.oid /\ To(p, "build")
             \/ /\ Refreshing(p) /\ new[p].oid = current.oid
                /\ headRef # current.ref /\ To(p, "updateref")
          /\ new' = [new EXCEPT ![p].ref = headRef]
    /\ UNCHANGED <<gitVars, watchVars, dbVars, mountVars, blob, seen, events>>

(* UpdateHEADRef, whose failure is only logged ...                          *)
UpdateHEADRef ==
    /\ pc["daemon"] = "updateref"
    /\ \/ state' = [state EXCEPT !.ref = new["daemon"].ref] /\ UNCHANGED events
       \/ Event("error") /\ UNCHANGED state
    /\ To("daemon", "setref")
    /\ UNCHANGED <<gitVars, watchVars, new, nodes, sized, mountVars, blob, seen>>

(* ... and rt.state.                                                        *)
SetHEADRef ==
    /\ pc["daemon"] = "setref"
    /\ current' = [current EXCEPT !.ref = new["daemon"].ref]
    /\ new' = [new EXCEPT !["daemon"] = NoWork]
    /\ To("daemon", "wait")
    /\ UNCHANGED <<gitVars, watchVars, dbVars, served, blob, seen, events>>

(* Mutation: any snapshot of the same branch will do.                       *)
ReadOidUnchecked(p) ==
    /\ pc[p] = "readoid"
    /\ To(p, IF new[p].gen = 0 THEN "build" ELSE "readref")
    /\ UNCHANGED <<gitVars, watchVars, new, dbVars, mountVars, blob, seen, events>>

(* ReadState asks the database three times.  What differs from HEAD, or is  *)
(* not there, is published anew.                                            *)
ReadGen(p) ==
    /\ pc[p] = "readgen"
    /\ new' = [new EXCEPT ![p].gen = state.gen]
    /\ To(p, "readoid")
    /\ UNCHANGED <<gitVars, watchVars, dbVars, mountVars, blob, seen, events>>

ReadOid(p) ==
    /\ pc[p] = "readoid"
    /\ To(p, IF new[p].gen = 0 \/ state.oid # new[p].oid THEN "build" ELSE "readref")
    /\ UNCHANGED <<gitVars, watchVars, new, dbVars, mountVars, blob, seen, events>>

ReadRef(p) ==
    /\ pc[p] = "readref"
    /\ \/ state.ref # new[p].ref /\ To(p, "build") /\ UNCHANGED new
       \/ /\ state.ref = new[p].ref /\ p = "daemon"
          /\ To(p, "switch") /\ UNCHANGED new
       \/ /\ state.ref = new[p].ref /\ p = "cli"
          /\ To(p, "off") /\ new' = [new EXCEPT ![p] = NoWork]
    /\ UNCHANGED <<gitVars, watchVars, dbVars, mountVars, blob, seen, events>>

(* What a query that fails would have told is published anew, too.          *)
ReadStateFails(p) ==
    /\ pc[p] \in {"readgen", "readoid", "readref"}
    /\ Event("error")
    /\ To(p, "build")
    /\ UNCHANGED <<gitVars, watchVars, new, dbVars, mountVars, blob, seen>>

(* BuildTreeIndex knows the sizes of the blobs git has.                     *)
BuildTreeIndex(p) ==
    /\ pc[p] = "build"
    /\ new' = [new EXCEPT ![p].sized = blob # "remote"]
    /\ To(p, "publish")
    /\ UNCHANGED <<gitVars, watchVars, dbVars, mountVars, blob, seen, events>>

(* Mutation: current_generation is not advanced.                            *)
PublishUnrecorded(p) ==
    /\ pc[p] = "publish"
    /\ LET g == state.gen + 1 IN
         /\ nodes' = [nodes EXCEPT ![g] = new[p].oid]
         /\ new' = [new EXCEPT ![p].gen = g]
    /\ state' = [state EXCEPT !.oid = new[p].oid, !.ref = new[p].ref]
    /\ To(p, "prune")
    /\ UNCHANGED <<gitVars, watchVars, sized, mountVars, blob, seen, events>>

(* PublishGeneration's transaction ...                                      *)
PublishGeneration(p) ==
    /\ pc[p] = "publish"
    /\ LET g == state.gen + 1 IN
         /\ g \in Generations
         /\ nodes' = [nodes EXCEPT ![g] = new[p].oid]
         /\ sized' = IF new[p].sized THEN sized \cup {g} ELSE sized \ {g}
         /\ state' = [gen |-> g, oid |-> new[p].oid, ref |-> new[p].ref]
         /\ new' = [new EXCEPT ![p].gen = g]
    /\ seen' = IF p = "cli"
               THEN [seen EXCEPT !.foreign = TRUE,
                                 !.torn = @ \/ pc["daemon"] \in {"readoid", "readref"}]
               ELSE seen
    /\ To(p, "prune")
    /\ UNCHANGED <<gitVars, watchVars, mountVars, blob, events>>

(* Mutation: every generation but the new one goes.                         *)
KeptIfNew(g) == [i \in Generations |-> IF i < g THEN None ELSE nodes[i]]

Kept(g) == [i \in Generations |-> IF g > 2 /\ i < g - 1 THEN None ELSE nodes[i]]

(* ... and its clean-up, whose failure is ignored.                          *)
Prune(p) ==
    /\ pc[p] = "prune"
    /\ \/ /\ nodes' = Kept(new[p].gen)
          /\ sized' = {g \in sized : Kept(new[p].gen)[g] # None}
          /\ UNCHANGED events
       \/ Event("error") /\ UNCHANGED <<nodes, sized>>
    /\ To(p, IF p = "daemon" THEN "switch" ELSE "off")
    /\ new' = IF p = "daemon" THEN new ELSE [new EXCEPT ![p] = NoWork]
    /\ UNCHANGED <<gitVars, watchVars, state, mountVars, blob, seen>>

(* SetGeneration ...                                                        *)
SetGeneration ==
    /\ pc["daemon"] = "switch"
    /\ served' = new["daemon"].gen
    /\ To("daemon", "record")
    /\ seen' = [seen EXCEPT !.foreign = state.gen # served']
    /\ UNCHANGED <<gitVars, watchVars, new, dbVars, current, blob, events>>

(* ... and setHeadState, or startRuntime.                                   *)
SetHeadState ==
    /\ pc["daemon"] = "record"
    /\ current' = [oid |-> new["daemon"].oid, ref |-> new["daemon"].ref]
    /\ new' = [new EXCEPT !["daemon"] = NoWork]
    /\ To("daemon", "wait")
    /\ UNCHANGED <<gitVars, watchVars, dbVars, served, blob, seen, events>>

(* git or the database fails.  onHEADChanged logs it and waits for another  *)
(* change; mountRepo, which Reconcile and ReadTreeHEAD can fail too, is     *)
(* tried again; add-repo reports it.                                        *)
Fail(p) ==
    /\ \/ pc[p] \in {"resolve", "build", "publish"}
       \/ pc[p] = "switch" /\ ~Mounted
    /\ Event("error")
    /\ To(p, CASE p = "cli" -> "off" [] Refreshing(p) -> "wait" [] OTHER -> "resolve")
    /\ new' = [new EXCEPT ![p] = NoWork]
    /\ seen' = [seen EXCEPT !.missed = @ \/ Refreshing(p)]
    /\ UNCHANGED <<gitVars, watchVars, dbVars, mountVars, blob>>

-----------------------------------------------------------------------------
(* The daemon dies and is started again.                                    *)
Crash ==
    /\ Event("crash")
    /\ To("daemon", "resolve")
    /\ new' = [new EXCEPT !["daemon"] = NoWork]
    /\ prev' = [f \in Files |-> None]
    /\ firstSeen' = {}
    /\ path' = None
    /\ served' = 0
    /\ current' = [oid |-> None, ref |-> None]
    /\ seen' = [seen EXCEPT !.primed = FALSE, !.missed = FALSE,
                            !.sizeLost = @ \/ blob = "cached"]
    /\ UNCHANGED <<gitVars, dbVars, blob>>

(* A worker has git fetch the blob and puts it in the cache, which outlives *)
(* the daemon; then the OnHydrated callback records its size.  What is in   *)
(* the cache is never fetched again.                                        *)
FetchBlob ==
    /\ Mounted /\ blob = "remote"
    /\ blob' = "cached"
    /\ UNCHANGED <<gitVars, watchVars, pc, new, dbVars, mountVars, seen, events>>

(* Mutation: the size is recorded in the newest generation of the database. *)
SizeOfNewest ==
    /\ Mounted /\ blob = "cached"
    /\ blob' = "hydrated"
    /\ sized' = sized \cup {state.gen}
    /\ UNCHANGED <<gitVars, watchVars, pc, new, nodes, state, mountVars, seen, events>>

(* UpdateSize ignores an error, as that of a second writer's lock.          *)
UpdateSize ==
    /\ Mounted /\ blob = "cached"
    /\ blob' = "hydrated"
    /\ \/ /\ sized' = IF nodes[served] = None THEN sized ELSE sized \cup {served}
          /\ seen' = [seen EXCEPT !.sizeLost =
                         @ \/ served # state.gen
                           \/ \E p \in Procs : pc[p] = "publish" /\ ~new[p].sized]
          /\ UNCHANGED events
       \/ /\ Event("error")
          /\ seen' = [seen EXCEPT !.sizeLost = TRUE]
          /\ UNCHANGED sized
    /\ UNCHANGED <<gitVars, watchVars, pc, new, nodes, state, mountVars>>

-----------------------------------------------------------------------------
GitStep ==
    \/ \E b \in Branches : CheckoutBranch(b) \/ \E c \in Commits : Advance(b, c)
    \/ \E c \in Commits : CheckoutCommit(c)
    \/ PackRefs

PrepareStep(p) ==
    \/ ResolveOid(p) \/ ResolveRef(p) \/ ReadGen(p) \/ ReadOid(p) \/ ReadRef(p)
    \/ ReadStateFails(p) \/ BuildTreeIndex(p) \/ PublishGeneration(p) \/ Prune(p)

DaemonStep ==
    \/ StatHEAD \/ ReadHEAD \/ StatRef \/ LookAtRef
    \/ PrepareStep("daemon") \/ UpdateHEADRef \/ SetHEADRef \/ SetGeneration \/ SetHeadState

HydrateStep == FetchBlob \/ UpdateSize

Next ==
    \/ GitStep
    \/ DaemonStep
    \/ StartPrepare
    \/ PrepareStep("cli")
    \/ \E p \in Procs : Fail(p)
    \/ Crash
    \/ HydrateStep

Spec == Init /\ [][Next]_vars

(* The watcher's ticker and the runtime let the daemon's goroutine run.     *)
FairSpec == Spec /\ WF_vars(DaemonStep)

-----------------------------------------------------------------------------
(* Every variable holds a value of its kind; generations are used in order, *)
(* and only one that was published is served.                               *)
TypeOK ==
    /\ headRef \in Refs
    /\ tip \in [Refs -> Commits]
    /\ loose \subseteq Branches
    /\ clock \in 0..events
    /\ stamp \in [Files -> 0..clock]
    /\ prev \in [Files -> (0..clock) \cup {None}]
    /\ firstSeen \subseteq Branches
    /\ pc["daemon"] \in {"wait", "prime", "poll", "primeref", "pollref", "primelook",
                         "polllook", "resolve", "resolveref", "updateref", "setref",
                         "readgen", "readoid", "readref", "build", "publish", "prune", "switch", "record"}
    /\ pc["cli"] \in {"off", "resolve", "resolveref", "readgen", "readoid", "readref",
                      "build", "publish", "prune"}
    /\ path \in Refs \cup {None}
    /\ nodes \in [Generations -> Commits \cup {None}]
    /\ sized \subseteq {g \in Generations : nodes[g] # None}
    /\ state.gen \in {0} \cup Generations
    /\ \A g \in Generations : g > state.gen => nodes[g] = None
    /\ served \in 0..state.gen
    /\ blob \in {"remote", "cached", "hydrated"}

(* The tree that file system operations resolve names in is always there,   *)
(* also while a refresh publishes and deletes generations, when the daemon  *)
(* alone publishes: Prune keeps one generation more than the newest.        *)
ServedTreeExists ==
    Mounted /\ ~seen.foreign => nodes[served] # None

(* Between two refreshes the tree served is that of the commit the daemon   *)
(* believes it serves, through restarts and generations that add-repo       *)
(* published, unless add-repo publishes while mountRepo is in ReadState.    *)
ServesCurrent ==
    Mounted /\ pc["daemon"] # "record" /\ ~seen.torn
        => nodes[served] \in {current.oid, None}

(* A blob that was hydrated has its size in what is served, so stat shows   *)
(* it, unless its callback met a refresh that had read the sizes already,   *)
(* was lost in a crash, or had its UPDATE fail.                             *)
HydratedHasSize ==
    Mounted /\ blob = "hydrated" /\ nodes[served] # None /\ ~seen.sizeLost
        => served \in sized

(* The commit a refresh works on until it switches to it, and the commit    *)
(* that is served.                                                          *)
Taken == IF pc["daemon"] = "record" THEN None ELSE new["daemon"].oid
Shown == IF Mounted /\ ~seen.torn THEN nodes[served] ELSE None

HM == INSTANCE HeadMirror WITH head <- HeadCommit, taken <- Taken, shown <- Shown

(* Whatever generations come and go, the mount changes from one commit to   *)
(* another only when HEAD was at the other since its last change, through   *)
(* restarts, failures, moves of HEAD in the middle of a refresh and another *)
(* publisher, unless that one publishes while mountRepo is in ReadState.    *)
ImplementsMirror == HM!Spec

(* When git leaves HEAD alone the mount comes to serve its commit, if no    *)
(* change was hidden from the watcher, no refresh failed and add-repo did   *)
(* not delete the generation served.                                        *)
HEADServedUnlessMissed ==
    <>[](seen.missed \/ seen.torn \/ (Mounted /\ nodes[served] \in {HeadCommit, None}))

(* "A watcher polls HEAD/refs every 500ms.  On HEAD changes, the daemon     *)
(* re-indexes the tree": when git leaves HEAD alone the mount comes to      *)
(* serve its commit.                                                        *)
HEADServed == <>[](Mounted /\ nodes[served] = HeadCommit)
=============================================================================
