---------------------------- MODULE RefreshProofs ----------------------------
(***************************************************************************)
(* Proofs about Refresh: its types, and that the mount serves a tree that  *)
(* exists, of the commit the daemon records, with the sizes of hydrated    *)
(* blobs.  None of the three is inductive: each depends on what the        *)
(* goroutine that is refreshing holds in its local variables, and on how   *)
(* repo_state and base_nodes agree.  TypeInv says the former's types,      *)
(* ServedInv the rest.                                                     *)
(***************************************************************************)
EXTENDS Refresh, TLAPS

-----------------------------------------------------------------------------
(* Types.                                                                   *)

(* Where a process can be, and where it holds a commit in new.              *)
Places ==
    {"off", "wait", "prime", "poll", "primeref", "pollref", "primelook", "polllook",
     "resolve", "resolveref", "updateref", "setref", "readgen", "readoid", "readref",
     "build", "publish", "prune", "switch", "record"}

WorkPlaces ==
    {"resolveref", "updateref", "setref", "readgen", "readoid", "readref", "build",
     "publish", "prune", "switch", "record"}

(* The local variables of a refresh.                                        *)
Works ==
    [oid : Commits \cup {None}, ref : Refs \cup {None},
     gen : {0} \cup Generations, sized : BOOLEAN]

(* What git, the watcher, the processes and the database hold.  A process   *)
(* has a generation of its own by the time it prunes or switches, and no    *)
(* generation after the newest is there.                                    *)
GitTyped ==
    /\ headRef \in Refs
    /\ tip \in [Refs -> Commits]
    /\ loose \subseteq Branches
    /\ events \in 0..MaxEvents
    /\ clock \in 0..events
    /\ stamp \in [Files -> 0..clock]

WatchTyped ==
    /\ prev \in [Files -> (0..clock) \cup {None}]
    /\ firstSeen \subseteq Branches
    /\ path \in Refs \cup {None}
    /\ pc["daemon"] \in {"primeref", "pollref", "primelook", "polllook"} =>
          path \in Branches

PlacesTyped ==
    /\ pc \in [Procs -> Places]
    /\ pc["daemon"] # "off"
    /\ pc["cli"] \in {"off", "resolve", "resolveref", "readgen", "readoid", "readref",
                      "build", "publish", "prune"}

WorkTyped ==
    /\ new \in [Procs -> Works]
    /\ \A p \in Procs :
          /\ pc[p] \in WorkPlaces => new[p].oid \in Commits
          /\ new[p].gen <= state.gen
          /\ pc[p] \in {"readref", "prune", "switch", "record"} => new[p].gen # 0

DbTyped ==
    /\ nodes \in [Generations -> Commits \cup {None}]
    /\ sized \subseteq {g \in Generations : nodes[g] # None}
    /\ state \in [gen : {0} \cup Generations, oid : Commits \cup {None},
                  ref : Refs \cup {None}]
    /\ \A g \in Generations : g > state.gen => nodes[g] = None
    /\ served \in 0..state.gen

RestTyped ==
    /\ current \in [oid : Commits \cup {None}, ref : Refs \cup {None}]
    /\ blob \in {"remote", "cached", "hydrated"}
    /\ seen \in [primed : BOOLEAN, missed : BOOLEAN, foreign : BOOLEAN,
                 torn : BOOLEAN, sizeLost : BOOLEAN]

TypeInv == GitTyped /\ WatchTyped /\ PlacesTyped /\ WorkTyped /\ DbTyped /\ RestTyped

(* A field of a record of local variables is assigned.                      *)
LEMMA WorkUpdated ==
    ASSUME NEW w \in Works, NEW r \in Refs \cup {None},
           NEW n \in {0} \cup Generations, NEW b \in BOOLEAN
    PROVE  /\ [w EXCEPT !.ref = r] \in Works
           /\ [w EXCEPT !.gen = n] \in Works
           /\ [w EXCEPT !.sized = b] \in Works
  BY DEF Works

USE DEF Procs, Refs, Files, Generations, To, Event

(* The state before mountRepo is well typed.                                *)
LEMMA TypeInit == Init => TypeInv
  BY RefreshAssumption, SMT
     DEF Init, TypeInv, GitTyped, WatchTyped, PlacesTyped, WorkTyped, DbTyped,
         RestTyped, Places, WorkPlaces, Works, Work, NoWork, Ghosts

(* Every action keeps the types, group of variables by group of variables.  *)
LEMMA TypeStep == TypeInv /\ [Next]_vars => TypeInv'
  <1>. SUFFICES ASSUME TypeInv, [Next]_vars PROVE TypeInv'
    OBVIOUS
  <1>. USE RefreshAssumption DEF TypeInv
  <1>1. ASSUME NEW b \in Branches, NEW c \in Commits, Advance(b, c) PROVE TypeInv'
    <2>1. PlacesTyped' /\ WorkTyped' /\ DbTyped'
      BY <1>1 DEF Advance, Changed, dbVars, mountVars, PlacesTyped, WorkTyped, DbTyped
    <2>2. GitTyped'
      BY <1>1 DEF Advance, Changed, GitTyped
    <2>3. WatchTyped'
      BY <1>1 DEF Advance, Changed, watchVars, WatchTyped, GitTyped
    <2>4. RestTyped'
      BY <1>1 DEF Advance, Changed, mountVars, RestTyped
    <2>. QED
      BY <2>1, <2>2, <2>3, <2>4
  <1>2. ASSUME NEW b \in Branches, CheckoutBranch(b) PROVE TypeInv'
    <2>1. PlacesTyped' /\ WorkTyped' /\ DbTyped'
      BY <1>2
         DEF CheckoutBranch, Changed, dbVars, mountVars, PlacesTyped, WorkTyped, DbTyped
    <2>2. GitTyped'
      BY <1>2 DEF CheckoutBranch, Changed, GitTyped
    <2>3. WatchTyped'
      BY <1>2 DEF CheckoutBranch, Changed, watchVars, WatchTyped, GitTyped
    <2>4. RestTyped'
      BY <1>2 DEF CheckoutBranch, Changed, mountVars, RestTyped
    <2>. QED
      BY <2>1, <2>2, <2>3, <2>4
  <1>3. ASSUME NEW c \in Commits, CheckoutCommit(c) PROVE TypeInv'
    <2>1. PlacesTyped' /\ WorkTyped' /\ DbTyped'
      BY <1>3
         DEF CheckoutCommit, Changed, dbVars, mountVars, PlacesTyped, WorkTyped, DbTyped
    <2>2. GitTyped'
      BY <1>3 DEF CheckoutCommit, Changed, GitTyped
    <2>3. WatchTyped'
      BY <1>3 DEF CheckoutCommit, Changed, watchVars, WatchTyped, GitTyped
    <2>4. RestTyped'
      BY <1>3 DEF CheckoutCommit, Changed, mountVars, RestTyped
    <2>. QED
      BY <2>1, <2>2, <2>3, <2>4
  <1>4. ASSUME PackRefs PROVE TypeInv'
    <2>1. WatchTyped' /\ PlacesTyped' /\ WorkTyped' /\ DbTyped'
      BY <1>4
         DEF PackRefs, watchVars, dbVars, mountVars, WatchTyped, PlacesTyped, WorkTyped,
             DbTyped
    <2>2. GitTyped'
      BY <1>4 DEF PackRefs, GitTyped
    <2>3. RestTyped'
      BY <1>4 DEF PackRefs, mountVars, RestTyped
    <2>. QED
      BY <2>1, <2>2, <2>3
  <1>5. ASSUME StatHEAD PROVE TypeInv'
    <2>1. GitTyped' /\ DbTyped' /\ RestTyped'
      BY <1>5 DEF StatHEAD, gitVars, dbVars, mountVars, GitTyped, DbTyped, RestTyped
    <2>2. WatchTyped'
      BY <1>5 DEF StatHEAD, LookAt, gitVars, WatchTyped, GitTyped
    <2>3. PlacesTyped'
      BY <1>5 DEF StatHEAD, PlacesTyped, Places
    <2>4. WorkTyped'
      BY <1>5 DEF StatHEAD, dbVars, WorkTyped, WorkPlaces
    <2>. QED
      BY <2>1, <2>2, <2>3, <2>4
  <1>6. ASSUME ReadHEAD PROVE TypeInv'
    <2>1. GitTyped' /\ DbTyped'
      BY <1>6 DEF ReadHEAD, gitVars, dbVars, mountVars, GitTyped, DbTyped
    <2>2. WatchTyped'
      BY <1>6 DEF ReadHEAD, gitVars, WatchTyped, GitTyped, PlacesTyped
    <2>3. PlacesTyped'
      BY <1>6 DEF ReadHEAD, PlacesTyped, Places
    <2>4. WorkTyped'
      BY <1>6 DEF ReadHEAD, dbVars, WorkTyped, WorkPlaces, PlacesTyped
    <2>5. RestTyped'
      <3>1. seen' = seen \/ seen' = [seen EXCEPT !.primed = TRUE]
        BY <1>6 DEF ReadHEAD, Polled
      <3>2. current' = current /\ blob' = blob
        BY <1>6 DEF ReadHEAD, mountVars
      <3>. QED
        BY <3>1, <3>2 DEF RestTyped
    <2>. QED
      BY <2>1, <2>2, <2>3, <2>4, <2>5
  <1>7. ASSUME StatRef PROVE TypeInv'
    <2>1. GitTyped' /\ DbTyped'
      BY <1>7 DEF StatRef, gitVars, dbVars, mountVars, GitTyped, DbTyped
    <2>2. WatchTyped'
      BY <1>7 DEF StatRef, gitVars, WatchTyped, GitTyped, PlacesTyped
    <2>3. PlacesTyped'
      BY <1>7 DEF StatRef, PlacesTyped, Places
    <2>4. WorkTyped'
      <3>1. pc'["daemon"] \in {"primelook", "polllook", "resolve", "wait"}
        BY <1>7 DEF StatRef, PlacesTyped
      <3>2. UNCHANGED <<new, state>> /\ pc'["cli"] = pc["cli"]
        BY <1>7 DEF StatRef, dbVars, PlacesTyped
      <3>. QED
        BY <3>1, <3>2 DEF WorkTyped, WorkPlaces
    <2>5. RestTyped'
      BY <1>7 DEF StatRef, Polled, mountVars, RestTyped
    <2>. QED
      BY <2>1, <2>2, <2>3, <2>4, <2>5
  <1>7a. ASSUME LookAtRef PROVE TypeInv'
    <2>1. GitTyped' /\ DbTyped'
      BY <1>7a DEF LookAtRef, gitVars, dbVars, mountVars, GitTyped, DbTyped
    <2>2. WatchTyped'
      BY <1>7a DEF LookAtRef, LookAt, gitVars, WatchTyped, GitTyped, PlacesTyped
    <2>3. PlacesTyped'
      BY <1>7a DEF LookAtRef, PlacesTyped, Places
    <2>4. WorkTyped'
      BY <1>7a DEF LookAtRef, dbVars, WorkTyped, WorkPlaces
    <2>5. RestTyped'
      BY <1>7a DEF LookAtRef, Polled, mountVars, RestTyped
    <2>. QED
      BY <2>1, <2>2, <2>3, <2>4, <2>5
  <1>8. ASSUME NEW p \in Procs, ResolveOid(p) PROVE TypeInv'
    <2>1. GitTyped' /\ DbTyped' /\ RestTyped'
      BY <1>8 DEF ResolveOid, gitVars, dbVars, mountVars, GitTyped, DbTyped, RestTyped
    <2>2. WatchTyped'
      BY <1>8 DEF ResolveOid, gitVars, watchVars, WatchTyped
    <2>3. PlacesTyped'
      BY <1>8 DEF ResolveOid, PlacesTyped, Places
    <2>4. WorkTyped'
      BY <1>8
         DEF ResolveOid, HeadCommit, dbVars, WorkTyped, Works, Work, DbTyped, GitTyped
    <2>. QED
      BY <2>1, <2>2, <2>3, <2>4
  <1>9. ASSUME NEW p \in Procs, ResolveRef(p) PROVE TypeInv'
    <2>1. GitTyped' /\ DbTyped' /\ RestTyped'
      BY <1>9 DEF ResolveRef, gitVars, dbVars, mountVars, GitTyped, DbTyped, RestTyped
    <2>2. WatchTyped'
      BY <1>9 DEF ResolveRef, gitVars, watchVars, WatchTyped, PlacesTyped
    <2>3. PlacesTyped'
      BY <1>9 DEF ResolveRef, Refreshing, PlacesTyped, Places
    <2>4. WorkTyped'
      <3>1. new' \in [Procs -> Works]
        <4>1. NoWork \in Works /\ [new[p] EXCEPT !.ref = headRef] \in Works
          BY DEF WorkTyped, Works, GitTyped, Work, NoWork
        <4>2. \/ new' = [new EXCEPT ![p] = NoWork]
              \/ new' = [new EXCEPT ![p] = [new[p] EXCEPT !.ref = headRef]]
          BY <1>9 DEF ResolveRef
        <4>. QED
          BY <4>1, <4>2 DEF WorkTyped
      <3>2. \A q \in Procs : /\ pc'[q] \in WorkPlaces => new'[q].oid \in Commits
                             /\ new'[q].gen <= state'.gen
        <4>1. CASE new' = [new EXCEPT ![p] = NoWork] /\ pc' = [pc EXCEPT ![p] = "wait"]
          BY <1>9, <4>1
             DEF ResolveRef, PlacesTyped, WorkTyped, WorkPlaces, DbTyped, Work, NoWork,
                 dbVars
        <4>2. CASE new' = [new EXCEPT ![p].ref = headRef]
          BY <1>9, <4>2 DEF ResolveRef, PlacesTyped, WorkTyped, WorkPlaces, dbVars
        <4>. QED
          BY <1>9, <4>1, <4>2 DEF ResolveRef
      <3>3. \A q \in Procs :
               pc'[q] \in {"readref", "prune", "switch", "record"}
                  => new'[q].gen # 0
        BY <1>9 DEF ResolveRef, PlacesTyped, WorkTyped
      <3>. QED
        BY <3>1, <3>2, <3>3 DEF WorkTyped
    <2>. QED
      BY <2>1, <2>2, <2>3, <2>4
  <1>10. ASSUME NEW p \in Procs, ReadGen(p) PROVE TypeInv'
    <2>1. GitTyped' /\ DbTyped' /\ RestTyped'
      BY <1>10 DEF ReadGen, gitVars, dbVars, mountVars, GitTyped, DbTyped, RestTyped
    <2>2. WatchTyped'
      BY <1>10 DEF ReadGen, gitVars, watchVars, WatchTyped
    <2>3. PlacesTyped'
      BY <1>10 DEF ReadGen, PlacesTyped, Places
    <2>4. WorkTyped'
      <3>1. new' \in [Procs -> Works]
        <4>0. new[p] \in Works /\ state.gen \in {0} \cup Generations
          BY <1>10 DEF WorkTyped, DbTyped
        <4>1. [new[p] EXCEPT !.gen = state.gen] \in Works
          BY <4>0, WorkUpdated
        <4>2. new' = [new EXCEPT ![p] = [new[p] EXCEPT !.gen = state.gen]]
          BY <1>10 DEF ReadGen
        <4>. QED
          BY <4>1, <4>2 DEF WorkTyped
      <3>2. \A q \in Procs : /\ pc'[q] \in WorkPlaces => new'[q].oid \in Commits
                             /\ new'[q].gen <= state'.gen
        BY <1>10 DEF ReadGen, WorkTyped, WorkPlaces, DbTyped, dbVars
      <3>3. \A q \in Procs :
               pc'[q] \in {"readref", "prune", "switch", "record"}
                  => new'[q].gen # 0
        BY <1>10 DEF ReadGen, WorkTyped
      <3>. QED
        BY <3>1, <3>2, <3>3 DEF WorkTyped
    <2>. QED
      BY <2>1, <2>2, <2>3, <2>4
  <1>11. ASSUME NEW p \in Procs, ReadOid(p) PROVE TypeInv'
    <2>1. GitTyped' /\ DbTyped' /\ RestTyped'
      BY <1>11 DEF ReadOid, gitVars, dbVars, mountVars, GitTyped, DbTyped, RestTyped
    <2>2. WatchTyped'
      BY <1>11 DEF ReadOid, gitVars, watchVars, WatchTyped
    <2>3. PlacesTyped'
      BY <1>11 DEF ReadOid, PlacesTyped, Places
    <2>4. WorkTyped'
      BY <1>11 DEF ReadOid, dbVars, WorkTyped, WorkPlaces
    <2>. QED
      BY <2>1, <2>2, <2>3, <2>4
  <1>12. ASSUME NEW p \in Procs, ReadRef(p) PROVE TypeInv'
    <2>1. GitTyped' /\ DbTyped' /\ RestTyped'
      BY <1>12
         DEF ReadRef, gitVars, watchVars, dbVars, mountVars, GitTyped, DbTyped,
             RestTyped
    <2>2. WatchTyped'
      BY <1>12 DEF ReadRef, gitVars, watchVars, WatchTyped, PlacesTyped
    <2>3. PlacesTyped'
      BY <1>12 DEF ReadRef, PlacesTyped, Places
    <2>4. WorkTyped'
      <3>1. new' \in [Procs -> Works]
        <4>1. NoWork \in Works
          BY DEF Works, Work, NoWork
        <4>. QED
          BY <1>12, <4>1 DEF ReadRef, WorkTyped
      <3>2. \A q \in Procs : /\ pc'[q] \in WorkPlaces => new'[q].oid \in Commits
                             /\ new'[q].gen <= state'.gen
        <4>1. CASE new' = new
          BY <1>12, <4>1 DEF ReadRef, PlacesTyped, WorkTyped, WorkPlaces, dbVars
        <4>2. CASE new' = [new EXCEPT ![p] = NoWork] /\ pc' = [pc EXCEPT ![p] = "off"]
          BY <1>12, <4>2
             DEF ReadRef, PlacesTyped, WorkTyped, WorkPlaces, DbTyped, Work, NoWork,
                 dbVars
        <4>. QED
          BY <1>12, <4>1, <4>2 DEF ReadRef
      <3>3. \A q \in Procs :
               pc'[q] \in {"readref", "prune", "switch", "record"}
                  => new'[q].gen # 0
        BY <1>12 DEF ReadRef, PlacesTyped, WorkTyped
      <3>. QED
        BY <3>1, <3>2, <3>3 DEF WorkTyped
    <2>. QED
      BY <2>1, <2>2, <2>3, <2>4
  <1>12a. ASSUME NEW p \in Procs, ReadStateFails(p) PROVE TypeInv'
    <2>1. DbTyped' /\ RestTyped'
      BY <1>12a DEF ReadStateFails, dbVars, mountVars, DbTyped, RestTyped
    <2>2. GitTyped'
      BY <1>12a DEF ReadStateFails, gitVars, GitTyped
    <2>3. WatchTyped'
      BY <1>12a DEF ReadStateFails, gitVars, watchVars, WatchTyped
    <2>4. PlacesTyped'
      BY <1>12a DEF ReadStateFails, PlacesTyped, Places
    <2>5. WorkTyped'
      BY <1>12a DEF ReadStateFails, dbVars, WorkTyped, WorkPlaces
    <2>. QED
      BY <2>1, <2>2, <2>3, <2>4, <2>5
  <1>13. ASSUME NEW p \in Procs, BuildTreeIndex(p) PROVE TypeInv'
    <2>1. GitTyped' /\ DbTyped' /\ RestTyped'
      BY <1>13
         DEF BuildTreeIndex, gitVars, dbVars, mountVars, GitTyped, DbTyped, RestTyped
    <2>2. WatchTyped'
      BY <1>13 DEF BuildTreeIndex, gitVars, watchVars, WatchTyped
    <2>3. PlacesTyped'
      BY <1>13 DEF BuildTreeIndex, PlacesTyped, Places
    <2>4. WorkTyped'
      <3>1. new' \in [Procs -> Works]
        <4>0. new[p] \in Works /\ (blob # "remote") \in BOOLEAN
          BY <1>13 DEF WorkTyped
        <4>1. [new[p] EXCEPT !.sized = blob # "remote"] \in Works
          BY <4>0, WorkUpdated
        <4>2. new' = [new EXCEPT ![p] = [new[p] EXCEPT !.sized = blob # "remote"]]
          BY <1>13 DEF BuildTreeIndex
        <4>. QED
          BY <4>1, <4>2 DEF WorkTyped
      <3>2. \A q \in Procs : /\ pc'[q] \in WorkPlaces => new'[q].oid \in Commits
                             /\ new'[q].gen <= state'.gen
        BY <1>13 DEF BuildTreeIndex, WorkTyped, WorkPlaces, dbVars
      <3>3. \A q \in Procs :
               pc'[q] \in {"readref", "prune", "switch", "record"}
                  => new'[q].gen # 0
        BY <1>13 DEF BuildTreeIndex, WorkTyped
      <3>. QED
        BY <3>1, <3>2, <3>3 DEF WorkTyped
    <2>. QED
      BY <2>1, <2>2, <2>3, <2>4
  <1>14. ASSUME NEW p \in Procs, PublishGeneration(p) PROVE TypeInv'
    <2>1. GitTyped'
      BY <1>14 DEF PublishGeneration, gitVars, GitTyped
    <2>2. WatchTyped'
      BY <1>14 DEF PublishGeneration, gitVars, watchVars, WatchTyped
    <2>3. PlacesTyped'
      BY <1>14 DEF PublishGeneration, PlacesTyped, Places
    <2>4. WorkTyped'
      <3>1. new' \in [Procs -> Works]
        <4>0. new[p] \in Works /\ state.gen + 1 \in {0} \cup Generations
          BY <1>14 DEF PublishGeneration, WorkTyped
        <4>1. [new[p] EXCEPT !.gen = state.gen + 1] \in Works
          BY <4>0, WorkUpdated
        <4>2. new' = [new EXCEPT ![p] = [new[p] EXCEPT !.gen = state.gen + 1]]
          BY <1>14 DEF PublishGeneration
        <4>. QED
          BY <4>1, <4>2 DEF WorkTyped
      <3>2. \A q \in Procs : /\ pc'[q] \in WorkPlaces => new'[q].oid \in Commits
                             /\ new'[q].gen <= state'.gen
        BY <1>14 DEF PublishGeneration, WorkTyped, Works, WorkPlaces, DbTyped
      <3>3. \A q \in Procs :
               pc'[q] \in {"readref", "prune", "switch", "record"}
                  => new'[q].gen # 0
        BY <1>14 DEF PublishGeneration, WorkTyped
      <3>. QED
        BY <3>1, <3>2, <3>3 DEF WorkTyped
    <2>5. DbTyped'
      BY <1>14 DEF PublishGeneration, mountVars, DbTyped, WorkTyped, Works, WorkPlaces
    <2>6. RestTyped'
      BY <1>14 DEF PublishGeneration, mountVars, RestTyped
    <2>. QED
      BY <2>1, <2>2, <2>3, <2>4, <2>5, <2>6
  <1>15. ASSUME NEW p \in Procs, Prune(p) PROVE TypeInv'
    <2>1. GitTyped' /\ RestTyped'
      BY <1>15 DEF Prune, gitVars, mountVars, GitTyped, RestTyped
    <2>2. WatchTyped'
      BY <1>15 DEF Prune, gitVars, watchVars, WatchTyped
    <2>3. PlacesTyped'
      BY <1>15 DEF Prune, PlacesTyped, Places
    <2>4. WorkTyped'
      BY <1>15
         DEF Prune, WorkTyped, Works, WorkPlaces, Work, NoWork, PlacesTyped, DbTyped
    <2>5. DbTyped'
      BY <1>15 DEF Prune, Kept, mountVars, DbTyped
    <2>. QED
      BY <2>1, <2>2, <2>3, <2>4, <2>5
  <1>16. ASSUME UpdateHEADRef PROVE TypeInv'
    <2>1. GitTyped'
      BY <1>16 DEF UpdateHEADRef, gitVars, GitTyped
    <2>2. WatchTyped'
      BY <1>16 DEF UpdateHEADRef, gitVars, watchVars, WatchTyped
    <2>3. PlacesTyped'
      BY <1>16 DEF UpdateHEADRef, PlacesTyped, Places
    <2>4. state'.gen = state.gen
      BY <1>16 DEF UpdateHEADRef, DbTyped
    <2>5. WorkTyped'
      BY <1>16, <2>4 DEF UpdateHEADRef, WorkTyped, WorkPlaces, PlacesTyped
    <2>6. DbTyped'
      BY <1>16 DEF UpdateHEADRef, mountVars, DbTyped, WorkTyped, Works
    <2>7. RestTyped'
      BY <1>16 DEF UpdateHEADRef, mountVars, RestTyped
    <2>. QED
      BY <2>1, <2>2, <2>3, <2>5, <2>6, <2>7
  <1>16a. ASSUME SetHEADRef PROVE TypeInv'
    <2>1. GitTyped' /\ DbTyped'
      BY <1>16a DEF SetHEADRef, gitVars, dbVars, GitTyped, DbTyped
    <2>2. WatchTyped'
      BY <1>16a DEF SetHEADRef, gitVars, watchVars, WatchTyped
    <2>3. PlacesTyped'
      BY <1>16a DEF SetHEADRef, PlacesTyped, Places
    <2>4. WorkTyped'
      BY <1>16a
         DEF SetHEADRef, dbVars, WorkTyped, Works, WorkPlaces, Work, NoWork,
             PlacesTyped, DbTyped
    <2>5. RestTyped'
      BY <1>16a DEF SetHEADRef, RestTyped, WorkTyped, Works
    <2>. QED
      BY <2>1, <2>2, <2>3, <2>4, <2>5
  <1>17. ASSUME SetGeneration PROVE TypeInv'
    <2>1. GitTyped'
      BY <1>17 DEF SetGeneration, gitVars, GitTyped
    <2>2. WatchTyped'
      BY <1>17 DEF SetGeneration, gitVars, watchVars, WatchTyped
    <2>3. PlacesTyped'
      BY <1>17 DEF SetGeneration, PlacesTyped, Places
    <2>4. WorkTyped'
      BY <1>17 DEF SetGeneration, dbVars, WorkTyped, WorkPlaces
    <2>5. DbTyped'
      BY <1>17 DEF SetGeneration, dbVars, DbTyped, WorkTyped, Works
    <2>6. RestTyped'
      BY <1>17 DEF SetGeneration, RestTyped
    <2>. QED
      BY <2>1, <2>2, <2>3, <2>4, <2>5, <2>6
  <1>18. ASSUME SetHeadState PROVE TypeInv'
    <2>1. GitTyped' /\ DbTyped'
      BY <1>18 DEF SetHeadState, gitVars, dbVars, GitTyped, DbTyped
    <2>2. WatchTyped'
      BY <1>18 DEF SetHeadState, gitVars, watchVars, WatchTyped
    <2>3. PlacesTyped'
      BY <1>18 DEF SetHeadState, PlacesTyped, Places
    <2>4. WorkTyped'
      BY <1>18
         DEF SetHeadState, dbVars, WorkTyped, Works, WorkPlaces, Work, NoWork,
             PlacesTyped, DbTyped
    <2>5. RestTyped'
      BY <1>18 DEF SetHeadState, RestTyped, WorkTyped, Works
    <2>. QED
      BY <2>1, <2>2, <2>3, <2>4, <2>5
  <1>19. ASSUME StartPrepare PROVE TypeInv'
    <2>1. DbTyped' /\ RestTyped'
      BY <1>19 DEF StartPrepare, dbVars, mountVars, DbTyped, RestTyped
    <2>2. GitTyped'
      BY <1>19 DEF StartPrepare, gitVars, GitTyped
    <2>3. WatchTyped'
      BY <1>19 DEF StartPrepare, gitVars, watchVars, WatchTyped
    <2>4. PlacesTyped'
      BY <1>19 DEF StartPrepare, PlacesTyped, Places
    <2>5. WorkTyped'
      BY <1>19 DEF StartPrepare, dbVars, WorkTyped, WorkPlaces
    <2>. QED
      BY <2>1, <2>2, <2>3, <2>4, <2>5
  <1>20. ASSUME NEW p \in Procs, Fail(p) PROVE TypeInv'
    <2>1. DbTyped'
      BY <1>20 DEF Fail, dbVars, mountVars, DbTyped
    <2>2. GitTyped'
      BY <1>20 DEF Fail, gitVars, GitTyped
    <2>3. WatchTyped'
      BY <1>20 DEF Fail, gitVars, watchVars, WatchTyped
    <2>4. PlacesTyped'
      BY <1>20 DEF Fail, Refreshing, PlacesTyped, Places
    <2>5. WorkTyped'
      BY <1>20
         DEF Fail, dbVars, WorkTyped, Works, WorkPlaces, Work, NoWork, PlacesTyped,
             DbTyped
    <2>6. RestTyped'
      BY <1>20 DEF Fail, mountVars, RestTyped
    <2>. QED
      BY <2>1, <2>2, <2>3, <2>4, <2>5, <2>6
  <1>21. ASSUME Crash PROVE TypeInv'
    <2>1. GitTyped'
      BY <1>21 DEF Crash, gitVars, GitTyped
    <2>2. WatchTyped'
      BY <1>21 DEF Crash, WatchTyped, PlacesTyped
    <2>3. PlacesTyped'
      BY <1>21 DEF Crash, PlacesTyped, Places
    <2>4. WorkTyped'
      BY <1>21
         DEF Crash, dbVars, WorkTyped, Works, WorkPlaces, Work, NoWork, PlacesTyped,
             DbTyped
    <2>5. DbTyped'
      BY <1>21 DEF Crash, dbVars, DbTyped
    <2>6. RestTyped'
      BY <1>21 DEF Crash, RestTyped
    <2>. QED
      BY <2>1, <2>2, <2>3, <2>4, <2>5, <2>6
  <1>22. ASSUME FetchBlob PROVE TypeInv'
    <2>1. GitTyped' /\ WatchTyped' /\ PlacesTyped' /\ WorkTyped' /\ DbTyped'
      BY <1>22
         DEF FetchBlob, gitVars, watchVars, dbVars, mountVars, GitTyped, WatchTyped,
             PlacesTyped, WorkTyped, DbTyped
    <2>2. RestTyped'
      BY <1>22 DEF FetchBlob, mountVars, RestTyped
    <2>. QED
      BY <2>1, <2>2
  <1>23. ASSUME UpdateSize PROVE TypeInv'
    <2>1. WatchTyped' /\ PlacesTyped' /\ WorkTyped'
      BY <1>23 DEF UpdateSize, gitVars, watchVars, WatchTyped, PlacesTyped, WorkTyped
    <2>2. GitTyped'
      BY <1>23 DEF UpdateSize, gitVars, GitTyped
    <2>3. DbTyped'
      BY <1>23 DEF UpdateSize, Mounted, mountVars, DbTyped
    <2>4. RestTyped'
      BY <1>23 DEF UpdateSize, mountVars, RestTyped
    <2>. QED
      BY <2>1, <2>2, <2>3, <2>4
  <1>24. CASE UNCHANGED vars
    BY <1>24
       DEF vars, gitVars, watchVars, dbVars, mountVars, GitTyped, WatchTyped,
           PlacesTyped, WorkTyped, DbTyped, RestTyped
  <1>. QED
    BY <1>1, <1>2, <1>3, <1>4, <1>5, <1>6, <1>7, <1>7a, <1>8, <1>9, <1>10, <1>11, <1>12,
       <1>12a, <1>13, <1>14, <1>15, <1>16, <1>16a, <1>17, <1>18, <1>19, <1>20, <1>21, <1>22, <1>23, <1>24
       DEF Next, GitStep, PrepareStep, DaemonStep, HydrateStep

(* The types hold at every reachable state.                                 *)
LEMMA TypeInvariant == Spec => []TypeInv
  BY TypeInit, TypeStep, PTL DEF Spec

(* Every reachable state is well typed: generations are used in order, and  *)
(* only one that was published is served.                                   *)
THEOREM TypeCorrect == Spec => []TypeOK
  <1>1. TypeInv => TypeOK
    BY RefreshAssumption
       DEF TypeInv, TypeOK, GitTyped, WatchTyped, PlacesTyped, Places, DbTyped,
           RestTyped
  <1>. QED
    BY <1>1, TypeInvariant, PTL

-----------------------------------------------------------------------------
(* What is served.                                                          *)

(* The newest generation is there and is what repo_state says; mountRepo    *)
(* reads it only before anything is served, and a refresh always works on   *)
(* a generation after the one served, until it has switched to it.          *)
SnapshotInv ==
    /\ state.gen # 0 => state.oid \in Commits /\ nodes[state.gen] = state.oid
    /\ pc["daemon"] \in {"readgen", "readoid", "readref"} => ~Mounted
    /\ pc["daemon"] = "record" => served = new["daemon"].gen
    /\ Mounted /\ pc["daemon"] \in {"prune", "switch"} => served < new["daemon"].gen
    /\ Mounted /\ pc["daemon"] \notin {"prune", "switch", "record"} =>
          new["daemon"].gen = 0

(* While the daemon alone publishes, it serves the newest generation, or    *)
(* the one before until it has switched.                                    *)
ServedIsNear ==
    Mounted /\ ~seen.foreign =>
        /\ nodes[served] # None
        /\ \/ served = state.gen
           \/ /\ pc["daemon"] \in {"prune", "switch"}
              /\ new["daemon"].gen = state.gen
              /\ served = state.gen - 1

(* The daemon's commit and generation belong together from ReadState or     *)
(* PublishGeneration to setHeadState.                                       *)
WorkMatches ==
    ~seen.torn =>
        /\ pc["daemon"] = "readoid" => new["daemon"].gen = state.gen
        /\ pc["daemon"] \in {"readref", "prune", "switch", "record"} =>
              nodes[new["daemon"].gen] \in {new["daemon"].oid, None}
        /\ ServesCurrent

(* Once the size is recorded, every generation that is served or may be     *)
(* served has it, and whoever publishes another has read it.                *)
SizeInv ==
    blob = "hydrated" /\ ~seen.sizeLost =>
        /\ \A p \in Procs : pc[p] = "publish" => new[p].sized
        /\ \A g \in Generations :
              nodes[g] # None /\ g \in {served, new["daemon"].gen, state.gen} => g \in sized

ServedInv == SnapshotInv /\ ServedIsNear /\ WorkMatches /\ SizeInv

(* Nothing is served and nobody refreshes at first.                         *)
LEMMA ServedInit == Init => ServedInv
  BY RefreshAssumption
     DEF Init, ServedInv, SnapshotInv, ServedIsNear, WorkMatches, ServesCurrent,
         SizeInv, Mounted

(* Every action of git, the watcher, the publishers and a hydration keeps   *)
(* what is served consistent with the daemon's and the database's records.  *)
LEMMA ServedStep == TypeInv /\ ServedInv /\ [Next]_vars => ServedInv'
  <1>. SUFFICES ASSUME TypeInv, ServedInv, [Next]_vars PROVE ServedInv'
    OBVIOUS
  <1>. USE RefreshAssumption DEF TypeInv, ServedInv, Mounted
  <1>1. ASSUME NEW b \in Branches, NEW c \in Commits, Advance(b, c) PROVE ServedInv'
    BY <1>1
       DEF Advance, Changed, dbVars, mountVars, SnapshotInv, ServedIsNear, WorkMatches,
           ServesCurrent, SizeInv
  <1>2. ASSUME NEW b \in Branches, CheckoutBranch(b) PROVE ServedInv'
    BY <1>2
       DEF CheckoutBranch, Changed, dbVars, mountVars, SnapshotInv, ServedIsNear,
           WorkMatches, ServesCurrent, SizeInv
  <1>3. ASSUME NEW c \in Commits, CheckoutCommit(c) PROVE ServedInv'
    BY <1>3
       DEF CheckoutCommit, Changed, dbVars, mountVars, SnapshotInv, ServedIsNear,
           WorkMatches, ServesCurrent, SizeInv
  <1>4. ASSUME PackRefs PROVE ServedInv'
    BY <1>4
       DEF PackRefs, dbVars, mountVars, SnapshotInv, ServedIsNear, WorkMatches,
           ServesCurrent, SizeInv
  <1>5. ASSUME StatHEAD PROVE ServedInv'
    <2>1. SnapshotInv'
      BY <1>5 DEF StatHEAD, dbVars, mountVars, SnapshotInv
    <2>2. ServedIsNear'
      BY <1>5 DEF StatHEAD, dbVars, mountVars, ServedIsNear
    <2>3. WorkMatches'
      BY <1>5 DEF StatHEAD, dbVars, mountVars, WorkMatches, ServesCurrent
    <2>4. SizeInv'
      BY <1>5 DEF StatHEAD, dbVars, mountVars, SizeInv
    <2>. QED
      BY <2>1, <2>2, <2>3, <2>4
  <1>6. ASSUME ReadHEAD PROVE ServedInv'
    <2>1. SnapshotInv'
      BY <1>6 DEF ReadHEAD, dbVars, mountVars, SnapshotInv, PlacesTyped
    <2>2. ServedIsNear' /\ WorkMatches' /\ SizeInv'
      <3>1. seen' = seen \/ seen' = [seen EXCEPT !.primed = TRUE]
        BY <1>6 DEF ReadHEAD, Polled
      <3>2. /\ seen'.foreign = seen.foreign /\ seen'.torn = seen.torn
            /\ seen'.sizeLost = seen.sizeLost
        BY <3>1 DEF RestTyped
      <3>3. /\ pc["daemon"] \in {"prime", "poll"}
            /\ pc' = [pc EXCEPT !["daemon"] = pc'["daemon"]]
            /\ pc'["daemon"] \in {"primeref", "pollref", "resolve", "wait"}
        BY <1>6 DEF ReadHEAD, PlacesTyped
      <3>4. UNCHANGED <<new, nodes, sized, state, served, current, blob>>
        BY <1>6 DEF ReadHEAD, dbVars, mountVars
      <3>5. \A p \in Procs : pc'[p] = "publish" => pc[p] = "publish"
        BY <3>3 DEF PlacesTyped
      <3>6. ServedIsNear'
        BY <3>2, <3>3, <3>4 DEF ServedIsNear
      <3>7. WorkMatches'
        BY <3>2, <3>3, <3>4 DEF WorkMatches, ServesCurrent
      <3>8. SizeInv'
        BY <3>2, <3>4, <3>5 DEF SizeInv
      <3>. QED
        BY <3>6, <3>7, <3>8
    <2>. QED
      BY <2>1, <2>2
  <1>7. ASSUME StatRef PROVE ServedInv'
    <2>1. /\ seen'.foreign = seen.foreign /\ seen'.torn = seen.torn
          /\ seen'.sizeLost = seen.sizeLost
      <3>1. seen' = seen \/ seen' = [seen EXCEPT !.primed = TRUE]
        BY <1>7 DEF StatRef, Polled
      <3>. QED
        BY <3>1 DEF RestTyped
    <2>2. /\ pc["daemon"] \in {"primeref", "pollref"} /\ pc'["cli"] = pc["cli"]
          /\ pc'["daemon"] \in {"primelook", "polllook", "resolve", "wait"}
      BY <1>7 DEF StatRef, PlacesTyped
    <2>3. UNCHANGED <<new, nodes, sized, state, served, current, blob>>
      BY <1>7 DEF StatRef, dbVars, mountVars
    <2>4. SnapshotInv'
      BY <2>2, <2>3 DEF SnapshotInv
    <2>5. ServedIsNear'
      BY <2>1, <2>2, <2>3 DEF ServedIsNear
    <2>6. WorkMatches'
      BY <2>1, <2>2, <2>3 DEF WorkMatches, ServesCurrent
    <2>7. SizeInv'
      BY <2>1, <2>2, <2>3 DEF SizeInv
    <2>. QED
      BY <2>4, <2>5, <2>6, <2>7
  <1>7a. ASSUME LookAtRef PROVE ServedInv'
    <2>1. SnapshotInv'
      BY <1>7a DEF LookAtRef, dbVars, mountVars, SnapshotInv
    <2>2. ServedIsNear'
      BY <1>7a DEF LookAtRef, Polled, dbVars, mountVars, ServedIsNear
    <2>3. WorkMatches'
      BY <1>7a DEF LookAtRef, Polled, dbVars, mountVars, WorkMatches, ServesCurrent
    <2>4. SizeInv'
      BY <1>7a DEF LookAtRef, Polled, dbVars, mountVars, SizeInv
    <2>. QED
      BY <2>1, <2>2, <2>3, <2>4
  <1>8. ASSUME NEW p \in Procs, ResolveOid(p) PROVE ServedInv'
    <2>1. SnapshotInv'
      BY <1>8 DEF ResolveOid, dbVars, mountVars, SnapshotInv, Work
    <2>2. ServedIsNear'
      BY <1>8 DEF ResolveOid, dbVars, mountVars, ServedIsNear
    <2>3. WorkMatches'
      BY <1>8 DEF ResolveOid, dbVars, mountVars, WorkMatches, ServesCurrent
    <2>4. SizeInv'
      BY <1>8 DEF ResolveOid, dbVars, mountVars, SizeInv, Work
    <2>. QED
      BY <2>1, <2>2, <2>3, <2>4
  <1>9. ASSUME NEW p \in Procs, ResolveRef(p) PROVE ServedInv'
    <2>1. SnapshotInv'
      BY <1>9
         DEF ResolveRef, Refreshing, dbVars, mountVars, SnapshotInv, PlacesTyped,
             WorkTyped, Works, Work, NoWork
    <2>2. ServedIsNear'
      BY <1>9 DEF ResolveRef, dbVars, mountVars, ServedIsNear, PlacesTyped, WorkTyped
    <2>3. WorkMatches'
      BY <1>9
         DEF ResolveRef, dbVars, mountVars, WorkMatches, ServesCurrent, PlacesTyped,
             WorkTyped
    <2>4. SizeInv'
      BY <1>9
         DEF ResolveRef, dbVars, mountVars, SizeInv, PlacesTyped, WorkTyped, Works,
             Work, NoWork
    <2>. QED
      BY <2>1, <2>2, <2>3, <2>4
  <1>10. ASSUME NEW p \in Procs, ReadGen(p) PROVE ServedInv'
    <2>1. SnapshotInv'
      BY <1>10 DEF ReadGen, dbVars, mountVars, SnapshotInv
    <2>2. ServedIsNear'
      BY <1>10 DEF ReadGen, dbVars, mountVars, ServedIsNear
    <2>3. WorkMatches'
      BY <1>10 DEF ReadGen, dbVars, mountVars, WorkMatches, ServesCurrent, WorkTyped
    <2>4. SizeInv'
      BY <1>10 DEF ReadGen, dbVars, mountVars, SizeInv
    <2>. QED
      BY <2>1, <2>2, <2>3, <2>4
  <1>11. ASSUME NEW p \in Procs, ReadOid(p) PROVE ServedInv'
    <2>1. SnapshotInv'
      BY <1>11 DEF ReadOid, dbVars, mountVars, SnapshotInv
    <2>2. ServedIsNear'
      BY <1>11 DEF ReadOid, dbVars, mountVars, ServedIsNear
    <2>3. WorkMatches'
      BY <1>11 DEF ReadOid, dbVars, mountVars, WorkMatches, ServesCurrent, SnapshotInv
    <2>4. SizeInv'
      BY <1>11 DEF ReadOid, dbVars, mountVars, SizeInv
    <2>. QED
      BY <2>1, <2>2, <2>3, <2>4
  <1>12. ASSUME NEW p \in Procs, ReadRef(p) PROVE ServedInv'
    <2>1. SnapshotInv'
      BY <1>12 DEF ReadRef, dbVars, mountVars, SnapshotInv, PlacesTyped, WorkTyped
    <2>2. ServedIsNear'
      BY <1>12 DEF ReadRef, dbVars, mountVars, ServedIsNear, PlacesTyped, WorkTyped
    <2>3. WorkMatches'
      BY <1>12
         DEF ReadRef, dbVars, mountVars, WorkMatches, ServesCurrent, PlacesTyped,
             WorkTyped
    <2>4. SizeInv'
      BY <1>12 DEF ReadRef, dbVars, mountVars, SizeInv, PlacesTyped, WorkTyped
    <2>. QED
      BY <2>1, <2>2, <2>3, <2>4
  <1>12a. ASSUME NEW p \in Procs, ReadStateFails(p) PROVE ServedInv'
    <2>1. SnapshotInv'
      BY <1>12a DEF ReadStateFails, dbVars, mountVars, SnapshotInv, PlacesTyped
    <2>2. ServedIsNear'
      BY <1>12a DEF ReadStateFails, dbVars, mountVars, ServedIsNear, PlacesTyped
    <2>3. WorkMatches'
      BY <1>12a DEF ReadStateFails, dbVars, mountVars, WorkMatches, ServesCurrent,
         PlacesTyped
    <2>4. SizeInv'
      BY <1>12a DEF ReadStateFails, dbVars, mountVars, SizeInv, PlacesTyped
    <2>. QED
      BY <2>1, <2>2, <2>3, <2>4
  <1>13. ASSUME NEW p \in Procs, BuildTreeIndex(p) PROVE ServedInv'
    <2>1. SnapshotInv'
      BY <1>13 DEF BuildTreeIndex, dbVars, mountVars, SnapshotInv
    <2>2. ServedIsNear'
      BY <1>13 DEF BuildTreeIndex, dbVars, mountVars, ServedIsNear
    <2>3. WorkMatches'
      BY <1>13 DEF BuildTreeIndex, dbVars, mountVars, WorkMatches, ServesCurrent
    <2>4. SizeInv'
      <3>. SUFFICES ASSUME blob = "hydrated", ~seen.sizeLost PROVE SizeInv'
        BY <1>13 DEF BuildTreeIndex, SizeInv
      <3>1. new'[p].sized /\ new'[p].gen = new[p].gen
        BY <1>13 DEF BuildTreeIndex, WorkTyped, Works
      <3>2. \A q \in Procs : q # p => new'[q] = new[q] /\ pc'[q] = pc[q]
        BY <1>13 DEF BuildTreeIndex
      <3>. QED
        BY <1>13, <3>1, <3>2 DEF BuildTreeIndex, dbVars, mountVars, SizeInv
    <2>. QED
      BY <2>1, <2>2, <2>3, <2>4
  <1>14. ASSUME NEW p \in Procs, PublishGeneration(p) PROVE ServedInv'
    <2>1. SnapshotInv'
      BY <1>14
         DEF PublishGeneration, mountVars, SnapshotInv, PlacesTyped, WorkTyped,
             WorkPlaces, DbTyped
    <2>2. ServedIsNear'
      BY <1>14
         DEF PublishGeneration, mountVars, ServedIsNear, PlacesTyped, WorkTyped, DbTyped
    <2>3. WorkMatches'
      <3>. SUFFICES ASSUME ~seen.torn', ~seen.torn PROVE WorkMatches'
        BY <1>14 DEF PublishGeneration, WorkMatches, RestTyped
      <3>. DEFINE g == state.gen + 1
      <3>1. /\ g \in Generations /\ served < g /\ new["daemon"].gen < g
            /\ nodes' = [nodes EXCEPT ![g] = new[p].oid]
            /\ new'[p].gen = g /\ new'[p].oid = new[p].oid
        BY <1>14 DEF PublishGeneration, WorkTyped, Works, DbTyped
      <3>2. CASE p = "daemon"
        BY <1>14, <3>1, <3>2
           DEF PublishGeneration, mountVars, WorkMatches, ServesCurrent, DbTyped
      <3>3. CASE p = "cli"
        <4>1. /\ new'["daemon"] = new["daemon"] /\ pc'["daemon"] = pc["daemon"]
              /\ pc["daemon"] # "readoid"
          BY <1>14, <3>3 DEF PublishGeneration, RestTyped, PlacesTyped, WorkTyped
        <4>2. \A i \in Generations : i < g => nodes'[i] = nodes[i]
          BY <3>1
        <4>3. new["daemon"].gen # 0 => nodes'[new["daemon"].gen] = nodes[new["daemon"].gen]
          BY <3>1, <4>2
        <4>4. served # 0 => nodes'[served] = nodes[served]
          BY <3>1, <4>2
        <4>. QED
          BY <1>14, <4>1, <4>3, <4>4
             DEF PublishGeneration, mountVars, WorkMatches, ServesCurrent
      <3>. QED
        BY <3>2, <3>3
    <2>4. SizeInv'
      BY <1>14 DEF PublishGeneration, mountVars, SizeInv
    <2>. QED
      BY <2>1, <2>2, <2>3, <2>4
  <1>15. ASSUME NEW p \in Procs, Prune(p) PROVE ServedInv'
    <2>1. SnapshotInv'
      BY <1>15 DEF Prune, Kept, mountVars, SnapshotInv, WorkTyped, Works, DbTyped
    <2>2. ServedIsNear'
      BY <1>15 DEF Prune, Kept, mountVars, ServedIsNear, WorkTyped, Works, DbTyped
    <2>3. WorkMatches'
      BY <1>15
         DEF Prune, Kept, mountVars, WorkMatches, ServesCurrent, WorkTyped, Works,
             DbTyped
    <2>4. SizeInv'
      <3>1. \A g \in Generations : nodes'[g] # None => nodes[g] # None
        BY <1>15 DEF Prune, Kept
      <3>2. \A g \in Generations : g \in sized /\ nodes'[g] # None => g \in sized'
        BY <1>15 DEF Prune, Kept
      <3>3. new'["daemon"].gen = new["daemon"].gen
        BY <1>15 DEF Prune, WorkTyped, Works
      <3>4. \A q \in Procs : pc'[q] = "publish" => pc[q] = "publish" /\ new'[q] = new[q]
        BY <1>15 DEF Prune, PlacesTyped, WorkTyped
      <3>5. UNCHANGED <<state, served, blob, seen>>
        BY <1>15 DEF Prune, mountVars
      <3>. QED
        BY <3>1, <3>2, <3>3, <3>4, <3>5 DEF SizeInv
    <2>. QED
      BY <2>1, <2>2, <2>3, <2>4
  <1>16. ASSUME UpdateHEADRef PROVE ServedInv'
    <2>0. UNCHANGED <<new, nodes, sized, served, current, blob, seen>>
          /\ state'.gen = state.gen /\ state'.oid = state.oid
      BY <1>16 DEF UpdateHEADRef, mountVars, DbTyped
    <2>1. SnapshotInv'
      BY <1>16, <2>0 DEF UpdateHEADRef, SnapshotInv, PlacesTyped
    <2>2. ServedIsNear'
      BY <1>16, <2>0 DEF UpdateHEADRef, ServedIsNear, PlacesTyped
    <2>3. WorkMatches'
      BY <1>16, <2>0 DEF UpdateHEADRef, WorkMatches, ServesCurrent, PlacesTyped
    <2>4. SizeInv'
      BY <1>16, <2>0 DEF UpdateHEADRef, SizeInv, PlacesTyped
    <2>. QED
      BY <2>1, <2>2, <2>3, <2>4
  <1>16a. ASSUME SetHEADRef PROVE ServedInv'
    <2>1. SnapshotInv'
      BY <1>16a DEF SetHEADRef, dbVars, SnapshotInv, Work, NoWork
    <2>2. ServedIsNear'
      BY <1>16a DEF SetHEADRef, dbVars, ServedIsNear
    <2>3. WorkMatches'
      BY <1>16a DEF SetHEADRef, dbVars, WorkMatches, ServesCurrent
    <2>4. SizeInv'
      BY <1>16a DEF SetHEADRef, dbVars, SizeInv, Work, NoWork
    <2>. QED
      BY <2>1, <2>2, <2>3, <2>4
  <1>17. ASSUME SetGeneration PROVE ServedInv'
    <2>1. SnapshotInv'
      BY <1>17 DEF SetGeneration, dbVars, SnapshotInv, PlacesTyped
    <2>2. ServedIsNear'
      <3>. SUFFICES ASSUME ~seen'.foreign PROVE ServedIsNear'
        BY DEF ServedIsNear
      <3>1. served' = state.gen /\ state.gen # 0 /\ state.gen \in Nat
        <4>1. served' = new["daemon"].gen /\ new["daemon"].gen # 0
          BY <1>17 DEF SetGeneration, WorkTyped
        <4>2. state.gen = served'
          <5>1. seen' = [seen EXCEPT !.foreign = state.gen # served']
            BY <1>17 DEF SetGeneration
          <5>2. seen'.foreign = (state.gen # served')
            BY <5>1
          <5>. QED
            BY <5>2
        <4>3. state.gen \in Nat
          BY DEF DbTyped
        <4>. QED
          BY <4>1, <4>2, <4>3
      <3>2. nodes[state.gen] # None
        BY <3>1 DEF SnapshotInv
      <3>. QED
        BY <1>17, <3>1, <3>2 DEF SetGeneration, dbVars, ServedIsNear
    <2>3. WorkMatches'
      BY <1>17 DEF SetGeneration, dbVars, WorkMatches, ServesCurrent, PlacesTyped
    <2>4. SizeInv'
      BY <1>17 DEF SetGeneration, dbVars, SizeInv
    <2>. QED
      BY <2>1, <2>2, <2>3, <2>4
  <1>18. ASSUME SetHeadState PROVE ServedInv'
    <2>1. SnapshotInv'
      BY <1>18
         DEF SetHeadState, dbVars, SnapshotInv, PlacesTyped, WorkTyped, Work, NoWork
    <2>2. ServedIsNear'
      BY <1>18 DEF SetHeadState, dbVars, ServedIsNear
    <2>3. WorkMatches'
      BY <1>18
         DEF SetHeadState, dbVars, WorkMatches, ServesCurrent, SnapshotInv, PlacesTyped
    <2>4. SizeInv'
      BY <1>18 DEF SetHeadState, dbVars, SizeInv, Work, NoWork
    <2>. QED
      BY <2>1, <2>2, <2>3, <2>4
  <1>19. ASSUME StartPrepare PROVE ServedInv'
    <2>1. SnapshotInv'
      BY <1>19 DEF StartPrepare, dbVars, mountVars, SnapshotInv
    <2>2. ServedIsNear'
      BY <1>19 DEF StartPrepare, dbVars, mountVars, ServedIsNear
    <2>3. WorkMatches'
      BY <1>19 DEF StartPrepare, dbVars, mountVars, WorkMatches, ServesCurrent
    <2>4. SizeInv'
      BY <1>19 DEF StartPrepare, dbVars, mountVars, SizeInv
    <2>. QED
      BY <2>1, <2>2, <2>3, <2>4
  <1>20. ASSUME NEW p \in Procs, Fail(p) PROVE ServedInv'
    <2>1. SnapshotInv'
      BY <1>20 DEF Fail, dbVars, mountVars, SnapshotInv, Work, NoWork
    <2>2. ServedIsNear'
      BY <1>20 DEF Fail, dbVars, mountVars, ServedIsNear
    <2>3. WorkMatches'
      BY <1>20 DEF Fail, dbVars, mountVars, WorkMatches, ServesCurrent, PlacesTyped
    <2>4. SizeInv'
      BY <1>20 DEF Fail, dbVars, mountVars, SizeInv, PlacesTyped, Work, NoWork
    <2>. QED
      BY <2>1, <2>2, <2>3, <2>4
  <1>21. ASSUME Crash PROVE ServedInv'
    <2>1. SnapshotInv'
      BY <1>21 DEF Crash, dbVars, SnapshotInv, WorkTyped, Work, NoWork
    <2>2. ServedIsNear'
      BY <1>21 DEF Crash, ServedIsNear
    <2>3. WorkMatches'
      BY <1>21 DEF Crash, WorkMatches, ServesCurrent, PlacesTyped
    <2>4. SizeInv'
      BY <1>21 DEF Crash, dbVars, SizeInv, PlacesTyped, RestTyped, Work, NoWork
    <2>. QED
      BY <2>1, <2>2, <2>3, <2>4
  <1>22. ASSUME FetchBlob PROVE ServedInv'
    BY <1>22
       DEF FetchBlob, dbVars, mountVars, SnapshotInv, ServedIsNear, WorkMatches,
           ServesCurrent, SizeInv
  <1>23. ASSUME UpdateSize PROVE ServedInv'
    <2>0. /\ UNCHANGED <<pc, new, nodes, state, served, current>>
          /\ seen'.foreign = seen.foreign /\ seen'.torn = seen.torn
      BY <1>23 DEF UpdateSize, mountVars, RestTyped
    <2>1. SnapshotInv'
      BY <2>0 DEF SnapshotInv
    <2>2. ServedIsNear'
      BY <2>0 DEF ServedIsNear
    <2>3. WorkMatches'
      BY <2>0 DEF WorkMatches, ServesCurrent
    <2>4. SizeInv'
      <3>. SUFFICES ASSUME ~seen'.sizeLost PROVE SizeInv'
        BY DEF SizeInv
      <3>1. served = state.gen /\ \A q \in Procs : pc[q] = "publish" => new[q].sized
        BY <1>23 DEF UpdateSize, RestTyped
      <3>2. nodes[served] # None
        BY <1>23, <3>1 DEF UpdateSize, SnapshotInv
      <3>3. new["daemon"].gen \in {0, served}
        BY <1>23, <3>1 DEF SnapshotInv, WorkTyped, Works, DbTyped
      <3>4. sized' = sized \cup {served}
        BY <1>23, <3>2 DEF UpdateSize, RestTyped
      <3>. QED
        BY <2>0, <3>1, <3>2, <3>3, <3>4 DEF SizeInv
    <2>. QED
      BY <2>1, <2>2, <2>3, <2>4
  <1>24. CASE UNCHANGED vars
    BY <1>24
       DEF vars, dbVars, mountVars, SnapshotInv, ServedIsNear, WorkMatches,
           ServesCurrent, SizeInv
  <1>. QED
    BY <1>1, <1>2, <1>3, <1>4, <1>5, <1>6, <1>7, <1>7a, <1>8, <1>9, <1>10, <1>11, <1>12,
       <1>12a, <1>13, <1>14, <1>15, <1>16, <1>16a, <1>17, <1>18, <1>19, <1>20, <1>21, <1>22, <1>23, <1>24
       DEF Next, GitStep, PrepareStep, DaemonStep, HydrateStep

(* It is consistent at every reachable state.                               *)
LEMMA ServedInvariant == Spec => []ServedInv
  <1>1. Init => ServedInv
    BY ServedInit
  <1>2. TypeInv /\ ServedInv /\ [Next]_vars => ServedInv'
    BY ServedStep
  <1>. QED
    BY <1>1, <1>2, TypeInvariant, PTL DEF Spec

(* The tree that names are resolved in is always there, when the daemon     *)
(* alone publishes, for any number of commits, branches and events.         *)
THEOREM ServedTreesExist == Spec => []ServedTreeExists
  <1>1. ServedInv => ServedTreeExists
    BY DEF ServedInv, ServedIsNear, ServedTreeExists
  <1>. QED
    BY <1>1, ServedInvariant, PTL

(* The tree served is that of the commit the daemon records, through        *)
(* refreshes, restarts and a second publisher that spares ReadState.        *)
THEOREM ServedIsCurrent == Spec => []ServesCurrent
  <1>1. ServedInv => ServesCurrent
    BY DEF ServedInv, WorkMatches, ServesCurrent
  <1>. QED
    BY <1>1, ServedInvariant, PTL

(* The size of a hydrated blob is kept through refreshes and restarts.      *)
THEOREM SizesAreKept == Spec => []HydratedHasSize
  <1>1. TypeInv /\ ServedInv => HydratedHasSize
    BY RefreshAssumption
       DEF TypeInv, DbTyped, ServedInv, SizeInv, HydratedHasSize, Mounted
  <1>. QED
    BY <1>1, TypeInvariant, ServedInvariant, PTL

-----------------------------------------------------------------------------
(* The mount mirrors HEAD.                                                  *)

(* What the mapping depends on, and the stutters.                           *)
LEMMA MirrorStays ==
    ASSUME UNCHANGED <<HeadCommit, Taken, Shown>>
    PROVE  [HM!Next]_(HM!mirrorVars)
  BY DEF HM!mirrorVars

(* The same refresh: the commit it works on stays.                          *)
LEMMA TakenStays ==
    ASSUME new'["daemon"].oid = new["daemon"].oid,
           pc["daemon"] = "record" <=> pc'["daemon"] = "record"
    PROVE  UNCHANGED Taken
  BY DEF Taken

LEMMA ShownStays ==
    ASSUME UNCHANGED <<served, nodes>>, seen'.torn = seen.torn
    PROVE  UNCHANGED Shown
  BY DEF Shown, Mounted

(* The initial states are initial states of a mirror.                       *)
LEMMA MirrorInit == Init => HM!Init
  BY RefreshAssumption
     DEF Init, HM!Init, HeadCommit, Taken, Shown, Mounted, Ghosts, NoWork, Work

(* Every step of the mount is a step of a mirror: git's are Move, resolving *)
(* HEAD is Take, SetGeneration is Show, and whatever takes the tree away is *)
(* Lose.                                                                    *)
LEMMA MirrorStep == TypeInv /\ ServedInv /\ [Next]_vars => [HM!Next]_(HM!mirrorVars)
  <1>. SUFFICES ASSUME TypeInv, ServedInv, [Next]_vars
                PROVE  [HM!Next]_(HM!mirrorVars)
    OBVIOUS
  <1>. USE RefreshAssumption DEF TypeInv
  <1>1. ASSUME HeadCommit' \in Commits, UNCHANGED <<pc, new, served, nodes>>,
               seen'.torn = seen.torn
        PROVE  [HM!Next]_(HM!mirrorVars)
    BY <1>1, TakenStays, ShownStays DEF HM!Next, HM!Move
  <1>2. ASSUME GitStep PROVE [HM!Next]_(HM!mirrorVars)
    <2>1. UNCHANGED <<pc, new, served, nodes>> /\ seen'.torn = seen.torn
      BY <1>2 DEF GitStep, Advance, CheckoutBranch, CheckoutCommit, PackRefs, Changed,
         dbVars, mountVars, RestTyped
    <2>2. HeadCommit' \in Commits
      BY <1>2 DEF GitStep, Advance, CheckoutBranch, CheckoutCommit, PackRefs, HeadCommit,
         GitTyped
    <2>. QED
      BY <1>1, <2>1, <2>2
  <1>3. ASSUME StatHEAD \/ ReadHEAD \/ StatRef \/ LookAtRef PROVE [HM!Next]_(HM!mirrorVars)
    <2>1. UNCHANGED <<HeadCommit, served, nodes, new>>
      BY <1>3 DEF StatHEAD, ReadHEAD, StatRef, LookAtRef, gitVars, dbVars, mountVars, HeadCommit
    <2>2. seen'.torn = seen.torn
      BY <1>3 DEF StatHEAD, ReadHEAD, StatRef, LookAtRef, Polled, RestTyped
    <2>3. pc["daemon"] # "record" /\ pc'["daemon"] # "record"
      BY <1>3 DEF StatHEAD, ReadHEAD, StatRef, LookAtRef, PlacesTyped
    <2>. QED
      BY <2>1, <2>2, <2>3, TakenStays, ShownStays, MirrorStays
  <1>4. ASSUME ResolveOid("daemon") PROVE [HM!Next]_(HM!mirrorVars)
    <2>1. Taken' = HeadCommit
      BY <1>4 DEF ResolveOid, Taken, Work, PlacesTyped, WorkTyped
    <2>2. UNCHANGED <<HeadCommit, Shown>>
      BY <1>4 DEF ResolveOid, gitVars, dbVars, mountVars, HeadCommit, Shown, Mounted
    <2>. QED
      BY <2>1, <2>2 DEF HM!Next, HM!Take
  <1>5. ASSUME ResolveRef("daemon") \/ UpdateHEADRef \/ SetHEADRef PROVE [HM!Next]_(HM!mirrorVars)
    <2>1. UNCHANGED <<HeadCommit, Shown>>
      BY <1>5 DEF ResolveRef, UpdateHEADRef, SetHEADRef, gitVars, dbVars, mountVars,
         HeadCommit, Shown, Mounted
    <2>2. Taken' \in {Taken, None}
      BY <1>5 DEF ResolveRef, UpdateHEADRef, SetHEADRef, Taken, NoWork, Work,
         PlacesTyped, WorkTyped, Works
    <2>. QED
      BY <2>1, <2>2, MirrorStays DEF HM!Next, HM!GiveUp
  <1>6. ASSUME NEW p \in Procs,
               \/ ReadGen(p) \/ ReadOid(p) \/ ReadRef(p) \/ ReadStateFails(p)
               \/ BuildTreeIndex(p)
               \/ p = "cli" /\ (ResolveOid(p) \/ ResolveRef(p))
        PROVE  [HM!Next]_(HM!mirrorVars)
    <2>1. UNCHANGED <<HeadCommit, served, nodes>> /\ seen' = seen
      BY <1>6 DEF ReadGen, ReadOid, ReadRef, ReadStateFails, BuildTreeIndex,
         ResolveOid, ResolveRef,
         gitVars, dbVars, mountVars, HeadCommit
    <2>2. new'["daemon"].oid = new["daemon"].oid
      BY <1>6 DEF ReadGen, ReadOid, ReadRef, ReadStateFails, BuildTreeIndex,
         ResolveOid, ResolveRef,
         Refreshing, WorkTyped, Works
    <2>3. pc["daemon"] = "record" <=> pc'["daemon"] = "record"
      BY <1>6 DEF ReadGen, ReadOid, ReadRef, ReadStateFails, BuildTreeIndex,
         ResolveOid, ResolveRef,
         Refreshing, PlacesTyped
    <2>. QED
      BY <2>1, <2>2, <2>3, TakenStays, ShownStays, MirrorStays
  <1>7. ASSUME NEW p \in Procs, PublishGeneration(p) PROVE [HM!Next]_(HM!mirrorVars)
    <2>1. new'["daemon"].oid = new["daemon"].oid
      BY <1>7 DEF PublishGeneration, WorkTyped, Works
    <2>2. pc["daemon"] = "record" <=> pc'["daemon"] = "record"
      BY <1>7 DEF PublishGeneration, PlacesTyped
    <2>3. UNCHANGED <<HeadCommit, served>>
      BY <1>7 DEF PublishGeneration, gitVars, mountVars, HeadCommit
    <2>4. Mounted => nodes'[served] = nodes[served]
      BY <1>7 DEF PublishGeneration, Mounted, DbTyped
    <2>5. Shown' \in {Shown, None}
      BY <2>3, <2>4, <1>7 DEF PublishGeneration, Shown, Mounted, RestTyped
    <2>. QED
      BY <2>1, <2>2, <2>3, <2>5, TakenStays, MirrorStays DEF HM!Next, HM!Lose
  <1>8. ASSUME NEW p \in Procs, Prune(p) PROVE [HM!Next]_(HM!mirrorVars)
    <2>1. new'["daemon"].oid = new["daemon"].oid
      BY <1>8 DEF Prune, NoWork, Work, WorkTyped, Works
    <2>2. pc["daemon"] = "record" <=> pc'["daemon"] = "record"
      BY <1>8 DEF Prune, PlacesTyped
    <2>3. UNCHANGED <<HeadCommit, served, seen>>
      BY <1>8 DEF Prune, gitVars, mountVars, HeadCommit
    <2>4. \A g \in Generations : nodes'[g] \in {nodes[g], None}
      BY <1>8 DEF Prune, Kept
    <2>5. Shown' \in {Shown, None}
      BY <2>3, <2>4 DEF Shown, Mounted, DbTyped
    <2>. QED
      BY <2>1, <2>2, <2>3, <2>5, TakenStays, MirrorStays DEF HM!Next, HM!Lose
  <1>9. ASSUME SetGeneration PROVE [HM!Next]_(HM!mirrorVars)
    <2>1. Taken = new["daemon"].oid /\ Taken \in Commits /\ Taken' = None
      BY <1>9 DEF SetGeneration, Taken, PlacesTyped, WorkTyped, WorkPlaces
    <2>2. UNCHANGED HeadCommit
      BY <1>9 DEF SetGeneration, gitVars, HeadCommit
    <2>3. served' = new["daemon"].gen /\ UNCHANGED nodes /\ seen'.torn = seen.torn
      BY <1>9 DEF SetGeneration, dbVars, RestTyped
    <2>4. ~seen.torn => nodes[served'] \in {Taken, None}
      BY <1>9, <2>1, <2>3 DEF SetGeneration, ServedInv, WorkMatches
    <2>5. Shown' \in {Taken, None}
      BY <2>3, <2>4 DEF Shown, Mounted
    <2>. QED
      BY <2>1, <2>2, <2>5 DEF HM!Next, HM!Show, HM!Lose
  <1>10. ASSUME SetHeadState PROVE [HM!Next]_(HM!mirrorVars)
    <2>1. UNCHANGED <<HeadCommit, Shown>>
      BY <1>10 DEF SetHeadState, gitVars, dbVars, HeadCommit, Shown, Mounted
    <2>2. Taken = None /\ Taken' = None
      BY <1>10 DEF SetHeadState, Taken, NoWork, Work, WorkTyped
    <2>. QED
      BY <2>1, <2>2, MirrorStays
  <1>11. ASSUME NEW p \in Procs, Fail(p) PROVE [HM!Next]_(HM!mirrorVars)
    <2>1. UNCHANGED <<HeadCommit, served, nodes>> /\ seen'.torn = seen.torn
      BY <1>11 DEF Fail, gitVars, dbVars, mountVars, HeadCommit, RestTyped
    <2>2. p = "daemon" => Taken' = None
      BY <1>11 DEF Fail, Taken, NoWork, Work, WorkTyped
    <2>3. p = "cli" => UNCHANGED Taken
      BY <1>11 DEF Fail, Taken, PlacesTyped, WorkTyped
    <2>. QED
      BY <2>1, <2>2, <2>3, ShownStays, MirrorStays DEF HM!Next, HM!GiveUp
  <1>12. ASSUME Crash PROVE [HM!Next]_(HM!mirrorVars)
    <2>1. UNCHANGED HeadCommit /\ Shown' = None
      BY <1>12 DEF Crash, gitVars, HeadCommit, Shown, Mounted
    <2>2. Taken' = None
      BY <1>12 DEF Crash, Taken, NoWork, Work, WorkTyped
    <2>. QED
      BY <2>1, <2>2 DEF HM!Next, HM!Lose
  <1>13. ASSUME HydrateStep \/ StartPrepare \/ UNCHANGED vars
         PROVE  [HM!Next]_(HM!mirrorVars)
    <2>1. UNCHANGED <<HeadCommit, served, nodes, new>> /\ seen'.torn = seen.torn
      BY <1>13 DEF HydrateStep, FetchBlob, UpdateSize, StartPrepare, vars, gitVars,
         dbVars, mountVars, HeadCommit, RestTyped
    <2>2. pc'["daemon"] = pc["daemon"]
      BY <1>13 DEF HydrateStep, FetchBlob, UpdateSize, StartPrepare, vars, PlacesTyped
    <2>. QED
      BY <2>1, <2>2, TakenStays, ShownStays, MirrorStays
  <1>. QED
    BY <1>2, <1>3, <1>4, <1>5, <1>6, <1>7, <1>8, <1>9, <1>10, <1>11, <1>12, <1>13
       DEF Next, DaemonStep, PrepareStep

(* The mount changes from one commit to another only when HEAD was at the   *)
(* other since its last change (onHEADChanged, mountRepo), for any commits, *)
(* branches, events and bounds.                                             *)
THEOREM MountMirrorsHEAD == Spec => ImplementsMirror
  <1>1. Init => HM!Init
    BY MirrorInit
  <1>2. TypeInv /\ ServedInv /\ [Next]_vars => [HM!Next]_(HM!mirrorVars)
    BY MirrorStep
  <1>. QED
    BY <1>1, <1>2, TypeInvariant, ServedInvariant, PTL DEF Spec, ImplementsMirror, HM!Spec

-----------------------------------------------------------------------------
(* Generations.                                                             *)

(* What was published under a number stays as it is until it is deleted, so *)
(* a reader of a generation that is being replaced sees no other tree; and  *)
(* while the daemon lives it only switches to later generations.            *)
GenerationsAreFinal ==
    [][/\ \A g \in Generations : nodes[g] # None => nodes'[g] \in {nodes[g], None}
       /\ state'.gen >= state.gen
       /\ Mounted /\ Mounted' => served' >= served]_vars

LEMMA GenerationStep ==
    TypeInv /\ ServedInv /\ [Next]_vars =>
        /\ \A g \in Generations : nodes[g] # None => nodes'[g] \in {nodes[g], None}
        /\ state'.gen >= state.gen
        /\ Mounted /\ Mounted' => served' >= served
  <1>. SUFFICES ASSUME TypeInv, ServedInv, [Next]_vars
                PROVE  /\ \A g \in Generations :
                             nodes[g] # None => nodes'[g] \in {nodes[g], None}
                       /\ state'.gen >= state.gen
                       /\ Mounted /\ Mounted' => served' >= served
    OBVIOUS
  <1>. USE RefreshAssumption DEF TypeInv, DbTyped
  <1>1. ASSUME NEW p \in Procs, PublishGeneration(p)
        PROVE  /\ \A g \in Generations :
                     nodes[g] # None => nodes'[g] \in {nodes[g], None}
               /\ state'.gen >= state.gen
               /\ UNCHANGED served
    BY <1>1 DEF PublishGeneration, mountVars
  <1>2. ASSUME NEW p \in Procs, Prune(p)
        PROVE  /\ \A g \in Generations :
                     nodes[g] # None => nodes'[g] \in {nodes[g], None}
               /\ UNCHANGED <<state, served>>
    BY <1>2 DEF Prune, Kept, mountVars
  <1>3. ASSUME SetGeneration
        PROVE  UNCHANGED <<nodes, state>> /\ (Mounted => served' >= served)
    BY <1>3 DEF SetGeneration, dbVars, ServedInv, SnapshotInv, WorkTyped, Works
  <1>4. ASSUME Crash
        PROVE  UNCHANGED <<nodes, state>> /\ ~Mounted'
    BY <1>4 DEF Crash, dbVars, Mounted
  <1>5. ASSUME UpdateHEADRef
        PROVE  UNCHANGED <<nodes, served>> /\ state'.gen = state.gen
    BY <1>5 DEF UpdateHEADRef, mountVars
  <1>6. ASSUME \/ GitStep \/ StatHEAD \/ ReadHEAD \/ StatRef \/ LookAtRef
               \/ SetHEADRef \/ SetHeadState
               \/ StartPrepare \/ HydrateStep \/ UNCHANGED vars
               \/ \E p \in Procs : \/ ResolveOid(p) \/ ResolveRef(p) \/ ReadGen(p)
                                    \/ ReadOid(p) \/ ReadRef(p) \/ BuildTreeIndex(p)
                                    \/ ReadStateFails(p) \/ Fail(p)
        PROVE  UNCHANGED <<nodes, state, served>>
    BY <1>6 DEF GitStep, Advance, CheckoutBranch, CheckoutCommit, PackRefs, Changed,
       StatHEAD, ReadHEAD, StatRef, LookAtRef, SetHEADRef, SetHeadState,
       ReadStateFails, StartPrepare, HydrateStep, FetchBlob,
       UpdateSize, vars, ResolveOid, ResolveRef, ReadGen, ReadOid, ReadRef,
       BuildTreeIndex, Fail, dbVars, mountVars
  <1>7. (UNCHANGED <<nodes, state, served>>) =>
           /\ \A g \in Generations : nodes[g] # None => nodes'[g] \in {nodes[g], None}
           /\ state'.gen >= state.gen
           /\ Mounted /\ Mounted' => served' >= served
    BY DEF Mounted
  <1>. QED
    BY <1>1, <1>2, <1>3, <1>4, <1>5, <1>6, <1>7
       DEF Next, DaemonStep, PrepareStep, Mounted

(* No publisher writes to a generation that exists, none goes back to an    *)
(* older one, and neither does the mount, whoever publishes and crashes.    *)
THEOREM GenerationsStay == Spec => GenerationsAreFinal
  <1>1. TypeInv /\ ServedInv /\ [Next]_vars =>
           [/\ \A g \in Generations : nodes[g] # None => nodes'[g] \in {nodes[g], None}
            /\ state'.gen >= state.gen
            /\ Mounted /\ Mounted' => served' >= served]_vars
    BY GenerationStep
  <1>. QED
    BY <1>1, TypeInvariant, ServedInvariant, PTL DEF Spec, GenerationsAreFinal
==============================================================================
