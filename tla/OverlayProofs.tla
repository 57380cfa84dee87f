---------------------------- MODULE OverlayProofs ----------------------------
(***************************************************************************)
(* Theorems about Overlay, for any names, trees, operations and faults:    *)
(* its types, that rows have their files and sizes, what a refresh keeps,  *)
(* and that a mount whose HEAD stays is a WorkTree.                        *)
(***************************************************************************)
EXTENDS Overlay, TLAPS

LiveKinds == {"create", "modify", "rename"}
Renaming == {"renamerow", "renamefile", "undonew", "undoold"}
Renamed == {"renamefile", "undonew", "undoold"}

(* What an operation is about, by its stage.                                *)
OpInv ==
    /\ op.at \in {"ensure", "copy", "move", "copyrow"} =>
          op.name \in {"write", "truncate", "rename"}
    /\ op.at \in {"create", "createrow"} => op.name \in {"create", "write"}
    /\ op.at = "get" => op.name \in {"write", "rename"}
    /\ op.at \in {"writeat", "writerow"} => op.name = "write"
    /\ op.at = "truncate" => op.name = "truncate"
    /\ op.at \in {"remove", "whiteout"} => op.name \in {"unlink", "rmdir"}
    /\ op.at \in Renaming => op.name = "rename"
    /\ op.at \in {"mkdir", "mkdirrow"} => op.name = "mkdir"
    /\ op.name \in {"write", "truncate", "create", "unlink", "rename"} =>
          op.p \in FilePaths /\ op.q \in FilePaths
    /\ op.name \in {"mkdir", "rmdir"} => op.p \in DirPaths /\ op.q = op.p
    /\ op.name = "rename" => op.p # op.q
    /\ op.name # "rename" => op.p = op.q
    /\ op.at \in {"writeat", "writerow"} \cup Renaming => op.row.kind \in LiveKinds
    /\ op.at \in {"copy", "move", "copyrow"} => op.blob \in Files /\ ~HasRow(op.p)
    /\ op.at = "writerow" => op.blob \in Files
    /\ ~Idle => nops > 0

TypeInv == TypeOK /\ OpInv

(* While no operation has run during a refresh a live row has its file, but *)
(* those that doubt names; an operation that takes the file away before the *)
(* row names it at once.                                                    *)
FilesThere ==
    /\ \A p \in FilePaths : Live(p) /\ doubt[p] # "file" => upper[p] \in Files
    /\ op.at \in {"createrow", "writerow"} => upper[op.p] \in Files
    /\ op.at \in Renaming => doubt[op.p] = "file" \/ upper[op.p] \in Files
    /\ op.at \in Renamed => ~Live(op.p)
    /\ op.at = "move" =>
          \A p \in FilePaths : p = TmpOf[op.p] /\ Live(p) => doubt[p] = "file"

FilesInv == refresh.clean => (refresh.at # "idle" => Idle) /\ FilesThere

(* Sizes, with what an operation has yet to record.                         *)
SizeInv ==
    /\ SizeIsRecorded
    /\ op.at \in {"create", "createrow"} => ~Live(op.p)
    /\ op.at = "createrow" => upper[op.p].content = {}
    /\ op.at = "writerow" => upper[op.p] \in {op.blob, Nothing}
    /\ op.at \in Renaming /\ doubt[op.p] = "nothing" /\ upper[op.p].type = "file" =>
          op.row.size = upper[op.p].content
    /\ op.at = "renamefile" => ~Live(op.q) \/ rows[op.q].size = op.row.size
    /\ op.at \in {"renamefile", "undonew"} => doubt[op.q] = "file"

(* A refresh that no operation meets leaves of every path what was seen, or *)
(* takes away its row because Reconcile's rules say so.                     *)
Dropped(p) ==
    /\ ~HasRow(p)
    /\ Stale(refresh.read[p], refresh.new[p])
    /\ refresh.read[p].kind = "delete" => refresh.seen[p] = Nothing
    /\ refresh.read[p].kind = "mkdir" => refresh.seen[p] = Directory

RefreshInv ==
    refresh.clean /\ refresh.at # "idle" =>
        /\ \A p \in Paths :
              \/ refresh.seen[p] = Resolve(p)
              \/ refresh.at \in {"cleanup", "switch"} /\ Dropped(p)
        /\ refresh.at = "query" => refresh.read = rows
        /\ refresh.at = "commit" =>
              /\ \A p \in refresh.stale : Stale(refresh.read[p], refresh.new[p])
              /\ \A p \in Paths : Unchanged(p)
        /\ refresh.at = "cleanup" => \A p \in refresh.stale : ~HasRow(p)

(* A copy of the blob, or, when something has failed, an empty file.        *)
CopyOf(n, blob) == n = blob \/ (n = File({}) /\ faults > 0)

(* A mount whose HEAD stays, and which is mounted again after a crash: what *)
(* an operation found when it began is still so until it takes effect, and  *)
(* what a user has open is whited out or has a blob to start from.          *)
Startable(p) == HasRow(p) \/ base[p] # Nothing

MountedInv ==
    /\ refresh.clean /\ head = base
    /\ refresh.at # "idle" => ~mounted /\ refresh.new = base
    /\ ~mounted => former = {}
    /\ \A p \in former : Startable(p)

StageInv ==
    /\ op.at = "ensure" => Startable(op.p)
    /\ op.at \in {"copy", "move", "copyrow"} => op.blob = base[op.p]
    /\ op.at = "move" => CopyOf(upper[TmpOf[op.p]], op.blob)
    /\ op.at = "copyrow" => CopyOf(upper[op.p], op.blob)
    /\ op.at \in {"writeat", "writerow", "renamerow"} => Live(op.p)
    /\ op.at \in {"create", "createrow"} /\ op.name = "write" =>
          faults > 0 /\ ~HasRow(op.p) /\ base[op.p] \in Files
    /\ op.at = "createrow" => upper[op.p] = File({})
    /\ op.at = "remove" => Resolves(op.p)
    /\ op.at = "whiteout" => Unlinked \/ Resolves(op.p)
    /\ op.at \in Renamed => IsDeleted(op.p)
    /\ op.at \in {"renamefile", "undonew"} =>
          /\ rows[op.q].kind = "rename"
          /\ op.q \in former => base[op.q] # Nothing

NamesInv ==
    /\ op.name \in {"create", "mkdir"} => ~Resolves(op.p) /\ Parent[op.p] \in Dirs
    /\ op.name = "unlink" => Parent[op.p] \in Dirs
    /\ op.name = "rmdir" => \A c \in Children(op.p) : ~Resolves(c)
    /\ op.name = "rename" => Parent[op.q] \in Dirs

TreeInv == MountedInv /\ StageInv /\ NamesInv

-----------------------------------------------------------------------------
(* The constants.                                                           *)
LEMMA Bounds == MaxOps \in Nat /\ MaxMoves \in Nat /\ MaxFaults \in Nat
BY OverlayAssumption

LEMMA Commits == InitTree \in Trees /\ OtherTrees \subseteq Trees
BY OverlayAssumption

(* Nodes.                                                                   *)
LEMMA NodeFacts ==
    /\ Nothing \in Nodes /\ Directory \in Nodes /\ Files \subseteq Nodes
    /\ Nothing.type = "none" /\ Nothing.content = {} /\ Directory.type = "dir"
    /\ Unreadable.type = "unreadable"
    /\ \A n \in Files : n.type = "file" /\ n.content \subseteq Nat
    /\ \A n \in Nodes : /\ n.type \in {"none", "dir", "file"} /\ n.content \subseteq Nat
                        /\ n.type = "none" <=> n = Nothing
                        /\ n.type = "dir" <=> n = Directory
                        /\ n.type = "file" <=> n \in Files
BY DEF Nothing, Directory, Unreadable, Files, Nodes

LEMMA FileFacts ==
    ASSUME NEW c \in SUBSET Nat
    PROVE  File(c) \in Files /\ File(c).type = "file" /\ File(c).content = c
BY DEF File, Files

LEMMA TreeFacts ==
    ASSUME NEW t \in Trees, NEW p \in Paths
    PROVE  /\ t[p] \in Nodes
           /\ p \in DirPaths => t[p] \in {Nothing, Directory}
           /\ p \notin DirPaths => t[p] = Nothing \/ t[p] \in Files
BY DEF Trees, NodesAt

LEMMA TreeUpdate ==
    ASSUME NEW t \in Trees, NEW p \in Paths, NEW n \in Nodes,
           p \in DirPaths => n \in {Nothing, Directory},
           p \notin DirPaths => n = Nothing \/ n \in Files
    PROVE  [t EXCEPT ![p] = n] \in Trees
BY DEF Trees, NodesAt

(* upper/: the tree's names and the temporary ones.                         *)
Uppers == {u \in [Backing -> Nodes] : \A b \in Backing : u[b] \in NodesAt(b)}

LEMMA BackingFacts ==
    /\ Paths \subseteq Backing /\ Temps \subseteq Backing
    /\ DirPaths \subseteq Paths /\ FilePaths \subseteq Paths
    /\ \A p \in FilePaths : p \notin DirPaths
    /\ \A p \in FilePaths : /\ TmpOf[p] \in Backing /\ TmpOf[p] \notin DirPaths
                            /\ TmpOf[p] # p
                            /\ TmpOf[p] \in Paths => TmpOf[p] \in FilePaths
BY OverlayAssumption DEF Backing, FilePaths

LEMMA UpperFacts ==
    ASSUME NEW u \in Uppers, NEW b \in Backing
    PROVE  /\ u[b] \in Nodes
           /\ b \in DirPaths => u[b] \in {Nothing, Directory}
           /\ b \notin DirPaths => u[b] = Nothing \/ u[b] \in Files
BY DEF Uppers, NodesAt

LEMMA UpperUpdate ==
    ASSUME NEW u \in Uppers, NEW b \in Backing, NEW n \in Nodes,
           b \in DirPaths => n \in {Nothing, Directory},
           b \notin DirPaths => n = Nothing \/ n \in Files
    PROVE  /\ [u EXCEPT ![b] = n] \in Uppers
           /\ [u EXCEPT ![b] = n][b] = n
           /\ \A c \in Backing : c # b => [u EXCEPT ![b] = n][c] = u[c]
BY DEF Uppers, NodesAt

LEMMA RemovedTyped ==
    ASSUME upper \in Uppers, NEW p \in Paths
    PROVE  /\ Removed(p) \in Uppers
           /\ \A q \in Backing : q # p => Removed(p)[q] = upper[q]
           /\ p \in FilePaths => Removed(p)[p] = Nothing
<1>1. p \in Backing
  BY BackingFacts
<1>2. [upper EXCEPT ![p] = Nothing] \in Uppers
  BY <1>1, UpperUpdate, NodeFacts
<1>3. p \in FilePaths => Children(p) = {}
  <2>1. Parent \in [Paths -> DirPaths \cup {Root}] /\ Root \notin Paths
    BY OverlayAssumption
  <2>. QED  BY <2>1 DEF Children, FilePaths
<1>4. DOMAIN upper = Backing
  BY DEF Uppers
<1>. QED  BY <1>1, <1>2, <1>3, <1>4 DEF Removed

(* What history says a row need not agree with.                             *)
Doubts == [Paths -> {"nothing", "size", "file"}]

LEMMA DoubtTyped ==
    ASSUME NEW ds \in Doubts, NEW p \in Paths, NEW w \in {"nothing", "size", "file"}
    PROVE  /\ [ds EXCEPT ![p] = w] \in Doubts /\ [ds EXCEPT ![p] = w][p] = w
           /\ \A q \in Paths : q # p => [ds EXCEPT ![p] = w][q] = ds[q]
BY DEF Doubts

(* Rows.                                                                    *)
LEMMA RowFacts ==
    /\ NoRow \in Rows /\ NoRow.kind = "none" /\ NoRow.touched = FALSE
    /\ \A r \in Rows : /\ r.kind \in RowKinds /\ r.source \in Nodes
                       /\ r.size \subseteq Nat /\ r.touched \in BOOLEAN
                       /\ r.kind \in {"none", "create", "delete", "mkdir"} =>
                             r.source = Nothing
BY NodeFacts DEF NoRow, Rows, RowKinds

LEMMA RowTyped ==
    ASSUME NEW kind \in RowKinds, NEW source \in Nodes, NEW size \in SUBSET Nat,
           kind \in {"none", "create", "delete", "mkdir"} => source = Nothing
    PROVE  /\ Row(kind, source, size) \in Rows
           /\ Row(kind, source, size).kind = kind
           /\ Row(kind, source, size).source = source
           /\ Row(kind, source, size).size = size
           /\ Row(kind, source, size).touched = (refresh.at = "commit")
BY DEF Row, Rows

LEMMA TouchTyped ==
    ASSUME NEW r \in Rows, NEW t \in BOOLEAN
    PROVE  LET s == [r EXCEPT !.touched = t]
           IN  /\ s \in Rows /\ s.touched = t
               /\ s.kind = r.kind /\ s.source = r.source /\ s.size = r.size
BY DEF Rows

LEMMA UntouchedTyped ==
    ASSUME NEW rs \in [Paths -> Rows]
    PROVE  /\ Untouched(rs) \in [Paths -> Rows]
           /\ \A p \in Paths :
                 /\ Untouched(rs)[p].kind = rs[p].kind
                 /\ Untouched(rs)[p].source = rs[p].source
                 /\ Untouched(rs)[p].size = rs[p].size
                 /\ Untouched(rs)[p].touched = FALSE
BY TouchTyped DEF Untouched

LEMMA RowsUpdate ==
    ASSUME StoreTyped, NEW p \in Paths, NEW r \in Rows, r.kind \in KindsAt(p),
           r.touched => refresh.at = "commit", NEW s
    PROVE  LET new == [rows EXCEPT ![p] = r]
           IN  /\ new \in [Paths -> Rows] /\ new[p] = r
               /\ \A q \in Paths : q # p => new[q] = rows[q]
               /\ \A q \in Paths : /\ new[q].kind \in KindsAt(q)
                                   /\ new[q].touched => refresh.at = "commit"
BY DEF StoreTyped

(* What is seen of a path.                                                  *)
LEMMA ResolveFacts ==
    ASSUME TypeOK, NEW p \in Paths
    PROVE  /\ Resolve(p) \in Nodes \cup {Unreadable}
           /\ p \in DirPaths => Resolve(p) \in {Nothing, Directory}
           /\ p \notin DirPaths =>
                 Resolve(p) \in {Nothing, Unreadable} \/ Resolve(p) \in Files
<1>1. /\ base[p] \in Nodes
      /\ p \in DirPaths => base[p] \in {Nothing, Directory}
      /\ p \notin DirPaths => base[p] = Nothing \/ base[p] \in Files
  BY TreeFacts DEF TypeOK
<1>2. /\ upper[p] \in Nodes
      /\ p \notin DirPaths => upper[p] = Nothing \/ upper[p] \in Files
  BY BackingFacts, UpperFacts DEF TypeOK, StoreTyped, Uppers
<1>3. rows[p].kind \in KindsAt(p)
  BY DEF TypeOK, StoreTyped
<1>. QED
  BY <1>1, <1>2, <1>3, NodeFacts
     DEF Resolve, FileAt, HasRow, IsDeleted, NodeType, KindsAt

(* Where an operation goes.                                                 *)
Stages ==
    {"idle", "ensure", "copy", "move", "copyrow", "create", "createrow", "get",
     "writeat", "writerow", "truncate", "remove", "whiteout", "renamerow", "renamefile",
     "undonew", "undoold", "mkdir", "mkdirrow"}

OpRecords ==
    [name : Ops \cup {"none"}, p : Paths \cup {Root}, q : Paths \cup {Root},
     at : Stages, blob : Nodes, row : Rows]

LEMMA OpTypedIs == OpTyped <=> op \in OpRecords /\ (Idle => op = NoOp)
BY DEF OpTyped, OpRecords, Stages

LEMMA GotoTyped ==
    ASSUME op \in OpRecords, NEW at \in Stages, Goto(at)
    PROVE  /\ op' \in OpRecords /\ op'.at = at
           /\ op'.name = op.name /\ op'.p = op.p /\ op'.q = op.q
           /\ op'.blob = op.blob /\ op'.row = op.row
BY DEF Goto, OpRecords

LEMMA NoOpTyped ==
    /\ NoOp \in OpRecords /\ NoOp.at = "idle" /\ NoOp.name = "none" /\ NoOp.p = Root
    /\ NoOp.q = Root
BY NodeFacts, RowFacts DEF NoOp, OpRecords, Stages

LEMMA BeginTyped ==
    ASSUME NEW name, NEW p \in Paths, NEW q \in Paths, NEW at \in Stages,
           Begin(name, p, q, at)
    PROVE  /\ op' \in OpRecords /\ op'.at = at /\ op'.name = name /\ name \in Ops
           /\ op'.p = p /\ op'.q = q
<1>. NoOp \in OpRecords
  BY NoOpTyped
<1>. QED  BY DEF Begin, OpRecords

(* Every operation that runs is about names of the tree.                    *)
LEMMA OpPaths ==
    ASSUME TypeInv, ~Idle
    PROVE  /\ op \in OpRecords
           /\ op.name \in {"write", "truncate", "create", "unlink", "rename"} =>
                 op.p \in FilePaths /\ op.q \in FilePaths
           /\ op.name \in {"mkdir", "rmdir"} => op.p \in DirPaths /\ op.q \in DirPaths
           /\ op.p \in Paths /\ op.q \in Paths
<1>1. op.at \in Stages /\ op.at # "idle" /\ op \in OpRecords
  BY OpTypedIs DEF TypeInv, TypeOK, OpRecords, Idle
<1>2. op.name \in {"write", "truncate", "create", "unlink", "rename", "mkdir", "rmdir"}
  BY <1>1 DEF TypeInv, OpInv, Stages, Renaming
<1>. QED
  BY <1>1, <1>2, OverlayAssumption DEF TypeInv, OpInv, FilePaths

-----------------------------------------------------------------------------
(* Types.                                                                   *)
LEMMA InitTyped == Init => TypeInv
<1>. SUFFICES ASSUME Init PROVE TypeInv
  OBVIOUS
<1>1. NoRows \in [Paths -> Rows] /\ \A p \in Paths : NoRows[p] = NoRow
  BY RowFacts DEF NoRows
<1>2. StoreTyped
  <2>1. upper \in Uppers
    BY NodeFacts DEF Init, Uppers, NodesAt
  <2>. QED  BY <1>1, <2>1, RowFacts DEF Init, StoreTyped, Uppers, KindsAt
<1>3. OpTyped
  BY NoOpTyped, OpTypedIs DEF Init
<1>4. RefreshTyped
  <2>1. InitTree \in Trees /\ InitTree \in [Paths -> Nodes]
    BY Commits DEF Trees
  <2>. QED  BY <1>1, <2>1 DEF Init, RefreshTyped, NoRefresh
<1>5. OpInv
  BY NoOpTyped DEF Init, OpInv, Idle, Renaming
<1>6. /\ base \in Trees /\ head \in Trees /\ index \in Trees
      /\ mounted \in BOOLEAN /\ (mounted \/ Idle)
      /\ former \subseteq Paths /\ doubt \in Doubts
      /\ nops \in 0..MaxOps /\ moves \in 0..MaxMoves /\ faults \in 0..MaxFaults
  BY Bounds, Commits DEF Init, Idle, Doubts
<1>. QED
  BY <1>2, <1>3, <1>4, <1>5, <1>6 DEF TypeInv, TypeOK, Doubts

(* What an operation that begins leaves.                                    *)
LEMMA CountTyped ==
    ASSUME TypeInv, Count
    PROVE  RefreshTyped' /\ nops' \in 1..MaxOps /\ refresh'.at = refresh.at
<1>1. nops' \in 1..MaxOps
  BY Bounds DEF TypeInv, TypeOK, Count
<1>2. (refresh.clean /\ refresh.at = "idle") \in BOOLEAN
  OBVIOUS
<1>3. /\ refresh' \in [at : {"idle", "query", "commit", "cleanup", "switch"},
                        new : Trees, stale : SUBSET Paths, read : [Paths -> Rows],
                        clean : BOOLEAN, seen : [Paths -> Nodes \cup {Unreadable}]]
      /\ refresh'.at = refresh.at /\ refresh'.stale = refresh.stale
  BY <1>2 DEF Count, TypeInv, TypeOK, RefreshTyped
<1>. QED
  BY <1>1, <1>3 DEF TypeInv, TypeOK, RefreshTyped

LEMMA BeginStep ==
    ASSUME TypeInv, NEW name, NEW p \in Paths, NEW q \in Paths, NEW at \in Stages,
           at # "idle", Begin(name, p, q, at),
           \/ /\ p \in FilePaths /\ q \in FilePaths
              /\ name \in {"write", "truncate"} /\ at = "ensure" /\ p = q
           \/ /\ p \in FilePaths /\ q \in FilePaths
              /\ name = "rename" /\ at = "ensure" /\ p # q
           \/ p \in FilePaths /\ q = p /\ name = "create" /\ at = "create"
           \/ p \in FilePaths /\ q = p /\ name = "unlink" /\ at = "remove"
           \/ p \in DirPaths /\ q = p /\ name = "mkdir" /\ at = "mkdir"
           \/ p \in DirPaths /\ q = p /\ name = "rmdir" /\ at = "remove"
    PROVE  TypeInv'
<1>1. /\ op' \in OpRecords /\ op'.at = at /\ op'.name = name /\ op'.p = p /\ op'.q = q
  BY BeginTyped
<1>2. RefreshTyped' /\ nops' \in 1..MaxOps /\ refresh'.at = refresh.at
  BY CountTyped DEF Begin
<1>3. OpTyped'
  BY <1>1 DEF OpTyped, OpRecords, Stages, Idle
<1>4. StoreTyped'
  BY <1>2 DEF TypeInv, TypeOK, StoreTyped, Begin, storeVars
<1>5. OpInv'
  BY <1>1, <1>2 DEF OpInv, Idle, Renaming
<1>6. mounted
  BY DEF Begin, Count
<1>7. /\ UNCHANGED <<base, head, index, moves, mounted, former, doubt, faults>>
      /\ nops' \in 0..MaxOps
  BY <1>2, Bounds DEF Begin, gitVars, histVars
<1>8. /\ base' \in Trees /\ head' \in Trees /\ index' \in Trees
      /\ mounted' \in BOOLEAN /\ (mounted' \/ Idle')
      /\ moves' \in 0..MaxMoves /\ faults' \in 0..MaxFaults
  BY <1>6, <1>7 DEF TypeInv, TypeOK
<1>. QED
  BY <1>2, <1>3, <1>4, <1>5, <1>7, <1>8 DEF TypeInv, TypeOK

(* A step of an operation keeps the types when it changes rows or files at  *)
(* names of the tree.                                                       *)
LEMMA OpStepTyped ==
    ASSUME TypeInv, ~Idle, UNCHANGED <<base, gitVars, refresh, mounted, nops>>,
           faults' \in 0..MaxFaults,
           rows' \in [Paths -> Rows],
           \A p \in Paths : /\ rows'[p].kind \in KindsAt(p)
                            /\ rows'[p].touched => refresh.at = "commit",
           upper' \in Uppers, former' \subseteq Paths, doubt' \in Doubts,
           \/ op' = NoOp
           \/ op' \in OpRecords /\ op'.at # "idle" /\ OpInv'
    PROVE  TypeInv'
<1>1. StoreTyped' /\ RefreshTyped'
  BY DEF StoreTyped, RefreshTyped, TypeInv, TypeOK, Uppers
<1>2. OpTyped' /\ OpInv'
  <2>1. CASE op' = NoOp
    BY <2>1, NoOpTyped DEF OpTyped, OpRecords, Stages, OpInv, Idle, Renaming
  <2>2. CASE op' \in OpRecords /\ op'.at # "idle" /\ OpInv'
    BY <2>2 DEF OpTyped, OpRecords, Stages, OpInv, Idle
  <2>. QED  BY <2>1, <2>2
<1>3. mounted
  BY DEF TypeInv, TypeOK
<1>. QED
  BY <1>1, <1>2, <1>3 DEF TypeInv, TypeOK, gitVars, Doubts

LEMMA SameStore ==
    ASSUME TypeInv
    PROVE  /\ rows \in [Paths -> Rows] /\ upper \in Uppers /\ base \in Trees
           /\ \A p \in Paths : /\ rows[p].kind \in KindsAt(p)
                               /\ rows[p].touched => refresh.at = "commit"
           /\ faults \in 0..MaxFaults /\ former \subseteq Paths /\ doubt \in Doubts
BY DEF TypeInv, TypeOK, StoreTyped, Uppers, Doubts

LEMMA FaultCounted ==
    ASSUME TypeInv, NEW kind, Fault(kind)
    PROVE  faults' \in 0..MaxFaults
<1>1. faults \in 0..MaxFaults /\ faults < MaxFaults /\ faults' = faults + 1
  BY DEF TypeInv, TypeOK, Fault
<1>. QED  BY <1>1, Bounds

(* upsertEntry.                                                             *)
LEMMA UpsertTyped ==
    ASSUME TypeInv, NEW p \in Paths, NEW kind \in KindsAt(p), NEW source \in Nodes,
           NEW size \in SUBSET Nat,
           kind \in {"none", "create", "delete", "mkdir"} => source = Nothing,
           Upsert(p, Row(kind, source, size))
    PROVE  /\ rows' \in [Paths -> Rows]
           /\ rows'[p].kind = kind /\ rows'[p].source = source /\ rows'[p].size = size
           /\ \A q \in Paths : q # p => rows'[q] = rows[q]
           /\ \A q \in Paths : /\ rows'[q].kind \in KindsAt(q)
                               /\ rows'[q].touched => refresh.at = "commit"
<1>. DEFINE r == Row(kind, source, size)
<1>1. kind \in RowKinds
  BY DEF KindsAt, RowKinds
<1>2. /\ r \in Rows /\ r.kind = kind /\ r.source = source /\ r.size = size
      /\ r.touched = (refresh.at = "commit")
  BY <1>1, RowTyped
<1>. HIDE DEF r
<1>3. StoreTyped
  BY DEF TypeInv, TypeOK
<1>4. rows' = [rows EXCEPT ![p] = r]
  BY DEF Upsert, r
<1>. QED  BY <1>2, <1>3, <1>4, RowsUpdate

LEMMA OperationsTyped ==
    ASSUME TypeInv, OpStep
    PROVE  TypeInv'
<1>. USE DEF runVars, storeVars, histVars
<1>0. /\ ~Idle
      /\ op \in OpRecords /\ op.p \in Paths /\ op.q \in Paths
      /\ op.name \in {"write", "truncate", "create", "unlink", "rename"} =>
            op.p \in FilePaths /\ op.q \in FilePaths
      /\ op.name \in {"mkdir", "rmdir"} => op.p \in DirPaths /\ op.q \in DirPaths
  <2>1. ~Idle
    BY DEF OpStep, EnsureOverlay, CopyToTmp, CopyUp, CopyUpRow, CreateFile, CreateFileRow,
           GetRow, WriteAt, WriteRow, Truncate, RemoveFile, Whiteout, RenameRow,
           RenameFile, UndoNew, UndoOld, MkdirUpper, MkdirRow, OpFails, Idle
  <2>. QED  BY <2>1, OpPaths
<1>a. /\ rows \in [Paths -> Rows] /\ upper \in Uppers /\ base \in Trees
      /\ \A p \in Paths : /\ rows[p].kind \in KindsAt(p)
                          /\ rows[p].touched => refresh.at = "commit"
      /\ faults \in 0..MaxFaults /\ former \subseteq Paths /\ doubt \in Doubts
  BY SameStore
<1>b. OpInv
  BY DEF TypeInv
<1>c. /\ op.p \in FilePaths => op.p \notin DirPaths
      /\ op.q \in FilePaths => op.q \notin DirPaths
      /\ op.p \in DirPaths => op.p \notin FilePaths
      /\ op.p \in Backing /\ op.q \in Backing
  BY <1>0, BackingFacts
<1>e. \A at \in Stages : Goto(at) =>
          /\ op' \in OpRecords /\ op'.at = at
          /\ op'.name = op.name /\ op'.p = op.p /\ op'.q = op.q
          /\ op'.blob = op.blob /\ op'.row = op.row
  BY <1>0, GotoTyped
<1>f. Finish => op' = NoOp
  BY DEF Finish
<1>g. \A kind : Fault(kind) => faults' \in 0..MaxFaults
  BY FaultCounted
<1>h. \A n \in Nodes : (op.p \notin DirPaths => n = Nothing \/ n \in Files)
                       /\ (op.p \in DirPaths => n \in {Nothing, Directory}) =>
          [upper EXCEPT ![op.p] = n] \in Uppers
  BY <1>a, <1>c, UpperUpdate
<1>i. \A w \in {"nothing", "size", "file"} : /\ [doubt EXCEPT ![op.p] = w] \in Doubts
                                            /\ [doubt EXCEPT ![op.q] = w] \in Doubts
  BY <1>0, <1>a, DoubtTyped
<1>l. UNCHANGED nops /\ nops > 0
  BY <1>0, <1>b DEF OpInv, OpStep, EnsureOverlay, CopyToTmp, CopyUp, CopyUpRow, CreateFile,
         CreateFileRow, GetRow, WriteAt, WriteRow, Truncate, RemoveFile, Whiteout,
         RenameRow, RenameFile, UndoNew, UndoOld, MkdirUpper, MkdirRow, OpFails
<1>j. op.at \in {"ensure", "move", "copyrow"} /\ Missing =>
         op' = NoOp \/ (op' \in OpRecords /\ op'.at # "idle" /\ OpInv')
  <2>1. op.at \in {"ensure", "move", "copyrow"} /\ op.name = "write" /\ Goto("create") =>
           op' \in OpRecords /\ op'.at # "idle" /\ OpInv'
    BY <1>0, <1>b, <1>e, <1>l DEF OpInv, Stages, Renaming, Idle
  <2>. QED  BY <1>f, <2>1 DEF Missing
<1>k. op.at \in {"ensure", "copyrow"} /\ Promoted =>
         op' \in OpRecords /\ op'.at # "idle" /\ OpInv'
  <2>1. ASSUME op.at \in {"ensure", "copyrow"}, Promoted
        PROVE  op' \in OpRecords /\ op'.at # "idle" /\ OpInv'
    <3>1. Goto(IF op.name = "truncate" THEN "truncate" ELSE "get")
      BY <2>1 DEF Promoted
    <3>. QED  BY <1>0, <1>b, <1>e, <1>l, <2>1, <3>1 DEF OpInv, Stages, Renaming, Idle
  <2>. QED  BY <2>1
<1>1. CASE EnsureOverlay
  <2>. USE <1>1 DEF EnsureOverlay
  <2>1. op.at = "ensure" /\ op.name \in {"write", "truncate", "rename"} /\ nops > 0
    BY <1>0, <1>b DEF OpInv
  <2>2. faults' \in 0..MaxFaults
    BY <1>a, <1>g
  <2>3. \/ Promoted \/ Missing
        \/ /\ ~HasRow(op.p) /\ base[op.p].type = "file"
           /\ op' = [op EXCEPT !.at = "copy", !.blob = base[op.p]]
    OBVIOUS
  <2>4. CASE /\ ~HasRow(op.p) /\ base[op.p].type = "file"
             /\ op' = [op EXCEPT !.at = "copy", !.blob = base[op.p]]
    <3>1. base[op.p] \in Files
      BY <1>0, <1>a, <2>4, TreeFacts, NodeFacts
    <3>2. /\ op' \in OpRecords /\ op'.at = "copy" /\ op'.blob = base[op.p]
          /\ op'.name = op.name /\ op'.p = op.p /\ op'.q = op.q
      BY <1>0, <2>4, <3>1, NodeFacts DEF OpRecords, Stages
    <3>3. OpInv'
      BY <1>0, <1>b, <2>1, <2>4, <3>1, <3>2 DEF OpInv, HasRow, Renaming
    <3>. QED  BY <1>0, <1>a, <2>2, <3>2, <3>3, OpStepTyped
  <2>5. CASE Promoted \/ Missing
    <3>1. op' = NoOp \/ (op' \in OpRecords /\ op'.at # "idle" /\ OpInv')
      BY <1>j, <1>k, <2>1, <2>5
    <3>. QED  BY <1>0, <1>a, <2>2, <3>1, OpStepTyped
  <2>. QED  BY <2>3, <2>4, <2>5
<1>2. CASE CopyToTmp
  <2>. USE <1>2 DEF CopyToTmp
  <2>. DEFINE t == TmpOf[op.p]
  <2>1. op.name \in {"write", "truncate", "rename"} /\ op.blob \in Files
    BY <1>b DEF OpInv
  <2>2. t \in Backing /\ t \notin DirPaths
    BY <1>0, <2>1, BackingFacts
  <2>3. PICK n \in {op.blob, File({}), Nothing} : upper' = [upper EXCEPT ![t] = n]
    OBVIOUS
  <2>4. n \in Nodes /\ (n = Nothing \/ n \in Files)
    BY <2>1, FileFacts, NodeFacts
  <2>5. upper' \in Uppers
    BY <1>a, <2>2, <2>3, <2>4, UpperUpdate
  <2>6. faults' \in 0..MaxFaults
    BY <1>a, <1>g
  <2>7. doubt' \in Doubts
    BY <1>a DEF Doubts
  <2>8. Goto("move") => op' \in OpRecords /\ op'.at # "idle" /\ OpInv'
    BY <1>0, <1>b, <1>e, <2>1 DEF OpInv, Stages, HasRow, Renaming
  <2>9. Goto("move") \/ Finish
    OBVIOUS
  <2>. QED  BY <1>0, <1>a, <1>f, <2>5, <2>6, <2>7, <2>8, <2>9, OpStepTyped
<1>3. CASE CopyUp
  <2>. USE <1>3 DEF CopyUp
  <2>. DEFINE t == TmpOf[op.p]
  <2>1. op.name \in {"write", "truncate", "rename"} /\ op.blob \in Files
    BY <1>b DEF OpInv
  <2>2. t \in Backing /\ t \notin DirPaths
    BY <1>0, <2>1, BackingFacts
  <2>3. CASE upper[t].type = "file"
    <3>1. upper[t] \in Files /\ upper[t] \in Nodes
      BY <1>a, <2>2, <2>3, UpperFacts, NodeFacts
    <3>2. upper' = [[upper EXCEPT ![op.p] = upper[t]] EXCEPT ![t] = Nothing]
      BY <2>3
    <3>3. upper' \in Uppers
      BY <1>0, <1>c, <1>h, <2>1, <2>2, <3>1, <3>2, UpperUpdate, NodeFacts
    <3>4. Goto("copyrow")
      BY <2>3
    <3>5. op' \in OpRecords /\ op'.at # "idle" /\ OpInv'
      BY <1>0, <1>b, <1>e, <2>1, <3>4 DEF OpInv, Stages, HasRow, Renaming
    <3>. QED  BY <1>0, <1>a, <3>3, <3>5, OpStepTyped
  <2>4. CASE upper[t].type # "file"
    <3>1. op' = NoOp \/ (op' \in OpRecords /\ op'.at # "idle" /\ OpInv')
      BY <1>j, <2>4
    <3>. QED  BY <1>0, <1>a, <2>4, <3>1, OpStepTyped
  <2>. QED  BY <2>3, <2>4
<1>4. CASE CopyUpRow
  <2>. USE <1>4 DEF CopyUpRow
  <2>1. op.name \in {"write", "truncate", "rename"} /\ op.blob \in Files
    BY <1>b DEF OpInv
  <2>2. CASE upper[op.p].type = "file"
    <3>1. upper[op.p].content \in SUBSET Nat
      BY <1>a, <1>c, UpperFacts, NodeFacts
    <3>2. /\ rows' \in [Paths -> Rows]
          /\ \A q \in Paths : /\ rows'[q].kind \in KindsAt(q)
                              /\ rows'[q].touched => refresh.at = "commit"
      <4>1. "modify" \in KindsAt(op.p)
        BY <1>0, <1>c, <2>1 DEF KindsAt
      <4>. QED  BY <1>0, <2>1, <2>2, <3>1, <4>1, UpsertTyped, NodeFacts
    <3>3. op' \in OpRecords /\ op'.at # "idle" /\ OpInv'
      BY <1>k, <2>2
    <3>4. doubt' \in Doubts
      BY <1>i, <2>2 DEF Settled
    <3>. QED  BY <1>0, <1>a, <3>2, <3>3, <3>4, OpStepTyped
  <2>3. CASE upper[op.p].type # "file"
    <3>1. op' = NoOp \/ (op' \in OpRecords /\ op'.at # "idle" /\ OpInv')
      BY <1>j, <2>3
    <3>. QED  BY <1>0, <1>a, <2>3, <3>1, OpStepTyped
  <2>. QED  BY <2>2, <2>3
<1>5. CASE CreateFile
  <2>. USE <1>5 DEF CreateFile
  <2>1. op.name \in {"create", "write"}
    BY <1>b DEF OpInv
  <2>2. upper' \in Uppers
    BY <1>0, <1>c, <1>h, <2>1, NodeFacts, FileFacts
  <2>3. op' \in OpRecords /\ op'.at # "idle" /\ OpInv'
    BY <1>0, <1>b, <1>e, <2>1 DEF OpInv, Stages, Renaming
  <2>. QED  BY <1>0, <1>a, <2>2, <2>3, OpStepTyped
<1>6. CASE CreateFileRow
  <2>. USE <1>6 DEF CreateFileRow
  <2>1. op.name \in {"create", "write"}
    BY <1>b DEF OpInv
  <2>2. /\ rows' \in [Paths -> Rows]
        /\ \A q \in Paths : /\ rows'[q].kind \in KindsAt(q)
                            /\ rows'[q].touched => refresh.at = "commit"
    <3>1. "create" \in KindsAt(op.p)
      BY <1>0, <1>c, <2>1 DEF KindsAt
    <3>. QED  BY <1>0, <3>1, UpsertTyped, NodeFacts
  <2>3. ASSUME op.name = "write"
        PROVE  op' \in OpRecords /\ op'.at # "idle" /\ OpInv'
    <3>1. Goto("get")
      BY <2>3
    <3>. QED  BY <1>0, <1>b, <1>e, <2>3, <3>1 DEF OpInv, Stages, Renaming
  <2>4. op.name # "write" => op' = NoOp
    BY <1>f
  <2>5. doubt' \in Doubts
    BY <1>i DEF Settled
  <2>. QED  BY <1>0, <1>a, <2>2, <2>3, <2>4, <2>5, OpStepTyped
<1>7. CASE GetRow
  <2>. USE <1>7 DEF GetRow
  <2>1. op.name \in {"write", "rename"} /\ nops > 0
    BY <1>0, <1>b DEF OpInv
  <2>2. CASE Live(op.p)
    <3>1. op' = [op EXCEPT !.at = IF op.name = "write" THEN "writeat" ELSE "renamerow",
                           !.row = rows[op.p]]
      BY <2>2
    <3>2. rows[op.p] \in Rows /\ rows[op.p].kind \in LiveKinds
      BY <1>0, <1>a, <1>c, <2>1, <2>2 DEF Live, HasRow, IsDeleted, KindsAt, LiveKinds
    <3>3. /\ op' \in OpRecords /\ op'.row = rows[op.p]
          /\ op'.at = IF op.name = "write" THEN "writeat" ELSE "renamerow"
          /\ op'.name = op.name /\ op'.p = op.p /\ op'.q = op.q
      BY <1>0, <3>1, <3>2 DEF OpRecords, Stages
    <3>4. OpInv'
      BY <1>0, <1>b, <2>1, <3>2, <3>3 DEF OpInv, Renaming
    <3>. QED  BY <1>0, <1>a, <2>1, <3>3, <3>4, OpStepTyped
  <2>3. CASE ~Live(op.p)
    BY <1>0, <1>a, <1>f, <2>3, OpStepTyped
  <2>. QED  BY <2>2, <2>3
<1>8. CASE WriteAt
  <2>. USE <1>8 DEF WriteAt
  <2>1. op.name = "write" /\ nops \in Nat /\ op.row.kind \in LiveKinds
    BY <1>b, Bounds DEF OpInv, TypeInv, TypeOK
  <2>2. upper[op.p].content \cup {nops} \in SUBSET Nat
    <3>1. upper[op.p].content \subseteq Nat
      BY <1>a, <1>c, UpperFacts, NodeFacts
    <3>. QED  BY <2>1, <3>1
  <2>3. upper' \in Uppers
    BY <1>0, <1>c, <1>h, <2>1, <2>2, NodeFacts, FileFacts
  <2>4. faults' \in 0..MaxFaults
    BY <1>a, <1>g
  <2>5. doubt' \in Doubts
    BY <1>i
  <2>6. ASSUME op' = [op EXCEPT !.at = "writerow", !.blob = upper'[op.p]]
        PROVE  op' \in OpRecords /\ op'.at # "idle" /\ OpInv'
    <3>1. upper'[op.p] \in Files
      BY <1>a, <1>c, <2>2, FileFacts DEF Uppers
    <3>2. /\ op' \in OpRecords /\ op'.at = "writerow" /\ op'.blob \in Files
          /\ op'.name = op.name /\ op'.p = op.p /\ op'.q = op.q /\ op'.row = op.row
      BY <1>0, <2>6, <3>1, NodeFacts DEF OpRecords, Stages
    <3>. QED  BY <1>0, <1>b, <2>1, <3>2 DEF OpInv, Renaming
  <2>7. op' = [op EXCEPT !.at = "writerow", !.blob = upper'[op.p]] \/ op' = NoOp
    BY <1>f
  <2>. QED  BY <1>0, <1>a, <2>3, <2>4, <2>5, <2>6, <2>7, OpStepTyped
<1>9. CASE WriteRow
  <2>. USE <1>9 DEF WriteRow
  <2>1. op.name = "write" /\ op.row \in Rows /\ op.blob \in Files
    BY <1>0, <1>b DEF OpInv, OpRecords
  <2>2. op.blob.content \in SUBSET Nat
    BY <2>1, NodeFacts
  <2>3. /\ rows' \in [Paths -> Rows]
        /\ \A q \in Paths : /\ rows'[q].kind \in KindsAt(q)
                            /\ rows'[q].touched => refresh.at = "commit"
    <3>. DEFINE kind == IF op.row.kind = "create" THEN "create" ELSE "modify"
    <3>1. kind \in KindsAt(op.p) /\ kind \notin {"none", "delete", "mkdir"}
      BY <1>0, <1>c, <2>1 DEF KindsAt
    <3>2. kind = "create" => op.row.source = Nothing
      BY <2>1, RowFacts
    <3>3. op.row.source \in Nodes
      BY <2>1, RowFacts
    <3>4. Upsert(op.p, Row(kind, op.row.source, op.blob.content))
      OBVIOUS
    <3>. HIDE DEF kind
    <3>. QED  BY <1>0, <2>2, <3>1, <3>2, <3>3, <3>4, UpsertTyped
  <2>4. doubt' \in Doubts
    BY <1>i DEF Settled
  <2>. QED  BY <1>0, <1>a, <1>f, <2>3, <2>4, OpStepTyped
<1>10. CASE Truncate
  <2>. USE <1>10 DEF Truncate
  <2>1. op.name = "truncate" /\ nops \in Nat
    BY <1>b, Bounds DEF OpInv, TypeInv, TypeOK
  <2>2. upper[op.p].content \subseteq Nat
    BY <1>a, <1>c, UpperFacts, NodeFacts
  <2>3. upper' \in Uppers
    <3>1. CASE upper' = upper
      BY <1>a, <3>1
    <3>2. ASSUME NEW c \in {{}, upper[op.p].content, upper[op.p].content \cup {nops}},
                 upper' = [upper EXCEPT ![op.p] = File(c)]
          PROVE  upper' \in Uppers
      <4>1. c \in SUBSET Nat
        BY <2>1, <2>2
      <4>. QED  BY <1>0, <1>c, <1>h, <2>1, <3>2, <4>1, NodeFacts, FileFacts
    <3>. QED  BY <3>1, <3>2
  <2>4. doubt' \in Doubts
    BY <1>a, <1>i
  <2>. QED  BY <1>0, <1>a, <1>f, <2>3, <2>4, OpStepTyped
<1>11. CASE RemoveFile
  <2>. USE <1>11 DEF RemoveFile
  <2>1. op.name \in {"unlink", "rmdir"}
    BY <1>b DEF OpInv
  <2>2. upper' \in Uppers
    BY <1>0, <1>a, RemovedTyped
  <2>3. op' \in OpRecords /\ op'.at # "idle" /\ OpInv'
    BY <1>0, <1>b, <1>c, <1>e, <2>1 DEF OpInv, Stages, Renaming
  <2>4. faults' \in 0..MaxFaults
    BY <1>a, <1>g
  <2>5. doubt' \in Doubts
    BY <1>a, <1>i
  <2>. QED  BY <1>0, <1>a, <2>2, <2>3, <2>4, <2>5, OpStepTyped
<1>12. CASE Whiteout
  <2>. USE <1>12 DEF Whiteout
  <2>1. "delete" \in KindsAt(op.p)
    BY DEF KindsAt
  <2>2. /\ rows' \in [Paths -> Rows]
        /\ \A q \in Paths : /\ rows'[q].kind \in KindsAt(q)
                            /\ rows'[q].touched => refresh.at = "commit"
    BY <1>0, <2>1, UpsertTyped, NodeFacts
  <2>3. former' \subseteq Paths /\ doubt' \in Doubts
    BY <1>0, <1>a, <1>i DEF Settled
  <2>. QED  BY <1>0, <1>a, <1>f, <2>2, <2>3, OpStepTyped
<1>13. CASE RenameRow
  <2>. USE <1>13 DEF RenameRow
  <2>1. /\ op.name = "rename" /\ op.row \in Rows /\ op.row.kind \in LiveKinds
        /\ op.q \notin DirPaths
    BY <1>0, <1>b, <1>c DEF OpInv, OpRecords, Renaming
  <2>2. CASE HasRow(op.q)
    BY <1>0, <1>a, <1>f, <2>2, OpStepTyped
  <2>3. CASE ~HasRow(op.q)
    <3>. DEFINE to == Row("rename", op.row.source, op.row.size)
                from == Row("delete", Nothing, {})
    <3>1. /\ to \in Rows /\ to.kind = "rename" /\ to.touched = (refresh.at = "commit")
          /\ from \in Rows /\ from.kind = "delete"
          /\ from.touched = (refresh.at = "commit")
      BY <2>1, RowTyped, RowFacts, NodeFacts DEF RowKinds
    <3>2. rows' = [rows EXCEPT ![op.q] = to, ![op.p] = from]
      BY <2>3
    <3>. HIDE DEF to, from
    <3>3. "rename" \in KindsAt(op.q) /\ "delete" \in KindsAt(op.p)
      BY <2>1 DEF KindsAt
    <3>4. /\ rows' \in [Paths -> Rows]
          /\ \A q \in Paths : /\ rows'[q].kind \in KindsAt(q)
                              /\ rows'[q].touched => refresh.at = "commit"
      BY <1>0, <1>a, <3>1, <3>2, <3>3
    <3>5. Goto("renamefile")
      BY <2>3
    <3>6. op' \in OpRecords /\ op'.at # "idle" /\ OpInv'
      BY <1>0, <1>b, <1>e, <2>1, <3>5 DEF OpInv, Stages, Renaming
    <3>7. former' \subseteq Paths /\ doubt' \in Doubts
      BY <1>0, <1>a, <1>i, <2>3
    <3>. QED  BY <1>0, <1>a, <3>4, <3>6, <3>7, OpStepTyped
  <2>. QED  BY <2>2, <2>3
<1>14. CASE RenameFile
  <2>. USE <1>14 DEF RenameFile
  <2>1. /\ op.name = "rename" /\ op.row.kind \in LiveKinds
        /\ op.q \notin DirPaths /\ op.p \notin DirPaths
    BY <1>0, <1>b, <1>c DEF OpInv, Renaming
  <2>2. CASE Goto("undonew")
    <3>1. op' \in OpRecords /\ op'.at # "idle" /\ OpInv'
      BY <1>0, <1>b, <1>e, <2>1, <2>2 DEF OpInv, Stages, Renaming
    <3>2. UNCHANGED <<upper, doubt>>
      <4>1. op'.at # "idle"
        BY <1>e, <2>2 DEF Stages
      <4>2. ~Finish
        BY <1>f, <4>1, NoOpTyped
      <4>. QED  BY <4>2
    <3>3. faults' \in 0..MaxFaults
      BY <1>a, <1>g
    <3>. QED  BY <1>0, <1>a, <3>1, <3>2, <3>3, OpStepTyped
  <2>3. CASE ~Goto("undonew")
    <3>1. /\ upper[op.p].type # "none"
          /\ upper' = [[upper EXCEPT ![op.q] = upper[op.p]] EXCEPT ![op.p] = Nothing]
          /\ doubt' = [[doubt EXCEPT ![op.q] = doubt[op.p]] EXCEPT ![op.p] = "nothing"]
          /\ Finish /\ UNCHANGED faults
      BY <2>3
    <3>2. upper[op.p] \in Files /\ upper[op.p] \in Nodes
      BY <1>a, <1>c, <2>1, <3>1, UpperFacts, NodeFacts
    <3>3. [upper EXCEPT ![op.q] = upper[op.p]] \in Uppers
      BY <1>a, <1>c, <2>1, <3>2, UpperUpdate
    <3>4. upper' \in Uppers
      BY <1>c, <3>1, <3>3, UpperUpdate, NodeFacts
    <3>5. [doubt EXCEPT ![op.q] = doubt[op.p]] \in Doubts
      BY <1>0, <1>a, DoubtTyped DEF Doubts
    <3>6. doubt' \in Doubts
      BY <1>0, <3>1, <3>5, DoubtTyped
    <3>. QED  BY <1>0, <1>a, <1>f, <3>1, <3>4, <3>6, OpStepTyped
  <2>. QED  BY <2>2, <2>3
<1>15. CASE UndoNew
  <2>. USE <1>15 DEF UndoNew
  <2>1. op.name = "rename" /\ op.row.kind \in LiveKinds
    BY <1>b DEF OpInv, Renaming
  <2>2. /\ rows' \in [Paths -> Rows]
        /\ \A q \in Paths : /\ rows'[q].kind \in KindsAt(q)
                            /\ rows'[q].touched => refresh.at = "commit"
    <3>1. CASE Upsert(op.q, NoRow)
      BY <1>0, <1>a, <3>1, RowFacts DEF Upsert, KindsAt
    <3>2. CASE UNCHANGED rows
      BY <1>a, <3>2
    <3>. QED  BY <3>1, <3>2
  <2>3. op' \in OpRecords /\ op'.at # "idle" /\ OpInv'
    BY <1>0, <1>b, <1>e, <2>1 DEF OpInv, Stages, Renaming
  <2>4. faults' \in 0..MaxFaults
    BY <1>a, <1>g
  <2>. QED  BY <1>0, <1>a, <2>2, <2>3, <2>4, OpStepTyped
<1>16. CASE UndoOld
  <2>. USE <1>16 DEF UndoOld
  <2>. DEFINE t == op.row.touched /\ refresh.at = "commit"
              old == [op.row EXCEPT !.touched = t]
  <2>1. /\ op.name = "rename" /\ op.row \in Rows /\ op.row.kind \in LiveKinds
        /\ op.p \notin DirPaths
    BY <1>0, <1>b, <1>c DEF OpInv, OpRecords, Renaming
  <2>2. old \in Rows /\ old.kind = op.row.kind /\ old.touched = t
    BY <2>1, TouchTyped
  <2>3. Upsert(op.p, old) \/ UNCHANGED rows
    OBVIOUS
  <2>4. t => refresh.at = "commit"
    OBVIOUS
  <2>. HIDE DEF old, t
  <2>5. op.row.kind \in KindsAt(op.p)
    BY <2>1 DEF KindsAt, LiveKinds
  <2>6. /\ rows' \in [Paths -> Rows]
        /\ \A q \in Paths : /\ rows'[q].kind \in KindsAt(q)
                            /\ rows'[q].touched => refresh.at = "commit"
    <3>1. CASE Upsert(op.p, old)
      BY <1>0, <1>a, <2>2, <2>4, <2>5, <3>1 DEF Upsert
    <3>2. CASE UNCHANGED rows
      BY <1>a, <3>2
    <3>. QED  BY <2>3, <3>1, <3>2
  <2>7. faults' \in 0..MaxFaults
    BY <1>a, <1>g
  <2>. QED  BY <1>0, <1>a, <1>f, <2>6, <2>7, OpStepTyped
<1>17. CASE MkdirUpper
  <2>. USE <1>17 DEF MkdirUpper
  <2>1. op.name = "mkdir" /\ op.p \in DirPaths
    BY <1>0, <1>b DEF OpInv
  <2>2. upper' \in Uppers
    BY <1>c, <1>h, <2>1, NodeFacts
  <2>3. op' \in OpRecords /\ op'.at # "idle" /\ OpInv'
    BY <1>0, <1>b, <1>c, <1>e, <2>1 DEF OpInv, Stages, Renaming
  <2>. QED  BY <1>0, <1>a, <2>2, <2>3, OpStepTyped
<1>18. CASE MkdirRow
  <2>. USE <1>18 DEF MkdirRow
  <2>1. "mkdir" \in KindsAt(op.p)
    BY <1>0, <1>b DEF OpInv, KindsAt
  <2>2. /\ rows' \in [Paths -> Rows]
        /\ \A q \in Paths : /\ rows'[q].kind \in KindsAt(q)
                            /\ rows'[q].touched => refresh.at = "commit"
    BY <1>0, <2>1, UpsertTyped, NodeFacts
  <2>. QED  BY <1>0, <1>a, <1>f, <2>2, OpStepTyped
<1>19. CASE OpFails
  <2>1. Finish /\ faults' \in 0..MaxFaults
    BY <1>19, <1>g DEF OpFails
  <2>. QED  BY <1>0, <1>a, <1>f, <1>19, <2>1, OpStepTyped DEF OpFails
<1>. QED
  BY <1>1, <1>2, <1>3, <1>4, <1>5, <1>6, <1>7, <1>8, <1>9, <1>10, <1>11, <1>12, <1>13,
     <1>14, <1>15, <1>16, <1>17, <1>18, <1>19 DEF OpStep

(* Steps that leave the running operation alone, and only take rows away.   *)
LEMMA OpKept ==
    ASSUME TypeInv, UNCHANGED <<op, nops>>,
           \A p \in Paths : rows'[p].kind # "none" => rows[p].kind # "none"
    PROVE  OpTyped' /\ OpInv'
<1>1. OpTyped'
  BY OpTypedIs DEF TypeInv, TypeOK, OpTyped, Idle
<1>2. ~Idle => op.p \in Paths
  BY OpPaths
<1>3. op.at \in {"copy", "move", "copyrow"} => op.blob \in Files /\ ~HasRow(op.p)'
  BY <1>2 DEF TypeInv, OpInv, HasRow, Idle
<1>. QED  BY <1>1, <1>3 DEF TypeInv, OpInv, Idle

LEMMA SetMtimeTyped ==
    ASSUME TypeInv, NEW p \in Paths, SetMtime(p)
    PROVE  TypeInv'
<1>. USE DEF SetMtime
<1>1. RefreshTyped' /\ nops' \in 1..MaxOps /\ refresh'.at = refresh.at
  BY CountTyped
<1>2. PICK t \in {FALSE, refresh.at = "commit"} : rows' = [rows EXCEPT ![p].touched = t]
  OBVIOUS
<1>3. t \in BOOLEAN /\ (t => refresh.at = "commit")
  OBVIOUS
<1>4. rows \in [Paths -> Rows] /\ rows[p] \in Rows
  BY SameStore
<1>5. \A q \in Paths : q # p => rows'[q] = rows[q]
  BY <1>2, <1>4
<1>6. /\ rows'[p] \in Rows /\ rows'[p].touched = t /\ rows'[p].kind = rows[p].kind
  BY <1>2, <1>3, <1>4, TouchTyped
<1>7. StoreTyped'
  <2>1. rows' \in [Paths -> Rows]
    BY <1>2, <1>4, <1>5, <1>6
  <2>2. \A q \in Paths : /\ rows'[q].kind \in KindsAt(q)
                         /\ rows'[q].touched => refresh'.at = "commit"
    BY <1>1, <1>3, <1>5, <1>6, SameStore
  <2>3. upper' \in Uppers
    BY SameStore
  <2>. QED  BY <2>1, <2>2, <2>3 DEF StoreTyped, Uppers
<1>8. Idle /\ UNCHANGED op /\ mounted
  BY DEF Count
<1>9. OpTyped' /\ OpInv'
  BY <1>8 DEF TypeInv, TypeOK, OpTyped, OpInv, Idle
<1>10. /\ UNCHANGED <<base, head, index, moves, mounted, former, doubt, faults>>
       /\ nops' \in 0..MaxOps
  BY <1>1, Bounds DEF gitVars, histVars
<1>. QED
  BY <1>1, <1>7, <1>9, <1>10 DEF TypeInv, TypeOK, Idle

(* What git records is a tree.                                              *)
LEMMA RecordedTyped ==
    ASSUME NEW t, \A p \in FilePaths : t[p] = Nothing \/ t[p] \in Files
    PROVE  Recorded(t) \in Trees
BY NodeFacts DEF Recorded, Trees, NodesAt, FilePaths

LEMMA GitKept ==
    ASSUME TypeInv, UNCHANGED <<storeVars, base, op, refresh, runVars>>,
           head' \in Trees, index' \in Trees, moves' \in 0..MaxMoves
    PROVE  TypeInv'
<1>1. UNCHANGED <<rows, upper, base, op, refresh, mounted, former, doubt, nops, faults>>
  BY DEF storeVars, runVars, histVars
<1>2. OpTyped' /\ OpInv'
  BY <1>1, OpKept
<1>3. StoreTyped' /\ RefreshTyped'
  BY <1>1 DEF TypeInv, TypeOK, StoreTyped, RefreshTyped
<1>. QED
  BY <1>1, <1>2, <1>3 DEF TypeInv, TypeOK, Idle

LEMMA MoveTyped ==
    ASSUME TypeInv, NEW t \in Trees, MoveHead(t), index' \in Trees
    PROVE  TypeInv'
<1>1. moves' \in 0..MaxMoves
  BY Bounds DEF MoveHead, TypeInv, TypeOK
<1>. QED  BY <1>1, GitKept DEF MoveHead

LEMMA GitTyped ==
    ASSUME TypeInv,
           \/ \E p \in FilePaths : GitAdd(p)
           \/ GitCommit
           \/ GitCommitAll
           \/ \E t \in OtherTrees : GitCheckout(t)
    PROVE  TypeInv'
<1>1. TypeOK /\ index \in Trees /\ head \in Trees /\ moves \in 0..MaxMoves
  BY DEF TypeInv, TypeOK
<1>2. ASSUME Readable, NEW p \in FilePaths
      PROVE  Resolve(p) = Nothing \/ Resolve(p) \in Files
  <2>1. p \in Paths /\ p \notin DirPaths
    BY DEF FilePaths
  <2>. QED  BY <1>1, <1>2, <2>1, ResolveFacts, NodeFacts DEF Readable
<1>3. ASSUME NEW p \in FilePaths, GitAdd(p) PROVE TypeInv'
  <2>. DEFINE t == [index EXCEPT ![p] = Resolve(p)]
  <2>1. \A q \in FilePaths : t[q] = Nothing \/ t[q] \in Files
    <3>1. Resolve(p) = Nothing \/ Resolve(p) \in Files
      BY <1>2, <1>3 DEF GitAdd
    <3>2. DOMAIN index = Paths
      BY <1>1 DEF Trees
    <3>. QED  BY <1>1, <3>1, <3>2, TreeFacts DEF FilePaths
  <2>2. index' = Recorded(t)
    BY <1>3 DEF GitAdd
  <2>. HIDE DEF t
  <2>3. index' \in Trees
    BY <2>1, <2>2, RecordedTyped
  <2>. QED  BY <1>1, <1>3, <2>3, GitKept DEF GitAdd
<1>4. CASE GitCommit
  BY <1>1, <1>4, MoveTyped DEF GitCommit
<1>5. CASE GitCommitAll
  <2>1. \A q \in FilePaths : View[q] = Nothing \/ View[q] \in Files
    BY <1>2, <1>5 DEF GitCommitAll, View, FilePaths
  <2>2. Recorded(View) \in Trees
    BY <2>1, RecordedTyped
  <2>3. index' \in Trees /\ MoveHead(index')
    BY <1>5, <2>2 DEF GitCommitAll
  <2>. QED  BY <2>3, MoveTyped
<1>6. ASSUME NEW t \in OtherTrees, GitCheckout(t) PROVE TypeInv'
  BY <1>6, Commits, MoveTyped DEF GitCheckout
<1>. QED  BY <1>3, <1>4, <1>5, <1>6

(* The steps of a refresh.                                                  *)
RefreshRecords ==
    [at : {"idle", "query", "commit", "cleanup", "switch"},
     new : Trees, stale : SUBSET Paths, read : [Paths -> Rows],
     clean : BOOLEAN, seen : [Paths -> Nodes \cup {Unreadable}]]

LEMMA NoRefreshTyped ==
    ASSUME NEW clean \in BOOLEAN
    PROVE  /\ NoRefresh(clean) \in RefreshRecords
           /\ NoRefresh(clean).at = "idle" /\ NoRefresh(clean).stale = {}
           /\ NoRefresh(clean).clean = clean
<1>1. NoRows \in [Paths -> Rows]
  BY RowFacts DEF NoRows
<1>2. InitTree \in Trees /\ InitTree \in [Paths -> Nodes]
  BY Commits DEF Trees
<1>. QED  BY <1>1, <1>2 DEF NoRefresh, RefreshRecords

LEMMA RefreshKept ==
    ASSUME TypeInv, UNCHANGED <<op, nops, head, moves>>,
           rows' \in [Paths -> Rows],
           \A p \in Paths : /\ rows'[p].kind \in KindsAt(p)
                            /\ rows'[p].kind # "none" => rows[p].kind # "none"
                            /\ rows'[p].touched => refresh'.at = "commit",
           upper' \in Uppers, base' \in Trees, index' \in Trees,
           former' \subseteq Paths, UNCHANGED doubt,
           refresh' \in RefreshRecords,
           refresh'.at \in {"commit", "cleanup"} <=> refresh'.stale # {},
           mounted' \in {mounted, TRUE}, faults' \in 0..MaxFaults
    PROVE  TypeInv'
<1>1. OpTyped' /\ OpInv'
  BY OpKept
<1>2. StoreTyped' /\ RefreshTyped'
  BY DEF StoreTyped, RefreshTyped, RefreshRecords, Uppers
<1>. QED
  BY <1>1, <1>2 DEF TypeInv, TypeOK, Idle

LEMMA RefreshStepTyped ==
    ASSUME TypeInv, RefreshStep
    PROVE  TypeInv'
<1>. USE DEF runVars, storeVars, gitVars, histVars
<1>a. /\ rows \in [Paths -> Rows] /\ upper \in Uppers /\ base \in Trees
      /\ \A p \in Paths : /\ rows[p].kind \in KindsAt(p)
                          /\ rows[p].touched => refresh.at = "commit"
      /\ faults \in 0..MaxFaults /\ former \subseteq Paths
  BY SameStore
<1>c. \A kind : Fault(kind) => faults' \in 0..MaxFaults
  BY FaultCounted
<1>d. Passed \subseteq Paths
  BY <1>a DEF Passed, FilePaths
<1>b. /\ refresh \in RefreshRecords
      /\ refresh.at \in {"commit", "cleanup"} <=> refresh.stale # {}
      /\ head \in Trees /\ index \in Trees /\ mounted \in BOOLEAN
  BY DEF TypeInv, TypeOK, RefreshTyped, RefreshRecords
<1>1. CASE Publish
  <2>. USE <1>1 DEF Publish
  <2>1. View \in [Paths -> Nodes \cup {Unreadable}]
    BY ResolveFacts DEF TypeInv, View
  <2>2. (refresh.clean /\ Idle) \in BOOLEAN
    OBVIOUS
  <2>3. /\ refresh' \in RefreshRecords /\ refresh'.at = "query"
        /\ refresh'.stale = refresh.stale
    BY <1>a, <1>b, <2>1, <2>2 DEF RefreshRecords
  <2>4. refresh.stale = {} /\ \A p \in Paths : ~rows[p].touched
    BY <1>a, <1>b
  <2>. QED  BY <1>a, <1>b, <2>3, <2>4, RefreshKept
<1>2. CASE ReconcileQuery
  <2>. USE <1>2 DEF ReconcileQuery
  <2>1. \E new : \E clean \in BOOLEAN : Decide(new, clean)
    <3>1. refresh.clean \in BOOLEAN
      BY <1>b DEF RefreshRecords
    <3>2. CASE Decide(refresh.new, refresh.clean)
      BY <3>1, <3>2
    <3>3. CASE \E p \in Paths : Decide([refresh.new EXCEPT ![p] = Nothing], FALSE)
      BY <3>3
    <3>. QED  BY <3>2, <3>3
  <2>5. PICK new, clean : clean \in BOOLEAN /\ Decide(new, clean)
    BY <2>1
  <2>. DEFINE stale == {p \in Paths : Stale(rows[p], new[p])}
  <2>2. /\ refresh' \in RefreshRecords /\ refresh'.stale = stale
        /\ refresh'.at = IF stale = {} THEN "switch" ELSE "commit"
    BY <1>a, <1>b, <2>5 DEF RefreshRecords, Decide
  <2>4. faults' \in 0..MaxFaults
    BY <1>a, <1>c
  <2>3. \A p \in Paths : ~rows[p].touched
    BY <1>a
  <2>. HIDE DEF stale
  <2>. QED  BY <1>a, <1>b, <2>2, <2>3, <2>4, RefreshKept
<1>3. CASE ReconcileCommit
  <2>. DEFINE rs == [p \in Paths |->
                        IF p \in refresh.stale /\ Unchanged(p) THEN NoRow ELSE rows[p]]
  <2>1. rs \in [Paths -> Rows] /\ rows' = Untouched(rs)
    BY <1>3, <1>a, RowFacts DEF ReconcileCommit
  <2>2. \A p \in Paths : rs[p].kind \in {rows[p].kind, "none"}
    BY RowFacts
  <2>. HIDE DEF rs
  <2>3. /\ rows' \in [Paths -> Rows]
        /\ \A p \in Paths : /\ rows'[p].kind \in KindsAt(p)
                            /\ rows'[p].kind # "none" => rows[p].kind # "none"
                            /\ rows'[p].touched = FALSE
    <3>1. /\ rows' \in [Paths -> Rows]
          /\ \A p \in Paths : rows'[p].kind = rs[p].kind /\ rows'[p].touched = FALSE
      BY <2>1, UntouchedTyped
    <3>2. \A p \in Paths : rs[p].kind \in KindsAt(p)
      BY <1>a, <2>2 DEF KindsAt
    <3>. QED  BY <2>2, <3>1, <3>2
  <2>4. /\ refresh' \in RefreshRecords /\ refresh'.at = "cleanup"
        /\ refresh'.stale = refresh.stale
    BY <1>3, <1>b DEF ReconcileCommit, RefreshRecords
  <2>5. /\ UNCHANGED <<upper, base, head, index, moves, op, mounted, doubt, nops, faults>>
        /\ former' \subseteq Paths
    BY <1>3, <1>d DEF ReconcileCommit
  <2>6. refresh.at = "commit"
    BY <1>3 DEF ReconcileCommit
  <2>. QED  BY <1>a, <1>b, <2>3, <2>4, <2>5, <2>6, RefreshKept
<1>4. CASE ReconcileCleanup
  <2>1. PICK p \in refresh.stale :
            /\ upper' \in {upper, Removed(p)}
            /\ refresh' = [refresh EXCEPT
                             !.stale = @ \ {p},
                             !.at = IF refresh.stale = {p} THEN "switch" ELSE "cleanup"]
    BY <1>4 DEF ReconcileCleanup
  <2>2. p \in Paths
    BY <1>b DEF RefreshRecords
  <2>3. upper' \in Uppers
    BY <1>a, <2>1, <2>2, RemovedTyped
  <2>4. /\ refresh' \in RefreshRecords /\ refresh'.stale = refresh.stale \ {p}
        /\ refresh'.at = IF refresh.stale = {p} THEN "switch" ELSE "cleanup"
    BY <1>b, <2>1 DEF RefreshRecords
  <2>5. /\ refresh.at = "cleanup"
        /\ UNCHANGED <<rows, base, head, index, moves, op, mounted, former, doubt, nops>>
        /\ faults' \in 0..MaxFaults
    BY <1>4, <1>a, <1>c DEF ReconcileCleanup
  <2>6. refresh'.at \in {"commit", "cleanup"} <=> refresh'.stale # {}
    BY <2>4
  <2>. QED  BY <1>a, <1>b, <2>3, <2>4, <2>5, <2>6, RefreshKept
<1>5. CASE ReconcileFails
  <2>. USE <1>5 DEF ReconcileFails
  <2>1. /\ rows' \in [Paths -> Rows]
        /\ \A p \in Paths : rows'[p].kind = rows[p].kind /\ rows'[p].touched = FALSE
    BY <1>a, UntouchedTyped
  <2>2. /\ refresh' \in RefreshRecords /\ refresh'.stale = {}
        /\ refresh'.at \in {"switch", "idle"}
    BY <1>b DEF RefreshRecords
  <2>3. faults' \in 0..MaxFaults
    BY FaultCounted
  <2>. QED  BY <1>a, <1>b, <2>1, <2>2, <2>3, RefreshKept
<1>6. CASE Switch
  <2>. USE <1>6 DEF Switch
  <2>1. refresh' = NoRefresh(refresh.clean) /\ refresh.clean \in BOOLEAN
    BY <1>b DEF RefreshRecords
  <2>2. /\ refresh' \in RefreshRecords /\ refresh'.at = "idle" /\ refresh'.stale = {}
    BY <2>1, NoRefreshTyped
  <2>3. faults' \in 0..MaxFaults
    <3>1. CASE Fault("read-tree fails")
      BY <3>1, FaultCounted
    <3>2. CASE faults' = faults
      BY <1>a, <3>2
    <3>. QED  BY <3>1, <3>2
  <2>4. index' \in Trees /\ base' \in Trees
    BY <1>b DEF RefreshRecords
  <2>5. \A p \in Paths : ~rows[p].touched
    BY <1>a
  <2>6. former' \subseteq Paths
    BY <1>d
  <2>. QED  BY <1>a, <1>b, <2>2, <2>3, <2>4, <2>5, <2>6, RefreshKept
<1>. QED
  BY <1>1, <1>2, <1>3, <1>4, <1>5, <1>6 DEF RefreshStep

LEMMA CrashTyped ==
    ASSUME TypeInv, Crash
    PROVE  TypeInv'
<1>. USE DEF Crash
<1>1. /\ rows' \in [Paths -> Rows]
      /\ \A p \in Paths : rows'[p].kind = rows[p].kind /\ rows'[p].touched = FALSE
  BY SameStore, UntouchedTyped
<1>2. StoreTyped'
  BY <1>1, SameStore DEF StoreTyped, Uppers
<1>3. OpTyped' /\ OpInv'
  BY NoOpTyped DEF OpTyped, OpRecords, Stages, OpInv, Idle, Renaming
<1>4. RefreshTyped'
  <2>1. refresh' = NoRefresh(refresh.clean) /\ refresh.clean \in BOOLEAN
    BY DEF TypeInv, TypeOK, RefreshTyped
  <2>2. /\ refresh' \in RefreshRecords /\ refresh'.at = "idle" /\ refresh'.stale = {}
    BY <2>1, NoRefreshTyped
  <2>. QED  BY <2>2 DEF RefreshTyped, RefreshRecords
<1>5. faults' \in 0..MaxFaults
  BY FaultCounted
<1>6. /\ Idle' /\ mounted' = FALSE /\ former' = {}
      /\ UNCHANGED <<base, head, index, moves, doubt, nops>>
  BY NoOpTyped DEF Idle, gitVars
<1>. QED
  BY <1>2, <1>3, <1>4, <1>5, <1>6 DEF TypeInv, TypeOK

LEMMA StepTyped == TypeInv /\ [Next]_vars => TypeInv'
<1>. SUFFICES ASSUME TypeInv, [Next]_vars PROVE TypeInv'
  OBVIOUS
<1>1. ASSUME NEW p \in FilePaths,
             \/ BeginWrite(p) \/ BeginTruncate(p) \/ BeginCreate(p) \/ BeginUnlink(p)
      PROVE  TypeInv'
  <2>1. p \in Paths
    BY DEF FilePaths
  <2>. QED
    BY <1>1, <2>1, BeginStep
       DEF BeginWrite, BeginTruncate, BeginCreate, BeginUnlink, Stages
<1>2. ASSUME NEW p \in FilePaths, NEW q \in FilePaths, BeginRename(p, q) PROVE TypeInv'
  <2>1. p \in Paths /\ q \in Paths
    BY DEF FilePaths
  <2>. QED  BY <1>2, <2>1, BeginStep DEF BeginRename, Stages
<1>3. ASSUME NEW d \in DirPaths, BeginMkdir(d) \/ BeginRmdir(d) PROVE TypeInv'
  <2>1. d \in Paths
    BY OverlayAssumption
  <2>. QED  BY <1>3, <2>1, BeginStep DEF BeginMkdir, BeginRmdir, Stages
<1>4. CASE UNCHANGED vars
  <2>1. /\ UNCHANGED <<storeVars, base, op, refresh, runVars>>
        /\ UNCHANGED <<head, index, moves>>
    BY <1>4 DEF vars, gitVars
  <2>. QED  BY <2>1, GitKept DEF TypeInv, TypeOK
<1>. QED
  BY <1>1, <1>2, <1>3, <1>4, SetMtimeTyped, OperationsTyped, GitTyped, RefreshStepTyped,
     CrashTyped DEF Next

(* Every variable has its type, always.                                     *)
THEOREM TypeCorrect == Spec => []TypeOK
<1>1. TypeInv => TypeOK
  BY DEF TypeInv
<1>. QED  BY InitTyped, StepTyped, <1>1, PTL DEF Spec

-----------------------------------------------------------------------------
(* What the steps of an operation do, for the invariants below.             *)
RowsElse(s) == \A q \in Paths : q \notin s => rows'[q] = rows[q]
FilesElse(s) == \A b \in Backing : b \notin s => upper'[b] = upper[b]
DoubtsElse(s) == \A q \in Paths : q \notin s => doubt'[q] = doubt[q]

Went(at) ==
    op'.at = at /\ op'.name = op.name /\ op'.p = op.p /\ op'.q = op.q
Ended == op'.at = "idle" /\ op'.name = "none" /\ op' = NoOp
Missed == IF op.name = "write" THEN Went("create") ELSE Ended
Promotes == Went(IF op.name = "truncate" THEN "truncate" ELSE "get")

LEMMA RowWritten ==
    ASSUME TypeInv, NEW p \in Paths, NEW kind, NEW source, NEW size,
           Upsert(p, Row(kind, source, size))
    PROVE  /\ rows'[p].kind = kind /\ rows'[p].source = source /\ rows'[p].size = size
           /\ RowsElse({p})
<1>1. rows \in [Paths -> Rows]
  BY SameStore
<1>. QED  BY <1>1 DEF Upsert, Row, RowsElse

LEMMA OpFacts ==
    ASSUME TypeInv, OpStep
    PROVE  /\ ~Idle /\ op \in OpRecords /\ op.p \in Paths /\ op.q \in Paths
           /\ op.name \in {"write", "truncate", "create", "unlink", "rename"} =>
                 op.p \in FilePaths /\ op.q \in FilePaths
           /\ op.name \in {"mkdir", "rmdir"} => op.p \notin FilePaths
           /\ UNCHANGED <<base, head, index, moves, refresh, mounted, nops>>
           /\ OpInv /\ rows \in [Paths -> Rows] /\ upper \in Uppers
           /\ \A p \in Paths : rows[p].kind \in KindsAt(p)
           /\ \A p \in FilePaths : p \in Paths /\ p \in Backing
<1>1. ~Idle
  BY DEF OpStep, EnsureOverlay, CopyToTmp, CopyUp, CopyUpRow, CreateFile, CreateFileRow,
         GetRow, WriteAt, WriteRow, Truncate, RemoveFile, Whiteout, RenameRow,
         RenameFile, UndoNew, UndoOld, MkdirUpper, MkdirRow, OpFails, Idle
<1>2. UNCHANGED <<base, head, index, moves, refresh, mounted, nops>>
  BY DEF OpStep, EnsureOverlay, CopyToTmp, CopyUp, CopyUpRow, CreateFile, CreateFileRow,
         GetRow, WriteAt, WriteRow, Truncate, RemoveFile, Whiteout, RenameRow,
         RenameFile, UndoNew, UndoOld, MkdirUpper, MkdirRow, OpFails, gitVars, runVars
<1>. QED  BY <1>1, <1>2, OpPaths, SameStore, BackingFacts DEF TypeInv

LEMMA Moves ==
    ASSUME op \in OpRecords
    PROVE  /\ \A at \in Stages : Goto(at) =>
                 Went(at) /\ op'.blob = op.blob /\ op'.row = op.row
           /\ Finish => Ended
           /\ Missing => Missed
           /\ Promoted => Promotes
<1>1. \A at \in Stages : Goto(at) => Went(at) /\ op'.blob = op.blob /\ op'.row = op.row
  BY GotoTyped DEF Went
<1>2. Finish => Ended
  BY NoOpTyped DEF Finish, Ended
<1>. QED  BY <1>1, <1>2 DEF Missing, Missed, Promoted, Promotes, Stages

LEMMA FileWritten ==
    ASSUME TypeInv, NEW b \in Backing, NEW n, upper' = [upper EXCEPT ![b] = n]
    PROVE  upper'[b] = n /\ FilesElse({b})
BY SameStore DEF Uppers, FilesElse

LEMMA DoubtWritten ==
    ASSUME TypeInv, NEW p \in Paths, NEW w, doubt' = [doubt EXCEPT ![p] = w]
    PROVE  doubt'[p] = w /\ DoubtsElse({p})
BY SameStore DEF Doubts, DoubtsElse

LEMMA FileOrNot ==
    ASSUME TypeInv, NEW b \in Backing
    PROVE  /\ upper[b].type = "file" <=> upper[b] \in Files
           /\ b \notin DirPaths => upper[b] \in Files \/ upper[b] = Nothing
           /\ upper[b].type = "none" <=> upper[b] = Nothing
           /\ upper[b].content \subseteq Nat
BY SameStore, UpperFacts, NodeFacts

LEMMA EnsureDoes ==
    ASSUME TypeInv, EnsureOverlay
    PROVE  /\ op.at = "ensure" /\ UNCHANGED <<rows, upper, doubt, former>>
           /\ \/ HasRow(op.p) /\ Promotes /\ faults' = faults
              \/ /\ ~HasRow(op.p) /\ base[op.p] \in Files /\ faults' = faults
                 /\ Went("copy") /\ op'.blob = base[op.p]
              \/ ~HasRow(op.p) /\ base[op.p] \in Files /\ faults' = faults + 1 /\ Missed
              \/ ~HasRow(op.p) /\ base[op.p] = Nothing /\ faults' = faults /\ Missed
<1>. USE DEF EnsureOverlay
<1>1. op \in OpRecords /\ op.p \in FilePaths /\ op.p \in Paths
  BY OpFacts DEF OpStep, OpInv
<1>2. op.p \notin DirPaths /\ base \in Trees
  BY <1>1, SameStore, BackingFacts
<1>3. /\ base[op.p].type = "file" <=> base[op.p] \in Files
      /\ base[op.p].type # "file" => base[op.p] = Nothing
  BY <1>1, <1>2, TreeFacts, NodeFacts
<1>4. /\ op.at = "ensure" /\ UNCHANGED <<rows, upper, doubt, former>>
      /\ \/ HasRow(op.p) /\ Promoted /\ faults' = faults
         \/ /\ ~HasRow(op.p) /\ base[op.p].type = "file" /\ faults' = faults
            /\ op' = [op EXCEPT !.at = "copy", !.blob = base[op.p]]
         \/ /\ ~HasRow(op.p) /\ base[op.p].type = "file" /\ faults' = faults + 1 /\ Missing
         \/ ~HasRow(op.p) /\ base[op.p].type # "file" /\ faults' = faults /\ Missing
  BY DEF storeVars, histVars, Fault
<1>5. op' = [op EXCEPT !.at = "copy", !.blob = base[op.p]] =>
         Went("copy") /\ op'.blob = base[op.p]
  BY <1>1 DEF OpRecords, Went
<1>. QED  BY <1>1, <1>3, <1>4, <1>5, Moves

LEMMA CopyToTmpDoes ==
    ASSUME TypeInv, CopyToTmp
    PROVE  LET t == TmpOf[op.p] IN
           /\ op.at = "copy" /\ UNCHANGED <<rows, former>>
           /\ op.p \in FilePaths /\ t \in Backing /\ t # op.p /\ FilesElse({t})
           /\ op.blob \in Files
           /\ \A p \in Paths : doubt'[p] = IF p = t /\ Live(p) THEN "file" ELSE doubt[p]
           /\ \/ /\ upper'[t] = op.blob /\ Went("move") /\ op'.blob = op.blob
                 /\ faults' = faults
              \/ /\ upper'[t] = File({}) /\ Went("move") /\ op'.blob = op.blob
                 /\ faults' = faults + 1
              \/ upper'[t] = Nothing /\ Ended /\ faults' = faults + 1
<1>. USE DEF CopyToTmp
<1>. DEFINE t == TmpOf[op.p]
<1>1. op \in OpRecords /\ op.p \in FilePaths /\ op.blob \in Files
  BY OpFacts DEF OpStep, OpInv
<1>2. t \in Backing /\ t # op.p
  BY <1>1, BackingFacts
<1>3. /\ op.at = "copy" /\ UNCHANGED <<rows, former>>
      /\ \/ upper' = [upper EXCEPT ![t] = op.blob] /\ Goto("move") /\ faults' = faults
         \/ upper' = [upper EXCEPT ![t] = File({})] /\ Goto("move") /\ faults' = faults + 1
         \/ upper' = [upper EXCEPT ![t] = Nothing] /\ Finish /\ faults' = faults + 1
  BY DEF Fault
<1>4. \A n : upper' = [upper EXCEPT ![t] = n] => upper'[t] = n /\ FilesElse({t})
  BY <1>2, FileWritten
<1>5. \A p \in Paths : doubt'[p] = IF p = t /\ Live(p) THEN "file" ELSE doubt[p]
  OBVIOUS
<1>6. Goto("move") => Went("move") /\ op'.blob = op.blob
  BY <1>1, Moves DEF Stages
<1>7. Finish => Ended
  BY <1>1, Moves
<1>. HIDE DEF CopyToTmp
<1>. QED  BY <1>1, <1>2, <1>3, <1>4, <1>5, <1>6, <1>7

LEMMA CopyUpDoes ==
    ASSUME TypeInv, CopyUp
    PROVE  LET t == TmpOf[op.p] IN
           /\ op.at = "move" /\ UNCHANGED <<rows, doubt, former, faults>>
           /\ op.p \in FilePaths /\ t \in Backing /\ t # op.p
           /\ \/ /\ upper[t] \in Files /\ upper'[op.p] = upper[t] /\ upper'[t] = Nothing
                 /\ FilesElse({t, op.p}) /\ Went("copyrow") /\ op'.blob = op.blob
              \/ upper[t] = Nothing /\ upper' = upper /\ Missed
<1>. USE DEF CopyUp
<1>. DEFINE t == TmpOf[op.p]
<1>1. op \in OpRecords /\ op.p \in FilePaths /\ op.p \in Backing /\ upper \in Uppers
  BY OpFacts DEF OpStep, OpInv
<1>2. t \in Backing /\ t # op.p /\ t \notin DirPaths
  BY <1>1, BackingFacts
<1>3. /\ op.at = "move" /\ UNCHANGED <<rows, doubt, former, faults>>
      /\ IF upper[t].type = "file"
         THEN /\ upper' = [upper EXCEPT ![op.p] = upper[t], ![t] = Nothing]
              /\ Goto("copyrow")
         ELSE Missing /\ UNCHANGED upper
  BY DEF runVars, histVars
<1>4. upper' = [upper EXCEPT ![op.p] = upper[t], ![t] = Nothing] =>
         upper'[op.p] = upper[t] /\ upper'[t] = Nothing /\ FilesElse({t, op.p})
  BY <1>1, <1>2 DEF Uppers, FilesElse
<1>5. Goto("copyrow") => Went("copyrow") /\ op'.blob = op.blob
  BY <1>1, Moves DEF Stages
<1>6. Missing => Missed
  BY <1>1, Moves
<1>7. (upper[t].type = "file" <=> upper[t] \in Files) /\ (upper[t] \in Files \/ upper[t] = Nothing)
  BY <1>2, FileOrNot
<1>. HIDE DEF CopyUp
<1>. QED  BY <1>1, <1>2, <1>3, <1>4, <1>5, <1>6, <1>7

LEMMA CopyUpRowDoes ==
    ASSUME TypeInv, CopyUpRow
    PROVE  /\ op.at = "copyrow" /\ UNCHANGED <<upper, former, faults>>
           /\ op.p \in FilePaths /\ op.p \in Paths /\ op.p \in Backing
           /\ \/ /\ upper[op.p] \in Files /\ rows'[op.p].kind = "modify"
                 /\ rows'[op.p].size = upper[op.p].content /\ RowsElse({op.p})
                 /\ doubt'[op.p] = "nothing" /\ DoubtsElse({op.p}) /\ Promotes
              \/ upper[op.p] = Nothing /\ UNCHANGED <<rows, doubt>> /\ Missed
<1>. USE DEF CopyUpRow
<1>1. /\ op \in OpRecords /\ op.p \in FilePaths /\ op.p \in Paths /\ op.p \in Backing
      /\ op.p \notin DirPaths
  BY OpFacts, BackingFacts DEF OpStep, OpInv
<1>2. CASE upper[op.p].type = "file"
  <2>1. /\ Upsert(op.p, Row("modify", op.blob, upper[op.p].content))
        /\ doubt' = [doubt EXCEPT ![op.p] = "nothing"] /\ Promoted
    BY <1>2 DEF Settled
  <2>2. /\ rows'[op.p].kind = "modify" /\ rows'[op.p].size = upper[op.p].content
        /\ RowsElse({op.p})
    BY <1>1, <2>1, RowWritten
  <2>3. doubt'[op.p] = "nothing" /\ DoubtsElse({op.p})
    BY <1>1, <2>1, DoubtWritten
  <2>. QED  BY <1>1, <1>2, <2>1, <2>2, <2>3, FileOrNot, Moves
<1>3. CASE upper[op.p].type # "file"
  BY <1>1, <1>3, FileOrNot, Moves
<1>. QED  BY <1>2, <1>3

LEMMA CreateFileDoes ==
    ASSUME TypeInv, CreateFile
    PROVE  /\ op.at = "create" /\ UNCHANGED <<rows, doubt, former, faults>>
           /\ op.p \in FilePaths /\ op.p \in Backing
           /\ upper'[op.p] = File({}) /\ FilesElse({op.p}) /\ Went("createrow")
<1>. USE DEF CreateFile
<1>1. op \in OpRecords /\ op.p \in FilePaths /\ op.p \in Backing
  BY OpFacts, BackingFacts DEF OpStep, OpInv
<1>2. upper'[op.p] = File({}) /\ FilesElse({op.p})
  BY <1>1, FileWritten
<1>3. Went("createrow")
  BY <1>1, Moves DEF Stages
<1>. QED  BY <1>1, <1>2, <1>3 DEF runVars, histVars

LEMMA CreateFileRowDoes ==
    ASSUME TypeInv, CreateFileRow
    PROVE  /\ op.at = "createrow" /\ UNCHANGED <<upper, former, faults>>
           /\ op.p \in FilePaths /\ op.p \in Paths /\ op.p \in Backing
           /\ rows'[op.p].kind = "create" /\ rows'[op.p].size = {} /\ RowsElse({op.p})
           /\ doubt'[op.p] = "nothing" /\ DoubtsElse({op.p})
           /\ IF op.name = "write" THEN Went("get") ELSE Ended
<1>. USE DEF CreateFileRow
<1>1. op \in OpRecords /\ op.p \in FilePaths /\ op.p \in Paths /\ op.p \in Backing
  BY OpFacts, BackingFacts DEF OpStep, OpInv
<1>2. rows'[op.p].kind = "create" /\ rows'[op.p].size = {} /\ RowsElse({op.p})
  BY <1>1, RowWritten
<1>3. doubt'[op.p] = "nothing" /\ DoubtsElse({op.p})
  BY <1>1, DoubtWritten DEF Settled
<1>4. IF op.name = "write" THEN Went("get") ELSE Ended
  BY <1>1, Moves DEF Stages
<1>. QED  BY <1>1, <1>2, <1>3, <1>4

LEMMA GetRowDoes ==
    ASSUME TypeInv, GetRow
    PROVE  /\ op.at = "get" /\ UNCHANGED <<rows, upper, doubt, former, faults>>
           /\ op.p \in FilePaths /\ op.p \in Paths
           /\ \/ /\ Live(op.p) /\ op'.row = rows[op.p]
                 /\ Went(IF op.name = "write" THEN "writeat" ELSE "renamerow")
              \/ ~Live(op.p) /\ Ended
<1>. USE DEF GetRow
<1>1. op \in OpRecords /\ op.p \in FilePaths /\ op.p \in Paths
  BY OpFacts, BackingFacts DEF OpStep, OpInv
<1>2. op.at = "get" /\ UNCHANGED <<rows, upper, doubt, former, faults>>
  BY DEF storeVars, runVars, histVars
<1>3. CASE Live(op.p)
  BY <1>1, <1>2, <1>3 DEF OpRecords, Went
<1>4. CASE ~Live(op.p)
  BY <1>1, <1>2, <1>4, Moves
<1>. QED  BY <1>3, <1>4

LEMMA WriteAtDoes ==
    ASSUME TypeInv, WriteAt
    PROVE  /\ op.at = "writeat" /\ UNCHANGED <<rows, former>> /\ op.name = "write"
           /\ op.p \in FilePaths /\ op.p \in Paths /\ op.p \in Backing
           /\ upper'[op.p] = File(upper[op.p].content \cup {nops})
           /\ upper'[op.p] \in Files /\ FilesElse({op.p})
           /\ doubt'[op.p] = "size" /\ DoubtsElse({op.p})
           /\ \/ /\ Went("writerow") /\ op'.blob = upper'[op.p] /\ op'.row = op.row
                 /\ faults' = faults
              \/ Ended /\ faults' = faults + 1
<1>. USE DEF WriteAt
<1>1. /\ op \in OpRecords /\ op.p \in FilePaths /\ op.p \in Paths /\ op.p \in Backing
      /\ op.name = "write"
  BY OpFacts, BackingFacts DEF OpStep, OpInv
<1>2. upper[op.p].content \cup {nops} \in SUBSET Nat
  <2>1. nops \in Nat
    BY Bounds DEF TypeInv, TypeOK
  <2>. QED  BY <1>1, <2>1, FileOrNot
<1>3. upper'[op.p] = File(upper[op.p].content \cup {nops}) /\ FilesElse({op.p})
  BY <1>1, FileWritten
<1>4. upper'[op.p] \in Files
  BY <1>2, <1>3, FileFacts
<1>5. doubt'[op.p] = "size" /\ DoubtsElse({op.p})
  BY <1>1, DoubtWritten
<1>6. op' = [op EXCEPT !.at = "writerow", !.blob = upper'[op.p]] =>
         Went("writerow") /\ op'.blob = upper'[op.p] /\ op'.row = op.row
  BY <1>1 DEF OpRecords, Went
<1>7. Finish => Ended
  BY <1>1, Moves
<1>. QED  BY <1>1, <1>3, <1>4, <1>5, <1>6, <1>7 DEF Fault

LEMMA WriteRowDoes ==
    ASSUME TypeInv, WriteRow
    PROVE  /\ op.at = "writerow" /\ UNCHANGED <<upper, former, faults>> /\ Ended
           /\ op.p \in FilePaths /\ op.p \in Paths /\ op.p \in Backing
           /\ rows'[op.p].kind \in {"create", "modify"} /\ RowsElse({op.p})
           /\ rows'[op.p].size = op.blob.content
           /\ doubt'[op.p] = "nothing" /\ DoubtsElse({op.p})
<1>. USE DEF WriteRow
<1>1. op \in OpRecords /\ op.p \in FilePaths /\ op.p \in Paths /\ op.p \in Backing
  BY OpFacts, BackingFacts DEF OpStep, OpInv
<1>2. /\ rows'[op.p].kind \in {"create", "modify"} /\ RowsElse({op.p})
      /\ rows'[op.p].size = op.blob.content
  BY <1>1, RowWritten
<1>3. doubt'[op.p] = "nothing" /\ DoubtsElse({op.p})
  BY <1>1, DoubtWritten DEF Settled
<1>. QED  BY <1>1, <1>2, <1>3, Moves

LEMMA TruncateDoes ==
    ASSUME TypeInv, Truncate
    PROVE  /\ op.at = "truncate" /\ UNCHANGED <<rows, former, faults>> /\ Ended
           /\ op.p \in FilePaths /\ op.p \in Paths /\ op.p \in Backing
           /\ \/ /\ Live(op.p) /\ upper[op.p] \in Files
                 /\ \E c \in {{}, upper[op.p].content, upper[op.p].content \cup {nops}} :
                       upper'[op.p] = File(c)
                 /\ upper'[op.p] \in Files /\ FilesElse({op.p})
                 /\ doubt'[op.p] = "size" /\ DoubtsElse({op.p})
              \/ UNCHANGED <<upper, doubt>>
<1>. USE DEF Truncate
<1>1. op \in OpRecords /\ op.p \in FilePaths /\ op.p \in Paths /\ op.p \in Backing
  BY OpFacts, BackingFacts DEF OpStep, OpInv
<1>2. /\ op.at = "truncate" /\ UNCHANGED <<rows, former, faults>> /\ Ended
  BY <1>1, Moves
<1>3. CASE Live(op.p) /\ upper[op.p].type = "file"
  <2>1. PICK c \in {{}, upper[op.p].content, upper[op.p].content \cup {nops}} :
            upper' = [upper EXCEPT ![op.p] = File(c)]
    BY <1>3
  <2>2. c \in SUBSET Nat
    <3>1. nops \in Nat
      BY Bounds DEF TypeInv, TypeOK
    <3>. QED  BY <1>1, <2>1, <3>1, FileOrNot
  <2>3. upper'[op.p] = File(c) /\ FilesElse({op.p})
    BY <1>1, <2>1, FileWritten
  <2>4. upper'[op.p] \in Files
    BY <2>2, <2>3, FileFacts
  <2>5. doubt'[op.p] = "size" /\ DoubtsElse({op.p})
    BY <1>1, <1>3, DoubtWritten
  <2>6. upper[op.p] \in Files
    BY <1>1, <1>3, FileOrNot
  <2>. HIDE DEF Truncate
  <2>. QED  BY <1>1, <1>2, <1>3, <2>1, <2>3, <2>4, <2>5, <2>6
<1>4. CASE ~(Live(op.p) /\ upper[op.p].type = "file")
  BY <1>1, <1>2, <1>4
<1>. QED  BY <1>3, <1>4

LEMMA RemoveFileDoes ==
    ASSUME TypeInv, RemoveFile
    PROVE  /\ op.at = "remove" /\ UNCHANGED <<rows, former>> /\ Went("whiteout")
           /\ op.p \in Paths /\ op.p \in Backing
           /\ FilesElse({op.p}) /\ DoubtsElse({op.p}) /\ faults' \in {faults, faults + 1}
           /\ \/ UNCHANGED <<upper, doubt>>
              \/ upper'[op.p] = Nothing /\ Live(op.p) /\ doubt'[op.p] = "file"
           /\ op.p \in FilePaths /\ Live(op.p) /\ faults' = faults => upper'[op.p] = Nothing
<1>. USE DEF RemoveFile
<1>1. op \in OpRecords /\ op.p \in Paths /\ op.p \in Backing /\ upper \in Uppers
  BY OpFacts, BackingFacts DEF OpStep
<1>2. Went("whiteout")
  BY <1>1, Moves DEF Stages
<1>3. faults' \in {faults, faults + 1} /\ faults \in Nat
  BY Bounds DEF Fault, TypeInv, TypeOK
<1>4. upper' = upper \/ (Live(op.p) /\ upper' = Removed(op.p) /\ faults' = faults)
  OBVIOUS
<1>5. /\ \A q \in Backing : q # op.p => Removed(op.p)[q] = upper[q]
      /\ op.p \in FilePaths => Removed(op.p)[op.p] = Nothing
      /\ Removed(op.p) = upper \/ Removed(op.p)[op.p] = Nothing
  <2>1. DOMAIN upper = Backing
    BY <1>1 DEF Uppers
  <2>. QED  BY <1>1, <2>1, RemovedTyped DEF Removed
<1>6. FilesElse({op.p})
  BY <1>4, <1>5 DEF FilesElse
<1>7. DoubtsElse({op.p}) /\ (upper' # upper => doubt'[op.p] = "file")
      /\ (upper' = upper => doubt' = doubt)
  BY <1>1, DoubtWritten DEF DoubtsElse
<1>8. op.p \in FilePaths /\ Live(op.p) /\ faults' = faults => upper'[op.p] = Nothing
  <2>1. faults' = faults => upper' = IF Live(op.p) THEN Removed(op.p) ELSE upper
    BY <1>3 DEF Fault
  <2>. QED  BY <1>5, <2>1
<1>. QED  BY <1>1, <1>2, <1>3, <1>4, <1>5, <1>6, <1>7, <1>8

LEMMA WhiteoutDoes ==
    ASSUME TypeInv, Whiteout
    PROVE  /\ op.at = "whiteout" /\ UNCHANGED <<upper, faults>> /\ Ended
           /\ op.p \in Paths /\ rows'[op.p].kind = "delete" /\ RowsElse({op.p})
           /\ doubt'[op.p] = "nothing" /\ DoubtsElse({op.p})
           /\ former' = former \cup {op.p}
<1>. USE DEF Whiteout
<1>1. op \in OpRecords /\ op.p \in Paths
  BY OpFacts DEF OpStep
<1>2. rows'[op.p].kind = "delete" /\ RowsElse({op.p})
  BY <1>1, RowWritten
<1>3. doubt'[op.p] = "nothing" /\ DoubtsElse({op.p})
  BY <1>1, DoubtWritten DEF Settled
<1>. QED  BY <1>1, <1>2, <1>3, Moves

LEMMA RenameRowDoes ==
    ASSUME TypeInv, RenameRow
    PROVE  /\ op.at = "renamerow" /\ UNCHANGED <<upper, faults>> /\ op.p # op.q
           /\ op.p \in FilePaths /\ op.q \in FilePaths /\ op.p \in Paths /\ op.q \in Paths
           /\ \/ HasRow(op.q) /\ Ended /\ UNCHANGED <<rows, doubt, former>>
              \/ /\ ~HasRow(op.q) /\ Went("renamefile") /\ op'.row = op.row
                 /\ rows'[op.q].kind = "rename" /\ rows'[op.q].size = op.row.size
                 /\ rows'[op.p].kind = "delete" /\ RowsElse({op.p, op.q})
                 /\ doubt'[op.q] = "file" /\ DoubtsElse({op.q})
                 /\ former' = former \cup {op.p}
<1>. USE DEF RenameRow
<1>1. /\ op \in OpRecords /\ op.p \in FilePaths /\ op.q \in FilePaths /\ op.p # op.q
      /\ op.p \in Paths /\ op.q \in Paths
  BY OpFacts, BackingFacts DEF OpStep, OpInv, Renaming
<1>2. CASE HasRow(op.q)
  BY <1>1, <1>2, Moves DEF histVars
<1>3. CASE ~HasRow(op.q)
  <2>1. rows' = [rows EXCEPT ![op.q] = Row("rename", op.row.source, op.row.size),
                             ![op.p] = Row("delete", Nothing, {})]
    BY <1>3
  <2>2. /\ rows'[op.q].kind = "rename" /\ rows'[op.q].size = op.row.size
        /\ rows'[op.p].kind = "delete" /\ RowsElse({op.p, op.q})
    BY <1>1, <2>1, SameStore DEF Row, RowsElse
  <2>3. doubt'[op.q] = "file" /\ DoubtsElse({op.q})
    BY <1>1, <1>3, DoubtWritten
  <2>4. Went("renamefile") /\ op'.row = op.row
    <3>1. Goto("renamefile")
      BY <1>3
    <3>. QED  BY <1>1, <3>1, Moves DEF Stages
  <2>. QED  BY <1>1, <1>3, <2>2, <2>3, <2>4
<1>. QED  BY <1>2, <1>3

LEMMA RenameFileDoes ==
    ASSUME TypeInv, RenameFile
    PROVE  /\ op.at = "renamefile" /\ UNCHANGED <<rows, former>> /\ op.p # op.q
           /\ op.p \in FilePaths /\ op.q \in FilePaths /\ op.p \in Paths /\ op.q \in Paths
           /\ op.p \in Backing /\ op.q \in Backing
           /\ \/ /\ upper[op.p] \in Files /\ Ended /\ faults' = faults
                 /\ upper'[op.q] = upper[op.p] /\ upper'[op.p] = Nothing
                 /\ FilesElse({op.p, op.q})
                 /\ doubt'[op.q] = doubt[op.p] /\ doubt'[op.p] = "nothing"
                 /\ DoubtsElse({op.p, op.q})
              \/ /\ Went("undonew") /\ op'.row = op.row /\ UNCHANGED <<upper, doubt>>
                 /\ faults' \in {faults, faults + 1}
<1>. USE DEF RenameFile
<1>1. /\ op \in OpRecords /\ op.p \in FilePaths /\ op.q \in FilePaths /\ op.p # op.q
      /\ op.p \in Paths /\ op.q \in Paths /\ op.p \in Backing /\ op.q \in Backing
      /\ op.p \notin DirPaths /\ upper \in Uppers /\ doubt \in Doubts
  BY OpFacts, BackingFacts, SameStore DEF OpStep, OpInv, Renaming
<1>2. \/ /\ upper[op.p].type # "none"
         /\ upper' = [upper EXCEPT ![op.q] = upper[op.p], ![op.p] = Nothing]
         /\ doubt' = [doubt EXCEPT ![op.q] = doubt[op.p], ![op.p] = "nothing"]
         /\ Finish /\ faults' = faults
      \/ Goto("undonew") /\ UNCHANGED <<upper, doubt>> /\ faults' \in {faults, faults + 1}
  BY DEF Fault
<1>3. ASSUME upper' = [upper EXCEPT ![op.q] = upper[op.p], ![op.p] = Nothing],
             doubt' = [doubt EXCEPT ![op.q] = doubt[op.p], ![op.p] = "nothing"]
      PROVE  /\ upper'[op.q] = upper[op.p] /\ upper'[op.p] = Nothing
             /\ FilesElse({op.p, op.q})
             /\ doubt'[op.q] = doubt[op.p] /\ doubt'[op.p] = "nothing"
             /\ DoubtsElse({op.p, op.q})
  BY <1>1, <1>3 DEF Uppers, Doubts, FilesElse, DoubtsElse
<1>4. upper[op.p].type # "none" => upper[op.p] \in Files
  BY <1>1, FileOrNot
<1>5. Goto("undonew") => Went("undonew") /\ op'.row = op.row
  BY <1>1, Moves DEF Stages
<1>6. Finish => Ended
  BY <1>1, Moves
<1>7. op.at = "renamefile" /\ UNCHANGED <<rows, former>>
  OBVIOUS
<1>. HIDE DEF RenameFile
<1>. QED  BY <1>1, <1>2, <1>3, <1>4, <1>5, <1>6, <1>7

LEMMA UndoNewDoes ==
    ASSUME TypeInv, UndoNew
    PROVE  /\ op.at = "undonew" /\ UNCHANGED <<upper, doubt, former>>
           /\ op.p \in FilePaths /\ op.q \in FilePaths /\ op.p # op.q /\ op.q \in Paths
           /\ Went("undoold") /\ op'.row = op.row
           /\ \/ rows'[op.q].kind = "none" /\ RowsElse({op.q}) /\ faults' = faults
              \/ rows' = rows /\ faults' = faults + 1
<1>. USE DEF UndoNew
<1>1. /\ op \in OpRecords /\ op.p \in FilePaths /\ op.q \in FilePaths /\ op.p # op.q
      /\ op.q \in Paths /\ rows \in [Paths -> Rows]
  BY OpFacts, BackingFacts DEF OpStep, OpInv, Renaming
<1>2. Upsert(op.q, NoRow) => rows'[op.q].kind = "none" /\ RowsElse({op.q})
  BY <1>1, RowFacts DEF Upsert, RowsElse
<1>3. Went("undoold") /\ op'.row = op.row
  BY <1>1, Moves DEF Stages
<1>. QED  BY <1>1, <1>2, <1>3 DEF Fault, histVars

LEMMA UndoOldDoes ==
    ASSUME TypeInv, UndoOld
    PROVE  /\ op.at = "undoold" /\ UNCHANGED <<upper, doubt, former>>
           /\ op.p \in FilePaths /\ op.q \in FilePaths /\ op.p # op.q /\ op.p \in Paths
           /\ op.row.kind \in LiveKinds /\ Ended
           /\ \/ /\ rows'[op.p].kind = op.row.kind /\ rows'[op.p].size = op.row.size
                 /\ RowsElse({op.p}) /\ faults' = faults
              \/ rows' = rows /\ faults' = faults + 1
<1>. USE DEF UndoOld
<1>1. /\ op \in OpRecords /\ op.p \in FilePaths /\ op.q \in FilePaths /\ op.p # op.q
      /\ op.p \in Paths /\ rows \in [Paths -> Rows] /\ op.row.kind \in LiveKinds
      /\ op.row \in Rows
  BY OpFacts, BackingFacts DEF OpStep, OpInv, Renaming, OpRecords
<1>. DEFINE old == [op.row EXCEPT !.touched = @ /\ refresh.at = "commit"]
<1>2. old.kind = op.row.kind /\ old.size = op.row.size
  BY <1>1 DEF Rows
<1>3. \/ Upsert(op.p, old) /\ faults' = faults
      \/ rows' = rows /\ faults' = faults + 1
  BY DEF Fault
<1>. HIDE DEF old
<1>4. Upsert(op.p, old) =>
         /\ rows'[op.p].kind = op.row.kind /\ rows'[op.p].size = op.row.size
         /\ RowsElse({op.p})
  BY <1>1, <1>2 DEF Upsert, RowsElse
<1>5. Ended /\ op.at = "undoold" /\ UNCHANGED <<upper, doubt, former>>
  BY <1>1, Moves DEF histVars
<1>. QED  BY <1>1, <1>3, <1>4, <1>5

LEMMA MkdirUpperDoes ==
    ASSUME TypeInv, MkdirUpper
    PROVE  /\ op.at = "mkdir" /\ UNCHANGED <<rows, doubt, former, faults>>
           /\ op.p \in DirPaths /\ op.p \notin FilePaths /\ op.p \in Backing
           /\ FilesElse({op.p}) /\ Went("mkdirrow")
<1>. USE DEF MkdirUpper
<1>1. op \in OpRecords /\ op.p \in DirPaths /\ op.p \notin FilePaths /\ op.p \in Backing
  BY OpFacts, BackingFacts DEF OpStep, OpInv
<1>2. FilesElse({op.p})
  BY <1>1, FileWritten
<1>3. Went("mkdirrow")
  BY <1>1, Moves DEF Stages
<1>. QED  BY <1>1, <1>2, <1>3 DEF runVars, histVars

LEMMA MkdirRowDoes ==
    ASSUME TypeInv, MkdirRow
    PROVE  /\ op.at = "mkdirrow" /\ UNCHANGED <<upper, doubt, former, faults>> /\ Ended
           /\ op.p \in DirPaths /\ op.p \notin FilePaths /\ op.p \in Paths
           /\ rows'[op.p].kind = "mkdir" /\ RowsElse({op.p})
<1>. USE DEF MkdirRow
<1>1. op \in OpRecords /\ op.p \in DirPaths /\ op.p \notin FilePaths /\ op.p \in Paths
  BY OpFacts, BackingFacts DEF OpStep, OpInv
<1>2. rows'[op.p].kind = "mkdir" /\ RowsElse({op.p})
  BY <1>1, RowWritten
<1>. QED  BY <1>1, <1>2, Moves DEF runVars, histVars

LEMMA OpFailsDoes ==
    ASSUME TypeInv, OpFails
    PROVE  /\ UNCHANGED <<rows, upper, doubt, former>> /\ Ended /\ faults' = faults + 1
           /\ op.at \notin {"renamefile", "undonew", "undoold"}
           /\ op.p \in Paths /\ op.q \in Paths
<1>. USE DEF OpFails
<1>1. op \in OpRecords /\ op.p \in Paths /\ op.q \in Paths
  BY OpFacts DEF OpStep
<1>. QED  BY <1>1, Moves DEF Fault, storeVars, histVars

-----------------------------------------------------------------------------
(* Rows and their files.                                                    *)
LEMMA OperationsKeepFiles ==
    ASSUME TypeInv, FilesInv, OpStep
    PROVE  FilesInv'
<1>. USE DEF Live, HasRow, IsDeleted, RowsElse, FilesElse, DoubtsElse, Went, Ended,
            Missed, Promotes, Renaming, Renamed
<1>0. /\ ~Idle /\ UNCHANGED refresh
      /\ \A p \in FilePaths : p \in Paths /\ p \in Backing
  BY OpFacts
<1>. SUFFICES ASSUME refresh.clean PROVE FilesThere'
  BY <1>0 DEF FilesInv
<1>a. FilesThere
  BY DEF FilesInv
<1>1. CASE EnsureOverlay
  BY <1>0, <1>a, <1>1, EnsureDoes DEF FilesThere
<1>2. CASE CopyToTmp
  BY <1>0, <1>a, <1>2, CopyToTmpDoes DEF FilesThere
<1>3. CASE CopyUp
  BY <1>0, <1>a, <1>3, CopyUpDoes DEF FilesThere
<1>4. CASE CopyUpRow
  BY <1>0, <1>a, <1>4, CopyUpRowDoes DEF FilesThere
<1>5. CASE CreateFile
  <2>1. File({}) \in Files
    BY FileFacts
  <2>. QED  BY <1>0, <1>a, <1>5, <2>1, CreateFileDoes DEF FilesThere
<1>6. CASE CreateFileRow
  BY <1>0, <1>a, <1>6, CreateFileRowDoes DEF FilesThere
<1>7. CASE GetRow
  BY <1>0, <1>a, <1>7, GetRowDoes DEF FilesThere
<1>8. CASE WriteAt
  BY <1>0, <1>a, <1>8, WriteAtDoes DEF FilesThere
<1>9. CASE WriteRow
  BY <1>0, <1>a, <1>9, WriteRowDoes DEF FilesThere
<1>10. CASE Truncate
  BY <1>0, <1>a, <1>10, TruncateDoes DEF FilesThere
<1>11. CASE RemoveFile
  BY <1>0, <1>a, <1>11, RemoveFileDoes DEF FilesThere
<1>12. CASE Whiteout
  BY <1>0, <1>a, <1>12, WhiteoutDoes DEF FilesThere
<1>13. CASE RenameRow
  BY <1>0, <1>a, <1>13, RenameRowDoes DEF FilesThere
<1>14. CASE RenameFile
  BY <1>0, <1>a, <1>14, RenameFileDoes DEF FilesThere
<1>15. CASE UndoNew
  BY <1>0, <1>a, <1>15, UndoNewDoes DEF FilesThere
<1>16. CASE UndoOld
  BY <1>0, <1>a, <1>16, UndoOldDoes DEF FilesThere
<1>17. CASE MkdirUpper
  BY <1>0, <1>a, <1>17, MkdirUpperDoes DEF FilesThere
<1>18. CASE MkdirRow
  BY <1>0, <1>a, <1>18, MkdirRowDoes DEF FilesThere
<1>19. CASE OpFails
  BY <1>0, <1>a, <1>19, OpFailsDoes DEF FilesThere
<1>. QED
  BY <1>1, <1>2, <1>3, <1>4, <1>5, <1>6, <1>7, <1>8, <1>9, <1>10, <1>11, <1>12, <1>13,
     <1>14, <1>15, <1>16, <1>17, <1>18, <1>19 DEF OpStep

-----------------------------------------------------------------------------
(* A refresh that no operation meets.                                       *)
CleanInv == TypeInv /\ FilesInv /\ RefreshInv

LEMMA ResolveSame ==
    ASSUME NEW p \in Paths, rows'[p].kind = rows[p].kind,
           upper'[p] = upper[p] \/ rows[p].kind = "none", base'[p] = base[p]
    PROVE  Resolve(p)' = Resolve(p)
BY DEF Resolve, FileAt, HasRow, IsDeleted, NodeType

(* Those that begin an operation, and those that git takes.                 *)
LEMMA CountKeeps ==
    ASSUME TypeInv, Count
    PROVE  /\ Idle /\ refresh'.at = refresh.at
           /\ refresh'.clean => refresh.clean /\ refresh.at = "idle"
<1>1. (refresh.clean /\ refresh.at = "idle") \in BOOLEAN
  OBVIOUS
<1>2. refresh \in RefreshRecords
  BY DEF TypeInv, TypeOK, RefreshTyped, RefreshRecords
<1>3. refresh' = [refresh EXCEPT !.clean = (refresh.clean /\ refresh.at = "idle")]
  BY DEF Count
<1>. QED  BY <1>1, <1>2, <1>3 DEF Count, RefreshRecords

LEMMA BeginsKeep ==
    ASSUME CleanInv, NEW name, NEW p \in Paths, NEW q \in Paths,
           NEW at \in {"ensure", "create", "mkdir", "remove"}, Begin(name, p, q, at)
    PROVE  FilesInv' /\ RefreshInv'
<1>1. /\ Idle /\ refresh'.at = refresh.at
      /\ refresh'.clean => refresh.clean /\ refresh.at = "idle"
  BY CountKeeps DEF Begin, CleanInv
<1>2. op'.at = at
  BY DEF Begin, NoOp
<1>3. UNCHANGED <<rows, upper, doubt>>
  BY DEF Begin, storeVars, histVars
<1>. QED
  BY <1>1, <1>2, <1>3
     DEF CleanInv, FilesInv, FilesThere, RefreshInv, Live, HasRow, IsDeleted, Idle,
         Renaming, Renamed

LEMMA SetMtimeKeeps ==
    ASSUME CleanInv, NEW p \in Paths, SetMtime(p)
    PROVE  FilesInv' /\ RefreshInv'
<1>1. /\ Idle /\ refresh'.at = refresh.at
      /\ refresh'.clean => refresh.clean /\ refresh.at = "idle"
  BY CountKeeps DEF SetMtime, CleanInv
<1>2. UNCHANGED <<upper, op, doubt>>
  BY DEF SetMtime, histVars
<1>3. \A q \in Paths : rows'[q].kind = rows[q].kind
  <2>1. PICK t \in BOOLEAN : rows' = [rows EXCEPT ![p].touched = t]
    BY DEF SetMtime
  <2>2. rows \in [Paths -> Rows]
    BY SameStore DEF CleanInv
  <2>. QED  BY <2>1, <2>2, TouchTyped
<1>4. \A q \in FilePaths : q \in Paths
  BY DEF FilePaths
<1>. QED
  BY <1>1, <1>2, <1>3, <1>4
     DEF CleanInv, FilesInv, FilesThere, RefreshInv, Live, HasRow, IsDeleted, Idle,
         Renaming, Renamed

LEMMA GitKeeps ==
    ASSUME CleanInv, UNCHANGED <<rows, upper, base, op, refresh, doubt>>
    PROVE  FilesInv' /\ RefreshInv'
<1>1. FilesInv'
  BY DEF CleanInv, FilesInv, FilesThere, Live, HasRow, IsDeleted, Idle
<1>2. \A p \in Paths : Resolve(p)' = Resolve(p)
  BY ResolveSame
<1>3. \A p \in Paths : (Dropped(p)' <=> Dropped(p)) /\ (Unchanged(p)' <=> Unchanged(p))
  BY DEF Dropped, HasRow, Unchanged
<1>4. \A p \in Paths : HasRow(p)' <=> HasRow(p)
  BY DEF HasRow
<1>5. refresh.stale \subseteq Paths
  BY DEF CleanInv, TypeInv, TypeOK, RefreshTyped
<1>. QED
  BY <1>1, <1>2, <1>3, <1>4, <1>5 DEF CleanInv, RefreshInv

LEMMA RefreshKeepsFiles ==
    ASSUME TypeInv, FilesInv, UNCHANGED <<op, doubt>>,
           refresh'.clean => refresh.clean /\ (refresh'.at # "idle" => Idle),
           \A p \in Paths : rows'[p].kind \in {rows[p].kind, "none"},
           refresh.clean =>
               \A p \in Paths : upper'[p] = upper[p] \/ (rows[p].kind = "none" /\ Idle)
    PROVE  FilesInv'
<1>. SUFFICES ASSUME refresh.clean PROVE FilesThere'
  BY DEF FilesInv, Idle
<1>1. FilesThere
  BY DEF FilesInv
<1>2. \A p \in FilePaths : p \in Paths
  BY DEF FilePaths
<1>3. \A p \in FilePaths : Live(p)' => Live(p) /\ upper'[p] = upper[p]
  BY <1>2 DEF Live, HasRow, IsDeleted
<1>4. ~Idle => op.p \in Paths /\ upper'[op.p] = upper[op.p]
  BY OpPaths
<1>5. ~Idle /\ ~Live(op.p) => ~Live(op.p)'
  BY <1>4 DEF Live, HasRow, IsDeleted
<1>. QED  BY <1>1, <1>3, <1>4, <1>5 DEF FilesThere, Idle, Renaming, Renamed

LEMMA RefreshStepKeeps ==
    ASSUME CleanInv, RefreshStep
    PROVE  FilesInv' /\ RefreshInv'
<1>. USE DEF runVars, storeVars, gitVars, histVars
<1>a. /\ rows \in [Paths -> Rows] /\ upper \in Uppers
      /\ refresh \in RefreshRecords /\ refresh.stale \subseteq Paths
      /\ \A p \in Paths : rows[p].touched => refresh.at = "commit"
  BY SameStore DEF CleanInv, TypeInv, TypeOK, RefreshTyped, RefreshRecords
<1>b. TypeInv /\ FilesInv /\ RefreshInv
  BY DEF CleanInv
<1>c. refresh.clean /\ refresh.at # "idle" => Idle
  BY <1>b DEF FilesInv
<1>1. CASE Publish
  <2>1. /\ refresh' = [refresh EXCEPT !.at = "query", !.new = head, !.read = rows,
                                      !.clean = (refresh.clean /\ Idle), !.seen = View]
        /\ UNCHANGED <<rows, upper, base, op, doubt>> /\ refresh.at = "idle"
    BY <1>1 DEF Publish
  <2>2. (refresh.clean /\ Idle) \in BOOLEAN
    OBVIOUS
  <2>3. /\ refresh'.at = "query" /\ refresh'.read = rows /\ refresh'.seen = View
        /\ refresh'.clean => refresh.clean /\ Idle
    BY <1>a, <2>1, <2>2 DEF RefreshRecords
  <2>4. \A p \in Paths : View[p] = Resolve(p) /\ Resolve(p)' = Resolve(p)
    BY <2>1, ResolveSame DEF View
  <2>5. FilesInv'
    <3>1. UNCHANGED <<rows, upper, op, doubt>>
      BY <2>1
    <3>2. refresh'.clean => refresh.clean /\ (refresh'.at # "idle" => Idle)
      BY <2>3
    <3>. QED  BY <1>b, <3>1, <3>2, RefreshKeepsFiles
  <2>. QED  BY <2>1, <2>3, <2>4, <2>5 DEF RefreshInv
<1>2. CASE ReconcileQuery
  <2>1. PICK new, clean :
            /\ clean \in BOOLEAN /\ Decide(new, clean)
            /\ clean => refresh.clean /\ new = refresh.new
    <3>1. refresh.clean \in BOOLEAN
      BY <1>a DEF RefreshRecords
    <3>2. CASE Decide(refresh.new, refresh.clean)
      BY <3>1, <3>2
    <3>3. CASE \E p \in Paths : Decide([refresh.new EXCEPT ![p] = Nothing], FALSE)
      BY <3>3
    <3>. QED  BY <1>2, <3>2, <3>3 DEF ReconcileQuery
  <2>. DEFINE stale == {p \in Paths : Stale(rows[p], new[p])}
  <2>2. /\ refresh'.at = (IF stale = {} THEN "switch" ELSE "commit")
        /\ refresh'.stale = stale /\ refresh'.read = rows /\ refresh'.new = refresh.new
        /\ refresh'.seen = refresh.seen /\ refresh'.clean = clean
    BY <1>a, <2>1 DEF RefreshRecords, Decide
  <2>3. UNCHANGED <<rows, upper, base, op, doubt>> /\ refresh.at = "query"
    BY <1>2 DEF ReconcileQuery
  <2>4. FilesInv'
    <3>1. refresh'.clean => refresh.clean /\ (refresh'.at # "idle" => Idle)
      BY <1>c, <2>1, <2>2, <2>3
    <3>2. /\ \A p \in Paths : rows'[p].kind \in {rows[p].kind, "none"}
          /\ \A p \in Paths : upper'[p] = upper[p]
      BY <2>3
    <3>. HIDE DEF stale
    <3>. QED  BY <1>b, <2>3, <3>1, <3>2, RefreshKeepsFiles
  <2>5. refresh.clean => \A p \in Paths : refresh.seen[p] = Resolve(p)
    BY <1>b, <2>3 DEF RefreshInv
  <2>6. \A p \in Paths : Resolve(p)' = Resolve(p)
    BY <2>3, ResolveSame
  <2>7. \A p \in Paths : Unchanged(p)'
    BY <1>a, <2>2, <2>3 DEF Unchanged
  <2>. QED  BY <2>1, <2>2, <2>3, <2>4, <2>5, <2>6, <2>7 DEF RefreshInv
<1>3. CASE ReconcileCommit
  <2>. DEFINE rs == [p \in Paths |->
                        IF p \in refresh.stale /\ Unchanged(p) THEN NoRow ELSE rows[p]]
  <2>1. rs \in [Paths -> Rows] /\ rows' = Untouched(rs)
    BY <1>3, <1>a, RowFacts DEF ReconcileCommit
  <2>2. \A p \in Paths :
            rs[p].kind = IF p \in refresh.stale /\ Unchanged(p)
                         THEN "none" ELSE rows[p].kind
    BY RowFacts
  <2>. HIDE DEF rs
  <2>3. \A p \in Paths : rows'[p].kind = rs[p].kind
    BY <2>1, UntouchedTyped
  <2>4. /\ refresh'.at = "cleanup" /\ refresh'.stale = refresh.stale
        /\ refresh'.read = refresh.read /\ refresh'.new = refresh.new
        /\ refresh'.seen = refresh.seen /\ refresh'.clean = refresh.clean
    BY <1>3, <1>a DEF ReconcileCommit, RefreshRecords
  <2>5. UNCHANGED <<upper, base, op, doubt>> /\ refresh.at = "commit"
    BY <1>3 DEF ReconcileCommit
  <2>6. FilesInv'
    BY <1>b, <1>c, <2>2, <2>3, <2>4, <2>5, RefreshKeepsFiles
  <2>7. ASSUME refresh.clean PROVE RefreshInv'
    <3>1. /\ \A p \in Paths : refresh.seen[p] = Resolve(p) /\ Unchanged(p)
          /\ \A p \in refresh.stale : Stale(refresh.read[p], refresh.new[p])
      BY <1>b, <2>5, <2>7 DEF RefreshInv
    <3>2. ASSUME NEW p \in refresh.stale PROVE Dropped(p)'
      <4>1. p \in Paths /\ rows'[p].kind = "none"
        BY <1>a, <2>2, <2>3, <3>1
      <4>2. rows[p].kind = refresh.read[p].kind
        BY <3>1, <4>1 DEF Unchanged
      <4>3. /\ refresh.read[p].kind = "delete" => refresh.seen[p] = Nothing
            /\ refresh.read[p].kind = "mkdir" => refresh.seen[p] = Directory
        BY <3>1, <4>1, <4>2 DEF Resolve, HasRow, IsDeleted, NodeType
      <4>. QED  BY <2>4, <3>1, <4>1, <4>3 DEF Dropped, HasRow
    <3>3. ASSUME NEW p \in Paths, p \notin refresh.stale PROVE Resolve(p)' = Resolve(p)
      BY <2>2, <2>3, <2>5, <3>3, ResolveSame
    <3>4. \A p \in refresh'.stale : ~HasRow(p)'
      BY <2>4, <3>2 DEF Dropped
    <3>. QED  BY <2>4, <3>1, <3>2, <3>3, <3>4 DEF RefreshInv
  <2>. QED  BY <2>4, <2>6, <2>7 DEF RefreshInv
<1>4. CASE ReconcileCleanup
  <2>1. PICK p \in refresh.stale :
            /\ upper' \in {upper, Removed(p)}
            /\ refresh' = [refresh EXCEPT
                             !.stale = @ \ {p},
                             !.at = IF refresh.stale = {p} THEN "switch" ELSE "cleanup"]
    BY <1>4 DEF ReconcileCleanup
  <2>2. p \in Paths
    BY <1>a
  <2>3. \A q \in Paths : q # p => upper'[q] = upper[q]
    BY <1>a, <2>1, <2>2, RemovedTyped, BackingFacts
  <2>4. /\ refresh'.at = (IF refresh.stale = {p} THEN "switch" ELSE "cleanup")
        /\ refresh'.stale = refresh.stale \ {p}
        /\ refresh'.read = refresh.read /\ refresh'.new = refresh.new
        /\ refresh'.seen = refresh.seen /\ refresh'.clean = refresh.clean
    BY <1>a, <2>1 DEF RefreshRecords
  <2>5. UNCHANGED <<rows, base, op, doubt>> /\ refresh.at = "cleanup"
    BY <1>4 DEF ReconcileCleanup
  <2>6. refresh.clean => \A q \in refresh.stale : ~HasRow(q)
    BY <1>b, <2>5 DEF RefreshInv
  <2>7. refresh.clean =>
            \A q \in Paths : upper'[q] = upper[q] \/ (rows[q].kind = "none" /\ Idle)
    BY <1>c, <2>3, <2>5, <2>6 DEF HasRow
  <2>8. FilesInv'
    BY <1>b, <1>c, <2>4, <2>5, <2>7, RefreshKeepsFiles
  <2>9. ASSUME refresh.clean PROVE RefreshInv'
    <3>1. \A q \in Paths : Resolve(q)' = Resolve(q)
      BY <2>5, <2>7, <2>9, ResolveSame
    <3>2. \A q \in Paths : (Dropped(q)' <=> Dropped(q)) /\ (HasRow(q)' <=> HasRow(q))
      BY <2>4, <2>5 DEF Dropped, HasRow
    <3>3. \A q \in Paths : refresh.seen[q] = Resolve(q) \/ Dropped(q)
      BY <1>b, <2>5, <2>9 DEF RefreshInv
    <3>4. \A q \in refresh'.stale : ~HasRow(q)'
      BY <1>a, <2>4, <2>6, <2>9, <3>2
    <3>. QED  BY <2>4, <3>1, <3>2, <3>3, <3>4 DEF RefreshInv
  <2>. QED  BY <2>4, <2>8, <2>9 DEF RefreshInv
<1>5. CASE ReconcileFails
  <2>1. /\ refresh' = [refresh EXCEPT !.at = IF mounted THEN "switch" ELSE "idle",
                                      !.stale = {}]
        /\ rows' = Untouched(rows) /\ UNCHANGED <<upper, base, op, doubt>>
        /\ refresh.at \in {"query", "commit"}
    BY <1>5 DEF ReconcileFails
  <2>2. \A p \in Paths : rows'[p].kind = rows[p].kind
    BY <1>a, <2>1, UntouchedTyped
  <2>3. /\ refresh'.at \in {"switch", "idle"} /\ refresh'.seen = refresh.seen
        /\ refresh'.clean = refresh.clean
    BY <1>a, <2>1 DEF RefreshRecords
  <2>4. FilesInv'
    BY <1>b, <1>c, <2>1, <2>2, <2>3, RefreshKeepsFiles
  <2>5. \A p \in Paths : Resolve(p)' = Resolve(p)
    BY <2>1, <2>2, ResolveSame
  <2>6. refresh.clean => \A p \in Paths : refresh.seen[p] = Resolve(p)
    BY <1>b, <2>1 DEF RefreshInv
  <2>. QED  BY <2>3, <2>4, <2>5, <2>6 DEF RefreshInv
<1>6. CASE Switch
  <2>1. refresh' = NoRefresh(refresh.clean) /\ UNCHANGED <<rows, upper, op, doubt>>
    BY <1>6 DEF Switch
  <2>2. refresh'.at = "idle" /\ refresh'.clean = refresh.clean
    BY <2>1 DEF NoRefresh
  <2>3. FilesInv'
    <3>1. UNCHANGED <<rows, upper, op, doubt>>
      BY <2>1
    <3>2. refresh'.clean => refresh.clean /\ (refresh'.at # "idle" => Idle)
      BY <2>2
    <3>. QED  BY <1>b, <3>1, <3>2, RefreshKeepsFiles
  <2>. QED  BY <2>2, <2>3 DEF RefreshInv
<1>. QED
  BY <1>1, <1>2, <1>3, <1>4, <1>5, <1>6 DEF RefreshStep

(* A crash, between two steps of an operation or not.                       *)
LEMMA CrashKeeps ==
    ASSUME CleanInv, Crash
    PROVE  FilesInv' /\ RefreshInv'
<1>1. /\ rows' = Untouched(rows) /\ op' = NoOp /\ UNCHANGED <<upper, doubt>>
      /\ refresh' = NoRefresh(refresh.clean)
  BY DEF Crash
<1>2. refresh'.at = "idle" /\ refresh'.clean = refresh.clean
  BY <1>1 DEF NoRefresh
<1>3. \A p \in Paths : rows'[p].kind = rows[p].kind
  BY <1>1, SameStore, UntouchedTyped DEF CleanInv
<1>4. op'.at = "idle"
  BY <1>1, NoOpTyped
<1>5. ASSUME refresh'.clean PROVE FilesThere'
  <2>1. FilesThere
    BY <1>2, <1>5 DEF CleanInv, FilesInv
  <2>2. \A p \in FilePaths : p \in Paths
    BY DEF FilePaths
  <2>. QED
    BY <1>1, <1>3, <1>4, <2>1, <2>2
       DEF FilesThere, Live, HasRow, IsDeleted, Renaming, Renamed
<1>. QED  BY <1>2, <1>5 DEF FilesInv, RefreshInv

LEMMA OperationsKeep ==
    ASSUME CleanInv, OpStep
    PROVE  FilesInv' /\ RefreshInv'
<1>1. FilesInv'
  BY OperationsKeepFiles DEF CleanInv
<1>2. ~Idle /\ refresh' = refresh
  BY OpFacts DEF CleanInv
<1>3. refresh.clean => refresh.at = "idle"
  BY <1>2 DEF CleanInv, FilesInv
<1>. QED  BY <1>1, <1>2, <1>3 DEF RefreshInv

LEMMA InitClean == Init => CleanInv
<1>1. Init => FilesInv /\ RefreshInv
  BY NoOpTyped
     DEF Init, FilesInv, FilesThere, RefreshInv, Live, HasRow, NoRows, NoRow, NoRefresh,
         FilePaths, Renaming, Renamed
<1>. QED  BY <1>1, InitTyped DEF CleanInv

LEMMA StepClean == CleanInv /\ [Next]_vars => CleanInv'
<1>. SUFFICES ASSUME CleanInv, [Next]_vars PROVE FilesInv' /\ RefreshInv'
  BY StepTyped DEF CleanInv
<1>1. ASSUME NEW p \in FilePaths,
             \/ BeginWrite(p) \/ BeginTruncate(p) \/ BeginCreate(p) \/ BeginUnlink(p)
      PROVE  FilesInv' /\ RefreshInv'
  <2>1. p \in Paths
    BY DEF FilePaths
  <2>. QED
    BY <1>1, <2>1, BeginsKeep
       DEF BeginWrite, BeginTruncate, BeginCreate, BeginUnlink
<1>2. ASSUME NEW p \in FilePaths, NEW q \in FilePaths, BeginRename(p, q)
      PROVE  FilesInv' /\ RefreshInv'
  <2>1. p \in Paths /\ q \in Paths
    BY DEF FilePaths
  <2>. QED  BY <1>2, <2>1, BeginsKeep DEF BeginRename
<1>3. ASSUME NEW d \in DirPaths, BeginMkdir(d) \/ BeginRmdir(d)
      PROVE  FilesInv' /\ RefreshInv'
  <2>1. d \in Paths
    BY OverlayAssumption
  <2>. QED  BY <1>3, <2>1, BeginsKeep DEF BeginMkdir, BeginRmdir
<1>4. CASE \/ \E p \in FilePaths : GitAdd(p)
           \/ GitCommit \/ GitCommitAll
           \/ \E t \in OtherTrees : GitCheckout(t)
           \/ UNCHANGED vars
  <2>1. UNCHANGED <<rows, upper, base, op, refresh, doubt>>
    BY <1>4 DEF GitAdd, GitCommit, GitCommitAll, GitCheckout, MoveHead, storeVars, vars,
                runVars, histVars
  <2>. QED  BY <2>1, GitKeeps
<1>. QED
  BY <1>1, <1>2, <1>3, <1>4, SetMtimeKeeps, OperationsKeep, RefreshStepKeeps, CrashKeeps
     DEF Next

LEMMA CleanInvariant == Spec => []CleanInv
BY InitClean, StepClean, PTL DEF Spec

(* As long as no operation ran during a refresh, the row of a file has its  *)
(* file, through crashes and errors, but where an unlink or a rename was    *)
(* left halfway or the file is named as the temporary file of another copy. *)
THEOREM RowsKeepTheirFiles == Spec => []CleanRowsHaveFiles
<1>1. CleanInv => CleanRowsHaveFiles
  BY NodeFacts DEF CleanInv, FilesInv, FilesThere, CleanRowsHaveFiles
<1>. QED  BY CleanInvariant, <1>1, PTL

-----------------------------------------------------------------------------
(* What a refresh leaves to see.                                            *)
KeptAt(p) ==
    (\/ refresh.new[p] = refresh.seen[p]
     \/ refresh.new[p] = base[p] /\ OfBase(p, refresh.read[p]))
    => View'[p] = refresh.seen[p]

LEMMA SwitchKeepsView ==
    ASSUME CleanInv, Switch, refresh.clean, NEW p \in Paths
    PROVE  KeptAt(p)
<1>1. /\ refresh.at = "switch" /\ base' = refresh.new /\ UNCHANGED <<rows, upper>>
  BY DEF Switch, storeVars
<1>2. refresh.seen[p] = Resolve(p) \/ Dropped(p)
  BY <1>1 DEF CleanInv, RefreshInv
<1>3. View'[p] = Resolve(p)'
  BY DEF View
<1>4. refresh.new[p] \in Nodes /\ refresh.read[p] \in Rows
  <2>1. refresh.new \in Trees /\ refresh.read \in [Paths -> Rows]
    BY DEF CleanInv, TypeInv, TypeOK, RefreshTyped
  <2>. QED  BY <2>1, TreeFacts
<1>5. CASE HasRow(p)
  <2>1. Resolve(p)' = Resolve(p)
    BY <1>1, <1>5 DEF Resolve, FileAt, HasRow, IsDeleted, NodeType
  <2>. QED  BY <1>2, <1>3, <1>5, <2>1 DEF Dropped, KeptAt
<1>6. CASE ~HasRow(p)
  <2>1. Resolve(p)' = refresh.new[p] /\ Resolve(p) = base[p]
    BY <1>1, <1>6 DEF Resolve, HasRow, IsDeleted, NodeType
  <2>2. ASSUME Dropped(p), refresh.new[p] = base[p], OfBase(p, refresh.read[p])
        PROVE  refresh.seen[p] = refresh.new[p]
    <3>1. CASE refresh.read[p].kind = "delete"
      BY <1>4, <2>2, <3>1, NodeFacts DEF Dropped, Stale
    <3>2. CASE refresh.read[p].kind = "mkdir"
      BY <1>4, <2>2, <3>2, NodeFacts DEF Dropped, Stale
    <3>3. CASE refresh.read[p].kind \in {"none", "create", "modify", "rename"}
      BY <1>4, <2>2, <3>3, NodeFacts DEF Dropped, Stale, OfBase
    <3>. QED  BY <1>4, <3>1, <3>2, <3>3, RowFacts DEF RowKinds
  <2>. QED  BY <1>2, <1>3, <2>1, <2>2 DEF KeptAt
<1>. QED  BY <1>5, <1>6

(* Without an operation during it, a refresh keeps what users see wherever  *)
(* the new commit shows just that, or is as the old one and the row that    *)
(* Reconcile read is about it.                                              *)
THEOREM RefreshesKeepTheView == Spec => RefreshKeepsView
<1>. DEFINE Kept == Switched => \A p \in Paths : KeptAt(p)
<1>1. CleanInv /\ [Next]_vars => [Kept]_vars
  <2>. SUFFICES ASSUME CleanInv, Next, Switched PROVE \A p \in Paths : KeptAt(p)
    OBVIOUS
  <2>1. refresh.at = "switch" /\ refresh'.at = "idle" /\ mounted' /\ refresh.clean
    BY DEF Switched
  <2>2. ~Count
    BY <2>1, CountKeeps DEF CleanInv
  <2>3. ~OpStep
    BY <2>1, OpFacts DEF CleanInv
  <2>4. Switch
    BY <2>1, <2>2, <2>3
       DEF Next, BeginWrite, BeginTruncate, BeginCreate, BeginUnlink, BeginRename,
           BeginMkdir, BeginRmdir, Begin, SetMtime, GitAdd, GitCommit, GitCommitAll,
           GitCheckout, MoveHead, RefreshStep, Publish, ReconcileQuery, ReconcileCommit,
           ReconcileCleanup, ReconcileFails, Crash
  <2>. QED  BY <2>1, <2>4, SwitchKeepsView
<1>2. RefreshKeepsView <=> [][Kept]_vars
  BY DEF RefreshKeepsView, KeptAt
<1>. QED  BY CleanInvariant, <1>1, <1>2, PTL DEF Spec

-----------------------------------------------------------------------------
(* Sizes.                                                                   *)
LEMMA OperationsKeepSizes ==
    ASSUME TypeInv, SizeInv, OpStep
    PROVE  SizeInv'
<1>. USE DEF SizeInv, SizeIsRecorded, Live, HasRow, IsDeleted, RowsElse, FilesElse,
            DoubtsElse, Went, Ended, Missed, Promotes, Renaming
<1>0. \A p \in FilePaths : p \in Paths /\ p \in Backing
  BY BackingFacts
<1>b. op.at \in {"copy", "move", "copyrow"} => ~HasRow(op.p)
  BY DEF TypeInv, OpInv
<1>e. File({}).content = {} /\ Nothing.content = {} /\ Nothing.type = "none"
  BY FileFacts, NodeFacts
<1>1. CASE EnsureOverlay
  BY <1>0, <1>b, <1>e, <1>1, EnsureDoes
<1>2. CASE CopyToTmp
  BY <1>0, <1>e, <1>2, CopyToTmpDoes
<1>3. CASE CopyUp
  BY <1>0, <1>b, <1>e, <1>3, CopyUpDoes
<1>4. CASE CopyUpRow
  BY <1>0, <1>b, <1>e, <1>4, CopyUpRowDoes
<1>5. CASE CreateFile
  BY <1>0, <1>e, <1>5, CreateFileDoes
<1>6. CASE CreateFileRow
  BY <1>0, <1>e, <1>6, CreateFileRowDoes
<1>7. CASE GetRow
  BY <1>0, <1>e, <1>7, GetRowDoes
<1>8. CASE WriteAt
  BY <1>0, <1>e, <1>8, WriteAtDoes
<1>9. CASE WriteRow
  BY <1>0, <1>e, <1>9, WriteRowDoes
<1>10. CASE Truncate
  BY <1>0, <1>e, <1>10, TruncateDoes
<1>11. CASE RemoveFile
  BY <1>0, <1>e, <1>11, RemoveFileDoes
<1>12. CASE Whiteout
  BY <1>0, <1>e, <1>12, WhiteoutDoes
<1>13. CASE RenameRow
  BY <1>0, <1>e, <1>13, RenameRowDoes
<1>14. CASE RenameFile
  BY <1>0, <1>e, <1>14, RenameFileDoes
<1>15. CASE UndoNew
  BY <1>0, <1>e, <1>15, UndoNewDoes
<1>16. CASE UndoOld
  BY <1>0, <1>e, <1>16, UndoOldDoes
<1>17. CASE MkdirUpper
  BY <1>0, <1>e, <1>17, MkdirUpperDoes
<1>18. CASE MkdirRow
  BY <1>0, <1>e, <1>18, MkdirRowDoes
<1>19. CASE OpFails
  BY <1>0, <1>e, <1>19, OpFailsDoes
<1>. QED
  BY <1>1, <1>2, <1>3, <1>4, <1>5, <1>6, <1>7, <1>8, <1>9, <1>10, <1>11, <1>12, <1>13,
     <1>14, <1>15, <1>16, <1>17, <1>18, <1>19 DEF OpStep

(* All other steps write no size, and at most take rows and files away.     *)
LEMMA SizesKept ==
    ASSUME TypeInv, SizeInv, UNCHANGED <<op, doubt>>,
           \A p \in Paths : /\ rows'[p].kind \in {rows[p].kind, "none"}
                            /\ rows'[p].kind # "none" => rows'[p].size = rows[p].size
                            /\ upper'[p] = upper[p] \/ upper'[p] = Nothing
    PROVE  SizeInv'
<1>1. \A p \in Paths : Live(p)' => Live(p) /\ rows'[p].size = rows[p].size
  BY DEF Live, HasRow, IsDeleted
<1>2. \A p \in Paths : upper'[p].content \in {upper[p].content, {}}
  BY NodeFacts
<1>3. \A p \in FilePaths : p \in Paths
  BY DEF FilePaths
<1>4. ~Idle => op.p \in Paths /\ op.q \in Paths
  BY OpPaths
<1>5. \A p \in Paths : upper'[p] \in {upper[p], Nothing}
  OBVIOUS
<1>6. Nothing.type = "none"
  BY NodeFacts
<1>. QED
  BY <1>1, <1>2, <1>3, <1>4, <1>5, <1>6 DEF SizeInv, SizeIsRecorded, Idle, Renaming

LEMMA BeginsKeepSizes ==
    ASSUME TypeInv, SizeInv, NEW name, NEW p \in Paths, NEW q \in Paths,
           NEW at \in {"ensure", "create", "mkdir", "remove"}, Begin(name, p, q, at),
           at = "create" => ~Live(p)
    PROVE  SizeInv'
<1>1. op'.at = at /\ op'.p = p
  BY DEF Begin, NoOp
<1>2. UNCHANGED <<rows, upper, doubt>> /\ Idle
  BY DEF Begin, Count, storeVars, histVars
<1>. QED
  BY <1>1, <1>2
     DEF SizeInv, SizeIsRecorded, Live, HasRow, IsDeleted, Idle, Renaming

LEMMA RefreshStepKeepsSizes ==
    ASSUME TypeInv, SizeInv, RefreshStep
    PROVE  SizeInv'
<1>. USE DEF runVars, storeVars, histVars
<1>a. rows \in [Paths -> Rows] /\ upper \in Uppers /\ refresh.stale \subseteq Paths
  BY SameStore DEF TypeInv, TypeOK, RefreshTyped
<1>1. CASE Publish \/ ReconcileQuery \/ Switch
  BY <1>1, SizesKept DEF Publish, ReconcileQuery, Switch
<1>2. CASE ReconcileCommit
  <2>. DEFINE rs == [p \in Paths |->
                        IF p \in refresh.stale /\ Unchanged(p) THEN NoRow ELSE rows[p]]
  <2>1. rs \in [Paths -> Rows] /\ rows' = Untouched(rs) /\ UNCHANGED <<upper, op, doubt>>
    BY <1>2, <1>a, RowFacts DEF ReconcileCommit
  <2>2. \A p \in Paths : rs[p].kind = "none" \/ rs[p] = rows[p]
    BY RowFacts
  <2>. HIDE DEF rs
  <2>3. \A p \in Paths : rows'[p].kind = rs[p].kind /\ rows'[p].size = rs[p].size
    BY <2>1, UntouchedTyped
  <2>. QED  BY <2>1, <2>2, <2>3, SizesKept
<1>3. CASE ReconcileCleanup
  <2>1. PICK p \in refresh.stale :
            upper' \in {upper, Removed(p)}
    BY <1>3 DEF ReconcileCleanup
  <2>2. \A q \in Paths : upper'[q] = upper[q] \/ upper'[q] = Nothing
    BY <1>a, <2>1, BackingFacts DEF Removed, Uppers
  <2>3. UNCHANGED <<rows, op, doubt>>
    BY <1>3 DEF ReconcileCleanup
  <2>. QED  BY <2>2, <2>3, SizesKept
<1>4. CASE ReconcileFails
  <2>1. rows' = Untouched(rows) /\ UNCHANGED <<upper, op, doubt>>
    BY <1>4 DEF ReconcileFails
  <2>. QED  BY <1>a, <2>1, UntouchedTyped, SizesKept
<1>. QED  BY <1>1, <1>2, <1>3, <1>4 DEF RefreshStep

LEMMA CrashKeepsSizes ==
    ASSUME TypeInv, SizeInv, Crash
    PROVE  SizeInv'
<1>1. op'.at = "idle" /\ UNCHANGED <<upper, doubt>> /\ rows' = Untouched(rows)
  BY NoOpTyped DEF Crash
<1>2. \A p \in Paths : rows'[p].kind = rows[p].kind /\ rows'[p].size = rows[p].size
  BY <1>1, SameStore, UntouchedTyped
<1>3. \A p \in FilePaths : p \in Paths
  BY DEF FilePaths
<1>. QED
  BY <1>1, <1>2, <1>3 DEF SizeInv, SizeIsRecorded, Live, HasRow, IsDeleted, Renaming

LEMMA StepSized ==
    ASSUME TypeInv, SizeInv, [Next]_vars
    PROVE  SizeInv'
<1>1. ASSUME NEW p \in FilePaths,
             \/ BeginWrite(p) \/ BeginTruncate(p) \/ BeginCreate(p) \/ BeginUnlink(p)
      PROVE  SizeInv'
  <2>1. p \in Paths
    BY DEF FilePaths
  <2>2. BeginCreate(p) => ~Live(p)
    <3>1. upper[p].type = "file" => upper[p].type # "none"
      OBVIOUS
    <3>. QED
      BY <3>1
         DEF BeginCreate, Free, Resolves, Resolve, FileAt, Live, Unreadable, Directory
  <2>. QED
    BY <1>1, <2>1, <2>2, BeginsKeepSizes
       DEF BeginWrite, BeginTruncate, BeginCreate, BeginUnlink
<1>2. ASSUME NEW p \in FilePaths, NEW q \in FilePaths, BeginRename(p, q)
      PROVE  SizeInv'
  <2>1. p \in Paths /\ q \in Paths
    BY DEF FilePaths
  <2>. QED  BY <1>2, <2>1, BeginsKeepSizes DEF BeginRename
<1>3. ASSUME NEW d \in DirPaths, BeginMkdir(d) \/ BeginRmdir(d)
      PROVE  SizeInv'
  <2>1. d \in Paths
    BY OverlayAssumption
  <2>. QED  BY <1>3, <2>1, BeginsKeepSizes DEF BeginMkdir, BeginRmdir
<1>4. ASSUME NEW p \in Paths, SetMtime(p) PROVE SizeInv'
  <2>1. PICK t \in BOOLEAN : rows' = [rows EXCEPT ![p].touched = t]
    BY <1>4 DEF SetMtime
  <2>2. rows \in [Paths -> Rows]
    BY SameStore
  <2>3. \A q \in Paths : rows'[q].kind = rows[q].kind /\ rows'[q].size = rows[q].size
    BY <2>1, <2>2, TouchTyped
  <2>4. UNCHANGED <<upper, op, doubt>>
    BY <1>4 DEF SetMtime, histVars
  <2>. QED  BY <2>3, <2>4, SizesKept
<1>5. CASE \/ \E p \in FilePaths : GitAdd(p)
           \/ GitCommit \/ GitCommitAll
           \/ \E t \in OtherTrees : GitCheckout(t)
           \/ UNCHANGED vars
  <2>1. UNCHANGED <<rows, upper, op, doubt>>
    BY <1>5 DEF GitAdd, GitCommit, GitCommitAll, GitCheckout, MoveHead, storeVars, vars,
                runVars, histVars
  <2>. QED  BY <2>1, SizesKept
<1>. QED
  BY <1>1, <1>2, <1>3, <1>4, <1>5, OperationsKeepSizes, RefreshStepKeepsSizes,
     CrashKeepsSizes
     DEF Next

(* The size that is recorded for a file is that of its backing file through *)
(* every sequence of operations, refreshes, errors and crashes, unless the  *)
(* last thing that happened to the file is a truncation, a write whose row  *)
(* was not stored or its loss.                                              *)
THEOREM SizesAreRecorded == Spec => []SizeIsRecorded
<1>1. Init => SizeInv
  BY NoOpTyped
     DEF Init, SizeInv, SizeIsRecorded, Live, HasRow, NoRows, NoRow, FilePaths, Renaming
<1>2. TypeInv /\ SizeInv /\ [Next]_vars => SizeInv'
  BY StepSized
<1>3. SizeInv => SizeIsRecorded
  BY DEF SizeInv
<1>. QED  BY InitTyped, StepTyped, <1>1, <1>2, <1>3, PTL DEF Spec

-----------------------------------------------------------------------------
(* A mount whose HEAD stays is a WorkTree.                                  *)
MountInv == CleanInv /\ TreeInv

(* Stages in which the tree that is meant is not the one that is resolved,  *)
(* or the request has taken effect.                                         *)
Odd == {"writerow", "whiteout"} \cup Renamed

LEMMA TreeIs ==
    ASSUME OpInv, OpInv', NEW p \in Paths
    PROVE  /\ op.at \notin Odd => Tree[p] = Resolve(p)
           /\ op.at = "writerow" => Tree[p] = Resolve(p)
           /\ op.at = "whiteout" =>
                 Tree[p] = IF Unlinked /\ p = op.p THEN Nothing ELSE Resolve(p)
           /\ op.at \in Renamed =>
                 Tree[p] = IF p = op.p THEN FileAt(p)
                           ELSE IF p = op.q /\ op.at # "undoold" THEN base[p]
                           ELSE Resolve(p)
           /\ op'.at \notin Odd => Tree'[p] = Resolve(p)'
           /\ op'.at = "writerow" => Tree'[p] = Resolve(p)'
           /\ op'.at = "whiteout" =>
                 Tree'[p] = IF Unlinked' /\ p = op'.p THEN Nothing ELSE Resolve(p)'
           /\ op'.at \in Renamed =>
                 Tree'[p] = IF p = op'.p THEN FileAt(p)'
                            ELSE IF p = op'.q /\ op'.at # "undoold" THEN base'[p]
                            ELSE Resolve(p)'
<1>1. op.at # "whiteout" => ~Unlinked
  BY DEF Unlinked
<1>2. op'.at # "whiteout" => ~Unlinked'
  BY DEF Unlinked
<1>a. op.at \in Renamed => op.p # op.q
  BY DEF OpInv, Renaming, Renamed
<1>b. op'.at \in Renamed => op'.p # op'.q
  BY DEF OpInv, Renaming, Renamed
<1>3. /\ op.at \notin Odd => Tree[p] = Resolve(p)
      /\ op.at = "writerow" => Tree[p] = Resolve(p)
      /\ op.at = "whiteout" =>
            Tree[p] = IF Unlinked /\ p = op.p THEN Nothing ELSE Resolve(p)
      /\ op.at \in Renamed =>
            Tree[p] = IF p = op.p THEN FileAt(p)
                      ELSE IF p = op.q /\ op.at # "undoold" THEN base[p]
                      ELSE Resolve(p)
  BY <1>1, <1>a DEF Tree, Odd, Renamed
<1>4. /\ op'.at \notin Odd => Tree'[p] = Resolve(p)'
      /\ op'.at = "writerow" => Tree'[p] = Resolve(p)'
      /\ op'.at = "whiteout" =>
            Tree'[p] = IF Unlinked' /\ p = op'.p THEN Nothing ELSE Resolve(p)'
      /\ op'.at \in Renamed =>
            Tree'[p] = IF p = op'.p THEN FileAt(p)'
                       ELSE IF p = op'.q /\ op'.at # "undoold" THEN base'[p]
                       ELSE Resolve(p)'
  BY <1>2, <1>b DEF Tree, Odd, Renamed
<1>. QED  BY <1>3, <1>4

LEMMA TreeDomain ==
    /\ DOMAIN Tree = Paths /\ Tree = [p \in Paths |-> Tree[p]]
    /\ DOMAIN Tree' = Paths /\ Tree' = [p \in Paths |-> Tree'[p]]
BY DEF Tree

LEMMA TreeSame ==
    ASSUME \A p \in Paths : Tree'[p] = Tree[p]
    PROVE  Tree' = Tree
BY TreeDomain

LEMMA TreeChanged ==
    ASSUME NEW p \in Paths, NEW n, Tree'[p] = n,
           \A q \in Paths : q # p => Tree'[q] = Tree[q]
    PROVE  Tree' = [Tree EXCEPT ![p] = n]
BY TreeDomain

LEMMA TreeMoved ==
    ASSUME NEW p \in Paths, NEW q \in Paths, p # q,
           \A r \in Paths : r # p /\ r # q => Tree'[r] = Tree[r]
    PROVE  /\ Tree' = [Tree EXCEPT ![q] = Tree'[q], ![p] = Tree'[p]]
           /\ Tree' = [Tree EXCEPT ![p] = Tree'[p], ![q] = Tree'[q]]
BY TreeDomain

LEMMA SameNodes ==
    /\ WT!Nothing = Nothing /\ WT!Directory = Directory /\ WT!Broken = Unreadable
    /\ \A c : WT!File(c) = File(c)
    /\ WT!FilePaths = FilePaths
    /\ \A n \in Files : WT!IsFile(n)
BY DEF WT!Nothing, Nothing, WT!Directory, Directory, WT!File, File, WT!FilePaths, FilePaths,
       WT!Broken, Unreadable, WT!IsFile, Files

(* Requests.                                                                *)
LEMMA RequestFacts ==
    /\ Request.name = op.name /\ Request.p = op.p /\ Request.q = op.q
    /\ Request.done = (op.at = "writerow" \/ Unlinked)
    /\ op.at \notin Odd => ~Request.done
    /\ op.name # "none" => Request # WT!NoRequest
    /\ op = NoOp => Request = WT!NoRequest
    /\ op' = NoOp => Request' = WT!NoRequest
    /\ op'.name = op.name /\ op'.p = op.p /\ op'.q = op.q =>
          /\ op.at \notin Odd /\ op'.at \notin Odd => Request' = Request
          /\ Request' = [Request EXCEPT !.done = (op'.at = "writerow" \/ Unlinked')]
    /\ \A name, p, q : op'.name = name /\ op'.p = p /\ op'.q = q /\ op'.at \notin Odd =>
          Request' = WT!Request(name, p, q)
<1>1. /\ op.at \notin Odd => op.at # "writerow" /\ ~Unlinked
      /\ op'.at \notin Odd => op'.at # "writerow" /\ ~Unlinked'
  BY DEF Unlinked, Odd
<1>2. NoOp.at \notin Odd
  BY NoOpTyped DEF Odd, Renamed
<1>3. /\ Request = [name |-> op.name, p |-> op.p, q |-> op.q,
                    done |-> op.at = "writerow" \/ Unlinked]
      /\ Request' = [name |-> op'.name, p |-> op'.p, q |-> op'.q,
                     done |-> op'.at = "writerow" \/ Unlinked']
  BY DEF Request
<1>4. WT!NoRequest = [name |-> "none", p |-> Root, q |-> Root, done |-> FALSE]
  BY DEF WT!NoRequest, WT!Request
<1>5. \A name, p, q :
         WT!Request(name, p, q) = [name |-> name, p |-> p, q |-> q, done |-> FALSE]
  BY DEF WT!Request
<1>. HIDE DEF Unlinked
<1>6. /\ op = NoOp => Request = WT!NoRequest
      /\ op' = NoOp => Request' = WT!NoRequest
  BY <1>1, <1>2, <1>3, <1>4, NoOpTyped
<1>7. op'.name = op.name /\ op'.p = op.p /\ op'.q = op.q =>
         /\ op.at \notin Odd /\ op'.at \notin Odd => Request' = Request
         /\ Request' = [Request EXCEPT !.done = (op'.at = "writerow" \/ Unlinked')]
  BY <1>1, <1>3
<1>. QED  BY <1>1, <1>3, <1>4, <1>5, <1>6, <1>7

(* Steps that leave the tree: a fault, an answer, or nothing.               *)
LEMMA Settles ==
    ASSUME \A p \in Paths : Tree'[p] = Tree[p], faults' \in {faults, faults + 1},
           op.name # "none", Request' = Request \/ op' = NoOp
    PROVE  [WT!Next]_(WT!treeVars)
<1>1. Tree' = Tree
  BY TreeSame
<1>2. CASE op' = NoOp
  BY <1>1, <1>2, RequestFacts DEF WT!Next, WT!Answer, WT!MayFail, WT!Fails
<1>3. CASE Request' = Request
  BY <1>1, <1>3 DEF WT!Next, WT!Fail, WT!Fails, WT!treeVars
<1>. QED  BY <1>2, <1>3

LEMMA Plain ==
    ASSUME OpInv, OpInv', op.at \notin Odd, op'.at \notin Odd, \A p \in Paths : Resolve(p)' = Resolve(p),
           faults' \in {faults, faults + 1}, op.name # "none", Went(op'.at) \/ Ended
    PROVE  [WT!Next]_(WT!treeVars)
<1>1. \A p \in Paths : Tree'[p] = Tree[p]
  BY TreeIs
<1>2. Request' = Request \/ op' = NoOp
  BY RequestFacts DEF Went, Ended
<1>. QED  BY <1>1, <1>2, Settles

(* What a step writes decides what is seen.                                 *)
LEMMA Seen ==
    ASSUME NEW p \in Paths
    PROVE  /\ rows'[p].kind = "delete" => Resolve(p)' = Nothing
           /\ rows'[p].kind = "mkdir" => Resolve(p)' = Directory
           /\ rows'[p].kind = "none" => Resolve(p)' = base'[p]
           /\ rows'[p].kind \in LiveKinds => Resolve(p)' = FileAt(p)'
           /\ rows[p].kind = "delete" => Resolve(p) = Nothing
           /\ rows[p].kind = "mkdir" => Resolve(p) = Directory
           /\ rows[p].kind = "none" => Resolve(p) = base[p]
           /\ rows[p].kind \in LiveKinds => Resolve(p) = FileAt(p)
<1>1. /\ rows[p].kind = "delete" => Resolve(p) = Nothing
      /\ rows[p].kind = "mkdir" => Resolve(p) = Directory
      /\ rows[p].kind = "none" => Resolve(p) = base[p]
      /\ rows[p].kind \in LiveKinds => Resolve(p) = FileAt(p)
  BY DEF Resolve, HasRow, IsDeleted, NodeType, LiveKinds
<1>2. /\ rows'[p].kind = "delete" => Resolve(p)' = Nothing
      /\ rows'[p].kind = "mkdir" => Resolve(p)' = Directory
      /\ rows'[p].kind = "none" => Resolve(p)' = base'[p]
      /\ rows'[p].kind \in LiveKinds => Resolve(p)' = FileAt(p)'
  BY DEF Resolve, HasRow, IsDeleted, NodeType, LiveKinds
<1>. QED  BY <1>1, <1>2

LEMMA FileSeen ==
    ASSUME TypeInv, NEW p \in FilePaths
    PROVE  /\ upper[p] \in Files => FileAt(p) = upper[p]
           /\ upper[p] \notin Files => FileAt(p) = Unreadable /\ upper[p] = Nothing
           /\ FileAt(p) = Unreadable \/ FileAt(p) \in Files
           /\ FileAt(p).type # "none"
           /\ FileAt(p).content = upper[p].content
           /\ Live(p) <=> rows[p].kind \in LiveKinds
           /\ rows[p].kind \in {"none", "delete"} \cup LiveKinds
           /\ upper'[p] = upper[p] => FileAt(p)' = FileAt(p)
           /\ upper'[p] \in Files => FileAt(p)' = upper'[p]
           /\ upper'[p] = Nothing => FileAt(p)' = Unreadable
<1>1. p \in Backing /\ p \notin DirPaths /\ p \in Paths
  BY BackingFacts
<1>2. /\ upper[p].type = "file" <=> upper[p] \in Files
      /\ upper[p] \in Files \/ upper[p] = Nothing
  BY <1>1, FileOrNot
<1>3. Live(p) <=> rows[p].kind \in LiveKinds
  BY <1>1, SameStore DEF Live, HasRow, IsDeleted, LiveKinds, KindsAt
<1>4. rows[p].kind \in {"none", "delete"} \cup LiveKinds
  BY <1>1, SameStore DEF LiveKinds, KindsAt
<1>5. /\ upper'[p] = upper[p] => FileAt(p)' = FileAt(p)
      /\ upper'[p] \in Files => FileAt(p)' = upper'[p]
      /\ upper'[p] = Nothing => FileAt(p)' = Unreadable
  BY NodeFacts DEF FileAt
<1>6. Nothing.content = Unreadable.content /\ Unreadable.type = "unreadable"
  BY NodeFacts DEF Unreadable
<1>. QED  BY <1>2, <1>3, <1>4, <1>5, <1>6, NodeFacts DEF FileAt

(* Directories are seen by their rows only.                                 *)
LEMMA DirSeen ==
    ASSUME TypeInv, NEW d \in DirPaths, rows'[d].kind = rows[d].kind, base' = base
    PROVE  Resolve(d)' = Resolve(d)
<1>1. rows[d].kind \in {"none", "delete", "mkdir"}
  BY SameStore, OverlayAssumption DEF KindsAt
<1>. QED  BY <1>1 DEF Resolve, HasRow, IsDeleted, NodeType

LEMMA SeenSame ==
    ASSUME TypeInv, NEW p \in Paths, rows'[p].kind = rows[p].kind, base' = base,
           p \notin DirPaths => upper'[p] = upper[p] \/ ~Live(p)
    PROVE  Resolve(p)' = Resolve(p)
<1>1. CASE p \in DirPaths
  BY <1>1, DirSeen
<1>2. CASE p \notin DirPaths
  BY <1>2 DEF Resolve, FileAt, HasRow, IsDeleted, NodeType, Live
<1>. QED  BY <1>1, <1>2

LEMMA SameDirs ==
    ASSUME TypeInv, OpInv'
    PROVE  /\ WT!Dirs = Dirs
           /\ \A p \in Paths : WT!Exists(p) <=> Tree[p].type # "none"
           /\ op.at \notin Odd => \A p \in Paths : WT!Exists(p) <=> Resolves(p)
<1>1. DirPaths \subseteq Paths /\ \A p \in FilePaths : p \notin DirPaths
  BY BackingFacts
<1>2. ASSUME NEW d \in DirPaths PROVE Tree[d] = Resolve(d)
  <2>1. d \in Paths
    BY <1>1
  <2>2. op.at \in Renamed => op.p # d /\ op.q # d
    BY <1>1 DEF TypeInv, OpInv, Renaming, Renamed
  <2>3. Unlinked => op.p # d
    BY <1>1 DEF TypeInv, OpInv, Unlinked
  <2>4. op.at \notin Odd \/ op.at = "writerow" \/ op.at = "whiteout" \/ op.at \in Renamed
    BY DEF Odd
  <2>. QED  BY <2>1, <2>2, <2>3, <2>4, TreeIs DEF TypeInv
<1>3. \A p \in Paths : WT!Exists(p) <=> Tree[p].type # "none"
  BY DEF WT!Exists
<1>4. op.at \notin Odd => \A p \in Paths : WT!Exists(p) <=> Resolves(p)
  BY <1>3, TreeIs DEF TypeInv, Resolves
<1>5. WT!Dirs = Dirs
  BY <1>1, <1>2, <1>3 DEF WT!Dirs, Dirs, Resolves
<1>. QED  BY <1>3, <1>4, <1>5

LEMMA OpNamed ==
    ASSUME TypeInv, op.name = "none"
    PROVE  Idle
<1>1. op.at \in Stages
  BY OpTypedIs DEF TypeInv, TypeOK, OpRecords
<1>. QED  BY <1>1 DEF TypeInv, OpInv, Stages, Idle, Renaming

(* Steps that do what was asked.                                            *)
LEMMA Performs ==
    ASSUME ~Request.done, faults' \in {faults, faults + 1},
           \/ op' = NoOp
           \/ /\ op'.name = op.name /\ op'.p = op.p /\ op'.q = op.q
              /\ op'.at = "writerow" \/ Unlinked',
           \/ op.name = "write" /\ \E e \in 1..MaxOps : WT!Write(op.p, e)
           \/ op.name = "truncate" /\ WT!Truncate(op.p)
           \/ op.name = "create" /\ WT!Create(op.p)
           \/ op.name = "mkdir" /\ WT!Mkdir(op.p)
           \/ op.name = "unlink" /\ WT!Unlink(op.p)
           \/ op.name = "rmdir" /\ WT!Rmdir(op.p)
           \/ op.name = "rename" /\ WT!Rename(op.p, op.q)
    PROVE  [WT!Next]_(WT!treeVars)
<1>1. Request' \in {WT!NoRequest, [Request EXCEPT !.done = TRUE]}
  <2>1. CASE op' = NoOp
    BY <2>1, RequestFacts
  <2>2. CASE op' # NoOp
    <3>1. /\ op'.name = op.name /\ op'.p = op.p /\ op'.q = op.q
          /\ op'.at = "writerow" \/ Unlinked'
      BY <2>2
    <3>2. (op'.at = "writerow" \/ Unlinked') = TRUE
      BY <3>1 DEF Unlinked
    <3>. QED  BY <3>1, <3>2, RequestFacts
  <2>. QED  BY <2>1, <2>2
<1>2. WT!MayFail
  BY DEF WT!MayFail, WT!Fails
<1>3. WT!Perform
  BY <1>1, <1>2, RequestFacts DEF WT!Perform
<1>. QED  BY <1>3 DEF WT!Next

(* Every step of an operation.                                              *)
LEMMA OperationsImplement ==
    ASSUME TypeInv, TypeInv', TreeInv, OpStep
    PROVE  [WT!Next]_(WT!treeVars)
<1>0. /\ ~Idle /\ op.p \in Paths /\ op.q \in Paths /\ base' = base /\ op.name # "none"
      /\ op.name \in {"write", "truncate", "create", "unlink", "rename"} =>
            op.p \in FilePaths /\ op.q \in FilePaths
      /\ op.name \in {"mkdir", "rmdir"} => op.p \notin FilePaths /\ op.p \in DirPaths
      /\ OpInv /\ OpInv'
      /\ \A p \in FilePaths : p \in Paths /\ p \notin DirPaths
  <2>1. op.name # "none"
    BY OpFacts, OpNamed
  <2>. QED  BY <2>1, OpFacts, BackingFacts DEF TypeInv, OpInv
<1>p. \A b \in Backing : b \in Paths => b \in FilePaths \/ b \in DirPaths
  BY DEF FilePaths
<1>1. CASE EnsureOverlay
  <2>1. /\ op.at = "ensure" /\ UNCHANGED <<rows, upper>> /\ faults' \in {faults, faults + 1}
        /\ op'.at \in {"truncate", "get", "copy", "create", "idle"}
        /\ Went(op'.at) \/ Ended
    BY <1>1, EnsureDoes DEF Promotes, Missed, Went, Ended
  <2>2. \A p \in Paths : Resolve(p)' = Resolve(p)
    BY <1>0, <2>1, SeenSame
  <2>. QED  BY <1>0, <2>1, <2>2, Plain DEF Odd, Renamed
<1>2. CASE CopyToTmp
  <2>0. PICK t : t = TmpOf[op.p]
    OBVIOUS
  <2>1. /\ op.at = "copy" /\ rows' = rows /\ op.p \in FilePaths /\ t \in Backing
        /\ t # op.p /\ FilesElse({t}) /\ faults' \in {faults, faults + 1}
        /\ op'.at \in {"move", "idle"} /\ (Went(op'.at) \/ Ended)
        /\ \/ upper'[t] = op.blob
           \/ upper'[t] = File({}) /\ faults' = faults + 1
           \/ upper'[t] = Nothing
    BY <1>2, <2>0, CopyToTmpDoes DEF Went, Ended
  <2>2. t \in Paths => t \in FilePaths
    BY <2>0, <2>1, BackingFacts
  <2>3. op.blob \in Files /\ rows[op.p].kind = "none" /\ op.blob = base[op.p]
    BY <1>0, <2>1 DEF OpInv, HasRow, TreeInv, StageInv, NamesInv
  <2>4. op.name \in {"write", "truncate", "rename"} /\ File({}) \in Files
    BY <1>0, <2>1, FileFacts DEF OpInv
  <2>5. \A p \in Paths : p # t => Resolve(p)' = Resolve(p)
    <3>1. \A p \in Paths : p # t => upper'[p] = upper[p]
      BY <2>1, BackingFacts DEF FilesElse
    <3>. QED  BY <1>0, <2>1, <3>1, SeenSame
  <2>6. CASE t \in FilePaths /\ Live(t)
    <3>1. Resolve(t) = FileAt(t) /\ Resolve(t)' = FileAt(t)' /\ FileAt(t).type # "none"
      BY <1>0, <2>1, <2>6, FileSeen, Seen
    <3>2. /\ upper'[t] \in Files => FileAt(t)' = upper'[t]
          /\ upper'[t] = Nothing => FileAt(t)' = Unreadable
      BY <2>6, FileSeen
    <3>3. /\ \A p \in Paths : Tree[p] = Resolve(p) /\ Tree'[p] = Resolve(p)'
      BY <1>0, <2>1, TreeIs DEF Odd, Renamed
    <3>4. Tree[op.p] = op.blob
      BY <1>0, <2>1, <2>3, <3>3, Seen
    <3>5. Tree' = [Tree EXCEPT ![t] = Tree'[t]]
      BY <1>0, <2>5, <2>6, <3>3, TreeChanged
    <3>6. \/ Tree'[t] = Tree[op.p]
          \/ Tree'[t] = WT!File({}) /\ WT!Fails
          \/ Tree'[t] = WT!Broken
      BY <1>0, <2>1, <2>3, <2>4, <2>6, <3>1, <3>2, <3>3, <3>4, SameNodes DEF WT!Fails
    <3>7. WT!Exists(t)
      BY <1>0, <2>6, <3>1, <3>3, SameDirs
    <3>8. WT!Overwritten(Request.p, TmpOf[Request.p])
      <4>1. WT!Overwritten(op.p, t)
        BY <2>1, <2>4, <2>6, <3>5, <3>6, <3>7, SameNodes, RequestFacts
           DEF WT!Overwritten, WT!MayFail, WT!Fails
      <4>. QED  BY <2>0, <4>1, RequestFacts
    <3>9. Request' = Request \/ Request' = WT!NoRequest
      BY <2>1, RequestFacts DEF Went, Ended, Odd, Renamed
    <3>. QED  BY <3>8, <3>9 DEF WT!Next, WT!Spoil
  <2>7. CASE ~(t \in FilePaths /\ Live(t))
    <3>1. \A p \in Paths : Resolve(p)' = Resolve(p)
      <4>1. t \in Paths => Resolve(t)' = Resolve(t)
        BY <1>0, <2>1, <2>2, <2>7, SeenSame
      <4>. QED  BY <2>5, <4>1
    <3>. QED  BY <1>0, <2>1, <3>1, Plain DEF Odd, Renamed
  <2>. QED  BY <2>6, <2>7
<1>3. CASE CopyUp
  <2>0. PICK t : t = TmpOf[op.p]
    OBVIOUS
  <2>1. /\ op.at = "move" /\ rows' = rows /\ op.p \in FilePaths /\ t \in Backing
        /\ t # op.p /\ FilesElse({t, op.p}) /\ faults' = faults
        /\ op'.at \in {"copyrow", "create", "idle"} /\ (Went(op'.at) \/ Ended)
        /\ upper' = upper \/ upper'[t] = Nothing
    BY <1>3, <2>0, CopyUpDoes DEF Missed, Went, Ended, FilesElse
  <2>2. t \in Paths => t \in FilePaths
    BY <2>0, <2>1, BackingFacts
  <2>3. rows[op.p].kind = "none" /\ op.name \in {"write", "truncate", "rename"}
    BY <1>0, <2>1 DEF OpInv, HasRow
  <2>5. \A p \in Paths : p # t => Resolve(p)' = Resolve(p)
    <3>1. \A p \in Paths : p # t => upper'[p] = upper[p] \/ ~Live(p)
      BY <2>1, <2>3, BackingFacts DEF FilesElse, Live, HasRow
    <3>. QED  BY <1>0, <2>1, <3>1, SeenSame
  <2>6. CASE t \in FilePaths /\ Live(t) /\ upper'[t] = Nothing
    <3>1. Resolve(t) = FileAt(t) /\ Resolve(t)' = FileAt(t)' /\ FileAt(t).type # "none"
      BY <1>0, <2>1, <2>6, FileSeen, Seen
    <3>2. FileAt(t)' = Unreadable
      BY <2>6, FileSeen
    <3>3. /\ \A p \in Paths : Tree[p] = Resolve(p) /\ Tree'[p] = Resolve(p)'
      BY <1>0, <2>1, TreeIs DEF Odd, Renamed
    <3>5. Tree' = [Tree EXCEPT ![t] = Tree'[t]]
      BY <1>0, <2>5, <2>6, <3>3, TreeChanged
    <3>6. Tree'[t] = WT!Broken
      BY <1>0, <2>6, <3>1, <3>2, <3>3, SameNodes
    <3>7. WT!Exists(t)
      BY <1>0, <2>6, <3>1, <3>3, SameDirs
    <3>8. WT!Overwritten(Request.p, TmpOf[Request.p])
      <4>1. WT!Overwritten(op.p, t)
        BY <2>1, <2>3, <2>6, <3>5, <3>6, <3>7, SameNodes, RequestFacts
           DEF WT!Overwritten, WT!MayFail, WT!Fails
      <4>. QED  BY <2>0, <4>1, RequestFacts
    <3>9. Request' = Request \/ Request' = WT!NoRequest
      BY <2>1, RequestFacts DEF Went, Ended, Odd, Renamed
    <3>. QED  BY <3>8, <3>9 DEF WT!Next, WT!Spoil
  <2>7. CASE ~(t \in FilePaths /\ Live(t) /\ upper'[t] = Nothing)
    <3>1. \A p \in Paths : Resolve(p)' = Resolve(p)
      <4>1. t \in Paths => Resolve(t)' = Resolve(t)
        BY <1>0, <2>1, <2>2, <2>7, SeenSame
      <4>. QED  BY <2>5, <4>1
    <3>. QED  BY <1>0, <2>1, <3>1, Plain DEF Odd, Renamed
  <2>. QED  BY <2>6, <2>7
<1>4. CASE CopyUpRow
  <2>1. /\ op.at = "copyrow" /\ UNCHANGED <<upper, faults>> /\ op.p \in FilePaths
        /\ op'.at \in {"truncate", "get", "create", "idle"} /\ (Went(op'.at) \/ Ended)
        /\ \/ rows' = rows
           \/ /\ rows'[op.p].kind = "modify" /\ RowsElse({op.p})
              /\ upper[op.p] \in Files /\ Went(op'.at)
    BY <1>4, CopyUpRowDoes DEF Promotes, Missed, Went, Ended
  <2>2. CASE rows' = rows
    <3>1. \A p \in Paths : Resolve(p)' = Resolve(p)
      BY <1>0, <2>1, <2>2, SeenSame
    <3>. QED  BY <1>0, <2>1, <3>1, Plain DEF Odd, Renamed
  <2>3. CASE /\ rows'[op.p].kind = "modify" /\ RowsElse({op.p})
             /\ upper[op.p] \in Files /\ Went(op'.at)
    <3>1. /\ rows[op.p].kind = "none" /\ op.name \in {"write", "truncate", "rename"}
          /\ op.blob = base[op.p] /\ op.blob \in Files /\ CopyOf(upper[op.p], op.blob)
      BY <1>0, <2>1 DEF OpInv, HasRow, TreeInv, StageInv, NamesInv
    <3>2. \A p \in Paths : p # op.p => Resolve(p)' = Resolve(p)
      BY <1>0, <2>1, <2>3, SeenSame DEF RowsElse
    <3>3. Resolve(op.p) = op.blob /\ Resolve(op.p)' = upper[op.p]
      <4>1. ASSUME NEW p \in FilePaths, p = op.p PROVE FileAt(p)' = upper[p]
        BY <2>1, <2>3, <4>1, FileSeen
      <4>2. ASSUME NEW p \in Paths, p = op.p PROVE Resolve(p)' = FileAt(p)'
        BY <2>3, <4>2, Seen DEF LiveKinds
      <4>3. UNCHANGED op.p
        BY <2>3 DEF Went
      <4>. QED  BY <1>0, <3>1, <4>1, <4>2, <4>3, Seen
    <3>4. CASE upper[op.p] = op.blob
      <4>1. \A p \in Paths : Resolve(p)' = Resolve(p)
        <5>1. UNCHANGED op.p
          BY <2>3 DEF Went
        <5>. QED  BY <3>2, <3>3, <3>4, <5>1
      <4>. QED  BY <1>0, <2>1, <4>1, Plain DEF Odd, Renamed
    <3>5. CASE upper[op.p] = File({}) /\ faults > 0
      <4>1. \A p \in Paths : Tree[p] = Resolve(p) /\ Tree'[p] = Resolve(p)'
        BY <1>0, <2>1, TreeIs DEF Odd, Renamed
      <4>2. Tree'[op.p] = WT!File({}) /\ Tree[op.p] = op.blob
        <5>1. UNCHANGED op.p
          BY <2>3 DEF Went
        <5>. QED  BY <1>0, <3>3, <3>5, <4>1, <5>1, SameNodes
      <4>3. Tree' = [Tree EXCEPT ![op.p] = WT!File({})]
        BY <1>0, <3>2, <4>1, <4>2, TreeChanged
      <4>4. WT!Exists(op.p)
        BY <1>0, <3>1, <4>2, SameDirs, NodeFacts
      <4>5. WT!Emptied(Request.p)
        <5>1. WT!Emptied(op.p)
          BY <2>1, <3>1, <3>5, <4>3, <4>4, RequestFacts DEF WT!Emptied
        <5>. QED  BY <5>1, RequestFacts
      <4>6. Request' = Request
        BY <2>1, <2>3, RequestFacts DEF Went, Odd, Renamed
      <4>. QED  BY <4>5, <4>6 DEF WT!Next, WT!Spoil
    <3>. QED  BY <3>1, <3>4, <3>5 DEF CopyOf
  <2>. QED  BY <2>1, <2>2, <2>3
<1>5. CASE CreateFile
  <2>1. /\ op.at = "create" /\ rows' = rows /\ faults' = faults /\ op.p \in FilePaths
        /\ FilesElse({op.p}) /\ Went("createrow")
    BY <1>5, CreateFileDoes
  <2>2. ~Live(op.p)
    <3>1. op.name = "write" => ~Live(op.p)
      BY <1>0, <2>1 DEF TreeInv, StageInv, NamesInv, Live
    <3>2. op.name = "create" => ~Live(op.p)
      BY <1>0, <2>1, FileSeen, Seen DEF TreeInv, StageInv, NamesInv, Resolves
    <3>. QED  BY <1>0, <2>1, <3>1, <3>2 DEF OpInv
  <2>3. \A p \in Paths : Resolve(p)' = Resolve(p)
    <3>1. \A p \in Paths : p # op.p => upper'[p] = upper[p]
      BY <2>1, BackingFacts DEF FilesElse
    <3>. QED  BY <1>0, <2>1, <2>2, <3>1, SeenSame
  <2>. QED  BY <1>0, <2>1, <2>3, Plain DEF Odd, Renamed, Went
<1>6. CASE CreateFileRow
  <2>0. PICK p \in Paths : p = op.p
    BY <1>0
  <2>1. /\ op.at = "createrow" /\ UNCHANGED <<upper, faults>> /\ p \in FilePaths
        /\ rows'[p].kind = "create" /\ RowsElse({p})
        /\ IF op.name = "write" THEN Went("get") ELSE Ended
    BY <1>6, <2>0, CreateFileRowDoes
  <2>2. upper'[p] = File({}) /\ File({}) \in Files
    BY <2>0, <2>1, FileFacts DEF TreeInv, StageInv, NamesInv
  <2>3. Resolve(p)' = File({})
    BY <2>1, <2>2, FileSeen, Seen DEF LiveKinds
  <2>4. \A q \in Paths : q # p => Resolve(q)' = Resolve(q)
    BY <1>0, <2>1, SeenSame DEF RowsElse
  <2>5. op'.at \in {"get", "idle"} /\ op.at \notin Odd /\ op'.at \notin Odd
    BY <2>1 DEF Went, Ended, Odd, Renamed
  <2>6. \A q \in Paths : Tree[q] = Resolve(q) /\ Tree'[q] = Resolve(q)'
    BY <1>0, <2>5, TreeIs
  <2>7. Tree' = [Tree EXCEPT ![p] = WT!File({})]
    BY <2>3, <2>4, <2>6, TreeChanged, SameNodes
  <2>8. CASE op.name = "create"
    <3>1. ~Resolves(p) /\ Parent[p] \in Dirs
      BY <2>0, <2>8 DEF TreeInv, StageInv, NamesInv
    <3>2. WT!Create(p)
      BY <1>0, <2>5, <2>7, <3>1, SameDirs DEF WT!Create
    <3>3. op' = NoOp
      BY <2>1, <2>8 DEF Ended
    <3>. QED  BY <2>0, <2>1, <2>5, <2>8, <3>2, <3>3, Performs, RequestFacts
  <2>9. CASE op.name = "write"
    <3>1. faults > 0 /\ ~HasRow(p) /\ base[p] \in Files
      BY <2>0, <2>1, <2>9 DEF TreeInv, StageInv, NamesInv
    <3>2. Tree[p] = base[p] /\ base[p].type # "none"
      BY <2>6, <3>1, Seen, NodeFacts DEF HasRow
    <3>3. WT!Emptied(p)
      BY <1>0, <2>1, <2>7, <2>9, <3>1, <3>2, SameDirs, RequestFacts DEF WT!Emptied
    <3>4. Request' = Request
      BY <2>1, <2>5, <2>9, RequestFacts DEF Went
    <3>. QED  BY <2>0, <3>3, <3>4, RequestFacts DEF WT!Next, WT!Spoil
  <2>. QED  BY <1>0, <2>1, <2>8, <2>9 DEF OpInv
<1>7. CASE GetRow
  <2>1. /\ op.at = "get" /\ UNCHANGED <<rows, upper, faults>>
        /\ op'.at \in {"writeat", "renamerow", "idle"} /\ (Went(op'.at) \/ Ended)
    BY <1>7, GetRowDoes DEF Went, Ended
  <2>2. \A p \in Paths : Resolve(p)' = Resolve(p)
    BY <1>0, <2>1, SeenSame
  <2>. QED  BY <1>0, <2>1, <2>2, Plain DEF Odd, Renamed
<1>8. CASE WriteAt
  <2>0. PICK p \in Paths : p = op.p
    BY <1>0
  <2>1. /\ op.at = "writeat" /\ rows' = rows /\ op.name = "write" /\ p \in FilePaths
        /\ upper'[p] = File(upper[p].content \cup {nops}) /\ upper'[p] \in Files
        /\ FilesElse({p}) /\ faults' \in {faults, faults + 1}
        /\ Went("writerow") \/ Ended
    BY <1>8, <2>0, WriteAtDoes
  <2>2. nops \in 1..MaxOps
    <3>1. nops > 0 /\ nops \in 0..MaxOps
      BY <1>0 DEF OpInv, TypeInv, TypeOK
    <3>. QED  BY <3>1, Bounds
  <2>3. rows[p].kind \in LiveKinds
    BY <2>0, <2>1, FileSeen DEF TreeInv, StageInv, NamesInv
  <2>4. /\ Resolve(p) = FileAt(p) /\ Resolve(p)' = upper'[p]
        /\ FileAt(p).content = upper[p].content /\ FileAt(p).type # "none"
    <3>1. Resolve(p) = FileAt(p) /\ Resolve(p)' = FileAt(p)'
      BY <2>1, <2>3, Seen
    <3>. QED  BY <2>1, <3>1, FileSeen
  <2>5. \A q \in Paths : q # p => Resolve(q)' = Resolve(q)
    <3>1. \A q \in Paths : q # p => upper'[q] = upper[q]
      BY <2>1, BackingFacts DEF FilesElse
    <3>. QED  BY <1>0, <2>1, <3>1, SeenSame
  <2>6. op.at \notin Odd /\ op'.at \in {"writerow", "idle"}
    BY <2>1 DEF Went, Ended, Odd, Renamed
  <2>7. \A q \in Paths : Tree[q] = Resolve(q) /\ Tree'[q] = Resolve(q)'
    BY <1>0, <2>6, TreeIs DEF Odd, Renamed
  <2>8. Tree' = [Tree EXCEPT ![p] = WT!File(Tree[p].content \cup {nops})]
    BY <2>1, <2>4, <2>5, <2>7, TreeChanged, SameNodes
  <2>9. WT!Write(p, nops)
    BY <1>0, <2>4, <2>7, <2>8, SameDirs DEF WT!Write
  <2>10. \E e \in 1..MaxOps : WT!Write(op.p, e)
    BY <2>0, <2>2, <2>9
  <2>11. op' = NoOp \/ (op'.name = op.name /\ op'.p = op.p /\ op'.q = op.q /\ op'.at = "writerow")
    BY <2>1 DEF Went, Ended
  <2>. QED  BY <2>1, <2>6, <2>10, <2>11, Performs, RequestFacts
<1>9. CASE WriteRow
  <2>0. PICK p \in Paths : p = op.p
    BY <1>0
  <2>1. /\ op.at = "writerow" /\ UNCHANGED <<upper, faults>> /\ Ended /\ p \in FilePaths
        /\ rows'[p].kind \in LiveKinds /\ RowsElse({p})
    BY <1>9, <2>0, WriteRowDoes DEF LiveKinds
  <2>2. rows[p].kind \in LiveKinds
    BY <2>0, <2>1, FileSeen DEF TreeInv, StageInv, NamesInv
  <2>3. Resolve(p)' = Resolve(p)
    <3>1. Resolve(p) = FileAt(p) /\ Resolve(p)' = FileAt(p)'
      BY <2>1, <2>2, Seen
    <3>. QED  BY <2>1, <3>1, FileSeen
  <2>4. \A q \in Paths : q # p => Resolve(q)' = Resolve(q)
    BY <1>0, <2>1, SeenSame DEF RowsElse
  <2>5. \A q \in Paths : Tree'[q] = Tree[q]
    <3>1. op'.at \notin Odd
      BY <2>1 DEF Ended, Odd, Renamed
    <3>. QED  BY <1>0, <2>1, <2>3, <2>4, <3>1, TreeIs
  <2>. QED  BY <1>0, <2>1, <2>5, Settles DEF Ended
<1>10. CASE Truncate
  <2>0. PICK p \in Paths : p = op.p
    BY <1>0
  <2>1. /\ op.at = "truncate" /\ rows' = rows /\ faults' = faults /\ Ended /\ p \in FilePaths
        /\ op.name = "truncate" /\ op.at \notin Odd /\ op'.at \notin Odd
        /\ \/ /\ Live(p) /\ upper[p] \in Files
              /\ \E c \in {{}, upper[p].content, upper[p].content \cup {nops}} :
                    upper'[p] = File(c)
              /\ upper'[p] \in Files /\ FilesElse({p})
           \/ upper' = upper
    <3>1. op.name = "truncate"
      BY <1>0, <1>10, TruncateDoes DEF OpInv
    <3>. QED  BY <1>10, <2>0, <3>1, TruncateDoes DEF Ended, Odd, Renamed
  <2>2. CASE upper' = upper
    <3>1. \A q \in Paths : Resolve(q)' = Resolve(q)
      BY <1>0, <2>1, <2>2, SeenSame
    <3>. QED  BY <1>0, <2>1, <3>1, Plain
  <2>3. ASSUME NEW c \in {{}, upper[p].content, upper[p].content \cup {nops}},
               Live(p), upper[p] \in Files, upper'[p] = File(c), upper'[p] \in Files,
               FilesElse({p})
        PROVE  [WT!Next]_(WT!treeVars)
    <3>1. /\ Resolve(p) = upper[p] /\ Resolve(p)' = File(c)
      <4>1. Resolve(p) = FileAt(p) /\ Resolve(p)' = FileAt(p)'
        BY <2>1, <2>3, FileSeen, Seen
      <4>. QED  BY <2>1, <2>3, <4>1, FileSeen
    <3>2. \A q \in Paths : q # p => Resolve(q)' = Resolve(q)
      <4>1. \A q \in Paths : q # p => upper'[q] = upper[q]
        BY <2>3, BackingFacts DEF FilesElse
      <4>. QED  BY <1>0, <2>1, <4>1, SeenSame
    <3>3. \A q \in Paths : Tree[q] = Resolve(q) /\ Tree'[q] = Resolve(q)'
      BY <1>0, <2>1, TreeIs
    <3>4. Tree' = [Tree EXCEPT ![p] = WT!File(c)]
      BY <3>1, <3>2, <3>3, TreeChanged, SameNodes
    <3>5. nops \in 1..MaxOps
      <4>1. nops > 0 /\ nops \in 0..MaxOps
        BY <1>0 DEF OpInv, TypeInv, TypeOK
      <4>. QED  BY <4>1, Bounds
    <3>6. Tree[p] = upper[p] /\ upper[p].type = "file"
      BY <2>3, <3>1, <3>3, NodeFacts
    <3>7. WT!Truncate(p)
      BY <1>0, <2>3, <3>4, <3>5, <3>6, SameDirs DEF WT!Truncate
    <3>. QED  BY <2>0, <2>1, <3>7, Performs, RequestFacts DEF Ended
  <2>. QED  BY <2>1, <2>2, <2>3
<1>11. CASE RemoveFile
  <2>0. PICK p \in Paths : p = op.p
    BY <1>0
  <2>1. /\ op.at = "remove" /\ rows' = rows /\ Went("whiteout") /\ p \in Backing
        /\ FilesElse({p}) /\ faults' \in {faults, faults + 1}
        /\ upper' = upper \/ (upper'[p] = Nothing /\ Live(p))
        /\ op.at \notin Odd /\ op.name \in {"unlink", "rmdir"}
    BY <1>0, <1>11, <2>0, RemoveFileDoes DEF OpInv, Odd, Renamed
  <2>2. \A q \in Paths : q # p => Resolve(q)' = Resolve(q)
    <3>1. \A q \in Paths : q # p => upper'[q] = upper[q]
      BY <2>1, BackingFacts DEF FilesElse
    <3>. QED  BY <1>0, <2>1, <3>1, SeenSame
  <2>3. \A q \in Paths : /\ Tree[q] = Resolve(q)
                         /\ Tree'[q] = IF Unlinked' /\ q = p THEN Nothing ELSE Resolve(q)'
    <3>1. op'.at = "whiteout" /\ op'.p = p
      BY <2>0, <2>1 DEF Went
    <3>. QED  BY <1>0, <2>1, <3>1, TreeIs
  <2>4. CASE Unlinked'
    <3>1. Tree' = [Tree EXCEPT ![p] = WT!Nothing]
      BY <2>2, <2>3, <2>4, TreeChanged, SameNodes
    <3>2. op.name = "unlink"
      BY <2>1, <2>4 DEF Unlinked, Went
    <3>3. WT!Unlink(p)
      BY <1>0, <2>0, <2>1, <3>1, SameDirs DEF WT!Unlink, TreeInv, StageInv, NamesInv
    <3>. QED  BY <2>0, <2>1, <2>4, <3>2, <3>3, Performs, RequestFacts DEF Went
  <2>5. CASE ~Unlinked'
    <3>1. Resolve(p)' = Resolve(p)
      <4>1. CASE p \in DirPaths
        BY <1>0, <2>1, <4>1, DirSeen
      <4>2. CASE p \notin DirPaths
        <5>1. op.name = "unlink"
          BY <1>0, <2>0, <2>1, <4>2
        <5>2. upper'[p] = Nothing /\ Live(p) => Unlinked'
          BY <2>0, <2>1, <5>1 DEF Unlinked, Went, Live, HasRow, IsDeleted
        <5>3. upper'[p] = upper[p]
          BY <2>1, <2>5, <5>2
        <5>. QED  BY <1>0, <2>1, <5>3, SeenSame
      <4>. QED  BY <4>1, <4>2
    <3>2. \A q \in Paths : Tree'[q] = Tree[q]
      BY <2>2, <2>3, <2>5, <3>1
    <3>3. Request' = Request
      BY <2>1, <2>5 DEF Request, Went, Unlinked
    <3>. QED  BY <1>0, <2>1, <3>2, <3>3, Settles
  <2>. QED  BY <2>4, <2>5
<1>12. CASE Whiteout
  <2>0. PICK p \in Paths : p = op.p
    BY <1>0
  <2>1. /\ op.at = "whiteout" /\ UNCHANGED <<upper, faults>> /\ Ended
        /\ rows'[p].kind = "delete" /\ RowsElse({p}) /\ op'.at \notin Odd
        /\ op.name \in {"unlink", "rmdir"}
    BY <1>0, <1>12, <2>0, WhiteoutDoes DEF OpInv, Ended, Odd, Renamed
  <2>2. Resolve(p)' = Nothing /\ \A q \in Paths : q # p => Resolve(q)' = Resolve(q)
    BY <1>0, <2>1, Seen, SeenSame DEF RowsElse
  <2>3. /\ \A q \in Paths : Tree'[q] = Resolve(q)'
        /\ \A q \in Paths : Tree[q] = IF Unlinked /\ q = p THEN Nothing ELSE Resolve(q)
    BY <1>0, <2>0, <2>1, TreeIs
  <2>4. CASE Unlinked
    <3>1. \A q \in Paths : Tree'[q] = Tree[q]
      BY <2>2, <2>3, <2>4
    <3>. QED  BY <1>0, <2>1, <3>1, Settles DEF Ended
  <2>5. CASE ~Unlinked
    <3>1. Resolves(p) /\ ~Request.done
      BY <2>0, <2>1, <2>5, RequestFacts DEF TreeInv, StageInv, NamesInv
    <3>2. Tree' = [Tree EXCEPT ![p] = WT!Nothing]
      BY <2>2, <2>3, <2>5, TreeChanged, SameNodes
    <3>3. WT!Exists(p)
      BY <1>0, <2>3, <2>5, <3>1, SameDirs DEF Resolves
    <3>4. CASE op.name = "unlink"
      <4>1. WT!Unlink(p)
        BY <3>2, <3>3 DEF WT!Unlink
      <4>. QED  BY <2>0, <2>1, <3>1, <3>4, <4>1, Performs DEF Ended
    <3>5. CASE op.name = "rmdir"
      <4>1. \A c \in Paths : Parent[c] = p => ~Resolves(c)
        BY <2>0, <3>5 DEF TreeInv, StageInv, NamesInv, Children
      <4>2. WT!Empty(p)
        BY <1>0, <2>3, <2>5, <4>1, SameDirs DEF WT!Empty, Resolves
      <4>3. WT!Rmdir(p)
        BY <3>2, <3>3, <4>2 DEF WT!Rmdir
      <4>. QED  BY <2>0, <2>1, <3>1, <3>5, <4>3, Performs DEF Ended
    <3>. QED  BY <2>1, <3>4, <3>5
  <2>. QED  BY <2>4, <2>5
<1>13. CASE RenameRow
  <2>0. PICK p \in Paths, q \in Paths : p = op.p /\ q = op.q
    BY <1>0
  <2>1. /\ op.at = "renamerow" /\ UNCHANGED <<upper, faults>> /\ p # q
        /\ p \in FilePaths /\ q \in FilePaths /\ op.at \notin Odd
        /\ \/ Ended /\ rows' = rows
           \/ /\ ~HasRow(q) /\ Went("renamefile") /\ RowsElse({p, q})
    BY <1>13, <2>0, RenameRowDoes DEF Odd, Renamed
  <2>2. CASE Ended /\ rows' = rows
    <3>1. \A r \in Paths : Resolve(r)' = Resolve(r)
      BY <1>0, <2>1, <2>2, SeenSame
    <3>. QED  BY <1>0, <2>1, <2>2, <3>1, Plain DEF Ended, Odd, Renamed
  <2>3. CASE ~HasRow(q) /\ Went("renamefile") /\ RowsElse({p, q})
    <3>1. op'.at = "renamefile" /\ op'.p = p /\ op'.q = q
      BY <2>0, <2>3 DEF Went
    <3>2. rows[p].kind \in LiveKinds
      BY <2>0, <2>1, FileSeen DEF TreeInv, StageInv, NamesInv
    <3>3. Tree'[p] = Tree[p]
      <4>1. Tree[p] = Resolve(p) /\ Tree'[p] = FileAt(p)'
        BY <1>0, <2>1, <3>1, TreeIs DEF Renamed
      <4>. QED  BY <2>1, <3>2, <4>1, FileSeen, Seen
    <3>4. Tree'[q] = Tree[q]
      <4>1. Tree[q] = Resolve(q) /\ Tree'[q] = base'[q]
        BY <1>0, <2>1, <3>1, TreeIs DEF Renamed
      <4>. QED  BY <1>0, <2>3, <4>1, Seen DEF HasRow
    <3>5. ASSUME NEW r \in Paths, r # p, r # q PROVE Tree'[r] = Tree[r]
      <4>1. Tree[r] = Resolve(r) /\ Tree'[r] = Resolve(r)'
        BY <1>0, <2>1, <3>1, <3>5, TreeIs DEF Renamed
      <4>. QED  BY <1>0, <2>1, <2>3, <3>5, <4>1, SeenSame DEF RowsElse
    <3>6. Request' = Request
      BY <2>1, <2>3 DEF Request, Went, Unlinked
    <3>. QED  BY <1>0, <2>1, <3>3, <3>4, <3>5, <3>6, Settles
  <2>. QED  BY <2>1, <2>2, <2>3
<1>14. CASE RenameFile
  <2>0. PICK p \in Paths, q \in Paths : p = op.p /\ q = op.q
    BY <1>0
  <2>1. /\ op.at = "renamefile" /\ rows' = rows /\ p # q
        /\ p \in FilePaths /\ q \in FilePaths /\ op.at \in Renamed /\ op.name = "rename"
        /\ ~Request.done
    BY <1>0, <1>14, <2>0, RenameFileDoes, RequestFacts DEF Renamed, OpInv, Renaming, Unlinked
  <2>2. \/ /\ upper[p] \in Files /\ Ended /\ faults' = faults
           /\ upper'[q] = upper[p] /\ upper'[p] = Nothing /\ FilesElse({p, q})
        \/ Went("undonew") /\ upper' = upper /\ faults' \in {faults, faults + 1}
    BY <1>14, <2>0, RenameFileDoes
  <2>3. \A r \in Paths : Tree[r] = IF r = p THEN FileAt(r)
                                   ELSE IF r = q THEN base[r] ELSE Resolve(r)
    BY <1>0, <2>0, <2>1, TreeIs
  <2>4. CASE /\ upper[p] \in Files /\ Ended /\ faults' = faults
             /\ upper'[q] = upper[p] /\ upper'[p] = Nothing /\ FilesElse({p, q})
    <3>1. rows[p].kind = "delete" /\ rows[q].kind = "rename" /\ Parent[q] \in Dirs
      BY <2>0, <2>1 DEF TreeInv, StageInv, NamesInv, IsDeleted
    <3>2. \A r \in Paths : Tree'[r] = Resolve(r)'
      <4>1. op'.at \notin Odd
        BY <2>4 DEF Ended, Odd, Renamed
      <4>. QED  BY <1>0, <4>1, TreeIs
    <3>3. Tree'[p] = Nothing /\ Tree[p] = upper[p] /\ upper[p].type # "none"
      BY <2>1, <2>3, <2>4, <3>1, <3>2, FileSeen, Seen, NodeFacts
    <3>4. Tree'[q] = upper[p]
      <4>1. Tree'[q] = FileAt(q)'
        BY <2>1, <3>1, <3>2, Seen DEF LiveKinds
      <4>. QED  BY <2>1, <2>4, <4>1, FileSeen
    <3>5. \A r \in Paths : r # p /\ r # q => Tree'[r] = Tree[r]
      <4>1. \A r \in Paths : r # p /\ r # q => upper'[r] = upper[r]
        BY <2>4, BackingFacts DEF FilesElse
      <4>2. \A r \in Paths : r # p /\ r # q => Resolve(r)' = Resolve(r)
        BY <1>0, <2>1, <4>1, SeenSame
      <4>. QED  BY <2>3, <3>2, <4>2
    <3>6. Tree' = [Tree EXCEPT ![q] = Tree[p], ![p] = WT!Nothing]
      BY <2>1, <3>3, <3>4, <3>5, TreeMoved, SameNodes
    <3>7. WT!Rename(p, q)
      BY <1>0, <3>1, <3>3, <3>6, SameDirs DEF WT!Rename
    <3>. QED  BY <2>0, <2>1, <2>4, <3>7, Performs DEF Ended
  <2>5. CASE Went("undonew") /\ upper' = upper /\ faults' \in {faults, faults + 1}
    <3>1. op'.at = "undonew" /\ op'.p = p /\ op'.q = q
      BY <2>0, <2>5 DEF Went
    <3>2. \A r \in Paths : Tree'[r] = IF r = p THEN FileAt(r)'
                                      ELSE IF r = q THEN base[r] ELSE Resolve(r)'
      BY <1>0, <3>1, TreeIs DEF Renamed
    <3>3. \A r \in Paths : Resolve(r)' = Resolve(r)
      BY <1>0, <2>1, <2>5, SeenSame
    <3>4. FileAt(p)' = FileAt(p)
      BY <2>1, <2>5, FileSeen
    <3>5. \A r \in Paths : Tree'[r] = Tree[r]
      BY <2>3, <3>2, <3>3, <3>4
    <3>6. Request' = Request
      BY <2>1, <2>5 DEF Request, Went, Unlinked
    <3>. QED  BY <1>0, <2>5, <3>5, <3>6, Settles
  <2>. QED  BY <2>2, <2>4, <2>5
<1>15. CASE UndoNew
  <2>0. PICK p \in Paths, q \in Paths : p = op.p /\ q = op.q
    BY <1>0
  <2>1. /\ op.at = "undonew" /\ upper' = upper /\ p # q /\ Went("undoold")
        /\ p \in FilePaths /\ q \in FilePaths /\ op.at \in Renamed /\ op.name = "rename"
        /\ \/ rows'[q].kind = "none" /\ RowsElse({q}) /\ faults' = faults
           \/ rows' = rows /\ faults' = faults + 1
    BY <1>0, <1>15, <2>0, UndoNewDoes DEF Renamed, OpInv, Renaming
  <2>2. \A r \in Paths : Tree[r] = IF r = p THEN FileAt(r)
                                   ELSE IF r = q THEN base[r] ELSE Resolve(r)
    BY <1>0, <2>0, <2>1, TreeIs
  <2>3. \A r \in Paths : Tree'[r] = IF r = p THEN FileAt(r)' ELSE Resolve(r)'
    <3>1. op'.at = "undoold" /\ op'.p = p
      BY <2>0, <2>1 DEF Went
    <3>. QED  BY <1>0, <3>1, TreeIs DEF Renamed
  <2>4. \A r \in Paths : r # q => Tree'[r] = Tree[r]
    <3>1. FileAt(p)' = FileAt(p)
      BY <2>1, FileSeen
    <3>2. \A r \in Paths : r # q => Resolve(r)' = Resolve(r)
      BY <1>0, <2>1, SeenSame DEF RowsElse
    <3>. QED  BY <2>2, <2>3, <3>1, <3>2
  <2>5. Request' = Request
    BY <2>1 DEF Request, Went, Unlinked
  <2>6. CASE rows'[q].kind = "none" /\ RowsElse({q}) /\ faults' = faults
    <3>1. Tree'[q] = Tree[q]
      BY <1>0, <2>1, <2>2, <2>3, <2>6, Seen
    <3>. QED  BY <1>0, <2>4, <2>5, <2>6, <3>1, Settles
  <2>7. CASE rows' = rows /\ faults' = faults + 1
    <3>1. rows[q].kind = "rename" /\ Parent[q] \in Dirs
      BY <2>0, <2>1 DEF TreeInv, StageInv, NamesInv
    <3>2. Tree'[q] = FileAt(q)
      BY <2>1, <2>3, <2>7, <3>1, FileSeen, Seen DEF LiveKinds
    <3>3. Tree'[q] = WT!Broken \/ WT!IsFile(Tree'[q])
      BY <2>1, <3>2, FileSeen, SameNodes
    <3>4. Tree' = [Tree EXCEPT ![p] = Tree'[p], ![q] = Tree'[q]]
      BY <2>1, <2>4, TreeMoved
    <3>5. WT!HalfRename(p, q)
      BY <1>0, <2>1, <2>4, <2>7, <3>1, <3>3, <3>4, SameDirs, RequestFacts
         DEF WT!HalfRename, WT!Fails
    <3>. QED  BY <2>0, <2>5, <3>5, RequestFacts DEF WT!Next, WT!Spoil
  <2>. QED  BY <2>1, <2>6, <2>7
<1>16. CASE UndoOld
  <2>0. PICK p \in Paths, q \in Paths : p = op.p /\ q = op.q
    BY <1>0
  <2>1. /\ op.at = "undoold" /\ upper' = upper /\ p # q /\ Ended
        /\ p \in FilePaths /\ q \in FilePaths /\ op.at \in Renamed /\ op.name = "rename"
        /\ \/ rows'[p].kind \in LiveKinds /\ RowsElse({p}) /\ faults' = faults
           \/ rows' = rows /\ faults' = faults + 1
    BY <1>0, <1>16, <2>0, UndoOldDoes DEF Renamed, OpInv, Renaming
  <2>2. \A r \in Paths : Tree[r] = IF r = p THEN FileAt(r) ELSE Resolve(r)
    BY <1>0, <2>0, <2>1, TreeIs
  <2>3. \A r \in Paths : Tree'[r] = Resolve(r)'
    <3>1. op'.at \notin Odd
      BY <2>1 DEF Ended, Odd, Renamed
    <3>. QED  BY <1>0, <3>1, TreeIs
  <2>4. \A r \in Paths : r # p => Tree'[r] = Tree[r]
    <3>1. \A r \in Paths : r # p => Resolve(r)' = Resolve(r)
      BY <1>0, <2>1, SeenSame DEF RowsElse
    <3>. QED  BY <2>2, <2>3, <3>1
  <2>5. CASE rows'[p].kind \in LiveKinds /\ RowsElse({p}) /\ faults' = faults
    <3>1. Tree'[p] = Tree[p]
      BY <2>1, <2>2, <2>3, <2>5, FileSeen, Seen
    <3>. QED  BY <1>0, <2>1, <2>4, <2>5, <3>1, Settles DEF Ended
  <2>6. CASE rows' = rows /\ faults' = faults + 1
    <3>1. rows[p].kind = "delete"
      BY <2>0, <2>1 DEF TreeInv, StageInv, NamesInv, IsDeleted
    <3>2. Tree'[p] = WT!Nothing
      BY <2>3, <2>6, <3>1, Seen, SameNodes
    <3>3. Tree' = [Tree EXCEPT ![p] = Tree'[p], ![q] = Tree'[q]]
      BY <2>1, <2>4, TreeMoved
    <3>4. WT!HalfRename(p, q)
      BY <2>1, <2>4, <2>6, <3>2, <3>3, RequestFacts DEF WT!HalfRename, WT!Fails
    <3>5. Request' = WT!NoRequest
      BY <2>1, RequestFacts DEF Ended
    <3>. QED  BY <2>0, <3>4, <3>5, RequestFacts DEF WT!Next, WT!Spoil
  <2>. QED  BY <2>1, <2>5, <2>6
<1>17. CASE MkdirUpper
  <2>1. /\ op.at = "mkdir" /\ rows' = rows /\ faults' = faults /\ op.p \in DirPaths
        /\ FilesElse({op.p}) /\ Went("mkdirrow")
    BY <1>17, MkdirUpperDoes
  <2>2. \A r \in Paths : Resolve(r)' = Resolve(r)
    <3>1. \A r \in Paths : r \notin DirPaths => upper'[r] = upper[r]
      BY <2>1, BackingFacts DEF FilesElse
    <3>. QED  BY <1>0, <2>1, <3>1, SeenSame
  <2>. QED  BY <1>0, <2>1, <2>2, Plain DEF Odd, Renamed, Went
<1>18. CASE MkdirRow
  <2>0. PICK p \in Paths : p = op.p
    BY <1>0
  <2>1. /\ op.at = "mkdirrow" /\ UNCHANGED <<upper, faults>> /\ Ended
        /\ rows'[p].kind = "mkdir" /\ RowsElse({p}) /\ op.name = "mkdir"
        /\ op.at \notin Odd /\ op'.at \notin Odd
    BY <1>0, <1>18, <2>0, MkdirRowDoes DEF OpInv, Ended, Odd, Renamed
  <2>2. Resolve(p)' = Directory /\ \A q \in Paths : q # p => Resolve(q)' = Resolve(q)
    BY <1>0, <2>1, Seen, SeenSame DEF RowsElse
  <2>3. \A q \in Paths : Tree'[q] = Resolve(q)' /\ Tree[q] = Resolve(q)
    BY <1>0, <2>1, TreeIs
  <2>4. Tree' = [Tree EXCEPT ![p] = WT!Directory]
    BY <2>2, <2>3, TreeChanged, SameNodes
  <2>5. ~Resolves(p) /\ Parent[p] \in Dirs
    BY <2>0, <2>1 DEF TreeInv, StageInv, NamesInv
  <2>6. WT!Mkdir(p)
    BY <1>0, <2>1, <2>4, <2>5, SameDirs DEF WT!Mkdir
  <2>. QED  BY <2>0, <2>1, <2>6, Performs, RequestFacts DEF Ended
<1>19. CASE OpFails
  <2>0. PICK p \in Paths : p = op.p
    BY <1>0
  <2>1. /\ UNCHANGED <<rows, upper>> /\ Ended /\ faults' = faults + 1
        /\ op.at \notin Renamed /\ op'.at \notin Odd
    BY <1>19, OpFailsDoes DEF Renamed, Ended, Odd
  <2>2. \A q \in Paths : Resolve(q)' = Resolve(q)
    BY <1>0, <2>1, SeenSame
  <2>3. \A q \in Paths :
            /\ Tree'[q] = Resolve(q)'
            /\ Tree[q] = IF Unlinked /\ q = p THEN Nothing ELSE Resolve(q)
    <3>1. Unlinked => op.at = "whiteout"
      BY DEF Unlinked
    <3>2. op.at \notin Odd \/ op.at = "writerow" \/ op.at = "whiteout"
      BY <2>1 DEF Odd
    <3>. QED  BY <1>0, <2>0, <2>1, <3>1, <3>2, TreeIs
  <2>4. CASE Unlinked
    <3>1. op.name = "unlink" /\ Live(p) /\ upper[p] = Nothing /\ p \in FilePaths
      BY <1>0, <2>0, <2>4 DEF Unlinked
    <3>2. Resolve(p) = Unreadable
      BY <3>1, FileSeen, Seen, NodeFacts
    <3>3. Tree' = [Tree EXCEPT ![p] = WT!Broken]
      BY <2>2, <2>3, <3>2, TreeChanged, SameNodes
    <3>4. Parent[p] \in Dirs
      BY <2>0, <3>1 DEF TreeInv, StageInv, NamesInv
    <3>5. WT!HalfUnlink(p)
      BY <1>0, <2>1, <2>4, <3>1, <3>3, <3>4, SameDirs, RequestFacts
         DEF WT!HalfUnlink, WT!Fails
    <3>6. Request' = WT!NoRequest
      BY <2>1, RequestFacts DEF Ended
    <3>. QED  BY <2>0, <3>5, <3>6, RequestFacts DEF WT!Next, WT!Spoil
  <2>5. CASE ~Unlinked
    <3>1. \A q \in Paths : Tree'[q] = Tree[q]
      BY <2>2, <2>3, <2>5
    <3>. QED  BY <1>0, <2>1, <3>1, Settles DEF Ended
  <2>. QED  BY <2>4, <2>5
<1>. QED
  BY <1>1, <1>2, <1>3, <1>4, <1>5, <1>6, <1>7, <1>8, <1>9, <1>10, <1>11, <1>12, <1>13,
     <1>14, <1>15, <1>16, <1>17, <1>18, <1>19 DEF OpStep

(* What an operation found when it began stays so.                          *)
LEMMA DirsStay ==
    ASSUME TypeInv, base' = base, \A d \in DirPaths : rows'[d].kind = rows[d].kind
    PROVE  /\ Dirs' = Dirs
           /\ \A d \in DirPaths : Resolves(d)' <=> Resolves(d)
<1>1. \A d \in DirPaths : Resolve(d)' = Resolve(d)
  BY DirSeen
<1>. QED  BY <1>1 DEF Dirs, Resolves

LEMMA NamesStay ==
    ASSUME TypeInv, NamesInv, Went(op'.at), base' = base,
           \A d \in DirPaths : rows'[d].kind = rows[d].kind,
           op.name \in {"create", "rmdir"} => \A p \in Paths : Resolve(p)' = Resolve(p)
    PROVE  NamesInv'
<1>1. Dirs' = Dirs /\ \A d \in DirPaths : Resolves(d)' <=> Resolves(d)
  BY DirsStay
<1>2. op'.name = op.name /\ op'.p = op.p /\ op'.q = op.q
  BY DEF Went
<1>3. /\ op.name \in {"create", "mkdir"} => op.p \in Paths
      /\ op.name = "mkdir" => op.p \in DirPaths
  BY BackingFacts DEF TypeInv, OpInv
<1>4. op.name \in {"create", "mkdir"} => ~Resolves(op.p)'
  <2>1. ASSUME NEW p \in Paths, p = op.p, op.name \in {"create", "mkdir"}
        PROVE  ~Resolves(p)'
    <3>1. ~Resolves(p)
      BY <2>1 DEF NamesInv
    <3>2. op.name = "create" => Resolve(p)' = Resolve(p)
      OBVIOUS
    <3>3. op.name = "mkdir" => (Resolves(p)' <=> Resolves(p))
      BY <1>1, <1>3, <2>1
    <3>. QED  BY <2>1, <3>1, <3>2, <3>3 DEF Resolves
  <2>. QED  BY <1>2, <1>3, <2>1
<1>5. op.name = "rmdir" => (\A c \in Children(op.p) : ~Resolves(c))'
  <2>1. Children(op.p)' = Children(op.p) /\ Children(op.p) \subseteq Paths
    BY <1>2 DEF Children
  <2>2. op.name = "rmdir" => \A c \in Children(op.p) : ~Resolves(c)
    BY DEF NamesInv
  <2>. QED  BY <2>1, <2>2 DEF Resolves
<1>. QED  BY <1>1, <1>2, <1>4, <1>5 DEF NamesInv

(* What users have open can still be written.                               *)
LEMMA MountedStays ==
    ASSUME TypeInv, TreeInv, OpStep
    PROVE  MountedInv'
<1>1. /\ UNCHANGED <<base, head, refresh, mounted>> /\ refresh.at = "idle" /\ mounted
  BY OpFacts DEF TreeInv, MountedInv, TypeInv, TypeOK
<1>2. former \subseteq Paths /\ \A p \in former : HasRow(p) \/ base[p] # Nothing
  BY SameStore DEF TreeInv, MountedInv, Startable
<1>. SUFFICES \A p \in former' : rows'[p].kind # "none" \/ base[p] # Nothing
  BY <1>1 DEF TreeInv, MountedInv, Startable, HasRow
<1>3. CASE \/ EnsureOverlay \/ CopyToTmp \/ CopyUp \/ CreateFile \/ GetRow \/ WriteAt
           \/ Truncate \/ RemoveFile \/ RenameFile \/ MkdirUpper \/ OpFails
  <2>1. rows' = rows /\ former' = former
    BY <1>3, EnsureDoes, CopyToTmpDoes, CopyUpDoes, CreateFileDoes, GetRowDoes,
       WriteAtDoes, TruncateDoes, RemoveFileDoes, RenameFileDoes, MkdirUpperDoes,
       OpFailsDoes
  <2>. QED  BY <1>2, <2>1 DEF HasRow
<1>4. CASE CopyUpRow \/ CreateFileRow \/ WriteRow \/ MkdirRow \/ UndoOld
  <2>1. /\ former' = former
        /\ rows' = rows \/ (rows'[op.p].kind # "none" /\ RowsElse({op.p}))
    BY <1>4, CopyUpRowDoes, CreateFileRowDoes, WriteRowDoes, MkdirRowDoes, UndoOldDoes
       DEF LiveKinds
  <2>. QED  BY <1>2, <2>1 DEF HasRow, RowsElse
<1>5. CASE Whiteout
  <2>1. /\ former' = former \cup {op.p} /\ rows'[op.p].kind = "delete" /\ RowsElse({op.p})
    BY <1>5, WhiteoutDoes
  <2>. QED  BY <1>2, <2>1 DEF HasRow, RowsElse
<1>6. CASE RenameRow
  <2>1. \/ rows' = rows /\ former' = former
        \/ /\ former' = former \cup {op.p} /\ RowsElse({op.p, op.q})
           /\ rows'[op.p].kind = "delete" /\ rows'[op.q].kind = "rename"
    BY <1>6, RenameRowDoes
  <2>. QED  BY <1>2, <2>1 DEF HasRow, RowsElse
<1>7. CASE UndoNew
  <2>1. /\ former' = former /\ (rows' = rows \/ RowsElse({op.q}))
        /\ op.q \in former => base[op.q] # Nothing
    BY <1>7, UndoNewDoes DEF TreeInv, StageInv
  <2>. QED  BY <1>2, <2>1 DEF HasRow, RowsElse
<1>. QED  BY <1>3, <1>4, <1>5, <1>6, <1>7 DEF OpStep

LEMMA OperationsKeepTree ==
    ASSUME TypeInv, TypeInv', TreeInv, OpStep
    PROVE  TreeInv'
<1>0. /\ op.p \in Paths /\ op.q \in Paths /\ base' = base
      /\ op.name \in {"write", "truncate", "create", "unlink", "rename"} =>
            op.p \in FilePaths /\ op.q \in FilePaths
      /\ op.name \in {"mkdir", "rmdir"} => op.p \in DirPaths
      /\ \A p \in FilePaths : p \in Paths /\ p \notin DirPaths
      /\ OpInv /\ OpInv' /\ StageInv /\ NamesInv /\ faults \in Nat
  BY OpFacts, BackingFacts, SameStore, Bounds DEF TypeInv, OpInv, TreeInv
<1>. SUFFICES StageInv' /\ NamesInv'
  BY MountedStays DEF TreeInv
<1>a. ASSUME Ended PROVE StageInv' /\ NamesInv'
  BY <1>a DEF Ended, StageInv, NamesInv, Renamed
<1>b. \A d \in DirPaths : d \in Paths /\ d \notin FilePaths
  BY BackingFacts
<1>1. CASE EnsureOverlay
  <2>1. /\ op.at = "ensure" /\ UNCHANGED <<rows, upper>> /\ faults' \in {faults, faults + 1}
        /\ op.name \in {"write", "truncate", "rename"}
        /\ \/ Ended
           \/ Went(op'.at) /\ op'.at \in {"truncate", "get"}
           \/ Went("copy") /\ op'.blob = base[op.p]
           \/ /\ Went("create") /\ op.name = "write" /\ faults' = faults + 1
              /\ ~HasRow(op.p) /\ base[op.p] \in Files
    BY <1>0, <1>1, EnsureDoes DEF Promotes, Missed, OpInv, StageInv, Startable, Went
  <2>2. ~Ended => Went(op'.at)
    BY <2>1 DEF Went
  <2>3. ~Ended => NamesInv'
    BY <1>0, <2>1, <2>2, NamesStay
  <2>4. ~Ended => StageInv'
    BY <1>0, <2>1 DEF StageInv, Went, Renamed, HasRow
  <2>. QED  BY <1>a, <2>3, <2>4
<1>2. CASE CopyToTmp
  <2>1. /\ op.at = "copy" /\ rows' = rows /\ op.name \in {"write", "truncate", "rename"}
        /\ \/ Ended
           \/ /\ Went("move") /\ op'.blob = op.blob
              /\ \/ upper'[TmpOf[op.p]] = op.blob
                 \/ upper'[TmpOf[op.p]] = File({}) /\ faults' = faults + 1
    BY <1>0, <1>2, CopyToTmpDoes DEF OpInv
  <2>2. ~Ended => Went(op'.at)
    BY <2>1 DEF Went
  <2>3. ~Ended => NamesInv'
    BY <1>0, <2>1, <2>2, NamesStay
  <2>4. ~Ended => StageInv'
    <3>1. ~Ended => CopyOf(upper[TmpOf[op.p]], op.blob)'
      BY <1>0, <2>1 DEF CopyOf, Went, File
    <3>. QED  BY <1>0, <2>1, <3>1 DEF StageInv, Went, Renamed
  <2>. QED  BY <1>a, <2>3, <2>4
<1>3. CASE CopyUp
  <2>1. upper[TmpOf[op.p]] # Nothing
    <3>1. op.blob \in Files /\ CopyOf(upper[TmpOf[op.p]], op.blob)
      BY <1>0, <1>3, CopyUpDoes DEF OpInv, StageInv
    <3>. QED  BY <3>1, NodeFacts, FileFacts DEF CopyOf
  <2>2. /\ op.at = "move" /\ rows' = rows /\ op.name \in {"write", "truncate", "rename"}
        /\ upper'[op.p] = upper[TmpOf[op.p]] /\ Went("copyrow") /\ op'.blob = op.blob
        /\ faults' = faults
    BY <1>0, <1>3, <2>1, CopyUpDoes DEF OpInv
  <2>3. NamesInv'
    BY <1>0, <2>2, NamesStay DEF Went
  <2>4. CopyOf(upper[op.p], op.blob)'
    BY <1>0, <2>2 DEF CopyOf, Went, StageInv, File
  <2>. QED  BY <1>0, <2>2, <2>3, <2>4 DEF StageInv, Went, Renamed
<1>4. CASE CopyUpRow
  <2>1. upper[op.p] # Nothing
    <3>1. op.blob \in Files /\ CopyOf(upper[op.p], op.blob)
      BY <1>0, <1>4, CopyUpRowDoes DEF OpInv, StageInv
    <3>. QED  BY <3>1, NodeFacts, FileFacts DEF CopyOf
  <2>2. /\ RowsElse({op.p}) /\ op.name \in {"write", "truncate", "rename"}
        /\ op'.at \in {"truncate", "get"} /\ Went(op'.at)
    BY <1>0, <1>4, <2>1, CopyUpRowDoes DEF OpInv, Promotes, Went
  <2>3. NamesInv'
    BY <1>0, <1>b, <2>2, NamesStay DEF RowsElse
  <2>. QED  BY <2>2, <2>3 DEF StageInv, Renamed
<1>5. CASE CreateFile
  <2>1. /\ op.at = "create" /\ rows' = rows /\ faults' = faults /\ op.p \in FilePaths
        /\ upper'[op.p] = File({}) /\ FilesElse({op.p}) /\ Went("createrow")
    BY <1>5, CreateFileDoes
  <2>2. op.name = "create" => \A p \in Paths : Resolve(p)' = Resolve(p)
    <3>1. op.name = "create" => ~Live(op.p)
      BY <1>0, <2>1, FileSeen, Seen DEF NamesInv, Resolves
    <3>2. \A p \in Paths : p # op.p => upper'[p] = upper[p]
      BY <2>1, BackingFacts DEF FilesElse
    <3>. QED  BY <1>0, <2>1, <3>1, <3>2, SeenSame
  <2>3. NamesInv'
    <3>1. op.name \in {"create", "write"}
      BY <1>0, <2>1 DEF OpInv
    <3>. QED  BY <1>0, <2>1, <2>2, <3>1, NamesStay DEF Went
  <2>4. upper[op.p]' = File({})
    BY <2>1 DEF Went
  <2>. QED  BY <1>0, <2>1, <2>3, <2>4 DEF StageInv, Went, Renamed, HasRow, File
<1>6. CASE CreateFileRow
  <2>1. /\ RowsElse({op.p}) /\ op.name \in {"create", "write"}
        /\ \/ Ended
           \/ Went("get") /\ op.name = "write"
    BY <1>0, <1>6, CreateFileRowDoes DEF OpInv
  <2>2. ~Ended => NamesInv'
    BY <1>0, <1>b, <2>1, NamesStay DEF RowsElse, Went
  <2>. QED  BY <1>a, <2>1, <2>2 DEF StageInv, Went, Renamed
<1>7. CASE GetRow
  <2>1. /\ op.at = "get" /\ UNCHANGED <<rows, upper>> /\ op.name \in {"write", "rename"}
        /\ \/ Ended
           \/ Live(op.p) /\ Went(op'.at) /\ op'.at \in {"writeat", "renamerow"}
    BY <1>0, <1>7, GetRowDoes DEF OpInv, Went
  <2>2. ~Ended => NamesInv'
    BY <1>0, <2>1, NamesStay
  <2>3. ~Ended => StageInv'
    BY <2>1 DEF StageInv, Went, Renamed, Live, HasRow, IsDeleted
  <2>. QED  BY <1>a, <2>2, <2>3
<1>8. CASE WriteAt
  <2>1. /\ op.at = "writeat" /\ rows' = rows /\ op.name = "write" /\ Live(op.p)
        /\ Went("writerow") \/ Ended
    BY <1>0, <1>8, WriteAtDoes DEF StageInv
  <2>2. ~Ended => NamesInv'
    BY <1>0, <2>1, NamesStay DEF Went
  <2>3. ~Ended => StageInv'
    BY <2>1 DEF StageInv, Went, Renamed, Live, HasRow, IsDeleted
  <2>. QED  BY <1>a, <2>2, <2>3
<1>9. CASE WriteRow \/ Truncate \/ Whiteout \/ UndoOld \/ MkdirRow \/ OpFails
  BY <1>9, <1>a, WriteRowDoes, TruncateDoes, WhiteoutDoes, UndoOldDoes, MkdirRowDoes,
     OpFailsDoes
<1>10. CASE RemoveFile
  <2>0. PICK p \in Paths : p = op.p
    BY <1>0
  <2>1. /\ op.at = "remove" /\ rows' = rows /\ Went("whiteout") /\ p \in Backing
        /\ FilesElse({p}) /\ op.name \in {"unlink", "rmdir"} /\ Resolves(p)
        /\ upper' = upper \/ (upper'[p] = Nothing /\ Live(p))
    BY <1>0, <1>10, <2>0, RemoveFileDoes DEF OpInv, StageInv
  <2>2. op.name = "rmdir" \/ upper' = upper => \A q \in Paths : Resolve(q)' = Resolve(q)
    <3>1. \A q \in Paths : q # p => upper'[q] = upper[q]
      BY <2>1, BackingFacts DEF FilesElse
    <3>2. op.name = "rmdir" => p \in DirPaths
      BY <1>0, <2>0
    <3>. QED  BY <1>0, <2>1, <3>1, <3>2, SeenSame
  <2>3. NamesInv'
    BY <1>0, <2>1, <2>2, NamesStay DEF Went
  <2>4. Unlinked' \/ Resolves(op.p)'
    <3>1. CASE op.name = "rmdir" \/ upper' = upper
      <4>1. Resolves(p)'
        BY <2>1, <2>2, <3>1 DEF Resolves
      <4>. QED  BY <2>0, <2>1, <4>1 DEF Went
    <3>2. CASE op.name = "unlink" /\ upper'[p] = Nothing /\ Live(p)
      BY <2>0, <2>1, <3>2 DEF Unlinked, Went, Live, HasRow, IsDeleted
    <3>. QED  BY <2>1, <3>1, <3>2
  <2>. QED  BY <2>1, <2>3, <2>4 DEF StageInv, Went, Renamed
<1>11. CASE RenameRow
  <2>1. /\ op.name = "rename"
        /\ \/ Ended
           \/ /\ ~HasRow(op.q) /\ Went("renamefile") /\ RowsElse({op.p, op.q})
              /\ rows'[op.q].kind = "rename" /\ rows'[op.p].kind = "delete"
              /\ former' = former \cup {op.p} /\ op.p # op.q
    BY <1>0, <1>11, RenameRowDoes DEF OpInv, Renaming
  <2>2. ~Ended => NamesInv'
    BY <1>0, <1>b, <2>1, NamesStay DEF RowsElse, Went
  <2>3. ~Ended => (op.q \in former' => base[op.q] # Nothing)
    BY <2>1 DEF TreeInv, MountedInv, Startable
  <2>4. ~Ended => StageInv'
    BY <1>0, <2>1, <2>3 DEF StageInv, Went, Renamed, IsDeleted
  <2>. QED  BY <1>a, <2>2, <2>4
<1>12. CASE RenameFile
  <2>1. /\ op.at = "renamefile" /\ UNCHANGED <<rows, former>> /\ op.name = "rename"
        /\ Ended \/ Went("undonew")
    BY <1>0, <1>12, RenameFileDoes DEF OpInv, Renaming
  <2>2. ~Ended => NamesInv'
    BY <1>0, <2>1, NamesStay DEF Went
  <2>3. ~Ended => StageInv'
    BY <1>0, <2>1 DEF StageInv, Went, Renamed, IsDeleted
  <2>. QED  BY <1>a, <2>2, <2>3
<1>13. CASE UndoNew
  <2>1. /\ op.at = "undonew" /\ op.name = "rename" /\ Went("undoold") /\ op.p # op.q
        /\ RowsElse({op.q})
    BY <1>0, <1>13, UndoNewDoes DEF OpInv, Renaming, RowsElse
  <2>2. NamesInv'
    BY <1>0, <1>b, <2>1, NamesStay DEF RowsElse, Went
  <2>. QED  BY <1>0, <2>1, <2>2 DEF StageInv, Went, Renamed, IsDeleted, RowsElse
<1>14. CASE MkdirUpper
  <2>1. /\ op.at = "mkdir" /\ rows' = rows /\ op.name = "mkdir" /\ Went("mkdirrow")
    BY <1>0, <1>14, MkdirUpperDoes DEF OpInv
  <2>2. NamesInv'
    BY <1>0, <2>1, NamesStay DEF Went
  <2>. QED  BY <2>1, <2>2 DEF StageInv, Went, Renamed
<1>. QED
  BY <1>1, <1>2, <1>3, <1>4, <1>5, <1>6, <1>7, <1>8, <1>9, <1>10, <1>11, <1>12, <1>13,
     <1>14 DEF OpStep

(* A directory that lists nothing has nothing in it.                        *)
LEMMA EmptyDirectory ==
    ASSUME TypeInv, NEW d, Readdir(d) = {}, NEW c \in Children(d)
    PROVE  ~Resolves(c)
<1>1. c \in Paths /\ ListedType(c) = "none"
  BY DEF Readdir, Children
<1>. DEFINE below == {e \in Paths : HasRow(e) /\ (e = c \/ c \in Above[e])}
            last == CHOOSE e \in below : \A f \in below : Rank[f] <= Rank[e]
<1>2. CASE IsDeleted(c)
  BY <1>1, <1>2, Seen, NodeFacts DEF Resolves, IsDeleted
<1>3. CASE ~IsDeleted(c) /\ below # {}
  <2>1. ListedType(c) = NodeType(rows[last])
    BY <1>3 DEF ListedType
  <2>. QED  BY <1>1, <2>1 DEF NodeType
<1>4. CASE ~IsDeleted(c) /\ below = {}
  <2>1. ListedType(c) = base[c].type
    BY <1>4 DEF ListedType
  <2>2. ~HasRow(c)
    BY <1>1, <1>4
  <2>. QED  BY <1>1, <2>1, <2>2, Seen DEF Resolves, HasRow
<1>. QED  BY <1>2, <1>3, <1>4

LEMMA BeginsAsk ==
    ASSUME MountInv, OpInv', NEW name, NEW p \in Paths, NEW q \in Paths,
           NEW at \in {"ensure", "create", "mkdir", "remove"}, Begin(name, p, q, at),
           \/ /\ p \in FilePaths /\ q = p /\ Opened(p)
              /\ name \in {"write", "truncate"} /\ at = "ensure"
           \/ /\ p \in FilePaths /\ q \in FilePaths /\ p # q /\ Resolves(p)
              /\ Parent[q] \in Dirs /\ name = "rename" /\ at = "ensure"
           \/ /\ p \in FilePaths /\ q = p /\ ~Resolves(p) /\ Parent[p] \in Dirs
              /\ name = "create" /\ at = "create"
           \/ /\ p \in FilePaths /\ q = p /\ Resolves(p) /\ Parent[p] \in Dirs
              /\ name = "unlink" /\ at = "remove"
           \/ /\ p \in DirPaths /\ q = p /\ ~Resolves(p) /\ Parent[p] \in Dirs
              /\ name = "mkdir" /\ at = "mkdir"
           \/ /\ p \in DirPaths /\ q = p /\ Resolves(p) /\ Readdir(p) = {}
              /\ name = "rmdir" /\ at = "remove"
    PROVE  TreeInv' /\ [WT!Next]_(WT!treeVars)
<1>1. /\ UNCHANGED <<rows, upper, base, head, mounted, former, faults>> /\ Idle /\ mounted
  BY DEF Begin, Count, storeVars, gitVars, histVars
<1>2. op'.at = at /\ op'.name = name /\ op'.p = p /\ op'.q = q /\ op = NoOp
  <2>1. at \in Stages
    BY DEF Stages
  <2>2. op = NoOp
    BY <1>1 DEF MountInv, CleanInv, TypeInv, TypeOK, OpTyped
  <2>. QED  BY <2>1, <2>2, BeginTyped
<1>3. TypeInv /\ OpInv /\ MountedInv /\ refresh.at = "idle" /\ refresh.clean /\ head = base
  BY <1>1 DEF MountInv, CleanInv, TypeInv, TreeInv, MountedInv
<1>4. refresh'.at = "idle" /\ refresh'.clean
  <2>1. refresh \in RefreshRecords
    BY <1>3 DEF TypeInv, TypeOK, RefreshTyped, RefreshRecords
  <2>2. refresh' = [refresh EXCEPT !.clean = @ /\ refresh.at = "idle"]
    BY DEF Begin, Count
  <2>. QED  BY <1>3, <2>1, <2>2 DEF RefreshRecords
<1>5. \A r \in Paths : Resolve(r)' = Resolve(r)
  BY <1>1, ResolveSame
<1>6. Dirs' = Dirs /\ \A r \in Paths : Resolves(r)' <=> Resolves(r)
  BY <1>5, BackingFacts DEF Dirs, Resolves
<1>7. MountedInv'
  BY <1>1, <1>3, <1>4 DEF MountedInv, Startable, HasRow
<1>8. StageInv'
  <2>1. Opened(p) => Startable(p)
    <3>1. Resolves(p) => Startable(p)
      BY Seen, NodeFacts DEF Resolves, Startable, HasRow
    <3>. QED  BY <1>3, <3>1 DEF Opened, MountedInv
  <2>2. at = "ensure" => Startable(op.p)'
    <3>1. at = "ensure" => Startable(p)
      BY <2>1 DEF Opened
    <3>. QED  BY <1>1, <1>2, <3>1 DEF Startable, HasRow
  <2>3. at = "remove" => Resolves(op.p)'
    <3>1. at = "remove" => Resolves(p)'
      BY <1>6
    <3>. QED  BY <1>2, <3>1 DEF Resolves
  <2>. QED  BY <1>2, <2>2, <2>3 DEF StageInv, Renamed
<1>9. NamesInv'
  <2>1. name = "rmdir" => \A c \in Children(p) : ~Resolves(c)
    BY <1>3, EmptyDirectory
  <2>2. Children(op.p)' = Children(p) /\ Children(p) \subseteq Paths
    BY <1>2 DEF Children
  <2>3. op'.name = "rmdir" => (\A c \in Children(op.p) : ~Resolves(c))'
    BY <1>2, <1>6, <2>1, <2>2
  <2>4. op'.name \in {"create", "mkdir"} => ~Resolves(op.p)'
    <3>1. name \in {"create", "mkdir"} => ~Resolves(p)'
      BY <1>6
    <3>. QED  BY <1>2, <3>1 DEF Resolves
  <2>. QED  BY <1>2, <1>6, <2>3, <2>4 DEF NamesInv
<1>10. op.at \notin Odd /\ op'.at \notin Odd
  BY <1>1, <1>2 DEF Idle, Odd, Renamed
<1>11. \A r \in Paths : Tree'[r] = Tree[r]
  BY <1>3, <1>5, <1>10, TreeIs
<1>12. Tree' = Tree /\ Request = WT!NoRequest /\ Request' = WT!Request(name, p, q)
  BY <1>2, <1>10, <1>11, TreeSame, RequestFacts
<1>13. WT!Ask
  BY <1>1, <1>12, SameNodes DEF WT!Ask
<1>. QED  BY <1>7, <1>8, <1>9, <1>13 DEF TreeInv, WT!Next

(* A step of git, or of touch.                                              *)
LEMMA OthersStutter ==
    ASSUME MountInv, OpInv', UNCHANGED <<upper, base, head, op, mounted, former, faults>>,
           \A p \in Paths : rows'[p].kind = rows[p].kind,
           refresh'.clean, refresh'.at = refresh.at, refresh'.new = refresh.new
    PROVE  TreeInv' /\ [WT!Next]_(WT!treeVars)
<1>0. TypeInv /\ OpInv /\ MountedInv /\ StageInv /\ NamesInv
  BY DEF MountInv, CleanInv, TypeInv, TreeInv
<1>1. \A p \in Paths : Resolve(p)' = Resolve(p) /\ (Resolves(p)' <=> Resolves(p))
  BY ResolveSame DEF Resolves
<1>2. Dirs' = Dirs
  BY <1>1, BackingFacts DEF Dirs
<1>3. /\ ~Idle => op.p \in Paths /\ op.q \in Paths
      /\ op.name # "none" => ~Idle
  BY <1>0, OpPaths, NoOpTyped DEF TypeInv, TypeOK, OpTyped
<1>4. \A p \in Paths : /\ Live(p)' <=> Live(p)
                       /\ IsDeleted(p)' <=> IsDeleted(p)
                       /\ HasRow(p)' <=> HasRow(p)
                       /\ Startable(p)' <=> Startable(p)
  BY DEF Live, HasRow, IsDeleted, Startable
<1>5. ~Idle => /\ Resolves(op.p)' <=> Resolves(op.p)
               /\ Live(op.p)' <=> Live(op.p)
               /\ IsDeleted(op.p)' <=> IsDeleted(op.p)
               /\ HasRow(op.p)' <=> HasRow(op.p)
               /\ Startable(op.p)' <=> Startable(op.p)
               /\ rows'[op.q].kind = rows[op.q].kind
  BY <1>1, <1>3, <1>4
<1>6. Unlinked' <=> Unlinked
  BY <1>5 DEF Unlinked, Idle
<1>7. MountedInv'
  BY <1>0, <1>4, SameStore DEF MountedInv
<1>8. StageInv'
  BY <1>0, <1>5, <1>6 DEF StageInv, Idle, CopyOf, File, Renamed
<1>9. NamesInv'
  <2>1. (\A c \in Children(op.p) : ~Resolves(c))' <=> \A c \in Children(op.p) : ~Resolves(c)
    <3>1. Children(op.p)' = Children(op.p) /\ Children(op.p) \subseteq Paths
      BY DEF Children
    <3>. QED  BY <1>1, <3>1
  <2>. QED  BY <1>0, <1>2, <1>3, <1>5, <2>1 DEF NamesInv
<1>10. \A p \in Paths : Tree'[p] = Tree[p]
  <2>1. op.at \in Renamed => op.p \in FilePaths
    BY <1>0 DEF OpInv, Renaming, Renamed
  <2>2. \A p \in FilePaths : FileAt(p)' = FileAt(p)
    BY DEF FileAt
  <2>. QED  BY <1>1, <1>6, <2>1, <2>2 DEF Tree, Renamed
<1>11. Request' = Request
  BY <1>6 DEF Request
<1>12. Tree' = Tree
  BY <1>10, TreeSame
<1>. QED  BY <1>7, <1>8, <1>9, <1>11, <1>12 DEF TreeInv, WT!treeVars

(* While nothing is mounted, and when the daemon dies.                      *)
LEMMA NothingRuns ==
    ASSUME op' = NoOp, base' = base, head' = base, refresh'.clean, former' = {},
           refresh'.at # "idle" => ~mounted' /\ refresh'.new = base
    PROVE  TreeInv'
<1>1. op'.at = "idle" /\ op'.name = "none"
  BY NoOpTyped
<1>. QED  BY <1>1 DEF TreeInv, MountedInv, StageInv, NamesInv, Renamed

LEMMA UnmountedStutters ==
    ASSUME MountInv, OpInv', ~mounted, op' = op, base' = base, head' = head,
           refresh'.clean, former' = {}, faults' \in {faults, faults + 1},
           refresh'.at # "idle" => ~mounted' /\ refresh'.new = base,
           \A p \in Paths : Resolve(p)' = Resolve(p)
    PROVE  TreeInv' /\ [WT!Next]_(WT!treeVars)
<1>1. op = NoOp /\ head = base /\ OpInv
  BY DEF MountInv, CleanInv, TypeInv, TypeOK, OpTyped, TreeInv, MountedInv
<1>2. op.at \notin Odd
  BY <1>1, NoOpTyped DEF Odd, Renamed
<1>3. Tree' = Tree
  BY <1>1, <1>2, TreeIs, TreeSame
<1>4. Request' = Request
  BY <1>1, RequestFacts
<1>. QED
  BY <1>1, <1>3, <1>4, NothingRuns DEF WT!Next, WT!Fail, WT!Fails, WT!treeVars

(* The rows that the next mount reads are about its base.                   *)
RowsOfBase == ~mounted => \A p \in Paths : OfBase(p, rows[p])

(* Mounting again changes nothing of what is seen: the rows that Reconcile  *)
(* drops, if each is about the base, say what the base does.                *)
LEMMA MountsAgain ==
    ASSUME MountInv, OpInv', RowsOfBase, RefreshStep, mounted \/ "lookup fails" \notin Faults
    PROVE  TreeInv' /\ [WT!Next]_(WT!treeVars)
<1>. USE DEF storeVars, gitVars, runVars, histVars
<1>0. TypeInv /\ RefreshInv /\ MountedInv
  BY DEF MountInv, CleanInv, TreeInv
<1>1. /\ ~mounted /\ Idle /\ head = base /\ refresh.clean /\ former = {}
      /\ refresh.at # "idle" => refresh.new = base
      /\ refresh \in RefreshRecords /\ "lookup fails" \notin Faults
  <2>1. ~mounted
    BY <1>0 DEF MountedInv, RefreshStep, Publish, ReconcileQuery, ReconcileCommit,
                ReconcileCleanup, ReconcileFails, Switch
  <2>. QED
    BY <1>0, <2>1 DEF MountedInv, TypeInv, TypeOK, RefreshTyped, RefreshRecords
<1>2. Passed = {}
  BY <1>1 DEF Passed
<1>3. CASE Publish
  <2>1. /\ refresh' = [refresh EXCEPT !.at = "query", !.new = head, !.read = rows,
                                      !.clean = @ /\ Idle, !.seen = View]
        /\ UNCHANGED <<rows, upper, base, head, op, mounted, former, faults>>
    BY <1>3 DEF Publish
  <2>2. refresh'.clean /\ refresh'.new = base
    BY <1>1, <2>1 DEF RefreshRecords
  <2>. QED  BY <1>1, <2>1, <2>2, ResolveSame, UnmountedStutters
<1>4. CASE ReconcileQuery
  <2>1. /\ Decide(refresh.new, refresh.clean) /\ refresh.new = base
        /\ UNCHANGED <<rows, upper, base, head, op, mounted, former, faults>>
    BY <1>1, <1>4 DEF ReconcileQuery, Fault
  <2>2. PICK stale \in SUBSET Paths :
            refresh' = [refresh EXCEPT !.at = IF stale = {} THEN "switch" ELSE "commit",
                                       !.stale = stale, !.read = rows,
                                       !.clean = refresh.clean]
    BY <2>1 DEF Decide
  <2>3. refresh'.clean /\ refresh'.new = base
    BY <1>1, <2>1, <2>2 DEF RefreshRecords
  <2>. QED  BY <1>1, <2>1, <2>3, ResolveSame, UnmountedStutters
<1>5. CASE ReconcileCommit
  <2>1. /\ refresh.at = "commit" /\ refresh.new = base /\ former' = {}
        /\ refresh' = [refresh EXCEPT !.at = "cleanup"]
        /\ UNCHANGED <<upper, base, head, op, mounted, faults>>
    BY <1>1, <1>2, <1>5 DEF ReconcileCommit
  <2>2. refresh'.clean /\ refresh'.new = base
    BY <1>1, <2>1 DEF RefreshRecords
  <2>. DEFINE kept == [p \in Paths |->
                  IF p \in refresh.stale /\ Unchanged(p) THEN NoRow ELSE rows[p]]
  <2>3. rows \in [Paths -> Rows] /\ kept \in [Paths -> Rows]
    BY <1>0, SameStore, RowFacts
  <2>4. rows' = Untouched(kept)
    BY <1>5 DEF ReconcileCommit
  <2>5. ASSUME NEW p \in Paths PROVE Resolve(p)' = Resolve(p)
    <3>1. rows'[p].kind = kept[p].kind
      BY <2>3, <2>4, UntouchedTyped
    <3>2. CASE kept[p] = rows[p]
      BY <2>1, <3>1, <3>2, ResolveSame
    <3>3. CASE p \in refresh.stale /\ Unchanged(p)
      <4>1. Stale(rows[p], base[p])
        BY <1>0, <1>1, <2>1, <3>3 DEF RefreshInv, Unchanged, Stale
      <4>2. OfBase(p, rows[p])
        BY <1>1 DEF RowsOfBase
      <4>3. base[p] \in Nodes /\ rows[p].kind \in RowKinds
        BY <1>0, <2>3, SameStore, TreeFacts, RowFacts
      <4>4. \/ rows[p].kind = "delete" /\ base[p] = Nothing
            \/ rows[p].kind = "mkdir" /\ base[p] = Directory
        BY <4>1, <4>2, <4>3, NodeFacts DEF Stale, OfBase, RowKinds
      <4>5. rows'[p].kind = "none"
        BY <3>1, <3>3, RowFacts
      <4>6. Resolve(p)' = base[p]
        BY <2>1, <4>5, Seen
      <4>. QED  BY <4>4, <4>6, Seen
    <3>. QED  BY <3>2, <3>3
  <2>. HIDE DEF kept
  <2>. QED  BY <1>1, <2>1, <2>2, <2>5, UnmountedStutters
<1>6. CASE ReconcileCleanup
  <2>1. PICK p \in refresh.stale :
            /\ upper' = upper \/ upper' = Removed(p)
            /\ faults' \in {faults, faults + 1}
            /\ refresh' = [refresh EXCEPT
                              !.stale = @ \ {p},
                              !.at = IF refresh.stale = {p} THEN "switch" ELSE "cleanup"]
    BY <1>6 DEF ReconcileCleanup, Fault
  <2>2. /\ refresh.at = "cleanup" /\ refresh.new = base
        /\ UNCHANGED <<rows, base, head, op, mounted, former>>
    BY <1>1, <1>6 DEF ReconcileCleanup
  <2>3. refresh'.clean /\ refresh'.new = base
    BY <1>1, <2>1, <2>2 DEF RefreshRecords
  <2>4. p \in Paths /\ ~HasRow(p)
    BY <1>0, <1>1, <2>2 DEF RefreshInv, RefreshRecords
  <2>5. \A q \in Paths : q # p => upper'[q] = upper[q]
    <3>1. upper \in Uppers
      BY <1>0, SameStore
    <3>2. \A q \in Paths : q # p => Removed(p)[q] = upper[q]
      BY <2>4, <3>1, RemovedTyped, BackingFacts
    <3>. QED  BY <2>1, <3>2
  <2>6. \A q \in Paths : Resolve(q)' = Resolve(q)
    BY <2>2, <2>4, <2>5, ResolveSame DEF HasRow
  <2>. QED  BY <1>1, <2>1, <2>2, <2>3, <2>6, UnmountedStutters
<1>7. CASE ReconcileFails
  <2>1. /\ rows' = Untouched(rows) /\ UNCHANGED <<upper, base, head, op, mounted, former>>
        /\ refresh' = [refresh EXCEPT !.at = IF mounted THEN "switch" ELSE "idle",
                                      !.stale = {}]
        /\ faults' = faults + 1
    BY <1>7 DEF ReconcileFails, Fault
  <2>2. refresh'.clean /\ refresh'.at = "idle"
    BY <1>1, <2>1 DEF RefreshRecords
  <2>3. \A p \in Paths : rows'[p].kind = rows[p].kind
    BY <1>0, <2>1, SameStore, UntouchedTyped
  <2>. QED  BY <1>1, <2>1, <2>2, <2>3, ResolveSame, UnmountedStutters
<1>8. CASE Switch
  <2>1. /\ refresh.at = "switch" /\ base' = refresh.new /\ former' = {}
        /\ refresh' = NoRefresh(refresh.clean) /\ faults' \in {faults, faults + 1}
        /\ UNCHANGED <<rows, upper, head, op>>
    BY <1>2, <1>8 DEF Switch, Fault
  <2>2. refresh'.clean /\ refresh'.at = "idle" /\ base' = base
    BY <1>1, <2>1, NoRefreshTyped
  <2>. QED  BY <1>1, <2>1, <2>2, ResolveSame, UnmountedStutters
<1>. QED
  BY <1>3, <1>4, <1>5, <1>6, <1>7, <1>8 DEF RefreshStep

(* A crash leaves of an operation what a failure would.                     *)
LEMMA CrashesFail ==
    ASSUME MountInv, OpInv', Crash
    PROVE  TreeInv' /\ [WT!Next]_(WT!treeVars)
<1>1. /\ rows' = Untouched(rows) /\ UNCHANGED <<upper, base, head>> /\ op' = NoOp
      /\ refresh' = NoRefresh(refresh.clean) /\ former' = {} /\ faults' = faults + 1
  BY DEF Crash, gitVars, Fault
<1>2. TypeInv /\ OpInv /\ StageInv /\ NamesInv /\ refresh.clean /\ head = base
  BY DEF MountInv, CleanInv, TypeInv, TreeInv, MountedInv
<1>3. refresh'.clean /\ refresh'.at = "idle"
  BY <1>1, <1>2, NoRefreshTyped
<1>4. TreeInv'
  BY <1>1, <1>2, <1>3, NothingRuns
<1>5. \A p \in Paths : rows'[p].kind = rows[p].kind /\ Resolve(p)' = Resolve(p)
  <2>1. \A p \in Paths : rows'[p].kind = rows[p].kind
    BY <1>1, <1>2, SameStore, UntouchedTyped
  <2>. QED  BY <1>1, <2>1, ResolveSame
<1>6. \A p \in Paths : Tree'[p] = Resolve(p)
  <2>1. op'.at \notin Odd
    BY <1>1, NoOpTyped DEF Odd, Renamed
  <2>. QED  BY <1>2, <1>5, <2>1, TreeIs
<1>7. Request' = WT!NoRequest
  BY <1>1, RequestFacts
<1>8. CASE ~Unlinked /\ op.at \notin Renamed
  <2>1. \A p \in Paths : Tree'[p] = Tree[p]
    BY <1>2, <1>6, <1>8, TreeIs DEF Odd
  <2>2. CASE op.name = "none"
    <3>1. op = NoOp
      BY <1>2, <2>2, OpNamed DEF TypeInv, TypeOK, OpTyped
    <3>2. Request' = Request
      BY <1>7, <3>1, RequestFacts
    <3>. QED  BY <1>1, <1>4, <2>1, <3>2, TreeSame DEF WT!Next, WT!Fail, WT!Fails
  <2>3. CASE op.name # "none"
    BY <1>1, <1>4, <2>1, <2>3, Settles
  <2>. QED  BY <2>2, <2>3
<1>9. CASE Unlinked
  <2>0. ~Idle
    BY <1>9 DEF Unlinked, Idle
  <2>1. PICK p \in FilePaths : p = op.p
    BY <1>2, <1>9 DEF OpInv, Unlinked
  <2>2. op.name = "unlink" /\ Live(p) /\ upper[p] = Nothing /\ p \in Paths
    BY <1>9, <2>1, BackingFacts DEF Unlinked
  <2>3. Resolve(p) = Unreadable
    BY <1>2, <2>2, FileSeen, Seen, NodeFacts
  <2>4. \A q \in Paths : Tree[q] = IF q = p THEN Nothing ELSE Resolve(q)
    BY <1>2, <1>9, <2>1, TreeIs DEF Unlinked
  <2>5. Tree' = [Tree EXCEPT ![p] = WT!Broken]
    BY <1>6, <2>2, <2>3, <2>4, TreeChanged, SameNodes
  <2>6. WT!HalfUnlink(p)
    BY <1>1, <1>2, <1>9, <2>1, <2>2, <2>5, SameDirs, RequestFacts
       DEF WT!HalfUnlink, WT!Fails, NamesInv
  <2>. QED  BY <1>4, <1>7, <2>1, <2>6, RequestFacts DEF WT!Next, WT!Spoil
<1>10. CASE op.at \in Renamed
  <2>1. PICK p \in FilePaths, q \in FilePaths : p = op.p /\ q = op.q /\ p # q
    BY <1>2, <1>10 DEF OpInv, Renaming, Renamed
  <2>2. op.name = "rename" /\ rows[p].kind = "delete" /\ Parent[q] \in Dirs
    BY <1>2, <1>10, <2>1 DEF OpInv, Renaming, Renamed, StageInv, NamesInv, IsDeleted
  <2>3. p \in Paths /\ q \in Paths
    BY BackingFacts
  <2>4. \A r \in Paths : Tree[r] = IF r = p THEN FileAt(r)
                                   ELSE IF r = q /\ op.at # "undoold" THEN base[r]
                                   ELSE Resolve(r)
    BY <1>2, <1>10, <2>1, TreeIs
  <2>5. Tree'[p] = WT!Nothing
    BY <1>6, <2>2, <2>3, Seen, SameNodes
  <2>6. Tree'[q] = Tree[q] \/ Tree'[q] = WT!Broken \/ WT!IsFile(Tree'[q])
    <3>1. CASE op.at = "undoold"
      BY <1>6, <2>1, <2>3, <2>4, <3>1
    <3>2. CASE op.at \in {"renamefile", "undonew"}
      <4>1. rows[q].kind = "rename"
        BY <1>2, <2>1, <3>2 DEF StageInv
      <4>2. Tree'[q] = FileAt(q)
        BY <1>6, <2>3, <4>1, Seen DEF LiveKinds
      <4>. QED  BY <1>2, <4>2, FileSeen, SameNodes
    <3>. QED  BY <1>10, <3>1, <3>2 DEF Renamed
  <2>7. Tree' = [Tree EXCEPT ![p] = Tree'[p], ![q] = Tree'[q]]
    <3>1. \A r \in Paths : r # p /\ r # q => Tree'[r] = Tree[r]
      BY <1>6, <2>4
    <3>. QED  BY <2>1, <2>3, <3>1, TreeMoved
  <2>8. WT!HalfRename(p, q)
    BY <1>1, <1>2, <2>2, <2>5, <2>6, <2>7, SameDirs, RequestFacts
       DEF WT!HalfRename, WT!Fails
  <2>. QED  BY <1>4, <1>7, <2>1, <2>8, RequestFacts DEF WT!Next, WT!Spoil
<1>. QED  BY <1>8, <1>9, <1>10

LEMMA NoMovesLeft ==
    ASSUME MaxMoves = 0, moves \in 0..0
    PROVE  ~(moves < MaxMoves)
OBVIOUS

LEMMA StepImplements ==
    ASSUME MaxMoves = 0, mounted \/ "lookup fails" \notin Faults, MountInv, TypeInv',
           RowsOfBase, [Next]_vars
    PROVE  TreeInv' /\ [WT!Next]_(WT!treeVars)
<1>. USE DEF storeVars, gitVars, runVars, histVars
<1>0. /\ refresh.clean /\ head = base /\ refresh \in RefreshRecords
      /\ mounted => refresh.at = "idle"
      /\ moves \in 0..0 /\ \A p \in FilePaths : p \in Paths
      /\ TypeInv /\ TreeInv /\ OpInv'
  BY DEF MountInv, CleanInv, TreeInv, MountedInv, TypeInv, TypeOK, FilePaths,
         RefreshTyped, RefreshRecords
<1>1. ASSUME NEW p \in FilePaths,
             \/ BeginWrite(p) \/ BeginTruncate(p) \/ BeginCreate(p) \/ BeginUnlink(p)
      PROVE  TreeInv' /\ [WT!Next]_(WT!treeVars)
  BY <1>0, <1>1, BeginsAsk
     DEF BeginWrite, BeginTruncate, BeginCreate, BeginUnlink, Found, Free
<1>2. ASSUME NEW p \in FilePaths, NEW q \in FilePaths, BeginRename(p, q)
      PROVE  TreeInv' /\ [WT!Next]_(WT!treeVars)
  BY <1>0, <1>2, BeginsAsk DEF BeginRename, Found
<1>3. ASSUME NEW d \in DirPaths, BeginMkdir(d) \/ BeginRmdir(d)
      PROVE  TreeInv' /\ [WT!Next]_(WT!treeVars)
  <2>1. d \in Paths
    BY OverlayAssumption
  <2>. QED  BY <1>0, <1>3, <2>1, BeginsAsk DEF BeginMkdir, BeginRmdir, Found, Free
<1>4. ASSUME NEW p \in Paths, SetMtime(p)
      PROVE  TreeInv' /\ [WT!Next]_(WT!treeVars)
  <2>1. PICK t \in BOOLEAN : rows' = [rows EXCEPT ![p].touched = t]
    BY <1>4 DEF SetMtime
  <2>2. rows \in [Paths -> Rows]
    BY <1>0, SameStore
  <2>3. \A q \in Paths : rows'[q].kind = rows[q].kind
    BY <2>1, <2>2, TouchTyped
  <2>4. refresh'.at = refresh.at /\ refresh'.clean /\ refresh'.new = refresh.new
    <3>1. mounted /\ refresh' = [refresh EXCEPT !.clean = @ /\ refresh.at = "idle"]
      BY <1>4 DEF SetMtime, Count
    <3>. QED  BY <1>0, <3>1 DEF RefreshRecords
  <2>5. UNCHANGED <<upper, base, head, op, mounted, former, faults>>
    BY <1>4 DEF SetMtime
  <2>. QED  BY <1>0, <2>3, <2>4, <2>5, OthersStutter
<1>5. CASE (\E p \in FilePaths : GitAdd(p)) \/ UNCHANGED vars
  <2>1. UNCHANGED <<rows, upper, base, head, op, mounted, refresh, former, faults>>
    BY <1>5 DEF GitAdd, vars
  <2>. QED  BY <1>0, <2>1, OthersStutter
<1>6. ~GitCommit /\ ~GitCommitAll /\ \A t \in OtherTrees : ~GitCheckout(t)
  <2>1. ~(moves < MaxMoves)
    BY <1>0, NoMovesLeft
  <2>. QED  BY <2>1 DEF GitCommit, GitCommitAll, GitCheckout, MoveHead
<1>7. CASE OpStep
  BY <1>0, <1>7, OperationsImplement, OperationsKeepTree
<1>. QED
  BY <1>0, <1>1, <1>2, <1>3, <1>4, <1>5, <1>6, <1>7, MountsAgain, CrashesFail DEF Next

LEMMA InitImplements == Init => TreeInv /\ WT!Init
<1>. SUFFICES ASSUME Init PROVE TreeInv /\ WT!Init
  OBVIOUS
<1>1. TreeInv
  BY NoOpTyped
     DEF Init, TreeInv, MountedInv, StageInv, NamesInv, Renamed, NoRefresh
<1>2. \A p \in Paths : Tree[p] = InitTree[p]
  <2>1. op.at = "idle" /\ base = InitTree /\ \A p \in Paths : rows[p].kind = "none"
    BY NoOpTyped, RowFacts DEF Init, NoRows
  <2>2. \A p \in Paths : Resolve(p) = base[p]
    BY <2>1, Seen
  <2>. QED  BY <2>1, <2>2 DEF Tree, Unlinked
<1>3. Tree = InitTree
  BY <1>2, TreeDomain, Commits DEF Trees
<1>4. Request = WT!NoRequest
  BY RequestFacts DEF Init
<1>. QED  BY <1>1, <1>3, <1>4 DEF WT!Init, Init

(* As long as HEAD stays, what users see is a tree of files that only the   *)
(* running operation changes, as asked, or, when something fails or the     *)
(* daemon dies, in the ways that WorkTree names: whatever the Engine does   *)
(* to rows, backing files and blobs, and whatever Reconcile does when it    *)
(* mounts again and its lookups do not fail.                                *)
THEOREM CrashesLeaveAWorkTree ==
    ASSUME MaxMoves = 0, "lookup fails" \notin Faults
    PROVE  Spec /\ []RowsOfBase => ImplementsWorkTree
<1>1. Init => MountInv /\ WT!Init
  BY InitClean, InitImplements DEF MountInv
<1>2. MountInv /\ RowsOfBase /\ [Next]_vars => MountInv' /\ [WT!Next]_(WT!treeVars)
  <2>. SUFFICES ASSUME MountInv, RowsOfBase, [Next]_vars
                PROVE  MountInv' /\ [WT!Next]_(WT!treeVars)
    OBVIOUS
  <2>1. CleanInv'
    BY StepClean DEF MountInv
  <2>. QED  BY <2>1, StepImplements DEF MountInv, CleanInv
<1>. QED  BY <1>1, <1>2, PTL DEF Spec, ImplementsWorkTree, WT!Spec

(* As long as HEAD stays and the daemon does not crash, with whatever else  *)
(* may fail, a mount is such a tree.                                        *)
THEOREM MountIsAWorkTree ==
    ASSUME MaxMoves = 0, "crash" \notin Faults
    PROVE  Spec => ImplementsWorkTree
<1>1. Init => MountInv /\ WT!Init /\ mounted
  BY InitClean, InitImplements DEF MountInv, Init
<1>2. mounted /\ [Next]_vars => mounted'
  BY DEF Next, BeginWrite, BeginTruncate, BeginCreate, BeginUnlink, BeginRename,
         BeginMkdir, BeginRmdir, Begin, SetMtime, GitAdd, GitCommit, GitCommitAll,
         GitCheckout, MoveHead, OpStep, EnsureOverlay, CopyToTmp, CopyUp, CopyUpRow,
         CreateFile, CreateFileRow, GetRow, WriteAt, WriteRow, Truncate, RemoveFile,
         Whiteout, RenameRow, RenameFile, UndoNew, UndoOld, MkdirUpper, MkdirRow, OpFails,
         RefreshStep, Publish, ReconcileQuery, ReconcileCommit, ReconcileCleanup,
         ReconcileFails, Switch, Crash, Fault, runVars, vars
<1>3. MountInv /\ mounted /\ [Next]_vars => MountInv' /\ [WT!Next]_(WT!treeVars)
  <2>. SUFFICES ASSUME MountInv, mounted, [Next]_vars
                PROVE  MountInv' /\ [WT!Next]_(WT!treeVars)
    OBVIOUS
  <2>1. CleanInv'
    BY StepClean DEF MountInv
  <2>2. RowsOfBase
    BY DEF RowsOfBase
  <2>. QED  BY <2>1, <2>2, StepImplements DEF MountInv, CleanInv
<1>. QED  BY <1>1, <1>2, <1>3, PTL DEF Spec, ImplementsWorkTree, WT!Spec

(* Whatever a WorkTree is asked for, and whatever fails, nothing is left    *)
(* without its directory.                                                   *)
RequestTyped ==
    /\ Request.name \in {"write", "truncate", "create", "unlink", "rename"} =>
          Request.p \in FilePaths /\ Request.q \in FilePaths
    /\ Request.name \in {"mkdir", "rmdir"} => Request.p \in DirPaths

LEMMA TypedRequests == TypeInv => RequestTyped
BY OverlayAssumption, RequestFacts DEF RequestTyped, TypeInv, OpInv

LEMMA StaysRooted ==
    ASSUME RequestTyped, WT!Rooted, [WT!Next]_(WT!treeVars)
    PROVE  WT!Rooted'
<1>. USE DEF WT!Exists, WT!Dirs
<1>0. /\ DirPaths \subseteq Paths /\ Root \notin Paths /\ DOMAIN Tree = Paths
      /\ \A p \in Paths : Parent[p] \in DirPaths \cup {Root}
      /\ \A p \in FilePaths : p \in Paths /\ p \notin DirPaths
      /\ WT!Nothing.type = "none" /\ WT!Directory.type = "dir"
      /\ WT!FilePaths = FilePaths
  BY OverlayAssumption, TreeDomain, SameNodes
     DEF FilePaths, WT!Nothing, WT!Directory
<1>1. CASE Tree' = Tree
  BY <1>1 DEF WT!Rooted
<1>2. ASSUME NEW p \in FilePaths, NEW n, Tree' = [Tree EXCEPT ![p] = n],
             n.type # "none" => Parent[p] \in WT!Dirs
      PROVE  WT!Rooted'
  <2>1. \A q \in Paths : q # p => Tree'[q] = Tree[q]
    BY <1>0, <1>2
  <2>2. Tree'[p] = n
    BY <1>0, <1>2
  <2>. QED  BY <1>0, <1>2, <2>1, <2>2 DEF WT!Rooted
<1>3. ASSUME NEW p \in FilePaths, NEW n, Tree' = [Tree EXCEPT ![p] = n], WT!Exists(p)
      PROVE  WT!Rooted'
  BY <1>0, <1>2, <1>3 DEF WT!Rooted
<1>4. ASSUME WT!Perform PROVE WT!Rooted'
  <2>1. CASE Request.name \in {"write", "truncate"}
    <3>1. PICK n : Tree' = [Tree EXCEPT ![Request.p] = n] /\ WT!Exists(Request.p)
      BY <1>4, <2>1 DEF WT!Perform, WT!Write, WT!Truncate
    <3>. QED  BY <1>3, <2>1, <3>1 DEF RequestTyped
  <2>2. CASE Request.name = "create"
    <3>1. /\ Tree' = [Tree EXCEPT ![Request.p] = WT!File({})]
          /\ Parent[Request.p] \in WT!Dirs
      BY <1>4, <2>2 DEF WT!Perform, WT!Create
    <3>. QED  BY <1>2, <2>2, <3>1 DEF RequestTyped
  <2>3. CASE Request.name = "unlink"
    <3>1. Tree' = [Tree EXCEPT ![Request.p] = WT!Nothing]
      BY <1>4, <2>3 DEF WT!Perform, WT!Unlink
    <3>. QED  BY <1>0, <1>2, <2>3, <3>1 DEF RequestTyped
  <2>4. CASE Request.name = "rename"
    <3>. DEFINE p == Request.p  q == Request.q
    <3>1. /\ Tree' = [Tree EXCEPT ![q] = Tree[p], ![p] = WT!Nothing]
          /\ Parent[q] \in WT!Dirs /\ p \in FilePaths /\ q \in FilePaths
      BY <1>4, <2>4 DEF WT!Perform, WT!Rename, RequestTyped
    <3>. HIDE DEF p, q
    <3>2. /\ \A r \in Paths : r # p /\ r # q => Tree'[r] = Tree[r]
          /\ Tree'[p].type = "none"
      BY <1>0, <3>1
    <3>3. WT!Dirs' = WT!Dirs
      BY <1>0, <3>1, <3>2
    <3>. QED  BY <1>0, <3>1, <3>2, <3>3 DEF WT!Rooted
  <2>5. CASE Request.name = "mkdir"
    <3>. DEFINE d == Request.p
    <3>1. /\ Tree' = [Tree EXCEPT ![d] = WT!Directory]
          /\ Parent[d] \in WT!Dirs /\ d \in DirPaths
      BY <1>4, <2>5 DEF WT!Perform, WT!Mkdir, RequestTyped
    <3>. HIDE DEF d
    <3>2. /\ \A r \in Paths : r # d => Tree'[r] = Tree[r]
          /\ Tree'[d].type = "dir"
      BY <1>0, <3>1
    <3>3. WT!Dirs \subseteq WT!Dirs'
      BY <1>0, <3>1, <3>2
    <3>. QED  BY <1>0, <3>1, <3>2, <3>3 DEF WT!Rooted
  <2>6. CASE Request.name = "rmdir"
    <3>. DEFINE d == Request.p
    <3>1. Tree' = [Tree EXCEPT ![d] = WT!Nothing] /\ WT!Empty(d) /\ d \in DirPaths
      BY <1>4, <2>6 DEF WT!Perform, WT!Rmdir, RequestTyped
    <3>. HIDE DEF d
    <3>2. /\ \A r \in Paths : r # d => Tree'[r] = Tree[r]
          /\ Tree'[d].type = "none"
      BY <1>0, <3>1
    <3>3. \A r \in Paths : Parent[r] = d => Tree[r].type = "none"
      BY <3>1 DEF WT!Empty
    <3>4. WT!Dirs \ {d} \subseteq WT!Dirs'
      BY <1>0, <3>1, <3>2
    <3>. QED  BY <1>0, <3>1, <3>2, <3>3, <3>4 DEF WT!Rooted
  <2>. QED
    BY <1>4, <2>1, <2>2, <2>3, <2>4, <2>5, <2>6 DEF WT!Perform
<1>5. ASSUME WT!Spoil PROVE WT!Rooted'
  <2>. DEFINE p == Request.p  q == Request.q
  <2>1. CASE WT!HalfUnlink(p)
    <3>1. /\ Tree' = [Tree EXCEPT ![p] = WT!Broken] /\ Parent[p] \in WT!Dirs
          /\ p \in FilePaths
      BY <2>1 DEF WT!HalfUnlink, RequestTyped
    <3>. QED  BY <1>2, <3>1
  <2>2. CASE WT!HalfRename(p, q)
    <3>1. /\ p \in FilePaths /\ q \in FilePaths
          /\ Tree' = [Tree EXCEPT ![p] = Tree'[p], ![q] = Tree'[q]]
          /\ Tree'[p] = Tree[p] \/ Tree'[p] = WT!Nothing
          /\ Tree'[q] = Tree[q] \/ Parent[q] \in WT!Dirs
      BY <2>2 DEF WT!HalfRename, RequestTyped
    <3>. HIDE DEF p, q
    <3>2. \A r \in Paths : r # p /\ r # q => Tree'[r] = Tree[r]
      BY <1>0, <3>1
    <3>3. WT!Dirs' = WT!Dirs
      BY <1>0, <3>1, <3>2
    <3>. QED  BY <1>0, <3>1, <3>2, <3>3 DEF WT!Rooted
  <2>3. CASE WT!Emptied(p)
    <3>1. /\ Tree' = [Tree EXCEPT ![p] = WT!File({})] /\ WT!Exists(p)
          /\ p \in FilePaths
      BY <2>3 DEF WT!Emptied, RequestTyped
    <3>. QED  BY <1>3, <3>1
  <2>4. CASE WT!Overwritten(p, TmpOf[p])
    <3>1. PICK n : Tree' = [Tree EXCEPT ![TmpOf[p]] = n]
      BY <2>4 DEF WT!Overwritten
    <3>2. TmpOf[p] \in FilePaths /\ WT!Exists(TmpOf[p])
      BY <1>0, <2>4 DEF WT!Overwritten
    <3>. QED  BY <1>3, <3>1, <3>2
  <2>. QED  BY <1>5, <2>1, <2>2, <2>3, <2>4 DEF WT!Spoil
<1>. QED
  BY <1>1, <1>4, <1>5 DEF WT!Next, WT!Ask, WT!Answer, WT!Fail, WT!treeVars

(* As long as HEAD stays, and whatever fails but a lookup of a mount, the   *)
(* mount never shows a name in a directory that it does not show: neither   *)
(* by an operation cut short or put back nor by what a mount reconciles,    *)
(* for an rmdir goes by ReaddirTyped and whatever is created by             *)
(* ResolvePath.                                                             *)
THEOREM NothingIsOrphaned ==
    ASSUME MaxMoves = 0, "lookup fails" \notin Faults,
           \A p \in Paths : InitTree[p] # Nothing =>
                              \/ Parent[p] = Root
                              \/ InitTree[Parent[p]] # Nothing
    PROVE  Spec /\ []RowsOfBase => []WT!Rooted
<1>1. WT!Init => WT!Rooted
  <2>. SUFFICES ASSUME WT!Init, NEW p \in Paths, WT!Exists(p)
                PROVE  Parent[p] \in WT!Dirs
    BY DEF WT!Rooted
  <2>1. \A q \in Paths : InitTree[q].type = "none" <=> InitTree[q] = Nothing
    BY Commits, TreeFacts, NodeFacts
  <2>2. Parent[p] \in DirPaths \cup {Root} /\ DirPaths \subseteq Paths
    BY OverlayAssumption
  <2>. QED  BY <2>1, <2>2 DEF WT!Init, WT!Exists, WT!Dirs
<1>2. RequestTyped /\ WT!Rooted /\ [WT!Next]_(WT!treeVars) => WT!Rooted'
  BY StaysRooted
<1>3. TypeInv => RequestTyped
  BY TypedRequests
<1>4. Spec /\ []RowsOfBase => WT!Spec
  BY CrashesLeaveAWorkTree DEF ImplementsWorkTree
<1>. QED  BY InitTyped, StepTyped, <1>1, <1>2, <1>3, <1>4, PTL DEF Spec, WT!Spec

=============================================================================
