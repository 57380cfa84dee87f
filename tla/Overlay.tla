------------------------------- MODULE Overlay -------------------------------
(***************************************************************************)
(* The writable view of a mounted repository: the overlay store (rows in   *)
(* SQLite, backing files in upper/), the operations of Engine on it, the   *)
(* merged view of Resolver, what a move of HEAD does to all of them        *)
(* (Reconcile, then the switch of the generation), and what errors and a   *)
(* crash leave of an operation.                                            *)
(*                                                                         *)
(* One SQL statement or transaction, and one change of a file, is one      *)
(* action.  The kernel orders the operations of the mount that change the  *)
(* same file, so one such operation runs at a time here; it interleaves    *)
(* with the steps of the refresh, which the kernel knows nothing of.       *)
(***************************************************************************)
EXTENDS Naturals

CONSTANTS
    Paths,       \* the names in the tree, its root excluded
    DirPaths,    \* those that are used for directories, in every commit
    Parent,      \* the directory each name is in, or Root
    Root,
    Rank,        \* ORDER BY path
    TmpOf,       \* the name upper/<path>.tmp is the backing file of
    Temps,       \* those of them that no user has a file of
    InitTree,    \* the tree of the commit mounted first
    OtherTrees,  \* other commits' trees HEAD can be moved to
    Ops,         \* what the users do
    MaxOps,      \* bound on the number of operations
    MaxMoves,    \* bound on the number of moves of HEAD
    Faults,      \* what may go wrong
    MaxFaults    \* bound on how often

FilePaths == Paths \ DirPaths
Backing == Paths \cup Temps

(* A node is missing, a directory, or a file; the content of a file is the  *)
(* set of the edits it shows, and two blobs with one content are one blob.  *)
Nothing == [type |-> "none", content |-> {}]
Directory == [type |-> "dir", content |-> {}]
File(c) == [type |-> "file", content |-> c]
Files == [type : {"file"}, content : SUBSET Nat]
Nodes == {Nothing, Directory} \cup Files

(* A name is used for directories or for files.                             *)
NodesAt(p) == {Nothing} \cup IF p \in DirPaths THEN {Directory} ELSE Files
Trees == {t \in [Paths -> Nodes] : \A p \in Paths : t[p] \in NodesAt(p)}

ASSUME OverlayAssumption ==
    /\ DirPaths \subseteq Paths
    /\ Root \notin Paths
    /\ Parent \in [Paths -> DirPaths \cup {Root}]
    /\ Rank \in [Paths -> Nat]
    /\ Temps \cap Paths = {}
    /\ TmpOf \in [FilePaths -> FilePaths \cup Temps]
    /\ \A p \in FilePaths : TmpOf[p] # p
    /\ InitTree \in Trees /\ OtherTrees \subseteq Trees
    /\ Ops \subseteq {"write", "truncate", "create", "mkdir", "unlink", "rmdir",
                     "rename", "touch", "checkout", "add", "commit", "commit all"}
    /\ MaxOps \in Nat /\ MaxMoves \in Nat /\ MaxFaults \in Nat
    /\ Faults \subseteq {"crash", "error", "blob file vanishes", "lookup fails",
                        "reconcile fails", "read-tree fails"}

VARIABLES
    rows,     \* overlay_entries, by path
    upper,    \* the backing files, by path, and temporary files
    base,     \* the tree of the resolver's generation
    head,     \* the tree of the commit HEAD points at
    index,    \* the tree of the git index
    op,       \* the running operation
    refresh,  \* the running onHEADChanged
    mounted,
    former,   \* history: names that were seen under this mount and are gone
    doubt,    \* history: what a row need no longer agree with, by path
    nops,     \* operations begun
    moves,    \* moves of HEAD made
    faults    \* Faults met

storeVars == <<rows, upper>>
gitVars == <<head, index, moves>>
histVars == <<former, doubt>>
runVars == <<mounted, histVars, nops, faults>>
vars == <<storeVars, base, gitVars, op, refresh, runVars>>

-----------------------------------------------------------------------------
(* Rows.  source is the blob a row was derived from (Nothing for ""), size  *)
(* the content whose length was recorded.  Of mtime_unix_ns only one thing  *)
(* matters: touched says that it is not what the running Reconcile read.    *)
RowKinds == {"none", "create", "modify", "delete", "rename", "mkdir"}

NoRow == [kind |-> "none", source |-> Nothing, size |-> {}, touched |-> FALSE]

Row(kind, source, size) ==
    [kind |-> kind, source |-> source, size |-> size, touched |-> refresh.at = "commit"]

HasRow(p) == rows[p].kind # "none"
IsDeleted(p) == rows[p].kind = "delete"
Live(p) == HasRow(p) /\ ~IsDeleted(p)
NodeType(row) == IF row.kind = "mkdir" THEN "dir" ELSE "file"

(* upsertEntry                                                              *)
Upsert(p, row) == rows' = [rows EXCEPT ![p] = row]

Children(d) == {p \in Paths : Parent[p] = d}

Above[p \in Paths] ==
    IF Parent[p] = Root THEN {} ELSE {Parent[p]} \cup Above[Parent[p]]

(* os.Remove fails on a directory that is not empty.                        *)
Removed(p) == IF \E q \in Children(p) : upper[q].type # "none"
              THEN upper ELSE [upper EXCEPT ![p] = Nothing]

(* ResolvePath, and for a file what reading it gives.  A row whose backing  *)
(* file is missing resolves, but cannot be read.                            *)
Unreadable == [type |-> "unreadable", content |-> {}]

FileAt(p) == IF upper[p].type = "file" THEN upper[p] ELSE Unreadable

Resolve(p) ==
    CASE ~HasRow(p)   -> base[p]
      [] IsDeleted(p) -> Nothing
      [] NodeType(rows[p]) = "dir" -> Directory
      [] OTHER -> FileAt(p)

View == [p \in Paths |-> Resolve(p)]

Resolves(p) == Resolve(p).type # "none"
Dirs == {Root} \cup {d \in DirPaths : Resolves(d)}

(* ReaddirTyped: the base's children, then the rows below the directory in  *)
(* path order, each overwriting the entry of the child it is at or under.   *)
ListedType(c) ==
    LET below == {e \in Paths : HasRow(e) /\ (e = c \/ c \in Above[e])}
        last  == CHOOSE e \in below : \A f \in below : Rank[f] <= Rank[e]
    IN  CASE IsDeleted(c) -> "none"
          [] below = {}   -> base[c].type
          [] OTHER        -> NodeType(rows[last])

Readdir(d) == {c \in Children(d) : ListedType(c) # "none"}

-----------------------------------------------------------------------------
NoOp == [name |-> "none", p |-> Root, q |-> Root, at |-> "idle",
         blob |-> Nothing, row |-> NoRow]

NoRows == [p \in Paths |-> NoRow]

NoRefresh(clean) ==
    [at |-> "idle", new |-> InitTree, stale |-> {}, read |-> NoRows,
     clean |-> clean, seen |-> InitTree]

Init ==
    /\ rows = NoRows
    /\ upper = [b \in Backing |-> Nothing]
    /\ base = InitTree
    /\ head = InitTree
    /\ index = InitTree
    /\ op = NoOp
    /\ refresh = NoRefresh(TRUE)
    /\ mounted = TRUE
    /\ former = {}
    /\ doubt = [p \in Paths |-> "nothing"]
    /\ nops = 0
    /\ moves = 0
    /\ faults = 0

-----------------------------------------------------------------------------
(* The operations.  Begin is the FUSE handler after the kernel looked the   *)
(* names up, or with an inode or handle the kernel has already; it leads to *)
(* the first step of the Engine.                                            *)

Idle == op.at = "idle"

(* clean is a history variable: no operation has run during a refresh yet,  *)
(* and no lookup of Reconcile has failed.                                   *)
Count ==
    /\ mounted /\ Idle
    /\ nops < MaxOps
    /\ nops' = nops + 1
    /\ refresh' = [refresh EXCEPT !.clean = @ /\ refresh.at = "idle"]

Fault(kind) ==
    /\ kind \in Faults
    /\ faults < MaxFaults
    /\ faults' = faults + 1

Begin(name, p, q, at) ==
    /\ name \in Ops
    /\ Count
    /\ op' = [NoOp EXCEPT !.name = name, !.p = p, !.q = q, !.at = at]
    /\ UNCHANGED <<storeVars, base, gitVars, mounted, histVars, faults>>

(* A write or truncation comes by handle or inode: what it was opened as    *)
(* may have been removed or renamed since.                                  *)
Opened(p) == Resolves(p) \/ p \in former
Found(p) == Resolves(p) /\ Parent[p] \in Dirs
Free(p) == ~Resolves(p) /\ Parent[p] \in Dirs

BeginWrite(p) == Opened(p) /\ Begin("write", p, p, "ensure")
BeginTruncate(p) == Opened(p) /\ Begin("truncate", p, p, "ensure")
BeginCreate(p) == Free(p) /\ Begin("create", p, p, "create")
BeginMkdir(d) == Free(d) /\ Begin("mkdir", d, d, "mkdir")
BeginUnlink(p) == Found(p) /\ Begin("unlink", p, p, "remove")
BeginRmdir(d) == Found(d) /\ Readdir(d) = {} /\ Begin("rmdir", d, d, "remove")
BeginRename(p, q) ==
    p # q /\ Found(p) /\ Parent[q] \in Dirs /\ Begin("rename", p, q, "ensure")

Goto(at) == op' = [op EXCEPT !.at = at]

(* The operation returns, with or without an error.                         *)
Finish == op' = NoOp

(* Where ensureOverlay returns to; Write takes os.ErrNotExist, wherever it  *)
(* comes from, for a path that has yet to be created.                       *)
Promoted == Goto(IF op.name = "truncate" THEN "truncate" ELSE "get")
Missing == IF op.name = "write" THEN Goto("create") ELSE Finish

(* ensureOverlay: a row of any kind will do; otherwise the blob of the      *)
(* resolver's generation is hydrated, which may fail because a file is not  *)
(* there.                                                                   *)
EnsureOverlay ==
    /\ op.at = "ensure"
    /\ \/ HasRow(op.p) /\ Promoted /\ UNCHANGED faults
       \/ /\ ~HasRow(op.p) /\ base[op.p].type = "file"
          /\ \/ op' = [op EXCEPT !.at = "copy", !.blob = base[op.p]] /\ UNCHANGED faults
             \/ Fault("error") /\ Missing
       \/ ~HasRow(op.p) /\ base[op.p].type # "file" /\ Missing /\ UNCHANGED faults
    /\ UNCHANGED <<storeVars, base, gitVars, refresh, mounted, histVars, nops>>

(* EnsureCopyOnWrite writes the blob to <path>.tmp, which may be the        *)
(* backing file of another name.  A blob file that vanished leaves it       *)
(* empty, a copy that fails removes it.                                     *)
CopyToTmp ==
    /\ op.at = "copy"
    /\ LET t == TmpOf[op.p]
           Write(n) == upper' = [upper EXCEPT ![t] = n]
       IN  /\ \/ Write(op.blob) /\ Goto("move") /\ UNCHANGED faults
              \/ Fault("blob file vanishes") /\ Write(File({})) /\ Goto("move")
              \/ Fault("error") /\ Write(Nothing) /\ Finish
           /\ doubt' = [p \in Paths |-> IF p = t /\ Live(p) THEN "file" ELSE doubt[p]]
    /\ UNCHANGED <<rows, base, gitVars, refresh, mounted, former, nops>>

(* os.Rename of the temporary file.                                         *)
CopyUp ==
    /\ op.at = "move"
    /\ LET t == TmpOf[op.p] IN
         IF upper[t].type = "file"
         THEN /\ upper' = [upper EXCEPT ![op.p] = upper[t], ![t] = Nothing]
              /\ Goto("copyrow")
         ELSE Missing /\ UNCHANGED upper
    /\ UNCHANGED <<rows, base, gitVars, refresh, runVars>>

(* The row of p has been written with the size of its file.                 *)
Settled(p) == doubt' = [doubt EXCEPT ![p] = "nothing"]

(* os.Stat of the backing file, then the row.                               *)
CopyUpRow ==
    /\ op.at = "copyrow"
    /\ IF upper[op.p].type = "file"
       THEN /\ Upsert(op.p, Row("modify", op.blob, upper[op.p].content))
            /\ Settled(op.p)
            /\ Promoted
       ELSE Missing /\ UNCHANGED <<rows, doubt>>
    /\ UNCHANGED <<upper, base, gitVars, refresh, mounted, former, nops, faults>>

(* Mutation: the file is left to the first write.                           *)
CreateNoFile ==
    /\ op.at = "create"
    /\ Goto("createrow")
    /\ UNCHANGED <<storeVars, base, gitVars, refresh, runVars>>

CreateFile ==
    /\ op.at = "create"
    /\ upper' = [upper EXCEPT ![op.p] = File({})]
    /\ Goto("createrow")
    /\ UNCHANGED <<rows, base, gitVars, refresh, runVars>>

CreateFileRow ==
    /\ op.at = "createrow"
    /\ Upsert(op.p, Row("create", Nothing, {}))
    /\ Settled(op.p)
    /\ IF op.name = "write" THEN Goto("get") ELSE Finish
    /\ UNCHANGED <<upper, base, gitVars, refresh, mounted, former, nops, faults>>

(* WriteFile and Rename begin by reading the row.                           *)
GetRow ==
    /\ op.at = "get"
    /\ IF Live(op.p)
       THEN op' = [op EXCEPT !.at = IF op.name = "write" THEN "writeat" ELSE "renamerow",
                             !.row = rows[op.p]]
       ELSE Finish
    /\ UNCHANGED <<storeVars, base, gitVars, refresh, runVars>>

(* OpenFile with O_CREATE, then WriteAt: edit number nops, or the first     *)
(* part of it when it fails.                                                *)
WriteAt ==
    /\ op.at = "writeat"
    /\ upper' = [upper EXCEPT ![op.p] = File(@.content \cup {nops})]
    /\ doubt' = [doubt EXCEPT ![op.p] = "size"]
    /\ \/ op' = [op EXCEPT !.at = "writerow", !.blob = upper'[op.p]] /\ UNCHANGED faults
       \/ Fault("error") /\ Finish
    /\ UNCHANGED <<rows, base, gitVars, refresh, mounted, former, nops>>

(* Mutation: the size of the row that was read is stored again.             *)
WriteRowOldSize ==
    /\ op.at = "writerow"
    /\ Upsert(op.p, Row(IF op.row.kind = "create" THEN "create" ELSE "modify",
                        op.row.source, op.row.size))
    /\ Settled(op.p)
    /\ Finish
    /\ UNCHANGED <<upper, base, gitVars, refresh, mounted, former, nops, faults>>

(* The size is that of the open file, which may have been unlinked since.   *)
WriteRow ==
    /\ op.at = "writerow"
    /\ Upsert(op.p, Row(IF op.row.kind = "create" THEN "create" ELSE "modify",
                        op.row.source, op.blob.content))
    /\ Settled(op.p)
    /\ Finish
    /\ UNCHANGED <<upper, base, gitVars, refresh, mounted, former, nops, faults>>

(* os.Truncate of the backing file: to nothing, to the size it has, or to   *)
(* another one, shorter or longer, which is an edit like a write.  The row  *)
(* is not touched.                                                          *)
Truncate ==
    /\ op.at = "truncate"
    /\ IF Live(op.p) /\ upper[op.p].type = "file"
       THEN /\ \E c \in {{}, upper[op.p].content, upper[op.p].content \cup {nops}} :
                  upper' = [upper EXCEPT ![op.p] = File(c)]
            /\ doubt' = [doubt EXCEPT ![op.p] = "size"]
       ELSE UNCHANGED <<upper, doubt>>
    /\ Finish
    /\ UNCHANGED <<rows, base, gitVars, refresh, mounted, former, nops, faults>>

(* Remove: the backing file first, unless os.Remove fails, which nobody     *)
(* looks at ...                                                             *)
RemoveFile ==
    /\ op.at = "remove"
    /\ \/ upper' = (IF Live(op.p) THEN Removed(op.p) ELSE upper) /\ UNCHANGED faults
       \/ Fault("error") /\ UNCHANGED upper
    /\ doubt' = IF upper' = upper THEN doubt ELSE [doubt EXCEPT ![op.p] = "file"]
    /\ Goto("whiteout")
    /\ UNCHANGED <<rows, base, gitVars, refresh, mounted, former, nops>>

(* Mutation: the row is deleted instead.                                    *)
WhiteoutForgotten ==
    /\ op.at = "whiteout"
    /\ Upsert(op.p, NoRow)
    /\ Settled(op.p)
    /\ former' = former \cup {op.p}
    /\ Finish
    /\ UNCHANGED <<upper, base, gitVars, refresh, mounted, nops, faults>>

(* Mutation: the whiteout keeps the source_oid of the row it replaces.      *)
WhiteoutWithSource ==
    /\ op.at = "whiteout"
    /\ Upsert(op.p, Row("delete", rows[op.p].source, {}))
    /\ Settled(op.p)
    /\ former' = former \cup {op.p}
    /\ Finish
    /\ UNCHANGED <<upper, base, gitVars, refresh, mounted, nops, faults>>

(* ... then the whiteout.                                                   *)
Whiteout ==
    /\ op.at = "whiteout"
    /\ Upsert(op.p, Row("delete", Nothing, {}))
    /\ Settled(op.p)
    /\ former' = former \cup {op.p}
    /\ Finish
    /\ UNCHANGED <<upper, base, gitVars, refresh, mounted, nops, faults>>

(* Rename's transaction fails as a whole when the new path has a row.       *)
RenameRow ==
    /\ op.at = "renamerow"
    /\ IF HasRow(op.q)
       THEN Finish /\ UNCHANGED <<rows, histVars>>
       ELSE /\ rows' = [rows EXCEPT ![op.q] = Row("rename", op.row.source, op.row.size),
                                    ![op.p] = Row("delete", Nothing, {})]
            /\ doubt' = [doubt EXCEPT ![op.q] = "file"]
            /\ former' = former \cup {op.p}
            /\ Goto("renamefile")
    /\ UNCHANGED <<upper, base, gitVars, refresh, mounted, nops, faults>>

(* os.Rename of the backing file.                                           *)
RenameFile ==
    /\ op.at = "renamefile"
    /\ \/ /\ upper[op.p].type # "none"
          /\ upper' = [upper EXCEPT ![op.q] = upper[op.p], ![op.p] = Nothing]
          /\ doubt' = [doubt EXCEPT ![op.q] = doubt[op.p], ![op.p] = "nothing"]
          /\ Finish
          /\ UNCHANGED faults
       \/ /\ \/ upper[op.p].type = "none" /\ UNCHANGED faults
             \/ Fault("error")
          /\ Goto("undonew")
          /\ UNCHANGED <<upper, doubt>>
    /\ UNCHANGED <<rows, base, gitVars, refresh, mounted, former, nops>>

(* When it fails two statements put the rows back; nobody looks at their    *)
(* errors.                                                                  *)
UndoNew ==
    /\ op.at = "undonew"
    /\ \/ Upsert(op.q, NoRow) /\ UNCHANGED faults
       \/ Fault("error") /\ UNCHANGED rows
    /\ Goto("undoold")
    /\ UNCHANGED <<upper, base, gitVars, refresh, mounted, histVars, nops>>

UndoOld ==
    /\ op.at = "undoold"
    /\ \/ /\ Upsert(op.p, [op.row EXCEPT !.touched = @ /\ refresh.at = "commit"])
          /\ UNCHANGED faults
       \/ Fault("error") /\ UNCHANGED rows
    /\ Finish
    /\ UNCHANGED <<upper, base, gitVars, refresh, mounted, histVars, nops>>

MkdirUpper ==
    /\ op.at = "mkdir"
    /\ upper' = [upper EXCEPT ![op.p] = Directory]
    /\ Goto("mkdirrow")
    /\ UNCHANGED <<rows, base, gitVars, refresh, runVars>>

MkdirRow ==
    /\ op.at = "mkdirrow"
    /\ Upsert(op.p, Row("mkdir", Nothing, {}))
    /\ Finish
    /\ UNCHANGED <<upper, base, gitVars, refresh, runVars>>

(* The statement, lookup or file operation that is next fails (a cancelled  *)
(* request, SQLITE_BUSY, a full disk), and the error is returned.           *)
OpFails ==
    /\ op.at \in {"ensure", "copy", "move", "copyrow", "create", "createrow", "get",
                  "writeat", "writerow", "truncate", "whiteout", "renamerow", "mkdir",
                  "mkdirrow"}
    /\ Fault("error")
    /\ Finish
    /\ UNCHANGED <<storeVars, base, gitVars, refresh, mounted, histVars, nops>>

(* SetMtime: one UPDATE, to a time of the user's choice, which may be the   *)
(* very one Reconcile read.                                                 *)
SetMtime(p) ==
    /\ "touch" \in Ops
    /\ HasRow(p)
    /\ Count
    /\ \E t \in {FALSE, refresh.at = "commit"} : rows' = [rows EXCEPT ![p].touched = t]
    /\ UNCHANGED <<upper, base, gitVars, op, mounted, histVars, faults>>

-----------------------------------------------------------------------------
(* git, in the mount and outside the daemon; it works on the tree between   *)
(* two operations.                                                          *)

(* What git records of a tree: directories only with a file below.          *)
Recorded(t) ==
    [p \in Paths |->
        IF p \in FilePaths THEN t[p]
        ELSE IF \E q \in FilePaths : p \in Above[q] /\ t[q].type = "file"
             THEN Directory ELSE Nothing]

Readable == \A p \in Paths : Resolve(p).type # "unreadable"

GitAdd(p) ==
    /\ "add" \in Ops
    /\ mounted /\ Idle /\ Readable
    /\ index' = Recorded([index EXCEPT ![p] = Resolve(p)])
    /\ UNCHANGED <<storeVars, base, head, moves, op, refresh, runVars>>

MoveHead(t) ==
    /\ moves < MaxMoves
    /\ t # head
    /\ moves' = moves + 1
    /\ head' = t
    /\ UNCHANGED <<storeVars, base, op, refresh, runVars>>

GitCommit ==
    /\ "commit" \in Ops
    /\ MoveHead(index)
    /\ UNCHANGED index

(* Every change is added, then committed.                                   *)
GitCommitAll ==
    /\ "commit all" \in Ops
    /\ mounted /\ Idle /\ Readable
    /\ index' = Recorded(View)
    /\ MoveHead(index')

(* HEAD is moved to another commit; what git writes to the tree for it are  *)
(* operations like any other.  While nothing is mounted it may move too.    *)
GitCheckout(t) ==
    /\ IF mounted THEN "checkout" \in Ops ELSE refresh.at = "idle"
    /\ MoveHead(t)
    /\ index' = t

-----------------------------------------------------------------------------
(* onHEADChanged, and mountRepo after a crash.                              *)

(* The new tree is read and published under a new generation.               *)
Publish ==
    /\ refresh.at = "idle"
    /\ mounted => head # base
    /\ refresh' = [refresh EXCEPT !.at = "query", !.new = head, !.read = rows,
                                  !.clean = @ /\ Idle, !.seen = View]
    /\ UNCHANGED <<storeVars, base, gitVars, op, runVars>>

(* Mutation: the two rules for whiteouts are swapped.                       *)
WhiteoutIsStale(row, node) ==
    CASE row.kind = "delete" -> node.type # "none"
      [] row.kind = "create" -> node.type # "none"
      [] row.kind = "mkdir"  -> node.type = "dir"
      [] row.kind \in {"modify", "rename"} -> node.type = "none" \/ row.source # node
      [] OTHER -> FALSE

(* Reconcile's rules.                                                       *)
Stale(row, node) ==
    CASE row.kind = "delete" -> node.type = "none"
      [] row.kind = "create" -> node.type # "none"
      [] row.kind = "mkdir"  -> node.type = "dir"
      [] row.kind \in {"modify", "rename"} -> node.type = "none" \/ row.source # node
      [] OTHER -> FALSE

(* Reconcile reads all rows and looks up their paths in the new base.       *)
Decide(new, clean) ==
    LET stale == {p \in Paths : Stale(rows[p], new[p])} IN
      refresh' = [refresh EXCEPT !.at = IF stale = {} THEN "switch" ELSE "commit",
                                 !.stale = stale, !.read = rows, !.clean = clean]

(* A lookup that fails (GetNode) counts as a path that the base has not.    *)
ReconcileQuery ==
    /\ refresh.at = "query"
    /\ \/ Decide(refresh.new, refresh.clean) /\ UNCHANGED faults
       \/ /\ Fault("lookup fails")
          /\ \E p \in Paths : HasRow(p) /\ Decide([refresh.new EXCEPT ![p] = Nothing], FALSE)
    /\ UNCHANGED <<storeVars, base, gitVars, op, mounted, histVars, nops>>

(* The guarded DELETE: same kind, same source_oid, same mtime.              *)
Unchanged(p) ==
    /\ rows[p].kind = refresh.read[p].kind
    /\ rows[p].source = refresh.read[p].source
    /\ ~rows[p].touched

(* Users may still have open what a refresh takes out of their sight.       *)
Passed == IF mounted THEN former \cup {p \in FilePaths : Resolves(p)} ELSE {}

(* A new Reconcile reads new times.                                         *)
Untouched(rs) == [p \in Paths |-> [rs[p] EXCEPT !.touched = FALSE]]

ReconcileCommit ==
    /\ refresh.at = "commit"
    /\ rows' = Untouched([p \in Paths |->
                  IF p \in refresh.stale /\ Unchanged(p) THEN NoRow ELSE rows[p]])
    /\ refresh' = [refresh EXCEPT !.at = "cleanup"]
    /\ former' = Passed
    /\ UNCHANGED <<upper, base, gitVars, op, mounted, doubt, nops, faults>>

(* os.Remove of the backing files of all rows found stale, in reverse path  *)
(* order; its errors are ignored.                                           *)
ReconcileCleanup ==
    /\ refresh.at = "cleanup"
    /\ \E p \in refresh.stale :
          /\ \A s \in refresh.stale : Rank[s] <= Rank[p]
          /\ \/ /\ upper' = IF refresh.read[p].kind = "delete" THEN upper ELSE Removed(p)
                /\ UNCHANGED faults
             \/ Fault("error") /\ UNCHANGED upper
          /\ refresh' = [refresh EXCEPT
                            !.stale = @ \ {p},
                            !.at = IF refresh.stale = {p} THEN "switch" ELSE "cleanup"]
    /\ UNCHANGED <<rows, base, gitVars, op, mounted, histVars, nops>>

(* An error of the database: onHEADChanged goes on, mountRepo gives up and  *)
(* is tried again.                                                          *)
ReconcileFails ==
    /\ Fault("reconcile fails")
    /\ refresh.at \in {"query", "commit"}
    /\ refresh' = [refresh EXCEPT !.at = IF mounted THEN "switch" ELSE "idle",
                                  !.stale = {}]
    /\ rows' = Untouched(rows)
    /\ UNCHANGED <<upper, base, gitVars, op, mounted, histVars, nops>>

(* ReadTreeHEAD and SetGeneration; after a crash, then Mount.               *)
Switch ==
    /\ refresh.at = "switch"
    /\ \/ index' = head /\ UNCHANGED faults
       \/ Fault("read-tree fails") /\ mounted /\ UNCHANGED index
    /\ base' = refresh.new
    /\ mounted' = TRUE
    /\ refresh' = NoRefresh(refresh.clean)
    /\ former' = Passed
    /\ UNCHANGED <<storeVars, head, moves, op, doubt, nops>>

(* The daemon dies; rows and backing files survive as they are.             *)
Crash ==
    /\ mounted
    /\ Fault("crash")
    /\ mounted' = FALSE
    /\ op' = NoOp
    /\ refresh' = NoRefresh(refresh.clean)
    /\ rows' = Untouched(rows)
    /\ former' = {}
    /\ UNCHANGED <<upper, base, gitVars, doubt, nops>>

-----------------------------------------------------------------------------
OpStep ==
    \/ EnsureOverlay \/ CopyToTmp \/ CopyUp \/ CopyUpRow \/ CreateFile \/ CreateFileRow
    \/ GetRow \/ WriteAt \/ WriteRow \/ Truncate \/ RemoveFile \/ Whiteout
    \/ RenameRow \/ RenameFile \/ UndoNew \/ UndoOld \/ MkdirUpper \/ MkdirRow
    \/ OpFails

RefreshStep ==
    \/ Publish \/ ReconcileQuery \/ ReconcileCommit \/ ReconcileCleanup
    \/ ReconcileFails \/ Switch

Next ==
    \/ \E p \in FilePaths :
          \/ BeginWrite(p) \/ BeginTruncate(p) \/ BeginCreate(p) \/ BeginUnlink(p)
          \/ GitAdd(p)
          \/ \E q \in FilePaths : BeginRename(p, q)
    \/ \E d \in DirPaths : BeginMkdir(d) \/ BeginRmdir(d)
    \/ \E p \in Paths : SetMtime(p)
    \/ OpStep
    \/ GitCommit
    \/ GitCommitAll
    \/ \E t \in OtherTrees : GitCheckout(t)
    \/ RefreshStep
    \/ Crash

Spec == Init /\ [][Next]_vars

-----------------------------------------------------------------------------
KindsAt(p) ==
    {"none", "delete"} \cup
    IF p \in DirPaths THEN {"mkdir"} ELSE {"create", "modify", "rename"}

(* source_oid is empty for create, delete and mkdir rows, on which the      *)
(* guard of Reconcile relies.                                               *)
Rows ==
    {r \in [kind : RowKinds, source : Nodes, size : SUBSET Nat, touched : BOOLEAN] :
        r.kind \in {"none", "create", "delete", "mkdir"} => r.source = Nothing}

StoreTyped ==
    /\ rows \in [Paths -> Rows]
    /\ \A p \in Paths :
          /\ rows[p].kind \in KindsAt(p)
          /\ rows[p].touched => refresh.at = "commit"
    /\ upper \in [Backing -> Nodes]
    /\ \A b \in Backing : upper[b] \in NodesAt(b)

OpTyped ==
    /\ op \in [name : Ops \cup {"none"}, p : Paths \cup {Root}, q : Paths \cup {Root},
               at : {"idle", "ensure", "copy", "move", "copyrow", "create", "createrow",
                     "get", "writeat", "writerow", "truncate", "remove", "whiteout",
                     "renamerow", "renamefile", "undonew", "undoold", "mkdir",
                     "mkdirrow"},
               blob : Nodes, row : Rows]
    /\ Idle => op = NoOp

RefreshTyped ==
    /\ refresh \in [at : {"idle", "query", "commit", "cleanup", "switch"},
                    new : Trees, stale : SUBSET Paths, read : [Paths -> Rows],
                    clean : BOOLEAN, seen : [Paths -> Nodes \cup {Unreadable}]]
    /\ refresh.at \in {"commit", "cleanup"} <=> refresh.stale # {}

(* Every variable holds a value of its kind; directories have directory     *)
(* rows and directories in upper/, and nothing runs while not mounted.      *)
TypeOK ==
    /\ StoreTyped /\ OpTyped /\ RefreshTyped
    /\ base \in Trees /\ head \in Trees /\ index \in Trees
    /\ mounted \in BOOLEAN /\ (mounted \/ Idle)
    /\ former \subseteq Paths
    /\ doubt \in [Paths -> {"nothing", "size", "file"}]
    /\ nops \in 0..MaxOps /\ moves \in 0..MaxMoves /\ faults \in 0..MaxFaults

(* An unlink has removed the file, and not yet written the whiteout.        *)
Unlinked ==
    op.at = "whiteout" /\ op.name = "unlink" /\ Live(op.p) /\ upper[op.p] = Nothing

(* What the mount promises: between two moves of HEAD the merged view is a  *)
(* plain tree that only the running operation changes, once, at once and as *)
(* asked, whatever it does to rows, backing files and blobs; and when a     *)
(* step of it fails, with whatever is then put back or not, no name suffers *)
(* but those it is about and the <path>.tmp beside it.                      *)
(* An unlink takes effect when the backing file goes, where there is one, a *)
(* rename when the file is moved, a write or a truncation when the bytes    *)
(* change, all others with a row.                                           *)
Tree ==
    [p \in Paths |->
        CASE Unlinked /\ p = op.p -> Nothing
          [] op.at \in {"renamefile", "undonew", "undoold"} /\ p = op.p -> FileAt(p)
          [] op.at \in {"renamefile", "undonew"} /\ p = op.q -> base[p]
          [] OTHER -> Resolve(p)]

Request ==
    [name |-> op.name, p |-> op.p, q |-> op.q, done |-> op.at = "writerow" \/ Unlinked]

WT == INSTANCE WorkTree WITH
        tree <- Tree, request <- Request, Edits <- 1..MaxOps, Beside <- TmpOf

ImplementsWorkTree == WT!Spec

RowsHaveFiles ==
    Idle => \A p \in FilePaths :
                Live(p) => upper[p].type = "file"

(* The row of a file always has its backing file, between two operations:   *)
(* each operation makes the file before the row, also when it dies between  *)
(* the two, and Reconcile removes the file after the row.                   *)
NoDanglingRow == RowsHaveFiles

(* That much does hold while no refresh is overlapped, through crashes and  *)
(* errors, of every file but those that an unlink or a rename left halfway  *)
(* and those named as the temporary file of another's copy.                 *)
CleanRowsHaveFiles ==
    refresh.clean =>
        \A p \in FilePaths :
            Live(p) /\ doubt[p] # "file" => upper[p].type = "file"

Switched == refresh.at = "switch" /\ refresh'.at = "idle" /\ mounted' /\ refresh.clean

(* The row Reconcile read is about what the base has at its path.  Others   *)
(* are left by a rename, by a create where a tracked file was deleted, by   *)
(* a copy-up that a refresh overtook and by a Reconcile that failed.        *)
OfBase(p, row) ==
    CASE row.kind = "create" -> base[p] = Nothing
      [] row.kind \in {"modify", "rename"} -> row.source = base[p] /\ base[p] # Nothing
      [] OTHER -> TRUE

(* When no operation ever ran during a refresh, a refresh keeps what users  *)
(* see of every path to which the new commit gives exactly that, and of     *)
(* every path that it leaves as it was and whose row, if any, is about the  *)
(* base: edits that were not committed survive, and those that were are not *)
(* shown twice or lost (the rules above Reconcile).                         *)
RefreshKeepsView ==
    [][Switched => \A p \in Paths :
          (\/ refresh.new[p] = refresh.seen[p]
           \/ refresh.new[p] = base[p] /\ OfBase(p, refresh.read[p]))
          => View'[p] = refresh.seen[p]]_vars

(* A commit never changes the working tree: TestE2EGitCommitPreserves-      *)
(* UnstagedAfterStagedCommit reads the unstaged line after the commit.      *)
CommitKeepsWorkTree ==
    [][Switched => \A p \in FilePaths : View'[p] = refresh.seen[p]]_vars

(* The size recorded for a file, which stat shows, is that of its backing   *)
(* file, whatever sequence of copies, writes, renames, refreshes, errors    *)
(* and crashes made it, unless the last thing that happened to the file is  *)
(* a truncation (Engine.Truncate leaves size_bytes as it was), a write      *)
(* whose row was not stored or the loss of the file.                        *)
SizeIsRecorded ==
    \A p \in FilePaths :
        Live(p) /\ upper[p].type = "file" /\ doubt[p] = "nothing" =>
            rows[p].size = upper[p].content
=============================================================================
