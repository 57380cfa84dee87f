------------------------------ MODULE WorkTree ------------------------------
(***************************************************************************)
(* What a mounted repository promises to its users between two moves of    *)
(* HEAD: a tree of files that only the requested operation changes, once,  *)
(* at once and as requested (README, "Filesystem operations"); and what a  *)
(* failure or a crash may do to it, which no comment promises to avoid.    *)
(***************************************************************************)
EXTENDS Naturals

CONSTANTS
    Paths,     \* the names in the tree, its root excluded
    DirPaths,  \* those that are used for directories
    Parent,    \* the directory each name is in, or Root
    Root,
    InitTree,  \* the tree of the mounted commit
    Edits,     \* what users write
    Beside     \* the name <path>.tmp, by file

VARIABLES
    tree,
    request,
    faults  \* how many things have failed

treeVars == <<tree, request, faults>>

FilePaths == Paths \ DirPaths

(* A node is missing, a directory, a file that can be read, whose content   *)
(* is the set of the edits it shows, or one that cannot.                    *)
Nothing == [type |-> "none", content |-> {}]
Directory == [type |-> "dir", content |-> {}]
Broken == [type |-> "unreadable", content |-> {}]
File(c) == [type |-> "file", content |-> c]
IsFile(n) == n = File(n.content)

Exists(p) == tree[p].type # "none"
Dirs == {Root} \cup {d \in DirPaths : Exists(d)}
Empty(d) == \A p \in Paths : Parent[p] = d => ~Exists(p)

(* done: the request has taken effect, and is still to be answered.         *)
Request(name, p, q) == [name |-> name, p |-> p, q |-> q, done |-> FALSE]

NoRequest == Request("none", Root, Root)

-----------------------------------------------------------------------------
Init ==
    /\ tree = InitTree
    /\ request = NoRequest
    /\ faults = 0

Write(p, e) ==
    /\ Exists(p)
    /\ tree' = [tree EXCEPT ![p] = File(@.content \cup {e})]

Truncate(p) ==
    /\ Exists(p)
    /\ \/ tree' = [tree EXCEPT ![p] = File({})]
       \/ tree' = [tree EXCEPT ![p] = File(@.content)]
       \/ \E e \in Edits : tree' = [tree EXCEPT ![p] = File(@.content \cup {e})]

Create(p) ==
    /\ ~Exists(p) /\ Parent[p] \in Dirs
    /\ tree' = [tree EXCEPT ![p] = File({})]

Mkdir(d) ==
    /\ ~Exists(d) /\ Parent[d] \in Dirs
    /\ tree' = [tree EXCEPT ![d] = Directory]

Unlink(p) ==
    /\ Exists(p)
    /\ tree' = [tree EXCEPT ![p] = Nothing]

Rmdir(d) ==
    /\ Exists(d) /\ Empty(d)
    /\ tree' = [tree EXCEPT ![d] = Nothing]

Rename(p, q) ==
    /\ Exists(p) /\ Parent[q] \in Dirs
    /\ tree' = [tree EXCEPT ![q] = tree[p], ![p] = Nothing]

-----------------------------------------------------------------------------
(* Something fails during a step, or does not.                              *)
Fails == faults' = faults + 1
MayFail == Fails \/ faults' = faults

Ask ==
    /\ request = NoRequest
    /\ UNCHANGED <<tree, faults>>
    /\ \/ \E name \in {"write", "truncate", "create", "unlink"}, p \in FilePaths :
             request' = Request(name, p, p)
       \/ \E name \in {"mkdir", "rmdir"}, d \in DirPaths : request' = Request(name, d, d)
       \/ \E p, q \in FilePaths : p # q /\ request' = Request("rename", p, q)

Perform ==
    LET p == request.p IN
    /\ ~request.done
    /\ \/ request.name = "write" /\ \E e \in Edits : Write(p, e)
       \/ request.name = "truncate" /\ Truncate(p)
       \/ request.name = "create" /\ Create(p)
       \/ request.name = "mkdir" /\ Mkdir(p)
       \/ request.name = "unlink" /\ Unlink(p)
       \/ request.name = "rmdir" /\ Rmdir(p)
       \/ request.name = "rename" /\ Rename(p, request.q)
    /\ request' \in {NoRequest, [request EXCEPT !.done = TRUE]}
    /\ MayFail

(* After the operation, or instead of it when it fails; nothing else need   *)
(* show that something failed.                                              *)
Answer ==
    /\ request # NoRequest
    /\ request' = NoRequest
    /\ UNCHANGED tree
    /\ MayFail

Fail == Fails /\ UNCHANGED <<tree, request>>

-----------------------------------------------------------------------------
(* But it may.  An unlink that fails when the file is gone leaves a name    *)
(* that cannot be read.                                                     *)
HalfUnlink(p) ==
    /\ request.name = "unlink" /\ request.done
    /\ Parent[p] \in Dirs
    /\ tree' = [tree EXCEPT ![p] = Broken]
    /\ Fails

(* A rename may lose the old name, and leave under the new one what cannot  *)
(* be read, or a file that an earlier failure had left there.               *)
HalfRename(p, q) ==
    /\ request.name = "rename"
    /\ \/ tree'[p] = tree[p]
       \/ tree'[p] = Nothing
    /\ \/ tree'[q] = tree[q]
       \/ Parent[q] \in Dirs /\ (tree'[q] = Broken \/ IsFile(tree'[q]))
    /\ tree' = [tree EXCEPT ![p] = tree'[p], ![q] = tree'[q]]
    /\ Fails

(* The first change of a file empties it when its blob cannot be had.       *)
Emptied(p) ==
    /\ request.name \in {"write", "truncate", "rename"}
    /\ Exists(p)
    /\ tree' = [tree EXCEPT ![p] = File({})]
    /\ faults > 0 /\ UNCHANGED faults

(* With no failure at all, the first change of a file replaces the file     *)
(* that is named as its <path>.tmp: the new content of that file is the     *)
(* copy, empty where the copy is, and then cannot be read.                  *)
Overwritten(p, t) ==
    /\ request.name \in {"write", "truncate", "rename"}
    /\ t \in FilePaths /\ Exists(t)
    /\ \/ tree' = [tree EXCEPT ![t] = tree[p]]
       \/ tree' = [tree EXCEPT ![t] = File({})] /\ Fails
       \/ tree' = [tree EXCEPT ![t] = Broken]
    /\ MayFail

Spoil ==
    LET p == request.p IN
    /\ \/ HalfUnlink(p)
       \/ HalfRename(p, request.q)
       \/ Emptied(p)
       \/ Overwritten(p, Beside[p])
    /\ request' \in {request, NoRequest}

Next == Ask \/ Perform \/ Answer \/ Fail \/ Spoil

Spec == Init /\ [][Next]_treeVars

(* Whatever is there is in a directory that is there.                       *)
Rooted == \A p \in Paths : Exists(p) => Parent[p] \in Dirs
=============================================================================
