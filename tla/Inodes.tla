------------------------------- MODULE Inodes -------------------------------
(***************************************************************************)
(* The inode table and the file handles of one mount, with the kernel as   *)
(* the code relies on it: LOOKUP, CREATE, MKDIR, UNLINK, RENAME, OPEN and  *)
(* FORGET for the names of one directory, each request served by its own   *)
(* goroutine.  The kernel counts the replies that told it of an inode and  *)
(* gives that count back with FORGET; the server finds an inode by its     *)
(* path and drops it when the count is down to zero.                       *)
(*                                                                         *)
(* A handler is split where it goes from the tree to the table.  The tree  *)
(* is what the view of Overlay shows; here a file is its identity, and is  *)
(* changed through the mount only.  The kernel holds the lock of the       *)
(* directory over a request that changes it, and shared over a first       *)
(* LOOKUP, but not over one that revalidates a name it has.                *)
(***************************************************************************)
EXTENDS Naturals, FiniteSets

CONSTANTS
    Names,      \* paths below the root
    Opens,      \* open files of the kernel
    MaxInodes,  \* bound on the inode numbers given out
    MaxFiles,   \* bound on the files made
    MaxLookups, \* bound on the answers that count for one inode
    None

Ids == 2..(MaxInodes + 1)
Files == 1..MaxFiles

ASSUME InodesAssumption ==
    /\ IsFiniteSet(Names)
    /\ MaxInodes \in Nat /\ MaxFiles \in Nat /\ MaxLookups \in Nat
    /\ None \notin Nat /\ None \notin Names

VARIABLES
    pathOf,      \* inodes: the Path of each inode, None if it is not in the table
    refcnt,      \* its Refcnt
    pathToInode,
    nextInodeID,
    handle,      \* fileHandles: the path of each open file
    tree,        \* the file each name stands for, None if there is none
    made,        \* how many files were made
    moved,       \* history: the files that were renamed or removed
    dentry,      \* kernel: the inode it has for a name
    nlookup,     \* kernel: its count of replies per inode
    forgets,     \* what it has given back with FORGETs not yet served
    lookup,      \* LOOKUP of each name: "none", "sent", "found" or "answered"
    reply,       \* the inode in the answer to it
    dirop,       \* "none", or the request that changes the directory
    stage,       \* "sent", "made" (no inode yet) or "answered"
    name,        \* its name
    to,          \* the new name of a RENAME
    child,       \* the inode in the answer to a CREATE or MKDIR
    opened,      \* the file that each open file was opened on
    openInode    \* kernel: its inode

tableVars == <<pathOf, refcnt, pathToInode, nextInodeID>>
treeVars == <<tree, made, moved>>
countVars == <<nlookup, forgets>>
lookupVars == <<lookup, reply>>
dirVars == <<dirop, stage, name, to, child>>
openVars == <<handle, opened, openInode>>
vars == <<tableVars, treeVars, dentry, countVars, lookupVars, dirVars, openVars>>

-----------------------------------------------------------------------------
Init ==
    /\ pathOf = [i \in Ids |-> None]
    /\ refcnt = [i \in Ids |-> 0]
    /\ pathToInode = [n \in Names |-> None]
    /\ nextInodeID = 2
    /\ tree = [n \in Names |-> None]
    /\ made = 0
    /\ moved = {}
    /\ dentry = [n \in Names |-> None]
    /\ nlookup = [i \in Ids |-> 0]
    /\ forgets = [i \in Ids |-> 0]
    /\ lookup = [n \in Names |-> "none"]
    /\ reply = [n \in Names |-> None]
    /\ dirop = "none" /\ stage = "sent" /\ name = None /\ to = None /\ child = None
    /\ handle = [f \in Opens |-> None]
    /\ opened = [f \in Opens |-> None]
    /\ openInode = [f \in Opens |-> None]

(* Mutation: an inode that is found is counted anew.                        *)
CountedAnew(i) == 1

Counted(i) == refcnt[i] + 1

(* allocInode(n) finds or makes inode i.                                    *)
AllocInode(n, i) ==
    IF pathToInode[n] # None
    THEN /\ i = pathToInode[n]
         /\ refcnt' = [refcnt EXCEPT ![i] = Counted(i)]
         /\ UNCHANGED <<pathOf, pathToInode, nextInodeID>>
    ELSE /\ i = nextInodeID
         /\ nextInodeID' = nextInodeID + 1
         /\ pathOf' = [pathOf EXCEPT ![i] = n]
         /\ refcnt' = [refcnt EXCEPT ![i] = 1]
         /\ pathToInode' = [pathToInode EXCEPT ![n] = i]

(* The bound allows one more answer about n.                                *)
Room(n) == pathToInode[n] # None => refcnt[pathToInode[n]] < MaxLookups

-----------------------------------------------------------------------------
(* LOOKUP.  A first one has no inode to compare with.                       *)

SendLookup(n) ==
    /\ lookup[n] = "none"
    /\ dentry[n] = None => dirop = "none"
    /\ Room(n)
    /\ lookup' = [lookup EXCEPT ![n] = "sent"]
    /\ UNCHANGED <<tableVars, treeVars, dentry, countVars, reply, dirVars, openVars>>

GetattrFinds(n) ==
    /\ lookup[n] = "sent"
    /\ tree[n] # None
    /\ lookup' = [lookup EXCEPT ![n] = "found"]
    /\ UNCHANGED <<tableVars, treeVars, dentry, countVars, reply, dirVars, openVars>>

(* ENOENT, and the kernel drops a name that it had.                         *)
GetattrFails(n) ==
    /\ lookup[n] = "sent"
    /\ tree[n] = None
    /\ lookup' = [lookup EXCEPT ![n] = "none"]
    /\ dentry' = [dentry EXCEPT ![n] = None]
    /\ UNCHANGED <<tableVars, treeVars, countVars, reply, dirVars, openVars>>

LookUpInode(n, i) ==
    /\ lookup[n] = "found"
    /\ AllocInode(n, i)
    /\ lookup' = [lookup EXCEPT ![n] = "answered"]
    /\ reply' = [reply EXCEPT ![n] = i]
    /\ UNCHANGED <<treeVars, dentry, countVars, dirVars, openVars>>

(* The answer to a revalidation with another inode is given back, and the   *)
(* name dropped.                                                            *)
LookupAnswered(n) ==
    LET i == reply[n]
    IN  /\ lookup[n] = "answered"
        /\ lookup' = [lookup EXCEPT ![n] = "none"]
        /\ reply' = [reply EXCEPT ![n] = None]
        /\ \/ /\ dentry[n] \in {None, i}
              /\ dentry' = [dentry EXCEPT ![n] = i]
              /\ nlookup' = [nlookup EXCEPT ![i] = @ + 1]
              /\ UNCHANGED forgets
           \/ /\ dentry[n] # i
              /\ dentry' = [dentry EXCEPT ![n] = None]
              /\ forgets' = [forgets EXCEPT ![i] = @ + 1]
              /\ UNCHANGED nlookup
        /\ UNCHANGED <<tableVars, treeVars, dirVars, openVars>>

(* Memory pressure.                                                         *)
Evict(n) ==
    /\ dentry[n] # None
    /\ dirop # "none" => n \notin {name, to}
    /\ dentry' = [dentry EXCEPT ![n] = None]
    /\ UNCHANGED <<tableVars, treeVars, countVars, lookupVars, dirVars, openVars>>

-----------------------------------------------------------------------------
(* FORGET                                                                   *)

SendForget(i) ==
    /\ nlookup[i] > 0
    /\ \A n \in Names : dentry[n] # i
    /\ \A f \in Opens : openInode[f] # i
    /\ forgets' = [forgets EXCEPT ![i] = @ + nlookup[i]]
    /\ nlookup' = [nlookup EXCEPT ![i] = 0]
    /\ UNCHANGED <<tableVars, treeVars, dentry, lookupVars, dirVars, openVars>>

(* Mutations: an inode given back once is dropped; its path stays behind.   *)
DroppedAtOnce(i, k) == TRUE

DropInodeOnly(i) ==
    /\ pathOf' = [pathOf EXCEPT ![i] = None]
    /\ UNCHANGED pathToInode

Dropped(i, k) == refcnt[i] <= k

Drop(i) ==
    /\ pathOf' = [pathOf EXCEPT ![i] = None]
    /\ pathToInode' = [pathToInode EXCEPT ![pathOf[i]] = None]

(* A FORGET for an inode that is not in the table would be ignored; see     *)
(* LookupCountsAgree.                                                       *)
ForgetInode(i, k) ==
    /\ k \in 1..forgets[i]
    /\ forgets' = [forgets EXCEPT ![i] = @ - k]
    /\ pathOf[i] # None
    /\ IF Dropped(i, k)
       THEN refcnt' = [refcnt EXCEPT ![i] = 0] /\ Drop(i)
       ELSE refcnt' = [refcnt EXCEPT ![i] = @ - k] /\ UNCHANGED <<pathOf, pathToInode>>
    /\ UNCHANGED <<nextInodeID, treeVars, dentry, nlookup, lookupVars, dirVars, openVars>>

-----------------------------------------------------------------------------
(* Requests that change the directory                                       *)

SendDirOp(op, n, m) ==
    /\ dirop = "none"
    /\ \A x \in Names : lookup[x] # "none" => dentry[x] # None
    /\ dirop' = op /\ stage' = "sent" /\ name' = n /\ to' = m
    /\ UNCHANGED <<child, tableVars, treeVars, dentry, countVars, lookupVars, openVars>>

(* The kernel sends a CREATE for a name it has just failed to find.         *)
SendMake(op, n) ==
    /\ op = "create" => \E f \in Opens : opened[f] = None
    /\ dentry[n] = None /\ tree[n] = None
    /\ made < MaxFiles /\ Room(n)
    /\ SendDirOp(op, n, None)

SendUnlink(n) == dentry[n] # None /\ SendDirOp("unlink", n, None)

SendRename(n, m) ==
    /\ n # m
    /\ dentry[n] # None
    /\ tree[m] # None => dentry[m] # None
    /\ SendDirOp("rename", n, m)

DirOpDone == dirop' = "none" /\ stage' = "sent" /\ name' = None /\ to' = None

(* EIO of the engine, or ENOENT for a name that is gone.                    *)
DirOpFails ==
    /\ dirop # "none"
    /\ stage = "sent"
    /\ DirOpDone
    /\ UNCHANGED <<child, tableVars, treeVars, dentry, countVars, lookupVars, openVars>>

EngineMakes ==
    /\ dirop \in {"create", "mkdir"}
    /\ stage = "sent"
    /\ made' = made + 1
    /\ tree' = [tree EXCEPT ![name] = made']
    /\ stage' = "made"
    /\ UNCHANGED <<moved, dirop, name, to, child, tableVars, dentry, countVars,
                   lookupVars, openVars>>

(* Mutation: the handle is not put into fileHandles.                        *)
HandleForgotten(f, i) == handle' = handle

NewHandle(f, i) == handle' = [handle EXCEPT ![f] = pathOf'[i]]

(* CreateFile opens the file as well, MkDir does not.                       *)
Open(f, n, i) ==
    /\ opened[f] = None
    /\ NewHandle(f, i)
    /\ opened' = [opened EXCEPT ![f] = tree[n]]
    /\ openInode' = [openInode EXCEPT ![f] = i]

MakeInode(i) ==
    /\ stage = "made"
    /\ AllocInode(name, i)
    /\ stage' = "answered"
    /\ child' = i
    /\ IF dirop = "create" THEN \E f \in Opens : Open(f, name, i) ELSE UNCHANGED openVars
    /\ UNCHANGED <<treeVars, dirop, name, to, dentry, countVars, lookupVars>>

MakeAnswered ==
    /\ dirop \in {"create", "mkdir"}
    /\ stage = "answered"
    /\ DirOpDone
    /\ child' = None
    /\ dentry' = [dentry EXCEPT ![name] = child]
    /\ nlookup' = [nlookup EXCEPT ![child] = @ + 1]
    /\ UNCHANGED <<forgets, tableVars, treeVars, lookupVars, openVars>>

(* RMDIR is the same here.                                                  *)
Unlink ==
    /\ dirop = "unlink"
    /\ stage = "sent"
    /\ tree[name] # None
    /\ tree' = [tree EXCEPT ![name] = None]
    /\ moved' = moved \cup {tree[name]}
    /\ stage' = "answered"
    /\ UNCHANGED <<made, dirop, name, to, child, tableVars, dentry, countVars,
                   lookupVars, openVars>>

UnlinkAnswered ==
    /\ dirop = "unlink"
    /\ stage = "answered"
    /\ DirOpDone
    /\ dentry' = [dentry EXCEPT ![name] = None]
    /\ UNCHANGED <<child, tableVars, treeVars, countVars, lookupVars, openVars>>

(* Mutation: the index of the table follows, the Path of the inode does not.*)
IndexRenamed ==
    /\ pathToInode' = [pathToInode EXCEPT ![to] = pathToInode[name], ![name] = None]
    /\ UNCHANGED <<pathOf, refcnt, nextInodeID>>

TableRenamed == UNCHANGED tableVars

(* The table and the handles keep the old path.                             *)
Rename ==
    /\ dirop = "rename"
    /\ stage = "sent"
    /\ tree[name] # None
    /\ tree' = [tree EXCEPT ![to] = tree[name], ![name] = None]
    /\ moved' = moved \cup ({tree[name], tree[to]} \ {None})
    /\ stage' = "answered"
    /\ TableRenamed
    /\ UNCHANGED <<made, dirop, name, to, child, dentry, countVars, lookupVars, openVars>>

(* The kernel moves the inode it has to the new name.                       *)
RenameAnswered ==
    /\ dirop = "rename"
    /\ stage = "answered"
    /\ DirOpDone
    /\ dentry' = [dentry EXCEPT ![to] = dentry[name], ![name] = None]
    /\ UNCHANGED <<child, tableVars, treeVars, countVars, lookupVars, openVars>>

-----------------------------------------------------------------------------
(* OPEN and RELEASE                                                         *)

OpenFile(n, f) ==
    /\ dentry[n] # None
    /\ tree[n] # None
    /\ pathOf[dentry[n]] # None
    /\ UNCHANGED pathOf
    /\ Open(f, n, dentry[n])
    /\ UNCHANGED <<refcnt, pathToInode, nextInodeID, treeVars, dentry, countVars,
                   lookupVars, dirVars>>

ReleaseFileHandle(f) ==
    /\ opened[f] # None
    /\ handle' = [handle EXCEPT ![f] = None]
    /\ opened' = [opened EXCEPT ![f] = None]
    /\ openInode' = [openInode EXCEPT ![f] = None]
    /\ UNCHANGED <<tableVars, treeVars, dentry, countVars, lookupVars, dirVars>>

-----------------------------------------------------------------------------
Next ==
    \/ \E n \in Names :
          \/ SendLookup(n) \/ GetattrFinds(n) \/ GetattrFails(n) \/ LookupAnswered(n)
          \/ Evict(n) \/ SendUnlink(n)
          \/ \E i \in Ids : LookUpInode(n, i)
          \/ \E op \in {"create", "mkdir"} : SendMake(op, n)
          \/ \E m \in Names : SendRename(n, m)
          \/ \E f \in Opens : OpenFile(n, f)
    \/ \E i \in Ids :
          SendForget(i) \/ MakeInode(i) \/ \E k \in 1..forgets[i] : ForgetInode(i, k)
    \/ DirOpFails \/ EngineMakes \/ MakeAnswered \/ Unlink \/ UnlinkAnswered
    \/ Rename \/ RenameAnswered
    \/ \E f \in Opens : ReleaseFileHandle(f)

Spec == Init /\ [][Next]_vars

-----------------------------------------------------------------------------
(* Every variable has its type; answers and open files have their inodes,   *)
(* and the kernel's open files are those with a handle.                     *)
TypeOK ==
    /\ pathOf \in [Ids -> Names \cup {None}]
    /\ refcnt \in [Ids -> Nat]
    /\ pathToInode \in [Names -> Ids \cup {None}]
    /\ nextInodeID \in 2..(MaxInodes + 2)
    /\ tree \in [Names -> Files \cup {None}]
    /\ made \in 0..MaxFiles
    /\ moved \subseteq Files
    /\ dentry \in [Names -> Ids \cup {None}]
    /\ nlookup \in [Ids -> Nat]
    /\ forgets \in [Ids -> Nat]
    /\ lookup \in [Names -> {"none", "sent", "found", "answered"}]
    /\ reply \in [Names -> Ids \cup {None}]
    /\ dirop \in {"none", "create", "mkdir", "unlink", "rename"}
    /\ stage \in {"sent", "made", "answered"}
    /\ name \in Names \cup {None}
    /\ to \in Names \cup {None}
    /\ child \in Ids \cup {None}
    /\ handle \in [Opens -> Names \cup {None}]
    /\ opened \in [Opens -> Files \cup {None}]
    /\ openInode \in [Opens -> Ids \cup {None}]
    /\ \A n \in Names : reply[n] # None <=> lookup[n] = "answered"
    /\ child # None <=> dirop \in {"create", "mkdir"} /\ stage = "answered"
    /\ \A f \in Opens :
          /\ opened[f] # None <=> handle[f] # None
          /\ opened[f] # None <=> openInode[f] # None

(* Answers about inode i that the kernel has not seen.                      *)
Answers(i) == {n \in Names : lookup[n] = "answered" /\ reply[n] = i}

Made(i) == IF child = i THEN 1 ELSE 0

(* Refcnt is what the kernel has counted, what answers on their way will    *)
(* add and what FORGETs on their way will take: nothing is leaked, and      *)
(* nothing dropped that an answer is about.                                 *)
LookupCountsAgree ==
    \A i \in Ids :
        /\ refcnt[i] = nlookup[i] + forgets[i] + Cardinality(Answers(i)) + Made(i)
        /\ pathOf[i] = None <=> refcnt[i] = 0

(* The two maps of the table are inverse to each other: allocInode never    *)
(* makes a second inode for a path, and ForgetInode removes the right one.  *)
TableInverse ==
    /\ \A i \in Ids : pathOf[i] # None => pathToInode[pathOf[i]] = i
    /\ \A n \in Names : pathToInode[n] # None => pathOf[pathToInode[n]] = n

(* An inode that the kernel has for a name or an open file is in the table: *)
(* no request is answered with ESTALE.                                      *)
NoStaleInode ==
    /\ \A n \in Names : dentry[n] # None => pathOf[dentry[n]] # None
    /\ \A f \in Opens : openInode[f] # None => pathOf[openInode[f]] # None

(* A handle reads and writes the file that was opened, as long as that file *)
(* is neither renamed nor removed.  After that the handle keeps the path: a *)
(* file made under the old name is read and written instead.                *)
HandleNamesFile ==
    \A f \in Opens :
        opened[f] # None /\ opened[f] \notin moved => tree[handle[f]] = opened[f]
=============================================================================
