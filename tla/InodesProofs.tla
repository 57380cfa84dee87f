---------------------------- MODULE InodesProofs ----------------------------
(***************************************************************************)
(* Theorems about Inodes, for any finite set of names and any open files,  *)
(* inode numbers and files.                                                *)
(***************************************************************************)
EXTENDS Inodes, FiniteSetTheorems, TLAPS

Making == dirop \in {"create", "mkdir"}

(* What a request that changes the directory may rely on, by its stage: the *)
(* kernel's lock keeps the name as it was when the request was sent.        *)
DirInv ==
    /\ dirop # "none" => name \in Names
    /\ dirop = "rename" => to \in Names
    /\ stage = "made" => Making /\ tree[name] # None
    /\ Making => dentry[name] = None /\ lookup[name] = "none"
    /\ Making /\ stage = "sent" => tree[name] = None /\ made < MaxFiles
    /\ dirop = "rename" /\ stage = "answered" => tree[to] \in moved

(* Numbers not given out yet are in no table; what the kernel holds it has  *)
(* counted, or is about to.                                                 *)
Fresh == \A i \in Ids : i >= nextInodeID => pathOf[i] = None

Held ==
    /\ \A n \in Names : dentry[n] # None => nlookup[dentry[n]] > 0
    /\ \A f \in Opens :
          openInode[f] # None => nlookup[openInode[f]] + Made(openInode[f]) > 0

(* The Path of an inode in an answer is the name asked for; that of an      *)
(* inode the kernel has for a name is this name, as long as the file was    *)
(* not moved.                                                               *)
PathInv ==
    /\ \A n \in Names : reply[n] # None => pathOf[reply[n]] = n
    /\ child # None => pathOf[child] = name
    /\ \A n \in Names :
          dentry[n] # None /\ tree[n] # None /\ tree[n] \notin moved =>
              pathOf[dentry[n]] = n

Inv ==
    /\ TypeOK
    /\ LookupCountsAgree
    /\ TableInverse
    /\ Fresh
    /\ Held
    /\ DirInv
    /\ PathInv
    /\ HandleNamesFile

-----------------------------------------------------------------------------
(* The answers about an inode are finitely many, and any of them counts.    *)
LEMMA AnswersCount ==
    ASSUME NEW i
    PROVE  /\ IsFiniteSet(Answers(i))
           /\ Cardinality(Answers(i)) \in Nat
           /\ \A n \in Answers(i) : Cardinality(Answers(i)) > 0
<1>1. IsFiniteSet(Answers(i))
  <2>1. Answers(i) \subseteq Names
    BY DEF Answers
  <2>. QED  BY <2>1, FS_Subset, InodesAssumption
<1>2. Cardinality(Answers(i)) \in Nat
  BY <1>1, FS_CardinalityType
<1>3. Cardinality(Answers(i)) = 0 <=> Answers(i) = {}
  BY <1>1, FS_EmptySet
<1>. QED  BY <1>1, <1>2, <1>3

(* allocInode counts once more, for an inode whose path is the one asked    *)
(* for, and leaves the two maps inverse to each other.                      *)
LEMMA Allocated ==
    ASSUME Inv, NEW n \in Names, NEW i \in Ids, AllocInode(n, i)
    PROVE  /\ pathOf[i] \in {None, n}
           /\ pathOf' = [pathOf EXCEPT ![i] = n]
           /\ pathToInode' = [pathToInode EXCEPT ![n] = i]
           /\ refcnt' = [refcnt EXCEPT ![i] = refcnt[i] + 1]
           /\ nextInodeID' \in 2..(MaxInodes + 2)
           /\ TableInverse' /\ Fresh'
<1>. USE DEF Inv, TypeOK, AllocInode, TableInverse, Fresh, Counted
<1>. n # None /\ i # None
  BY InodesAssumption DEF Ids
<1>1. CASE pathToInode[n] # None
  <2>1. i = pathToInode[n] /\ pathOf[i] = n
    BY <1>1
  <2>2. UNCHANGED <<pathOf, pathToInode, nextInodeID>>
    BY <1>1
  <2>3. refcnt' = [refcnt EXCEPT ![i] = refcnt[i] + 1]
    BY <1>1
  <2>. QED  BY <2>1, <2>2, <2>3
<1>2. CASE pathToInode[n] = None
  <2>1. i = nextInodeID /\ nextInodeID' = nextInodeID + 1 /\ pathOf[i] = None
    BY <1>2 DEF Ids
  <2>2. refcnt[i] = 0
    BY <2>1 DEF LookupCountsAgree
  <2>3. /\ pathOf' = [pathOf EXCEPT ![i] = n]
        /\ pathToInode' = [pathToInode EXCEPT ![n] = i]
        /\ refcnt' = [refcnt EXCEPT ![i] = refcnt[i] + 1]
    BY <1>2, <2>2
  <2>4. nextInodeID' \in 2..(MaxInodes + 2)
    BY <2>1, InodesAssumption DEF Ids
  <2>5. TableInverse'
    <3>1. ASSUME NEW j \in Ids, pathOf'[j] # None PROVE pathToInode'[pathOf'[j]] = j
      <4>1. CASE j = i
        BY <2>3, <4>1
      <4>2. CASE j # i
        <5>1. pathOf'[j] = pathOf[j] /\ pathOf[j] \in Names /\ pathToInode[pathOf[j]] = j
          BY <2>3, <3>1, <4>2
        <5>2. pathOf[j] # n
          BY <1>2, <5>1, InodesAssumption DEF Ids
        <5>. QED  BY <2>3, <5>1, <5>2
      <4>. QED  BY <4>1, <4>2
    <3>2. ASSUME NEW m \in Names, pathToInode'[m] # None PROVE pathOf'[pathToInode'[m]] = m
      <4>1. CASE m = n
        BY <2>3, <4>1
      <4>2. CASE m # n
        <5>1. /\ pathToInode'[m] = pathToInode[m] /\ pathToInode[m] \in Ids
              /\ pathOf[pathToInode[m]] = m
          BY <2>3, <3>2, <4>2
        <5>2. pathToInode[m] # i
          BY <2>1, <5>1, InodesAssumption
        <5>. QED  BY <2>3, <5>1, <5>2
      <4>. QED  BY <4>1, <4>2
    <3>. QED  BY <3>1, <3>2
  <2>6. Fresh'
    BY <2>1, <2>3 DEF Ids
  <2>. QED  BY <2>1, <2>3, <2>4, <2>5, <2>6
<1>. QED  BY <1>1, <1>2

(* Counts of one inode move.                                                *)
LEMMA OneCountMoves ==
    ASSUME LookupCountsAgree, NEW i \in Ids,
           \A j \in Ids \ {i} :
              /\ pathOf'[j] = pathOf[j] /\ refcnt'[j] = refcnt[j]
              /\ nlookup'[j] = nlookup[j] /\ forgets'[j] = forgets[j]
              /\ Answers(j)' = Answers(j) /\ Made(j)' = Made(j),
           refcnt'[i] = nlookup'[i] + forgets'[i] + Cardinality(Answers(i)') + Made(i)',
           pathOf'[i] = None <=> refcnt'[i] = 0
    PROVE  LookupCountsAgree'
BY DEF LookupCountsAgree

(* Nothing counted anew.                                                    *)
LEMMA CountsKept ==
    ASSUME LookupCountsAgree, UNCHANGED <<pathOf, refcnt, nlookup, forgets, reply, child>>,
           \A n \in Names : lookup'[n] = "answered" <=> lookup[n] = "answered"
    PROVE  LookupCountsAgree'
<1>1. \A i \in Ids : Answers(i)' = Answers(i) /\ Made(i)' = Made(i)
  BY DEF Answers, Made
<1>. QED  BY <1>1 DEF LookupCountsAgree

LEMMA InitInv == Init => Inv
<1>. SUFFICES ASSUME Init PROVE Inv
  OBVIOUS
<1>. USE DEF Init
<1>. None \notin Nat
  BY InodesAssumption
<1>1. TypeOK
  BY InodesAssumption DEF TypeOK, Ids
<1>2. LookupCountsAgree
  <2>1. \A i \in Ids : Answers(i) = {} /\ Made(i) = 0
    BY DEF Answers, Made, Ids
  <2>2. \A i \in Ids : Cardinality(Answers(i)) = 0
    BY <2>1, FS_EmptySet
  <2>. QED  BY <2>1, <2>2 DEF LookupCountsAgree
<1>3. TableInverse /\ Fresh /\ Held /\ DirInv /\ PathInv /\ HandleNamesFile
  BY DEF TableInverse, Fresh, Held, DirInv, PathInv, HandleNamesFile, Making
<1>. QED  BY <1>1, <1>2, <1>3 DEF Inv

LEMMA StepInv == Inv /\ [Next]_vars => Inv'
<1>. SUFFICES ASSUME Inv, [Next]_vars PROVE Inv'
  OBVIOUS
<1>. USE DEF Inv, Making, tableVars, treeVars, countVars, lookupVars, dirVars, openVars
<1>. None \notin Nat /\ None \notin Names /\ None \notin Ids /\ None \notin Files
  BY InodesAssumption DEF Ids, Files
<1>1. ASSUME NEW n \in Names, SendLookup(n) PROVE Inv'
  <2>. USE <1>1 DEF SendLookup
  <2>1. LookupCountsAgree'
    BY CountsKept
  <2>2. /\ TypeOK' /\ TableInverse' /\ Fresh' /\ Held'
        /\ DirInv' /\ PathInv' /\ HandleNamesFile'
    BY DEF TypeOK, TableInverse, Fresh, Held, Made, DirInv, PathInv, HandleNamesFile
  <2>. QED  BY <2>1, <2>2
<1>2. ASSUME NEW n \in Names, GetattrFinds(n) PROVE Inv'
  <2>. USE <1>2 DEF GetattrFinds
  <2>1. LookupCountsAgree'
    BY CountsKept
  <2>2. /\ TypeOK' /\ TableInverse' /\ Fresh' /\ Held'
        /\ DirInv' /\ PathInv' /\ HandleNamesFile'
    BY DEF TypeOK, TableInverse, Fresh, Held, Made, DirInv, PathInv, HandleNamesFile
  <2>. QED  BY <2>1, <2>2
<1>3. ASSUME NEW n \in Names, GetattrFails(n) PROVE Inv'
  <2>. USE <1>3 DEF GetattrFails
  <2>1. LookupCountsAgree'
    BY CountsKept
  <2>2. /\ TypeOK' /\ TableInverse' /\ Fresh' /\ Held'
        /\ DirInv' /\ PathInv' /\ HandleNamesFile'
    BY DEF TypeOK, TableInverse, Fresh, Held, Made, DirInv, PathInv, HandleNamesFile
  <2>. QED  BY <2>1, <2>2
<1>4. ASSUME NEW n \in Names, LookupAnswered(n) PROVE Inv'
  <2>. USE <1>4 DEF LookupAnswered
  <2>1. TypeOK'
    BY DEF TypeOK
  <2>2. LookupCountsAgree'
    <3>1. PICK i \in Ids : i = reply[n]
      BY DEF TypeOK
    <3>2. /\ n \in Answers(i) /\ Answers(i)' = Answers(i) \ {n}
          /\ \A j \in Ids \ {i} : Answers(j)' = Answers(j)
      BY <3>1 DEF TypeOK, Answers
    <3>3. Cardinality(Answers(i)') = Cardinality(Answers(i)) - 1
      BY <3>2, AnswersCount, FS_RemoveElement
    <3>4. /\ nlookup'[i] + forgets'[i] = nlookup[i] + forgets[i] + 1
          /\ nlookup'[i] \in Nat /\ forgets'[i] \in Nat
          /\ \A j \in Ids \ {i} : nlookup'[j] = nlookup[j] /\ forgets'[j] = forgets[j]
      BY <3>1 DEF TypeOK
    <3>5. \A j \in Ids : Made(j)' = Made(j) /\ Made(j) \in Nat
      BY DEF Made
    <3>6. UNCHANGED <<pathOf, refcnt>>
      OBVIOUS
    <3>7. refcnt[i] = nlookup[i] + forgets[i] + Cardinality(Answers(i)) + Made(i)
      BY DEF LookupCountsAgree
    <3>8. refcnt'[i] = nlookup'[i] + forgets'[i] + Cardinality(Answers(i)') + Made(i)'
      BY <3>3, <3>4, <3>5, <3>6, <3>7, AnswersCount DEF TypeOK
    <3>9. pathOf'[i] = None <=> refcnt'[i] = 0
      BY <3>6 DEF LookupCountsAgree
    <3>. QED  BY <3>2, <3>4, <3>5, <3>6, <3>8, <3>9, OneCountMoves
  <2>3. TableInverse' /\ Fresh' /\ Held' /\ DirInv' /\ PathInv' /\ HandleNamesFile'
    BY DEF TypeOK, TableInverse, Fresh, Held, Made, DirInv, PathInv, HandleNamesFile
  <2>. QED  BY <2>1, <2>2, <2>3
<1>5. ASSUME NEW n \in Names, Evict(n) PROVE Inv'
  <2>. USE <1>5 DEF Evict
  <2>1. LookupCountsAgree'
    BY CountsKept
  <2>2. /\ TypeOK' /\ TableInverse' /\ Fresh' /\ Held'
        /\ DirInv' /\ PathInv' /\ HandleNamesFile'
    BY DEF TypeOK, TableInverse, Fresh, Held, Made, DirInv, PathInv, HandleNamesFile
  <2>. QED  BY <2>1, <2>2
<1>6. ASSUME NEW n \in Names, SendUnlink(n) PROVE Inv'
  <2>. USE <1>6 DEF SendUnlink, SendDirOp
  <2>1. LookupCountsAgree'
    BY CountsKept
  <2>2. /\ TypeOK' /\ TableInverse' /\ Fresh' /\ Held'
        /\ DirInv' /\ PathInv' /\ HandleNamesFile'
    BY DEF TypeOK, TableInverse, Fresh, Held, Made, DirInv, PathInv, HandleNamesFile
  <2>. QED  BY <2>1, <2>2
<1>7. ASSUME NEW n \in Names, NEW i \in Ids, LookUpInode(n, i) PROVE Inv'
  <2>. USE <1>7 DEF LookUpInode
  <2>. /\ pathOf[i] \in {None, n} /\ pathOf' = [pathOf EXCEPT ![i] = n]
       /\ pathToInode' = [pathToInode EXCEPT ![n] = i]
       /\ refcnt' = [refcnt EXCEPT ![i] = refcnt[i] + 1]
       /\ nextInodeID' \in 2..(MaxInodes + 2)
    BY Allocated
  <2>1. TypeOK'
    BY DEF TypeOK
  <2>2. LookupCountsAgree'
    <3>1. /\ n \notin Answers(i) /\ Answers(i)' = Answers(i) \cup {n}
          /\ \A j \in Ids \ {i} : Answers(j)' = Answers(j)
      BY DEF TypeOK, Answers
    <3>2. Cardinality(Answers(i)') = Cardinality(Answers(i)) + 1
      BY <3>1, AnswersCount, FS_AddElement
    <3>3. \A j \in Ids : Made(j)' = Made(j) /\ Made(j) \in Nat
      BY DEF Made
    <3>4. refcnt[i] = nlookup[i] + forgets[i] + Cardinality(Answers(i)) + Made(i)
      BY DEF LookupCountsAgree
    <3>5. refcnt'[i] = nlookup'[i] + forgets'[i] + Cardinality(Answers(i)') + Made(i)'
      BY <3>2, <3>3, <3>4, AnswersCount DEF TypeOK
    <3>6. pathOf'[i] # None /\ refcnt'[i] # 0
      BY DEF TypeOK
    <3>7. \A j \in Ids \ {i} : pathOf'[j] = pathOf[j] /\ refcnt'[j] = refcnt[j]
      BY DEF TypeOK
    <3>. QED  BY <3>1, <3>3, <3>5, <3>6, <3>7, OneCountMoves
  <2>3. TableInverse'
    BY Allocated
  <2>4. Fresh'
    BY Allocated
  <2>5. PathInv'
    <3>1. /\ pathOf'[i] = n /\ reply' = [reply EXCEPT ![n] = i]
          /\ \A j \in Ids \ {i} : pathOf'[j] = pathOf[j]
      BY DEF TypeOK
    <3>2. \A j \in Ids : pathOf[j] # None => pathOf'[j] = pathOf[j]
      BY <3>1
    <3>3. \A m \in Names : reply'[m] # None => pathOf'[reply'[m]] = m
      BY <3>1, <3>2 DEF TypeOK, PathInv
    <3>4. child' # None => pathOf'[child'] = name'
      BY <3>2 DEF TypeOK, PathInv, DirInv
    <3>. QED  BY <3>2, <3>3, <3>4 DEF TypeOK, PathInv
  <2>6. Held' /\ DirInv' /\ HandleNamesFile'
    BY DEF TypeOK, Held, Made, DirInv, HandleNamesFile
  <2>. QED  BY <2>1, <2>2, <2>3, <2>4, <2>5, <2>6
<1>8. ASSUME NEW op \in {"create", "mkdir"}, NEW n \in Names, SendMake(op, n) PROVE Inv'
  <2>. USE <1>8 DEF SendMake, SendDirOp
  <2>1. LookupCountsAgree'
    BY CountsKept
  <2>2. /\ TypeOK' /\ TableInverse' /\ Fresh' /\ Held'
        /\ DirInv' /\ PathInv' /\ HandleNamesFile'
    BY DEF TypeOK, TableInverse, Fresh, Held, Made, DirInv, PathInv, HandleNamesFile
  <2>. QED  BY <2>1, <2>2
<1>9. ASSUME NEW n \in Names, NEW m \in Names, SendRename(n, m) PROVE Inv'
  <2>. USE <1>9 DEF SendRename, SendDirOp
  <2>1. LookupCountsAgree'
    BY CountsKept
  <2>2. /\ TypeOK' /\ TableInverse' /\ Fresh' /\ Held'
        /\ DirInv' /\ PathInv' /\ HandleNamesFile'
    BY DEF TypeOK, TableInverse, Fresh, Held, Made, DirInv, PathInv, HandleNamesFile
  <2>. QED  BY <2>1, <2>2
<1>10. ASSUME NEW n \in Names, NEW f \in Opens, OpenFile(n, f) PROVE Inv'
  <2>. USE <1>10 DEF OpenFile, Open, NewHandle
  <2>1. HandleNamesFile'
    BY DEF TypeOK, HandleNamesFile, PathInv
  <2>2. LookupCountsAgree'
    BY CountsKept
  <2>3. TypeOK' /\ TableInverse' /\ Fresh' /\ Held' /\ DirInv' /\ PathInv'
    BY DEF TypeOK, TableInverse, Fresh, Held, Made, DirInv, PathInv
  <2>. QED  BY <2>1, <2>2, <2>3
<1>11. ASSUME NEW i \in Ids, SendForget(i) PROVE Inv'
  <2>. USE <1>11 DEF SendForget
  <2>1. LookupCountsAgree'
    <3>1. \A j \in Ids : Answers(j)' = Answers(j) /\ Made(j)' = Made(j)
      BY DEF Answers, Made
    <3>2. refcnt[i] = nlookup[i] + forgets[i] + Cardinality(Answers(i)) + Made(i)
      BY DEF LookupCountsAgree
    <3>3. nlookup'[i] = 0 /\ forgets'[i] = nlookup[i] + forgets[i]
      BY DEF TypeOK
    <3>4. refcnt'[i] = nlookup'[i] + forgets'[i] + Cardinality(Answers(i)') + Made(i)'
      BY <3>1, <3>2, <3>3, AnswersCount DEF TypeOK, Made
    <3>5. pathOf'[i] = None <=> refcnt'[i] = 0
      BY DEF LookupCountsAgree
    <3>6. \A j \in Ids \ {i} : nlookup'[j] = nlookup[j] /\ forgets'[j] = forgets[j]
      BY DEF TypeOK
    <3>. QED  BY <3>1, <3>4, <3>5, <3>6, OneCountMoves
  <2>2. /\ TypeOK' /\ TableInverse' /\ Fresh' /\ Held'
        /\ DirInv' /\ PathInv' /\ HandleNamesFile'
    BY DEF TypeOK, TableInverse, Fresh, Held, Made, DirInv, PathInv, HandleNamesFile
  <2>. QED  BY <2>1, <2>2
<1>12. ASSUME NEW i \in Ids, MakeInode(i) PROVE Inv'
  <2>. USE <1>12 DEF MakeInode, Open, NewHandle
  <2>. name \in Names
    BY DEF DirInv
  <2>. /\ pathOf[i] \in {None, name} /\ pathOf' = [pathOf EXCEPT ![i] = name]
       /\ pathToInode' = [pathToInode EXCEPT ![name] = i]
       /\ refcnt' = [refcnt EXCEPT ![i] = refcnt[i] + 1]
       /\ nextInodeID' \in 2..(MaxInodes + 2)
    BY Allocated
  <2>1. TypeOK'
    BY DEF TypeOK, DirInv
  <2>2. LookupCountsAgree'
    <3>1. \A j \in Ids : Answers(j)' = Answers(j)
      BY DEF Answers
    <3>2. /\ Made(i) = 0 /\ Made(i)' = 1
          /\ \A j \in Ids \ {i} : Made(j)' = Made(j)
      BY DEF Made, TypeOK
    <3>4. refcnt[i] = nlookup[i] + forgets[i] + Cardinality(Answers(i)) + Made(i)
      BY DEF LookupCountsAgree
    <3>5. refcnt'[i] = nlookup'[i] + forgets'[i] + Cardinality(Answers(i)') + Made(i)'
      BY <3>1, <3>2, <3>4, AnswersCount DEF TypeOK
    <3>6. pathOf'[i] # None /\ refcnt'[i] # 0
      BY DEF TypeOK
    <3>7. \A j \in Ids \ {i} : pathOf'[j] = pathOf[j] /\ refcnt'[j] = refcnt[j]
      BY DEF TypeOK
    <3>. QED  BY <3>1, <3>2, <3>5, <3>6, <3>7, OneCountMoves
  <2>3. TableInverse'
    BY Allocated
  <2>4. Fresh'
    BY Allocated
  <2>5. PathInv'
    BY DEF TypeOK, PathInv
  <2>6. HandleNamesFile'
    BY DEF TypeOK, HandleNamesFile
  <2>7. Held' /\ DirInv'
    BY DEF TypeOK, Held, Made, DirInv
  <2>. QED  BY <2>1, <2>2, <2>3, <2>4, <2>5, <2>6, <2>7
<1>13. ASSUME NEW i \in Ids, NEW k \in 1..forgets[i], ForgetInode(i, k) PROVE Inv'
  <2>. USE <1>13 DEF ForgetInode, Dropped, Drop
  <2>1. LookupCountsAgree'
    <3>1. \A j \in Ids : Answers(j)' = Answers(j) /\ Made(j)' = Made(j)
      BY DEF Answers, Made
    <3>2. refcnt[i] = nlookup[i] + forgets[i] + Cardinality(Answers(i)) + Made(i)
      BY DEF LookupCountsAgree
    <3>3. /\ forgets[i] \in Nat /\ nlookup[i] \in Nat /\ refcnt[i] \in Nat
          /\ Made(i) \in Nat /\ Cardinality(Answers(i)) \in Nat
          /\ k \in Nat /\ k <= forgets[i] /\ k > 0
      BY AnswersCount DEF TypeOK, Made
    <3>4. /\ refcnt'[i] = refcnt[i] - k /\ forgets'[i] = forgets[i] - k
          /\ pathOf'[i] = None <=> refcnt[i] = k
      BY <3>2, <3>3 DEF TypeOK
    <3>5. refcnt'[i] = nlookup'[i] + forgets'[i] + Cardinality(Answers(i)') + Made(i)'
      BY <3>1, <3>2, <3>3, <3>4
    <3>6. pathOf'[i] = None <=> refcnt'[i] = 0
      BY <3>3, <3>4
    <3>7. \A j \in Ids \ {i} :
             /\ pathOf'[j] = pathOf[j] /\ refcnt'[j] = refcnt[j]
             /\ nlookup'[j] = nlookup[j] /\ forgets'[j] = forgets[j]
      BY DEF TypeOK
    <3>. QED  BY <3>1, <3>5, <3>6, <3>7, OneCountMoves
  <2>2. PathInv'
    <3>1. \A j \in Ids \ {i} : pathOf'[j] = pathOf[j]
      BY DEF TypeOK
    <3>2. CASE pathOf' = pathOf
      BY <3>2 DEF PathInv
    <3>3. CASE refcnt[i] <= k
      <4>1. /\ refcnt[i] = nlookup[i] + forgets[i] + Cardinality(Answers(i)) + Made(i)
            /\ forgets[i] \in Nat /\ nlookup[i] \in Nat /\ refcnt[i] \in Nat
            /\ Made(i) \in Nat /\ Cardinality(Answers(i)) \in Nat /\ k <= forgets[i]
        BY AnswersCount DEF LookupCountsAgree, TypeOK, Made
      <4>2. nlookup[i] = 0 /\ Cardinality(Answers(i)) = 0 /\ Made(i) = 0
        BY <3>3, <4>1
      <4>3. child # i
        BY <4>2 DEF Made
      <4>4. \A n \in Names : dentry[n] # i
        BY <4>2 DEF Held
      <4>5. \A n \in Names : reply[n] # i
        <5>1. ASSUME NEW n \in Names, reply[n] = i PROVE n \in Answers(i)
          BY <5>1 DEF Answers, TypeOK
        <5>. QED  BY <4>2, <5>1, AnswersCount
      <4>. QED  BY <3>1, <4>3, <4>4, <4>5 DEF PathInv, TypeOK
    <3>. QED  BY <3>2, <3>3
  <2>3. TypeOK' /\ TableInverse' /\ Fresh' /\ Held' /\ DirInv' /\ HandleNamesFile'
    BY DEF TypeOK, TableInverse, Fresh, Held, Made, DirInv, HandleNamesFile
  <2>. QED  BY <2>1, <2>2, <2>3
<1>14. CASE DirOpFails
  <2>. USE <1>14 DEF DirOpFails, DirOpDone
  <2>1. LookupCountsAgree'
    BY CountsKept
  <2>2. /\ TypeOK' /\ TableInverse' /\ Fresh' /\ Held'
        /\ DirInv' /\ PathInv' /\ HandleNamesFile'
    BY DEF TypeOK, TableInverse, Fresh, Held, Made, DirInv, PathInv, HandleNamesFile
  <2>. QED  BY <2>1, <2>2
<1>15. CASE EngineMakes
  <2>. USE <1>15 DEF EngineMakes
  <2>1. TypeOK'
    BY InodesAssumption DEF TypeOK, DirInv, Files
  <2>2. HandleNamesFile'
    BY DEF TypeOK, DirInv, HandleNamesFile, Files
  <2>3. LookupCountsAgree'
    BY CountsKept
  <2>4. TableInverse' /\ Fresh' /\ Held' /\ DirInv' /\ PathInv'
    BY DEF TypeOK, TableInverse, Fresh, Held, Made, DirInv, PathInv
  <2>. QED  BY <2>1, <2>2, <2>3, <2>4
<1>16. CASE MakeAnswered
  <2>. USE <1>16 DEF MakeAnswered, DirOpDone
  <2>1. TypeOK'
    BY DEF TypeOK, DirInv, Files
  <2>2. LookupCountsAgree'
    <3>1. PICK i \in Ids : i = child
      BY DEF TypeOK
    <3>2. /\ Made(i) = 1 /\ Made(i)' = 0
          /\ \A j \in Ids \ {i} : Made(j)' = Made(j)
      BY <3>1 DEF Made
    <3>3. \A j \in Ids : Answers(j)' = Answers(j)
      BY DEF Answers
    <3>4. refcnt[i] = nlookup[i] + forgets[i] + Cardinality(Answers(i)) + Made(i)
      BY DEF LookupCountsAgree
    <3>5. /\ nlookup'[i] = nlookup[i] + 1
          /\ \A j \in Ids \ {i} : nlookup'[j] = nlookup[j]
      BY <3>1 DEF TypeOK
    <3>6. refcnt'[i] = nlookup'[i] + forgets'[i] + Cardinality(Answers(i)') + Made(i)'
      BY <3>2, <3>3, <3>4, <3>5, AnswersCount DEF TypeOK
    <3>7. pathOf'[i] = None <=> refcnt'[i] = 0
      BY DEF LookupCountsAgree
    <3>. QED  BY <3>2, <3>3, <3>5, <3>6, <3>7, OneCountMoves
  <2>3. TableInverse' /\ Fresh' /\ Held' /\ DirInv' /\ PathInv' /\ HandleNamesFile'
    BY DEF TypeOK, TableInverse, Fresh, Held, Made, DirInv, PathInv, HandleNamesFile
  <2>. QED  BY <2>1, <2>2, <2>3
<1>17. CASE Unlink
  <2>. USE <1>17 DEF Unlink
  <2>1. TypeOK'
    BY DEF TypeOK, DirInv, Files
  <2>2. LookupCountsAgree'
    BY CountsKept
  <2>3. TableInverse' /\ Fresh' /\ Held' /\ DirInv' /\ PathInv' /\ HandleNamesFile'
    BY DEF TypeOK, TableInverse, Fresh, Held, Made, DirInv, PathInv, HandleNamesFile
  <2>. QED  BY <2>1, <2>2, <2>3
<1>18. CASE UnlinkAnswered
  <2>. USE <1>18 DEF UnlinkAnswered, DirOpDone
  <2>1. LookupCountsAgree'
    BY CountsKept
  <2>2. /\ TypeOK' /\ TableInverse' /\ Fresh' /\ Held'
        /\ DirInv' /\ PathInv' /\ HandleNamesFile'
    BY DEF TypeOK, TableInverse, Fresh, Held, Made, DirInv, PathInv, HandleNamesFile
  <2>. QED  BY <2>1, <2>2
<1>19. CASE Rename
  <2>. USE <1>19 DEF Rename, TableRenamed
  <2>1. TypeOK'
    BY DEF TypeOK, DirInv, Files
  <2>2. LookupCountsAgree'
    BY CountsKept
  <2>3. TableInverse' /\ Fresh' /\ Held' /\ DirInv' /\ PathInv' /\ HandleNamesFile'
    BY DEF TypeOK, TableInverse, Fresh, Held, Made, DirInv, PathInv, HandleNamesFile
  <2>. QED  BY <2>1, <2>2, <2>3
<1>20. CASE RenameAnswered
  <2>. USE <1>20 DEF RenameAnswered, DirOpDone
  <2>1. TypeOK'
    BY DEF TypeOK, DirInv, Files
  <2>2. Held'
    BY DEF TypeOK, DirInv, Held, Made
  <2>3. LookupCountsAgree'
    BY CountsKept
  <2>4. TableInverse' /\ Fresh' /\ DirInv' /\ PathInv' /\ HandleNamesFile'
    BY DEF TypeOK, TableInverse, Fresh, DirInv, PathInv, HandleNamesFile
  <2>. QED  BY <2>1, <2>2, <2>3, <2>4
<1>21. ASSUME NEW f \in Opens, ReleaseFileHandle(f) PROVE Inv'
  <2>. USE <1>21 DEF ReleaseFileHandle
  <2>1. LookupCountsAgree'
    BY CountsKept
  <2>2. /\ TypeOK' /\ TableInverse' /\ Fresh' /\ Held'
        /\ DirInv' /\ PathInv' /\ HandleNamesFile'
    BY DEF TypeOK, TableInverse, Fresh, Held, Made, DirInv, PathInv, HandleNamesFile
  <2>. QED  BY <2>1, <2>2
<1>22. CASE UNCHANGED vars
  <2>. USE <1>22 DEF vars
  <2>1. LookupCountsAgree'
    BY CountsKept
  <2>2. /\ TypeOK' /\ TableInverse' /\ Fresh' /\ Held'
        /\ DirInv' /\ PathInv' /\ HandleNamesFile'
    BY DEF TypeOK, TableInverse, Fresh, Held, DirInv, PathInv, HandleNamesFile, Made
  <2>. QED  BY <2>1, <2>2
<1>. QED
  BY <1>1, <1>2, <1>3, <1>4, <1>5, <1>6, <1>7, <1>8, <1>9, <1>10, <1>11,
     <1>12, <1>13, <1>14, <1>15, <1>16, <1>17, <1>18, <1>19, <1>20, <1>21, <1>22
    DEF Next

LEMMA Invariant == Spec => []Inv
BY InitInv, StepInv, PTL DEF Spec

-----------------------------------------------------------------------------
(* Every variable has its type.                                             *)
THEOREM TypeCorrect == Spec => []TypeOK
<1>1. Inv => TypeOK
  BY DEF Inv
<1>. QED  BY Invariant, <1>1, PTL

(* The Refcnt of an inode is the kernel's count with what is on its way,    *)
(* however lookups, creates and forgets overlap, and the inode is in the    *)
(* table as long as it is not zero.                                         *)
THEOREM CountsAgree == Spec => []LookupCountsAgree
<1>1. Inv => LookupCountsAgree
  BY DEF Inv
<1>. QED  BY Invariant, <1>1, PTL

(* allocInode and ForgetInode keep the maps of the table inverse.           *)
THEOREM TablesAreInverse == Spec => []TableInverse
<1>1. Inv => TableInverse
  BY DEF Inv
<1>. QED  BY Invariant, <1>1, PTL

(* No inode that the kernel has for a name or an open file is dropped.      *)
THEOREM NoInodeIsStale == Spec => []NoStaleInode
<1>1. Inv => NoStaleInode
  <2>. SUFFICES ASSUME Inv PROVE NoStaleInode
    OBVIOUS
  <2>1. ASSUME NEW i \in Ids, nlookup[i] + Made(i) > 0 PROVE pathOf[i] # None
    <3>1. /\ refcnt[i] = nlookup[i] + forgets[i] + Cardinality(Answers(i)) + Made(i)
          /\ pathOf[i] = None <=> refcnt[i] = 0
      BY DEF Inv, LookupCountsAgree
    <3>2. /\ nlookup[i] \in Nat /\ forgets[i] \in Nat /\ Made(i) \in Nat
          /\ Cardinality(Answers(i)) \in Nat
      BY AnswersCount DEF Inv, TypeOK, Made
    <3>. QED  BY <2>1, <3>1, <3>2
  <2>2. ASSUME NEW n \in Names, dentry[n] # None PROVE pathOf[dentry[n]] # None
    <3>1. dentry[n] \in Ids /\ nlookup[dentry[n]] \in Nat /\ nlookup[dentry[n]] > 0
      BY <2>2 DEF Inv, TypeOK, Held
    <3>2. nlookup[dentry[n]] + Made(dentry[n]) > 0
      BY <3>1 DEF Made
    <3>. QED  BY <2>1, <3>1, <3>2
  <2>3. ASSUME NEW f \in Opens, openInode[f] # None PROVE pathOf[openInode[f]] # None
    BY <2>1, <2>3 DEF Inv, TypeOK, Held
  <2>. QED  BY <2>2, <2>3 DEF NoStaleInode
<1>. QED  BY Invariant, <1>1, PTL

(* A handle names the file it was opened on until that file is renamed or   *)
(* removed, whatever happens to the name in between.                        *)
THEOREM HandlesNameTheirFile == Spec => []HandleNamesFile
<1>1. Inv => HandleNamesFile
  BY DEF Inv
<1>. QED  BY Invariant, <1>1, PTL
-----------------------------------------------------------------------------
(* Who writes the Path of an inode.                                         *)
LEMMA TableWriters ==
    ASSUME Inv, [Next]_vars
    PROVE  \/ UNCHANGED <<pathOf, nextInodeID>>
           \/ \E n \in Names, i \in Ids : AllocInode(n, i)
           \/ \E i \in Ids : \E k \in 1..forgets[i] : ForgetInode(i, k)
<1>1. ASSUME NEW i \in Ids, MakeInode(i) PROVE name \in Names /\ AllocInode(name, i)
  BY <1>1 DEF MakeInode, Inv, DirInv, Making
<1>. QED
  BY <1>1 DEF Next, vars, tableVars, treeVars, countVars, lookupVars, dirVars, openVars,
     SendLookup, GetattrFinds, GetattrFails, LookUpInode, LookupAnswered, Evict,
     SendForget, SendMake, SendDirOp, SendUnlink, SendRename, DirOpFails, EngineMakes,
     MakeAnswered, Unlink, UnlinkAnswered, Rename, TableRenamed, RenameAnswered,
     OpenFile, ReleaseFileHandle

(* An inode keeps its path for as long as it is in the table, over renames  *)
(* and new files of that name too, and a number that ForgetInode has        *)
(* dropped is not given out again: no request that still holds it can reach *)
(* another path.                                                            *)
NumbersAreFinal ==
    [][\A i \in Ids :
          /\ pathOf[i] # None => pathOf'[i] \in {pathOf[i], None}
          /\ pathOf[i] = None /\ i < nextInodeID => pathOf'[i] = None]_vars

(* allocInode and ForgetInode give each number out once.                    *)
THEOREM NumbersStay == Spec => NumbersAreFinal
<1>. DEFINE Stays(i) ==
              /\ pathOf[i] # None => pathOf'[i] \in {pathOf[i], None}
              /\ pathOf[i] = None /\ i < nextInodeID => pathOf'[i] = None
<1>1. Inv /\ [Next]_vars => \A i \in Ids : Stays(i)
  <2>. SUFFICES ASSUME Inv, [Next]_vars, NEW i \in Ids PROVE Stays(i)
    OBVIOUS
  <2>. pathOf \in [Ids -> Names \cup {None}]
    BY DEF Inv, TypeOK
  <2>1. CASE UNCHANGED <<pathOf, nextInodeID>>
    BY <2>1
  <2>2. ASSUME NEW n \in Names, NEW j \in Ids, AllocInode(n, j) PROVE Stays(i)
    <3>1. pathOf[j] \in {None, n} /\ pathOf' = [pathOf EXCEPT ![j] = n]
      BY <2>2, Allocated
    <3>2. pathOf[j] = None => j = nextInodeID
      BY <2>2, InodesAssumption DEF AllocInode, Inv, TypeOK, TableInverse
    <3>. QED  BY <3>1, <3>2 DEF Inv, TypeOK, Ids
  <2>3. ASSUME NEW j \in Ids, NEW k \in 1..forgets[j], ForgetInode(j, k) PROVE Stays(i)
    <3>1. pathOf' = pathOf \/ pathOf' = [pathOf EXCEPT ![j] = None]
      BY <2>3 DEF ForgetInode, Drop
    <3>. QED  BY <3>1
  <2>. QED  BY <2>1, <2>2, <2>3, TableWriters
<1>. QED  BY Invariant, <1>1, PTL DEF Spec, NumbersAreFinal
=============================================================================
