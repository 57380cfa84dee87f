--------------------------- MODULE BatchPoolProofs ---------------------------
(***************************************************************************)
(* Theorems about BatchPool, for any finite sets of callers, any processes *)
(* and objects, and any sizes of the pool.                                 *)
(***************************************************************************)
EXTENDS BatchPool, FiniteSetTheorems, SequenceTheorems, TLAPS

Elems(s) == {s[i] : i \in 1..Len(s)}
Injective(s) == \A i, j \in 1..Len(s) : s[i] = s[j] => i = j

HasProcess(p) == \E c \in Callers : batch[c] = p

(* A process has one place, with a caller, in a pool or among those to be   *)
(* shut down; and it has one as long as it was not waited for.              *)
PlaceInv ==
    /\ \A c, d \in Callers : batch[c] # None /\ batch[c] = batch[d] => c = d
    /\ Injective(free[1]) /\ Injective(free[2]) /\ Injective(extras)
    /\ Elems(free[1]) \cap Elems(free[2]) = {}
    /\ Elems(free[1]) \cap Elems(extras) = {} /\ Elems(free[2]) \cap Elems(extras) = {}
    /\ \A c \in Callers :
          batch[c] \notin Elems(free[1]) \cup Elems(free[2]) \cup Elems(extras)
    /\ \A p \in Procs :
          life[p] # "none" <=>
              HasProcess(p) \/ p \in Elems(free[1]) \cup Elems(free[2]) \cup Elems(extras)

(* A process that no caller has has nothing left to say; one that a caller  *)
(* has, at most the answer to him, unless he is about to close it.          *)
Silent == \A p \in Procs : ~HasProcess(p) => unread[p] = <<>>

Talks(c) ==
    /\ pc[c] \in {"request", "release"} => unread[batch[c]] = <<>>
    /\ pc[c] \in {"header", "content"} => unread[batch[c]] = <<oid[c]>>
    /\ pc[c] # "idle" => oid[c] \in Oids
    /\ answer[c] # None => pc[c] \in {"release", "wait"} /\ answer[c] = oid[c]

BusyInFirst == {c \in Callers : Busy(c) /\ pool[c] = 1}

(* Only the pools that were made have processes; Close empties the first.   *)
StoreInv ==
    /\ \A c \in Callers : pool[c] <= current
    /\ current = 1 => free[2] = <<>>
    /\ keeper = "off" => extras = <<>>
    /\ keeper = "close" => current = 1
    /\ keeper = "close" \/ current = 2 =>
          Len(free[1]) + Cardinality(BusyInFirst) <= inFlight

Inv ==
    /\ TypeOK
    /\ PlaceInv
    /\ Silent /\ \A c \in Callers : Talks(c)
    /\ StoreInv /\ PoolBound

-----------------------------------------------------------------------------
(* What the operations on sequences do to the elements.                     *)
LEMMA EmptyElems == Len(<<>>) = 0 /\ Elems(<<>>) = {} /\ Injective(<<>>)
<1>1. Len(<<>>) = 0
  BY EmptySeq
<1>. QED  BY <1>1 DEF Elems, Injective

LEMMA AppendElems ==
    ASSUME NEW S, NEW s \in Seq(S), NEW e \in S, Injective(s), e \notin Elems(s)
    PROVE  /\ Append(s, e) \in Seq(S) /\ Len(Append(s, e)) = Len(s) + 1
           /\ Injective(Append(s, e)) /\ Elems(Append(s, e)) = Elems(s) \cup {e}
<1>. DEFINE t == Append(s, e)
<1>1. /\ Len(s) \in Nat
      /\ t \in Seq(S) /\ Len(t) = Len(s) + 1
      /\ \A i \in 1..Len(s) : t[i] = s[i]
      /\ t[Len(s) + 1] = e
  BY AppendProperties, LenProperties
<1>. HIDE DEF t
<1>2. Elems(t) = Elems(s) \cup {e}
  BY <1>1 DEF Elems
<1>3. Injective(t)
  BY <1>1 DEF Injective, Elems
<1>. QED  BY <1>1, <1>2, <1>3 DEF t

LEMMA CutElems ==
    ASSUME NEW S, NEW s \in Seq(S), NEW n \in 0..Len(s), Injective(s)
    PROVE  LET a == SubSeq(s, 1, n)
               b == SubSeq(s, n + 1, Len(s))
           IN  /\ a \in Seq(S) /\ Len(a) = n /\ Injective(a)
               /\ b \in Seq(S) /\ Len(b) = Len(s) - n /\ Injective(b)
               /\ Elems(a) \cup Elems(b) = Elems(s)
               /\ Elems(a) \cap Elems(b) = {}
               /\ \A i \in 1..n : a[i] = s[i]
               /\ \A i \in 1..(Len(s) - n) : b[i] = s[n + i]
<1>. DEFINE a == SubSeq(s, 1, n)
            b == SubSeq(s, n + 1, Len(s))
<1>1. Len(s) \in Nat /\ n \in Nat /\ n <= Len(s) /\ \A i \in 1..Len(s) : s[i] \in S
  BY LenProperties, ElementOfSeq
<1>2. a \in Seq(S) /\ Len(a) = n /\ \A i \in 1..n : a[i] = s[i]
  <2>1. /\ a \in Seq(S) /\ Len(a) = IF 1 <= n THEN n - 1 + 1 ELSE 0
        /\ \A i \in 1..(n - 1 + 1) : a[i] = s[1 + i - 1]
    BY <1>1, SubSeqProperties
  <2>. QED  BY <1>1, <2>1
<1>3. /\ b \in Seq(S) /\ Len(b) = Len(s) - n
      /\ \A i \in 1..(Len(s) - n) : b[i] = s[n + i]
  <2>1. /\ b \in Seq(S)
        /\ Len(b) = IF n + 1 <= Len(s) THEN Len(s) - (n + 1) + 1 ELSE 0
        /\ \A i \in 1..(Len(s) - (n + 1) + 1) : b[i] = s[n + 1 + i - 1]
    BY <1>1, SubSeqProperties
  <2>. QED  BY <1>1, <2>1
<1>. HIDE DEF a, b
<1>4. Injective(a) /\ Injective(b)
  <2>1. Injective(a)
    BY <1>1, <1>2 DEF Injective
  <2>2. ASSUME NEW i \in 1..Len(b), NEW j \in 1..Len(b), b[i] = b[j] PROVE i = j
    <3>1. n + i \in 1..Len(s) /\ n + j \in 1..Len(s) /\ s[n + i] = s[n + j]
      BY <1>1, <1>3, <2>2
    <3>2. n + i = n + j
      BY <3>1 DEF Injective
    <3>. QED  BY <3>2, <1>1, <1>3
  <2>. QED  BY <2>1, <2>2 DEF Injective
<1>5. Elems(a) \cap Elems(b) = {}
  <2>1. ASSUME NEW i \in 1..Len(a), NEW j \in 1..Len(b) PROVE a[i] # b[j]
    <3>1. i \in 1..Len(s) /\ n + j \in 1..Len(s) /\ i # n + j
      BY <1>1, <1>2, <1>3
    <3>2. a[i] = s[i] /\ b[j] = s[n + j]
      BY <1>2, <1>3
    <3>. QED  BY <3>1, <3>2 DEF Injective
  <2>. QED  BY <2>1 DEF Elems
<1>6. Elems(a) \cup Elems(b) = Elems(s)
  <2>1. \A i \in 1..Len(s) : s[i] \in Elems(a) \cup Elems(b)
    <3>. SUFFICES ASSUME NEW i \in 1..Len(s) PROVE s[i] \in Elems(a) \cup Elems(b)
      OBVIOUS
    <3>1. CASE i <= n
      BY <3>1, <1>1, <1>2 DEF Elems
    <3>2. CASE i > n
      <4>1. i - n \in 1..Len(b) /\ b[i - n] = s[i]
        BY <3>2, <1>1, <1>3
      <4>. QED  BY <4>1 DEF Elems
    <3>. QED  BY <3>1, <3>2, <1>1
  <2>2. Elems(a) \subseteq Elems(s) /\ Elems(b) \subseteq Elems(s)
    BY <1>1, <1>2, <1>3 DEF Elems
  <2>. QED  BY <2>1, <2>2 DEF Elems
<1>. QED  BY <1>2, <1>3, <1>4, <1>5, <1>6 DEF a, b

LEMMA FrontElems ==
    ASSUME NEW S, NEW s \in Seq(S), Injective(s), Len(s) > 0
    PROVE  LET a == SubSeq(s, 1, Len(s) - 1)
           IN  /\ a \in Seq(S) /\ Len(a) = Len(s) - 1 /\ Injective(a)
               /\ Elems(a) = Elems(s) \ {s[Len(s)]}
               /\ s[Len(s)] \in Elems(s)
               /\ s[Len(s)] \in S
<1>1. Len(s) \in Nat /\ Len(s) - 1 \in 0..Len(s)
  BY LenProperties
<1>2. s[Len(s)] \in Elems(s) /\ s[Len(s)] \in S
  BY <1>1, ElementOfSeq DEF Elems
<1>. DEFINE a == SubSeq(s, 1, Len(s) - 1)
<1>3. /\ a \in Seq(S) /\ Len(a) = Len(s) - 1 /\ Injective(a)
      /\ \A i \in 1..(Len(s) - 1) : a[i] = s[i]
  <2>1. PICK n \in 0..Len(s) : n = Len(s) - 1
    BY <1>1
  <2>2. LET f == SubSeq(s, 1, n)
        IN  /\ f \in Seq(S) /\ Len(f) = n /\ Injective(f)
            /\ \A i \in 1..n : f[i] = s[i]
    BY CutElems
  <2>. QED  BY <2>1, <2>2
<1>. HIDE DEF a
<1>4. Elems(a) = Elems(s) \ {s[Len(s)]}
  BY <1>1, <1>3 DEF Elems, Injective
<1>. QED  BY <1>2, <1>3, <1>4 DEF a

LEMMA TailElems ==
    ASSUME NEW S, NEW s \in Seq(S), Injective(s), s # <<>>
    PROVE  /\ Tail(s) \in Seq(S) /\ Injective(Tail(s))
           /\ Elems(Tail(s)) = Elems(s) \ {Head(s)}
           /\ Head(s) \in S /\ Head(s) \in Elems(s)
<1>1. Len(s) \in Nat \ {0} /\ Head(s) = s[1]
  BY EmptySeq, LenProperties, HeadTailProperties
<1>. DEFINE t == Tail(s)
<1>2. /\ t \in Seq(S) /\ Len(t) = Len(s) - 1
      /\ \A i \in 1..(Len(s) - 1) : t[i] = s[i + 1]
      /\ Head(s) \in S
  BY HeadTailProperties
<1>. HIDE DEF t
<1>3. Injective(t)
  BY <1>1, <1>2 DEF Injective
<1>4. Elems(t) = Elems(s) \ {s[1]}
  <2>1. \A i \in 1..Len(s) : i # 1 => s[i] \in Elems(t)
    <3>. SUFFICES ASSUME NEW i \in 1..Len(s), i # 1 PROVE s[i] \in Elems(t)
      OBVIOUS
    <3>1. i - 1 \in 1..Len(t) /\ t[i - 1] = s[i]
      BY <1>1, <1>2
    <3>. QED  BY <3>1 DEF Elems
  <2>2. \A i \in 1..Len(t) : t[i] \in Elems(s) /\ t[i] # s[1]
    BY <1>1, <1>2 DEF Elems, Injective
  <2>. QED  BY <2>1, <2>2 DEF Elems
<1>5. s[1] \in Elems(s)
  BY <1>1 DEF Elems
<1>. QED  BY <1>1, <1>2, <1>3, <1>4, <1>5 DEF t

(* The callers are finitely many, so are those that are busy.               *)
LEMMA BusyCount ==
    ASSUME NEW S, S \subseteq Callers
    PROVE  /\ IsFiniteSet(S) /\ Cardinality(S) \in Nat
           /\ \A T \in SUBSET S : Cardinality(T) \in Nat /\ Cardinality(T) <= Cardinality(S)
<1>1. IsFiniteSet(Callers)
  BY FS_Union, BatchPoolAssumption DEF Callers
<1>2. IsFiniteSet(S)
  BY <1>1, FS_Subset
<1>. QED  BY <1>2, FS_Subset, FS_CardinalityType

(* A call that has a process has one of Procs.                              *)
LEMMA HasOne ==
    ASSUME TypeOK, NEW c \in Callers, pc[c] \notin {"idle", "acquire"}
    PROVE  batch[c] \in Procs /\ batch[c] # None
BY DEF TypeOK

(* Processes stay where they are.                                           *)
LEMMA PlacesKept ==
    ASSUME PlaceInv, UNCHANGED <<batch, free, extras>>,
           \A p \in Procs : life'[p] = "none" <=> life[p] = "none"
    PROVE  PlaceInv'
BY DEF PlaceInv, HasProcess

(* A step of one call leaves the answers of the others alone.               *)
LEMMA OneCaller ==
    ASSUME \A d \in Callers : Talks(d), NEW c \in Callers,
           \A d \in Callers \ {c} :
              /\ pc'[d] = pc[d] /\ oid'[d] = oid[d]
              /\ answer'[d] = answer[d] /\ batch'[d] = batch[d]
              /\ pc[d] \notin {"idle", "acquire"} => unread'[batch[d]] = unread[batch[d]],
           Talks(c)'
    PROVE  \A d \in Callers : Talks(d)'
<1>. SUFFICES ASSUME NEW d \in Callers PROVE Talks(d)'
  OBVIOUS
<1>1. CASE d = c
  BY <1>1
<1>2. CASE d # c
  BY <1>2 DEF Talks
<1>. QED  BY <1>1, <1>2

(* No other call has the process of this one.                               *)
LEMMA OwnProcess ==
    ASSUME TypeOK, PlaceInv, NEW c \in Callers, NEW d \in Callers, d # c,
           pc[d] \notin {"idle", "acquire"}
    PROVE  batch[d] \in Procs /\ batch[d] # batch[c]
<1>1. batch[d] # None /\ batch[d] \in Procs
  BY DEF TypeOK
<1>. QED  BY <1>1 DEF PlaceInv

(* Only a change of the process that a call has: the others say nothing.    *)
LEMMA SilentKept ==
    ASSUME Silent, NEW c \in Callers, UNCHANGED batch,
           \A p \in Procs : p # batch[c] => unread'[p] = unread[p]
    PROVE  Silent'
BY DEF Silent, HasProcess

LEMMA StoreKept ==
    ASSUME TypeOK, StoreInv, UNCHANGED <<pool, free, extras, storeVars>>,
           BusyInFirst' \subseteq BusyInFirst
    PROVE  StoreInv'
<1>1. /\ Cardinality(BusyInFirst) \in Nat /\ Cardinality(BusyInFirst') \in Nat
      /\ Cardinality(BusyInFirst') <= Cardinality(BusyInFirst)
  BY BusyCount DEF BusyInFirst
<1>2. Len(free[1]) \in Nat /\ inFlight \in Nat
  BY LenProperties DEF TypeOK, Pools
<1>. QED  BY <1>1, <1>2 DEF StoreInv, storeVars

(* Nothing is left of a process that its caller has waited for.             *)
LEMMA Reaped ==
    ASSUME TypeOK, PlaceInv, Silent, NEW c \in Callers, pc[c] \notin {"idle", "acquire"},
           Reap(c), UNCHANGED <<free, extras>>
    PROVE  /\ PlaceInv' /\ Silent'
           /\ life' \in [Procs -> {"none", "running", "closed", "exited"}]
           /\ unread' \in [Procs -> Seq(Oids)]
           /\ batch' = [batch EXCEPT ![c] = None]
           /\ \A d \in Callers \ {c} :
                 pc[d] \notin {"idle", "acquire"} => unread'[batch[d]] = unread[batch[d]]
<1>. USE DEF Reap, Gone
<1>. DEFINE b == batch[c]
<1>1. b \in Procs /\ b # None
  BY HasOne
<1>2. /\ life' = [life EXCEPT ![b] = "none"] /\ unread' = [unread EXCEPT ![b] = <<>>]
      /\ batch' = [batch EXCEPT ![c] = None]
  OBVIOUS
<1>. HIDE DEF Reap, Gone
<1>3. \A p \in Procs : HasProcess(p)' <=> HasProcess(p) /\ p # b
  BY <1>1, <1>2, BatchPoolAssumption DEF HasProcess, PlaceInv, TypeOK
<1>4. PlaceInv'
  <2>1. \A p \in Procs : p # b => life'[p] = life[p]
    BY <1>2 DEF TypeOK
  <2>2. life'[b] = "none" /\ b \notin Elems(free[1]) \cup Elems(free[2]) \cup Elems(extras)
    BY <1>1, <1>2 DEF TypeOK, PlaceInv
  <2>3. \A d \in Callers : batch'[d] = IF d = c THEN None ELSE batch[d]
    BY <1>2 DEF TypeOK
  <2>4. None \notin Elems(free[1]) \cup Elems(free[2]) \cup Elems(extras)
    BY ElementOfSeq, BatchPoolAssumption DEF TypeOK, Elems, Pools
  <2>5. \A d, e \in Callers : batch'[d] # None /\ batch'[d] = batch'[e] => d = e
    BY <2>3 DEF PlaceInv
  <2>. QED  BY <1>3, <2>1, <2>2, <2>3, <2>4, <2>5 DEF PlaceInv
<1>5. Silent'
  BY <1>1, <1>2, <1>3 DEF Silent, TypeOK
<1>6. unread' \in [Procs -> Seq(Oids)]
  BY <1>1, <1>2, EmptySeq DEF TypeOK
<1>7. life' \in [Procs -> {"none", "running", "closed", "exited"}]
  BY <1>2 DEF TypeOK
<1>8. \A d \in Callers \ {c} :
         pc[d] \notin {"idle", "acquire"} => unread'[batch[d]] = unread[batch[d]]
  BY <1>2, OwnProcess DEF TypeOK
<1>. QED  BY <1>2, <1>4, <1>5, <1>6, <1>7, <1>8

LEMMA InitInv == Init => Inv
<1>. SUFFICES ASSUME Init PROVE Inv
  OBVIOUS
<1>. USE DEF Init
<1>1. TypeOK
  BY EmptySeq, BatchPoolAssumption DEF TypeOK, Pools
<1>2. free[1] = <<>> /\ free[2] = <<>> /\ extras = <<>>
  BY DEF Pools
<1>3. PlaceInv
  BY <1>2, EmptyElems, BatchPoolAssumption DEF PlaceInv, HasProcess
<1>4. Silent /\ \A c \in Callers : Talks(c)
  BY DEF Silent, Talks
<1>5. StoreInv /\ PoolBound
  BY <1>2, EmptyElems, BatchPoolAssumption DEF StoreInv, PoolBound, Pools
<1>. QED  BY <1>1, <1>3, <1>4, <1>5 DEF Inv

-----------------------------------------------------------------------------
(* The steps of a call                                                      *)

LEMMA StartCallInv ==
    ASSUME Inv, NEW c \in Callers, NEW o \in Wanted[c], StartCall(c, o) PROVE Inv'
<1>. USE DEF Inv, StartCall, storeVars
<1>1. o \in Oids
  BY BatchPoolAssumption
<1>2. TypeOK'
  BY <1>1 DEF TypeOK
<1>3. PlaceInv'
  BY PlacesKept
<1>4. Silent'
  BY DEF Silent, HasProcess
<1>5. \A d \in Callers : Talks(d)'
  <2>1. Talks(c)'
    BY <1>1 DEF Talks, TypeOK
  <2>2. \A d \in Callers \ {c} : /\ pc'[d] = pc[d] /\ oid'[d] = oid[d]
                                 /\ answer'[d] = answer[d] /\ batch'[d] = batch[d]
    BY DEF TypeOK
  <2>. QED  BY <2>1, <2>2, OneCaller
<1>6. StoreInv'
  <2>1. current = 2 => BusyInFirst' = BusyInFirst
    BY DEF BusyInFirst, Busy, TypeOK
  <2>2. \A d \in Callers : pool'[d] <= current
    BY DEF StoreInv, TypeOK, Pools
  <2>. QED  BY <2>1, <2>2 DEF StoreInv
<1>7. PoolBound'
  BY DEF PoolBound
<1>. QED  BY <1>2, <1>3, <1>4, <1>5, <1>6, <1>7

LEMMA RequestInv ==
    ASSUME Inv, NEW c \in Callers, Request(c) PROVE Inv'
<1>. USE DEF Inv, Request, Go, storeVars
<1>1. batch[c] \in Procs /\ oid[c] \in Oids /\ unread[batch[c]] = <<>>
  BY HasOne DEF Talks
<1>2. Append(<<>>, oid[c]) = <<oid[c]>>
  OBVIOUS
<1>3. unread' = [unread EXCEPT ![batch[c]] = <<oid[c]>>]
  BY <1>1, <1>2 DEF TypeOK
<1>4. TypeOK'
  <2>1. <<oid[c]>> \in Seq(Oids)
    BY <1>1
  <2>2. unread' \in [Procs -> Seq(Oids)]
    BY <1>3, <2>1 DEF TypeOK
  <2>. QED  BY <2>2 DEF TypeOK
<1>5. PlaceInv'
  BY PlacesKept
<1>6. Silent'
  BY <1>3, SilentKept DEF TypeOK
<1>7. \A d \in Callers : Talks(d)'
  <2>1. Talks(c)'
    BY <1>1, <1>3 DEF Talks, TypeOK
  <2>2. \A d \in Callers \ {c} :
           /\ pc'[d] = pc[d] /\ oid'[d] = oid[d]
           /\ answer'[d] = answer[d] /\ batch'[d] = batch[d]
           /\ pc[d] \notin {"idle", "acquire"} => unread'[batch[d]] = unread[batch[d]]
    BY <1>3, OwnProcess DEF TypeOK
  <2>. QED  BY <2>1, <2>2, OneCaller
<1>8. StoreInv' /\ PoolBound'
  BY StoreKept DEF PoolBound, BusyInFirst, Busy, TypeOK
<1>. QED  BY <1>4, <1>5, <1>6, <1>7, <1>8

(* What ReadHeader, ReadContent, WriteFails and ProcessLost have in common: *)
(* the call reads its answer or does not, and goes on or closes.            *)
LEMMA ReadInv ==
    ASSUME Inv, NEW c \in Callers,
           pc[c] \notin {"idle", "acquire"}, oid[c] \in Oids,
           UNCHANGED <<batch, free, extras, oid, pool, attempt, storeVars>>,
           \/ UNCHANGED unread
           \/ unread' = [unread EXCEPT ![batch[c]] = <<>>],
           \/ UNCHANGED life
           \/ life' = [life EXCEPT ![batch[c]] = IF @ = "running" THEN "closed" ELSE @],
           NEW at \in {"content", "wait", "release"}, pc' = [pc EXCEPT ![c] = at],
           at = "content" => unread'[batch[c]] = <<oid[c]>>,
           at = "release" => unread'[batch[c]] = <<>>,
           \/ UNCHANGED answer /\ answer[c] = None
           \/ answer' = [answer EXCEPT ![c] = oid[c]] /\ at = "release"
    PROVE  Inv'
<1>. USE DEF Inv
<1>1. batch[c] \in Procs /\ batch[c] # None
  BY HasOne
<1>2. TypeOK'
  <2>1. unread' \in [Procs -> Seq(Oids)]
    <3>1. unread \in [Procs -> Seq(Oids)] /\ <<>> \in Seq(Oids)
      BY EmptySeq DEF TypeOK
    <3>2. CASE unread' = [unread EXCEPT ![batch[c]] = <<>>]
      BY <1>1, <3>1, <3>2
    <3>. QED  BY <3>1, <3>2
  <2>2. life' \in [Procs -> {"none", "running", "closed", "exited"}]
    <3>1. life \in [Procs -> {"none", "running", "closed", "exited"}]
      BY DEF TypeOK
    <3>2. CASE life' = [life EXCEPT ![batch[c]] = IF @ = "running" THEN "closed" ELSE @]
      BY <1>1, <3>1, <3>2
    <3>. QED  BY <3>1, <3>2
  <2>. QED  BY <1>1, <2>1, <2>2 DEF TypeOK, storeVars
<1>3. PlaceInv'
  BY PlacesKept DEF TypeOK
<1>4. Silent'
  BY SilentKept DEF TypeOK
<1>5. \A d \in Callers : Talks(d)'
  <2>1. Talks(c)'
    BY DEF Talks, TypeOK
  <2>2. \A d \in Callers \ {c} :
           /\ pc'[d] = pc[d] /\ oid'[d] = oid[d]
           /\ answer'[d] = answer[d] /\ batch'[d] = batch[d]
           /\ pc[d] \notin {"idle", "acquire"} => unread'[batch[d]] = unread[batch[d]]
    BY OwnProcess DEF TypeOK
  <2>. QED  BY <2>1, <2>2, OneCaller
<1>6. BusyInFirst' = BusyInFirst
  BY DEF BusyInFirst, Busy, TypeOK
<1>7. StoreInv'
  BY <1>6, StoreKept
<1>8. PoolBound'
  BY DEF PoolBound, storeVars
<1>. QED  BY <1>2, <1>3, <1>4, <1>5, <1>7, <1>8

LEMMA ReadHeaderInv ==
    ASSUME Inv, NEW c \in Callers, ReadHeader(c) PROVE Inv'
<1>. USE DEF ReadHeader, Close, CloseInput, Go
<1>1. /\ unread[batch[c]] = <<oid[c]>> /\ oid[c] \in Oids /\ answer[c] = None
      /\ batch[c] \in Procs
  BY HasOne DEF Inv, Talks
<1>2. Tail(<<oid[c]>>) = <<>>
  OBVIOUS
<1>3. CASE Head(unread[batch[c]]) \in Missing
  <2>1. unread' = [unread EXCEPT ![batch[c]] = <<>>]
    BY <1>1, <1>2, <1>3 DEF Inv, TypeOK
  <2>. QED  BY <1>1, <1>3, <2>1, ReadInv
<1>4. CASE Head(unread[batch[c]]) \notin Missing
  BY <1>1, <1>4, ReadInv
<1>. QED  BY <1>3, <1>4

LEMMA ReadContentInv ==
    ASSUME Inv, NEW c \in Callers, ReadContent(c) PROVE Inv'
<1>. USE DEF ReadContent, Close, CloseInput, Go
<1>1. /\ unread[batch[c]] = <<oid[c]>> /\ oid[c] \in Oids /\ answer[c] = None
      /\ batch[c] \in Procs
  BY HasOne DEF Inv, Talks
<1>2. Tail(<<oid[c]>>) = <<>> /\ Head(<<oid[c]>>) = oid[c]
  OBVIOUS
<1>3. unread' = [unread EXCEPT ![batch[c]] = <<>>] /\ unread'[batch[c]] = <<>>
  BY <1>1, <1>2 DEF Inv, TypeOK
<1>4. CASE /\ pc' = [pc EXCEPT ![c] = "release"]
           /\ answer' = [answer EXCEPT ![c] = Head(unread[batch[c]])]
           /\ UNCHANGED <<oid, attempt, life>>
  BY <1>1, <1>2, <1>3, <1>4, ReadInv
<1>5. CASE c \in Workers /\ Close(c)
  BY <1>1, <1>3, <1>5, ReadInv
<1>. QED  BY <1>4, <1>5

LEMMA CloseAndWaitInv ==
    ASSUME Inv, NEW c \in Callers, WriteFails(c) \/ ProcessLost(c) PROVE Inv'
<1>1. pc[c] \in {"request", "header", "content"}
  BY DEF WriteFails, ProcessLost
<1>2. oid[c] \in Oids /\ answer[c] = None
  BY <1>1 DEF Inv, Talks
<1>. QED
  BY <1>1, <1>2, ReadInv DEF WriteFails, ProcessLost, Close, CloseInput, Go

(* After a process was waited for the call returns, or takes another one.   *)
LEMMA ReapInv ==
    ASSUME Inv, NEW c \in Callers, pc[c] \notin {"idle", "acquire"}, Reap(c),
           UNCHANGED <<free, extras, pool, storeVars>>,
           Return(c) \/ (RetryOrFail(c) /\ answer[c] = None)
    PROVE  Inv'
<1>. USE DEF Inv, Return, RetryOrFail
<1>1. /\ PlaceInv' /\ Silent'
      /\ life' \in [Procs -> {"none", "running", "closed", "exited"}]
      /\ unread' \in [Procs -> Seq(Oids)]
      /\ batch' = [batch EXCEPT ![c] = None]
      /\ \A d \in Callers \ {c} :
            pc[d] \notin {"idle", "acquire"} => unread'[batch[d]] = unread[batch[d]]
  BY Reaped
<1>2. TypeOK'
  <2>1. batch' \in [Callers -> Procs \cup {None}]
    BY <1>1 DEF TypeOK
  <2>2. CASE Return(c)
    BY <1>1, <2>1, <2>2 DEF TypeOK, storeVars
  <2>3. CASE /\ pc' = [pc EXCEPT ![c] = "acquire"]
             /\ attempt' = [attempt EXCEPT ![c] = 2]
             /\ UNCHANGED <<oid, answer>>
    BY <1>1, <2>1, <2>3 DEF TypeOK, storeVars
  <2>. QED  BY <2>2, <2>3
<1>3. \A d \in Callers : Talks(d)'
  <2>1. Talks(c)'
    BY DEF Talks, TypeOK
  <2>2. \A d \in Callers \ {c} : /\ pc'[d] = pc[d] /\ oid'[d] = oid[d]
                                 /\ answer'[d] = answer[d] /\ batch'[d] = batch[d]
    BY <1>1 DEF TypeOK
  <2>. QED  BY <1>1, <2>1, <2>2, OneCaller
<1>4. BusyInFirst' \subseteq BusyInFirst
  BY DEF BusyInFirst, Busy, TypeOK
<1>5. StoreInv'
  BY <1>4, StoreKept
<1>6. PoolBound'
  BY DEF PoolBound, storeVars
<1>. QED  BY <1>1, <1>2, <1>3, <1>5, <1>6

LEMMA EndInv ==
    ASSUME Inv, NEW c \in Callers, TooLarge(c) \/ ContextDone(c) \/ Waited(c) PROVE Inv'
<1>1. CASE TooLarge(c)
  BY <1>1, ReapInv DEF TooLarge
<1>2. CASE ContextDone(c)
  <2>1. answer[c] = None
    BY <1>2 DEF ContextDone, Inv, Talks
  <2>. QED  BY <1>2, <2>1, ReapInv DEF ContextDone
<1>3. CASE Waited(c)
  BY <1>3, ReapInv DEF Waited
<1>. QED  BY <1>1, <1>2, <1>3

(* A process goes from a pool, or from nowhere, to a call.                  *)
LEMMA TakenPlaces ==
    ASSUME TypeOK, PlaceInv, Silent, NEW c \in Callers, batch[c] = None, NEW p \in Procs,
           batch' = [batch EXCEPT ![c] = p], UNCHANGED <<unread, extras>>,
           Injective(free'[1]) /\ Injective(free'[2]),
           \/ /\ UNCHANGED <<life>> /\ p \in Elems(free[1]) \cup Elems(free[2])
              /\ Elems(free'[1]) = Elems(free[1]) \ {p}
              /\ Elems(free'[2]) = Elems(free[2]) \ {p}
           \/ /\ life[p] = "none" /\ life' = [life EXCEPT ![p] = "running"]
              /\ Elems(free'[1]) = Elems(free[1]) /\ Elems(free'[2]) = Elems(free[2])
    PROVE  PlaceInv' /\ Silent' /\ unread[p] = <<>>
<1>1. ~HasProcess(p)
  BY DEF PlaceInv, HasProcess
<1>2. \A q \in Procs : HasProcess(q)' <=> HasProcess(q) \/ q = p
  BY BatchPoolAssumption DEF HasProcess, TypeOK
<1>3. \A d \in Callers : batch'[d] = IF d = c THEN p ELSE batch[d]
  BY DEF TypeOK
<1>4. \A d, e \in Callers : batch'[d] # None /\ batch'[d] = batch'[e] => d = e
  BY <1>1, <1>3 DEF PlaceInv, HasProcess
<1>5. p \notin Elems(free'[1]) \cup Elems(free'[2]) \cup Elems(extras)
  BY DEF PlaceInv
<1>6. \A q \in Procs : q # p => (life'[q] = "none" <=> life[q] = "none")
  BY DEF TypeOK
<1>7. life'[p] # "none"
  BY DEF TypeOK, PlaceInv
<1>8. \A d \in Callers :
         batch'[d] \notin Elems(free'[1]) \cup Elems(free'[2]) \cup Elems(extras')
  BY <1>3, <1>5 DEF PlaceInv
<1>9. PlaceInv'
  BY <1>2, <1>4, <1>5, <1>6, <1>7, <1>8 DEF PlaceInv
<1>10. Silent' /\ unread[p] = <<>>
  BY <1>1, <1>2 DEF Silent
<1>. QED  BY <1>9, <1>10

LEMMA AcquireInv ==
    ASSUME Inv, NEW c \in Callers, Acquire(c) PROVE Inv'
<1>. USE DEF Inv
<1>. DEFINE g == pool[c]
            f == free[pool[c]]
<1>1. /\ g \in Pools /\ f \in Seq(Procs) /\ Len(f) \in Nat /\ Injective(f)
      /\ batch[c] = None /\ oid[c] \in Oids /\ answer[c] = None
      /\ UNCHANGED <<pool, unread, extras, storeVars>>
  <2>1. g \in Pools /\ f \in Seq(Procs)
    BY DEF TypeOK
  <2>2. Len(f) \in Nat /\ Injective(f)
    BY <2>1, LenProperties DEF PlaceInv, Pools
  <2>3. pc[c] = "acquire" /\ UNCHANGED <<pool, unread, extras, storeVars>>
    BY DEF Acquire
  <2>. QED  BY <2>1, <2>2, <2>3 DEF TypeOK, Talks
<1>2. ASSUME NEW p \in Procs, pc' = [pc EXCEPT ![c] = "request"],
             UNCHANGED <<oid, attempt, answer>>, batch' = [batch EXCEPT ![c] = p],
             PlaceInv', Silent', unread[p] = <<>>,
             life' \in [Procs -> {"none", "running", "closed", "exited"}],
             free' \in [Pools -> Seq(Procs)],
             \A h \in Pools : Len(free'[h]) <= Len(free[h])
      PROVE  Inv'
  <2>1. TypeOK'
    BY <1>1, <1>2, BatchPoolAssumption DEF TypeOK, storeVars
  <2>2. \A d \in Callers : Talks(d)'
    <3>1. Talks(c)'
      BY <1>1, <1>2 DEF Talks, TypeOK
    <3>2. \A d \in Callers \ {c} : /\ pc'[d] = pc[d] /\ oid'[d] = oid[d]
                                   /\ answer'[d] = answer[d] /\ batch'[d] = batch[d]
      BY <1>2 DEF TypeOK
    <3>. QED  BY <1>1, <3>1, <3>2, OneCaller
  <2>3. \A h \in Pools : Len(free[h]) \in Nat /\ Len(free'[h]) \in Nat
    BY <1>2, LenProperties DEF TypeOK
  <2>4. StoreInv'
    <3>1. BusyInFirst' = BusyInFirst
      BY <1>1, <1>2 DEF BusyInFirst, Busy, TypeOK, Acquire
    <3>2. Cardinality(BusyInFirst) \in Nat /\ inFlight \in Nat
      BY BusyCount DEF BusyInFirst, TypeOK
    <3>3. current = 1 => free'[2] = <<>>
      <4>1. current = 1 => Len(free'[2]) = 0
        BY <1>2, <2>3, EmptyElems DEF StoreInv, Pools
      <4>. QED  BY <1>2, <4>1, EmptySeq DEF Pools
    <3>. QED  BY <1>1, <1>2, <2>3, <3>1, <3>2, <3>3 DEF StoreInv, storeVars, Pools
  <2>5. PoolBound'
    BY <1>1, <1>2, <2>3 DEF PoolBound, storeVars, TypeOK
  <2>. QED  BY <1>2, <2>1, <2>2, <2>4, <2>5
<1>3. CASE /\ Len(f) > 0
           /\ batch' = [batch EXCEPT ![c] = f[Len(f)]]
           /\ free' = [free EXCEPT ![g] = SubSeq(f, 1, Len(f) - 1)]
           /\ Go(c, "request")
           /\ UNCHANGED life
  <2>. DEFINE p == f[Len(f)]
              front == SubSeq(f, 1, Len(f) - 1)
  <2>1. /\ front \in Seq(Procs) /\ Len(front) = Len(f) - 1 /\ Injective(front)
        /\ Elems(front) = Elems(f) \ {p} /\ p \in Elems(f) /\ p \in Procs
    BY <1>1, <1>3, FrontElems
  <2>2. free' = [free EXCEPT ![g] = front] /\ batch' = [batch EXCEPT ![c] = p]
    BY <1>3
  <2>. HIDE DEF p, front
  <2>3. /\ free' \in [Pools -> Seq(Procs)]
        /\ \A h \in Pools : free'[h] = IF h = g THEN front ELSE free[h]
    BY <1>1, <2>1, <2>2 DEF TypeOK
  <2>4. \A h \in Pools : Injective(free'[h]) /\ Elems(free'[h]) = Elems(free[h]) \ {p}
    <3>1. \A h \in Pools \ {g} : p \notin Elems(free[h]) /\ Injective(free[h])
      BY <1>1, <2>1 DEF PlaceInv, Pools
    <3>. QED  BY <1>1, <2>1, <2>3, <3>1
  <2>5. p \in Elems(free[1]) \cup Elems(free[2])
    BY <1>1, <2>1 DEF Pools
  <2>6. PlaceInv' /\ Silent' /\ unread[p] = <<>>
    <3>1. /\ Injective(free'[1]) /\ Injective(free'[2])
          /\ Elems(free'[1]) = Elems(free[1]) \ {p}
          /\ Elems(free'[2]) = Elems(free[2]) \ {p}
      BY <2>4 DEF Pools
    <3>. QED  BY <1>1, <1>3, <2>1, <2>2, <2>5, <3>1, TakenPlaces
  <2>7. \A h \in Pools : Len(free'[h]) <= Len(free[h])
    <3>1. \A h \in Pools : Len(free[h]) \in Nat
      BY LenProperties DEF TypeOK
    <3>2. Len(free'[g]) <= Len(free[g])
      BY <1>1, <2>1, <2>3
    <3>. QED  BY <2>3, <3>1, <3>2
  <2>. QED  BY <1>2, <1>3, <2>1, <2>2, <2>3, <2>6, <2>7 DEF Go, TypeOK
<1>4. ASSUME NEW p \in Unused, Start(c, p), Go(c, "request"), UNCHANGED free PROVE Inv'
  <2>1. p \in Procs /\ life[p] = "none"
    BY <1>4 DEF Unused
  <2>2. PlaceInv' /\ Silent' /\ unread[p] = <<>>
    BY <1>1, <1>4, <2>1, TakenPlaces DEF Start, PlaceInv
  <2>3. life' \in [Procs -> {"none", "running", "closed", "exited"}]
    BY <1>4, <2>1 DEF Start, TypeOK
  <2>4. \A h \in Pools : Len(free[h]) \in Nat
    BY LenProperties DEF TypeOK
  <2>5. /\ free' \in [Pools -> Seq(Procs)]
        /\ \A h \in Pools : Len(free'[h]) <= Len(free[h])
    BY <1>4, <2>4 DEF TypeOK
  <2>6. /\ pc' = [pc EXCEPT ![c] = "request"] /\ UNCHANGED <<oid, attempt, answer>>
        /\ batch' = [batch EXCEPT ![c] = p]
    BY <1>4 DEF Go, Start
  <2>. QED  BY <1>2, <2>1, <2>2, <2>3, <2>5, <2>6
<1>5. CASE Return(c) /\ UNCHANGED <<batch, free, life>>
  <2>. USE DEF Return
  <2>1. TypeOK'
    BY <1>1, <1>5 DEF TypeOK, storeVars
  <2>2. PlaceInv' /\ Silent'
    BY <1>1, <1>5, PlacesKept DEF Silent, HasProcess
  <2>3. \A d \in Callers : Talks(d)'
    <3>1. Talks(c)'
      BY <1>5 DEF Talks, TypeOK
    <3>2. \A d \in Callers \ {c} : /\ pc'[d] = pc[d] /\ oid'[d] = oid[d]
                                   /\ answer'[d] = answer[d] /\ batch'[d] = batch[d]
      BY <1>5 DEF TypeOK
    <3>. QED  BY <1>1, <1>5, <3>1, <3>2, OneCaller
  <2>4. BusyInFirst' \subseteq BusyInFirst
    BY <1>1, <1>5 DEF BusyInFirst, Busy, TypeOK
  <2>5. StoreInv' /\ PoolBound'
    BY <1>1, <1>5, <2>4, StoreKept DEF PoolBound, storeVars
  <2>. QED  BY <2>1, <2>2, <2>3, <2>5
<1>. HIDE DEF g, f
<1>6. \/ /\ Len(f) > 0
         /\ batch' = [batch EXCEPT ![c] = f[Len(f)]]
         /\ free' = [free EXCEPT ![g] = SubSeq(f, 1, Len(f) - 1)]
         /\ Go(c, "request")
         /\ UNCHANGED life
      \/ (\E p \in Unused : Start(c, p)) /\ Go(c, "request") /\ UNCHANGED free
      \/ Return(c) /\ UNCHANGED <<batch, free, life>>
  BY DEF Acquire, g, f
<1>. QED  BY <1>3, <1>4, <1>5, <1>6

(* A process goes from a call to its pool.                                  *)
LEMMA ReleasedPlaces ==
    ASSUME TypeOK, PlaceInv, Silent, NEW c \in Callers, batch[c] \in Procs, batch[c] # None,
           unread[batch[c]] = <<>>,
           batch' = [batch EXCEPT ![c] = None], UNCHANGED <<unread, extras, life>>,
           Injective(free'[1]) /\ Injective(free'[2]),
           \/ /\ Elems(free'[1]) = Elems(free[1]) \cup {batch[c]}
              /\ Elems(free'[2]) = Elems(free[2])
           \/ /\ Elems(free'[1]) = Elems(free[1])
              /\ Elems(free'[2]) = Elems(free[2]) \cup {batch[c]}
    PROVE  PlaceInv' /\ Silent'
<1>. DEFINE b == batch[c]
<1>1. b \in Procs /\ b # None /\ None \notin Procs
  BY BatchPoolAssumption
<1>2. \A d \in Callers : batch'[d] = IF d = c THEN None ELSE batch[d]
  BY DEF TypeOK
<1>3. \A q \in Procs : HasProcess(q)' <=> HasProcess(q) /\ q # b
  BY <1>1, <1>2 DEF HasProcess, PlaceInv
<1>4. b \notin Elems(free[1]) \cup Elems(free[2]) \cup Elems(extras)
  BY DEF PlaceInv
<1>5. None \notin Elems(free[1]) \cup Elems(free[2]) \cup Elems(extras)
  BY <1>1, ElementOfSeq DEF TypeOK, Elems, Pools
<1>6. \A d, e \in Callers : batch'[d] # None /\ batch'[d] = batch'[e] => d = e
  BY <1>2 DEF PlaceInv
<1>7. \A d \in Callers \ {c} : batch[d] # b
  BY <1>1 DEF PlaceInv
<1>8. \A d \in Callers :
         batch'[d] \notin Elems(free'[1]) \cup Elems(free'[2]) \cup Elems(extras')
  BY <1>1, <1>2, <1>5, <1>7 DEF PlaceInv
<1>9. life[b] # "none" /\ HasProcess(b)
  BY <1>1 DEF PlaceInv, HasProcess
<1>10. PlaceInv'
  BY <1>3, <1>4, <1>6, <1>8, <1>9 DEF PlaceInv
<1>11. Silent'
  BY <1>3 DEF Silent
<1>. QED  BY <1>10, <1>11

LEMMA ReleaseInv ==
    ASSUME Inv, NEW c \in Callers, Release(c) PROVE Inv'
<1>. USE DEF Inv
<1>. DEFINE g == pool[c]
            b == batch[c]
<1>1. /\ pc[c] = "release" /\ ~PoolLocked(g)
      /\ UNCHANGED <<pool, unread, extras, storeVars>>
  BY DEF Release
<1>2. /\ b \in Procs /\ b # None /\ unread[b] = <<>> /\ oid[c] \in Oids
      /\ g \in Pools /\ free[g] \in Seq(Procs) /\ Len(free[g]) \in Nat
  BY <1>1, HasOne, LenProperties DEF Talks, TypeOK
<1>3. CASE HasRoom(g) /\ free' = [free EXCEPT ![g] = Append(@, b)]
           /\ batch' = [batch EXCEPT ![c] = None] /\ Return(c) /\ UNCHANGED life
  <2>. DEFINE f == Append(free[g], b)
  <2>1. Injective(free[g]) /\ b \notin Elems(free[g])
    BY <1>2 DEF PlaceInv, Pools
  <2>2. /\ f \in Seq(Procs) /\ Len(f) = Len(free[g]) + 1
        /\ Injective(f) /\ Elems(f) = Elems(free[g]) \cup {b}
    BY <1>2, <2>1, AppendElems
  <2>3. \A h \in Pools : free'[h] = IF h = g THEN f ELSE free[h]
    BY <1>3 DEF TypeOK
  <2>4. free' \in [Pools -> Seq(Procs)]
    BY <1>2, <1>3, <2>2 DEF TypeOK
  <2>. HIDE DEF f
  <2>5. PlaceInv' /\ Silent'
    <3>1. Injective(free'[1]) /\ Injective(free'[2])
      BY <2>2, <2>3 DEF PlaceInv, Pools
    <3>2. \/ /\ Elems(free'[1]) = Elems(free[1]) \cup {b}
             /\ Elems(free'[2]) = Elems(free[2])
          \/ /\ Elems(free'[1]) = Elems(free[1])
             /\ Elems(free'[2]) = Elems(free[2]) \cup {b}
      <4>1. CASE g = 1
        BY <2>2, <2>3, <4>1 DEF Pools
      <4>2. CASE g = 2
        BY <2>2, <2>3, <4>2 DEF Pools
      <4>. QED  BY <1>2, <4>1, <4>2 DEF Pools
    <3>. QED  BY <1>1, <1>2, <1>3, <3>1, <3>2, ReleasedPlaces
  <2>6. TypeOK'
    <3>1. batch' \in [Callers -> Procs \cup {None}]
      BY <1>3 DEF TypeOK
    <3>. QED  BY <1>1, <1>3, <2>4, <3>1 DEF TypeOK, Return, storeVars
  <2>7. \A d \in Callers : Talks(d)'
    <3>1. Talks(c)'
      BY <1>3 DEF Talks, TypeOK, Return
    <3>2. \A d \in Callers \ {c} : /\ pc'[d] = pc[d] /\ oid'[d] = oid[d]
                                   /\ answer'[d] = answer[d] /\ batch'[d] = batch[d]
      BY <1>3 DEF TypeOK, Return
    <3>. QED  BY <1>1, <3>1, <3>2, OneCaller
  <2>8. StoreInv'
    <3>1. CASE g = 1
      <4>1. c \in BusyInFirst /\ BusyInFirst' = BusyInFirst \ {c}
        BY <1>1, <1>3, <3>1 DEF BusyInFirst, Busy, Return, TypeOK
      <4>2. /\ Cardinality(BusyInFirst) \in Nat
            /\ Cardinality(BusyInFirst') = Cardinality(BusyInFirst) - 1
        BY <4>1, BusyCount, FS_RemoveElement DEF BusyInFirst
      <4>3. Len(free'[1]) = Len(free[1]) + 1 /\ free'[2] = free[2]
        BY <2>2, <2>3, <3>1 DEF Pools
      <4>4. Len(free[1]) \in Nat /\ inFlight \in Nat
        BY <1>2, <3>1 DEF TypeOK
      <4>. QED  BY <1>1, <4>2, <4>3, <4>4 DEF StoreInv, storeVars
    <3>2. CASE g = 2
      <4>1. BusyInFirst' = BusyInFirst
        BY <1>1, <1>3, <3>2 DEF BusyInFirst, Busy, Return, TypeOK
      <4>2. current = 2 /\ free'[1] = free[1]
        BY <2>3, <3>2 DEF StoreInv, TypeOK, Pools
      <4>. QED  BY <1>1, <4>1, <4>2 DEF StoreInv, storeVars
    <3>. QED  BY <1>2, <3>1, <3>2 DEF Pools
  <2>9. PoolBound'
    <3>1. maxSize[g] \in Nat /\ Len(free'[g]) <= maxSize[g]
      BY <1>2, <1>3, <2>2, <2>3 DEF HasRoom, TypeOK
    <3>. QED  BY <1>1, <2>3, <3>1 DEF PoolBound, storeVars
  <2>. QED  BY <2>5, <2>6, <2>7, <2>8, <2>9
<1>4. CASE Close(c) /\ UNCHANGED <<free, batch>>
  <2>. USE DEF Close, CloseInput, Go
  <2>1. TypeOK'
    BY <1>1, <1>2, <1>4 DEF TypeOK, storeVars
  <2>2. PlaceInv' /\ Silent'
    BY <1>1, <1>2, <1>4, PlacesKept, SilentKept DEF TypeOK
  <2>3. \A d \in Callers : Talks(d)'
    <3>1. Talks(c)'
      BY <1>1, <1>2, <1>4 DEF Talks, TypeOK
    <3>2. \A d \in Callers \ {c} : /\ pc'[d] = pc[d] /\ oid'[d] = oid[d]
                                   /\ answer'[d] = answer[d] /\ batch'[d] = batch[d]
      BY <1>4 DEF TypeOK
    <3>. QED  BY <1>1, <3>1, <3>2, OneCaller
  <2>4. BusyInFirst' = BusyInFirst
    BY <1>1, <1>4 DEF BusyInFirst, Busy, TypeOK
  <2>5. StoreInv' /\ PoolBound'
    BY <1>1, <1>4, <2>4, StoreKept DEF PoolBound, storeVars
  <2>. QED  BY <2>1, <2>2, <2>3, <2>5
<1>. QED  BY <1>1, <1>3, <1>4 DEF Release

-----------------------------------------------------------------------------
(* The steps of Close and SetBatchPoolSize, and of git                      *)

(* Nobody but the keeper moves: the calls go on as they were.               *)
LEMMA CallsKept ==
    ASSUME TypeOK, PlaceInv, Silent, \A c \in Callers : Talks(c),
           UNCHANGED <<callVars, batch>>,
           \A p \in Procs : HasProcess(p) => unread'[p] = unread[p],
           \A p \in Procs : unread'[p] \in {unread[p], <<>>}
    PROVE  Silent' /\ \A c \in Callers : Talks(c)'
<1>. USE DEF callVars
<1>1. \A p \in Procs : HasProcess(p)' <=> HasProcess(p)
  BY DEF HasProcess
<1>2. Silent'
  BY <1>1 DEF Silent
<1>3. ASSUME NEW c \in Callers PROVE Talks(c)'
  <2>1. pc[c] \notin {"idle", "acquire"} => unread'[batch[c]] = unread[batch[c]]
    BY HasOne DEF HasProcess
  <2>. QED  BY <2>1 DEF Talks
<1>. QED  BY <1>2, <1>3

(* Pooled processes go from a pool to those that are shut down.             *)
LEMMA SetAsidePlaces ==
    ASSUME TypeOK, PlaceInv, UNCHANGED <<batch, life>>, Elems(extras) = {},
           Injective(free'[1]), Injective(free'[2]), Injective(extras'),
           \/ /\ Elems(free'[1]) \cup Elems(extras') = Elems(free[1])
              /\ Elems(free'[1]) \cap Elems(extras') = {}
              /\ Elems(free'[2]) = Elems(free[2])
           \/ /\ Elems(free'[2]) \cup Elems(extras') = Elems(free[2])
              /\ Elems(free'[2]) \cap Elems(extras') = {}
              /\ Elems(free'[1]) = Elems(free[1])
    PROVE  PlaceInv'
<1>1. \A p \in Procs : HasProcess(p)' <=> HasProcess(p)
  BY DEF HasProcess
<1>2. \A p : p \in Elems(free'[1]) \cup Elems(free'[2]) \cup Elems(extras') <=>
             p \in Elems(free[1]) \cup Elems(free[2]) \cup Elems(extras)
  OBVIOUS
<1>3. /\ Elems(free'[1]) \cap Elems(free'[2]) = {}
      /\ Elems(free'[1]) \cap Elems(extras') = {}
      /\ Elems(free'[2]) \cap Elems(extras') = {}
  BY DEF PlaceInv
<1>. QED  BY <1>1, <1>2, <1>3 DEF PlaceInv

LEMMA CloseStoreInv == ASSUME Inv, CloseStore PROVE Inv'
<1>. USE DEF Inv, CloseStore, AfterClose
<1>1. /\ free[1] \in Seq(Procs) /\ free[2] = <<>> /\ extras = <<>> /\ current = 1
      /\ free'[1] = <<>> /\ free'[2] = free[2] /\ extras' = free[1]
      /\ free' \in [Pools -> Seq(Procs)]
  BY EmptySeq DEF StoreInv, TypeOK, Pools
<1>2. TypeOK'
  <2>1. Cardinality({c \in Callers : Busy(c)}) \in Nat
    BY BusyCount
  <2>. QED  BY <1>1, <2>1 DEF TypeOK, callVars
<1>3. PlaceInv'
  <2>1. Injective(free'[1]) /\ Injective(free'[2]) /\ Injective(extras')
    BY <1>1, EmptyElems DEF PlaceInv
  <2>2. /\ Elems(free'[1]) \cup Elems(extras') = Elems(free[1])
        /\ Elems(free'[1]) \cap Elems(extras') = {}
        /\ Elems(free'[2]) = Elems(free[2]) /\ Elems(extras) = {}
    BY <1>1, EmptyElems
  <2>. QED  BY <2>1, <2>2, SetAsidePlaces
<1>4. Silent' /\ \A c \in Callers : Talks(c)'
  BY CallsKept
<1>5. StoreInv'
  <2>1. BusyInFirst' = BusyInFirst /\ BusyInFirst \subseteq {c \in Callers : Busy(c)}
    BY DEF BusyInFirst, Busy, callVars
  <2>2. /\ Cardinality(BusyInFirst') <= Cardinality({c \in Callers : Busy(c)})
        /\ Cardinality(BusyInFirst') \in Nat
    BY <2>1, BusyCount
  <2>. QED  BY <1>1, <2>2, EmptyElems DEF StoreInv, callVars
<1>6. PoolBound'
  BY <1>1, EmptyElems DEF PoolBound, TypeOK, Pools
<1>. QED  BY <1>2, <1>3, <1>4, <1>5, <1>6

LEMMA SetBatchPoolSizeInv ==
    ASSUME Inv, NEW n \in Sizes, SetBatchPoolSize(n) PROVE Inv'
<1>. USE DEF Inv, SetBatchPoolSize
<1>. DEFINE s == free[current]
            kept == Kept(s, n)
            cut == Extras(s, n)
<1>1. /\ n \in Nat \ {0} /\ current \in Pools /\ s \in Seq(Procs) /\ Len(s) \in Nat
      /\ Injective(s) /\ extras = <<>> /\ keeper = "off"
  BY BatchPoolAssumption, LenProperties DEF TypeOK, StoreInv, PlaceInv, Pools
<1>2. /\ kept \in Seq(Procs) /\ Len(kept) <= n /\ Len(kept) <= Len(s) /\ Injective(kept)
      /\ cut \in Seq(Procs) /\ Injective(cut)
      /\ Elems(kept) \cup Elems(cut) = Elems(s) /\ Elems(kept) \cap Elems(cut) = {}
      /\ Len(kept) \in Nat
  <2>1. CASE Len(s) > n
    <3>1. n \in 0..Len(s)
      BY <1>1, <2>1
    <3>. QED  BY <1>1, <2>1, <3>1, CutElems DEF Kept, Extras
  <2>2. CASE Len(s) <= n
    <3>1. SubSeq(s, n + 1, Len(s)) = <<>>
      BY <1>1, <2>2, SubSeqEmpty
    <3>2. cut = <<>> /\ kept = s
      BY <1>1, <2>2, <3>1 DEF Kept, Extras
    <3>. QED  BY <1>1, <2>2, <3>2, EmptyElems, EmptySeq
  <2>. QED  BY <1>1, <2>1, <2>2
<1>3. /\ free' = [free EXCEPT ![current] = kept] /\ extras' = cut
      /\ maxSize' = [g \in Pools |-> IF g >= current THEN n ELSE maxSize[g]]
  OBVIOUS
<1>. HIDE DEF kept, cut
<1>4. /\ free' \in [Pools -> Seq(Procs)]
      /\ \A h \in Pools : free'[h] = IF h = current THEN kept ELSE free[h]
  BY <1>1, <1>2, <1>3 DEF TypeOK
<1>5. TypeOK'
  BY <1>1, <1>2, <1>3, <1>4 DEF TypeOK, callVars
<1>6. PlaceInv'
  <2>1. Injective(free'[1]) /\ Injective(free'[2]) /\ Injective(extras')
    BY <1>2, <1>3, <1>4 DEF PlaceInv, Pools
  <2>2. \/ /\ Elems(free'[1]) \cup Elems(extras') = Elems(free[1])
           /\ Elems(free'[1]) \cap Elems(extras') = {}
           /\ Elems(free'[2]) = Elems(free[2])
        \/ /\ Elems(free'[2]) \cup Elems(extras') = Elems(free[2])
           /\ Elems(free'[2]) \cap Elems(extras') = {}
           /\ Elems(free'[1]) = Elems(free[1])
    <3>1. CASE current = 1
      BY <1>2, <1>3, <1>4, <3>1 DEF Pools
    <3>2. CASE current = 2
      BY <1>2, <1>3, <1>4, <3>2 DEF Pools
    <3>. QED  BY <1>1, <3>1, <3>2 DEF Pools
  <2>. QED  BY <1>1, <2>1, <2>2, SetAsidePlaces, EmptyElems
<1>7. Silent' /\ \A c \in Callers : Talks(c)'
  BY CallsKept
<1>8. StoreInv'
  <2>1. BusyInFirst' = BusyInFirst
    BY DEF BusyInFirst, Busy, callVars
  <2>2. current = 1 => free'[2] = <<>>
    BY <1>4 DEF StoreInv, Pools
  <2>3. current = 2 => free'[1] = free[1]
    BY <1>4 DEF Pools
  <2>. QED  BY <1>1, <2>1, <2>2, <2>3 DEF StoreInv, callVars, Pools
<1>9. PoolBound'
  <2>1. ASSUME NEW h \in Pools PROVE Len(free'[h]) <= maxSize'[h]
    <3>1. CASE h = current
      BY <1>1, <1>2, <1>3, <1>4, <3>1 DEF Pools
    <3>2. CASE h < current
      BY <1>1, <1>3, <1>4, <3>2 DEF PoolBound, Pools
    <3>3. CASE h > current
      <4>1. free'[h] = <<>> /\ maxSize'[h] = n
        BY <1>1, <1>3, <1>4, <3>3 DEF StoreInv, Pools
      <4>. QED  BY <1>1, <4>1, EmptyElems
    <3>. QED  BY <1>1, <3>1, <3>2, <3>3 DEF Pools
  <2>. QED  BY <2>1 DEF PoolBound
<1>. QED  BY <1>5, <1>6, <1>7, <1>8, <1>9

(* A life goes on or ends, unread.                                          *)
LEMMA LifeInv ==
    ASSUME Inv, UNCHANGED <<callVars, batch, unread, free, extras, storeVars>>,
           life' \in [Procs -> {"none", "running", "closed", "exited"}],
           \A p \in Procs : life'[p] = "none" <=> life[p] = "none"
    PROVE  Inv'
<1>. USE DEF Inv
<1>1. TypeOK'
  BY DEF TypeOK, callVars, storeVars
<1>2. PlaceInv'
  BY PlacesKept
<1>3. Silent' /\ \A c \in Callers : Talks(c)'
  BY CallsKept
<1>4. BusyInFirst' = BusyInFirst
  BY DEF BusyInFirst, Busy, callVars
<1>5. StoreInv' /\ PoolBound'
  BY <1>4, StoreKept DEF PoolBound, callVars, storeVars
<1>. QED  BY <1>1, <1>2, <1>3, <1>5

LEMMA ExtraWaitedInv == ASSUME Inv, ExtraWaited PROVE Inv'
<1>. USE DEF Inv, ExtraWaited, Gone
<1>. DEFINE p == Head(extras)
<1>1. /\ p \in Procs /\ p \in Elems(extras) /\ extras' = Tail(extras)
      /\ Tail(extras) \in Seq(Procs) /\ Injective(Tail(extras))
      /\ Elems(Tail(extras)) = Elems(extras) \ {p}
  BY TailElems DEF TypeOK, PlaceInv
<1>2. /\ life' = [life EXCEPT ![p] = "none"] /\ unread' = [unread EXCEPT ![p] = <<>>]
      /\ UNCHANGED <<callVars, batch, free, storeVars>>
  OBVIOUS
<1>. HIDE DEF p
<1>3. ~HasProcess(p) /\ p \notin Elems(free[1]) \cup Elems(free[2])
  BY <1>1 DEF HasProcess, PlaceInv
<1>4. TypeOK'
  <2>1. unread' \in [Procs -> Seq(Oids)]
    BY <1>1, <1>2, EmptySeq DEF TypeOK
  <2>2. life' \in [Procs -> {"none", "running", "closed", "exited"}]
    BY <1>1, <1>2 DEF TypeOK
  <2>. QED  BY <1>1, <1>2, <2>1, <2>2 DEF TypeOK, callVars, storeVars
<1>5. PlaceInv'
  <2>1. \A q \in Procs : HasProcess(q)' <=> HasProcess(q)
    BY <1>2 DEF HasProcess
  <2>2. \A q \in Procs : life'[q] = IF q = p THEN "none" ELSE life[q]
    BY <1>1, <1>2 DEF TypeOK
  <2>. QED  BY <1>1, <1>2, <1>3, <2>1, <2>2 DEF PlaceInv
<1>6. Silent' /\ \A c \in Callers : Talks(c)'
  <2>1. \A q \in Procs : HasProcess(q) => unread'[q] = unread[q]
    BY <1>2, <1>3 DEF TypeOK
  <2>2. \A q \in Procs : unread'[q] \in {unread[q], <<>>}
    BY <1>1, <1>2 DEF TypeOK
  <2>. QED  BY <1>2, <2>1, <2>2, CallsKept
<1>7. BusyInFirst' = BusyInFirst
  BY <1>2 DEF BusyInFirst, Busy, callVars
<1>8. StoreInv' /\ PoolBound'
  <2>1. keeper # "off"
    BY DEF StoreInv
  <2>. QED  BY <1>2, <1>7, <2>1 DEF StoreInv, PoolBound, callVars, storeVars
<1>. QED  BY <1>4, <1>5, <1>6, <1>8

LEMMA KeeperDoneInv == ASSUME Inv, KeeperDone PROVE Inv'
<1>. USE DEF Inv, KeeperDone
<1>1. TypeOK'
  BY DEF TypeOK, callVars, Pools
<1>2. PlaceInv'
  BY PlacesKept
<1>3. Silent' /\ \A c \in Callers : Talks(c)'
  BY CallsKept
<1>4. BusyInFirst' = BusyInFirst
  BY DEF BusyInFirst, Busy, callVars
<1>5. StoreInv'
  <2>1. \A c \in Callers : pool'[c] <= current'
    <3>1. current' \in {current, 2} /\ current \in {1, 2} /\ UNCHANGED pool
      BY DEF TypeOK, Pools, callVars
    <3>2. \A c \in Callers : pool[c] \in {1, 2} /\ pool[c] <= current
      BY DEF StoreInv, TypeOK, Pools
    <3>. QED  BY <3>1, <3>2
  <2>. QED  BY <1>4, <2>1 DEF StoreInv, TypeOK, Pools
<1>6. PoolBound'
  BY DEF PoolBound
<1>. QED  BY <1>1, <1>2, <1>3, <1>5, <1>6

LEMMA StepInv == Inv /\ [Next]_vars => Inv'
<1>. SUFFICES ASSUME Inv, [Next]_vars PROVE Inv'
  OBVIOUS
<1>1. ASSUME NEW c \in Callers, CallStep(c) PROVE Inv'
  BY <1>1, AcquireInv, RequestInv, ReadHeaderInv, ReadContentInv, CloseAndWaitInv,
     EndInv, ReleaseInv DEF CallStep
<1>2. ASSUME NEW c \in Callers, NEW o \in Wanted[c], StartCall(c, o) PROVE Inv'
  BY <1>2, StartCallInv
<1>3. CASE CloseStore
  BY <1>3, CloseStoreInv
<1>4. ASSUME NEW n \in Sizes, SetBatchPoolSize(n) PROVE Inv'
  BY <1>4, SetBatchPoolSizeInv
<1>5. CASE CloseExtra
  <2>1. Head(extras) \in Procs
    BY <1>5, TailElems DEF CloseExtra, Inv, TypeOK, PlaceInv
  <2>. QED  BY <1>5, <2>1, LifeInv DEF CloseExtra, CloseInput, Inv, TypeOK
<1>6. CASE ExtraWaited
  BY <1>6, ExtraWaitedInv
<1>7. CASE KeeperDone
  BY <1>7, KeeperDoneInv
<1>8. ASSUME NEW p \in Procs, Exit(p) \/ Die(p) PROVE Inv'
  BY <1>8, LifeInv DEF Exit, Die, Inv, TypeOK
<1>9. CASE UNCHANGED vars
  BY <1>9, LifeInv DEF vars, Inv, TypeOK
<1>. QED
  BY <1>1, <1>2, <1>3, <1>4, <1>5, <1>6, <1>7, <1>8, <1>9 DEF Next, KeeperStep

LEMMA Invariant == Spec => []Inv
BY InitInv, StepInv, PTL DEF Spec

-----------------------------------------------------------------------------
(* Every variable has its type.                                             *)
THEOREM TypeCorrect == Spec => []TypeOK
<1>1. Inv => TypeOK
  BY DEF Inv
<1>. QED  BY Invariant, <1>1, PTL

(* A call returns the blob it asked for, or an error: no process goes back  *)
(* to the pool with an answer that somebody else could read.                *)
THEOREM AnswersAreRight == Spec => []RightBlob
<1>1. Inv => RightBlob
  BY DEF Inv, Talks, RightBlob
<1>. QED  BY Invariant, <1>1, PTL

(* No pool holds more than its limit, whenever the limit is changed.        *)
THEOREM PoolsAreBounded == Spec => []PoolBound
<1>1. Inv => PoolBound
  BY DEF Inv
<1>. QED  BY Invariant, <1>1, PTL

(* What Close leaves behind in the pool it removed comes from calls it has  *)
(* found, one process each.                                                 *)
THEOREM CloseLeavesFew == Spec => []Leftover
<1>1. Inv => Leftover
  <2>1. {c \in Callers : Busy(c) /\ pool[c] = 1} = BusyInFirst
    BY DEF BusyInFirst
  <2>. QED  BY <2>1 DEF Inv, StoreInv, Leftover
<1>. QED  BY Invariant, <1>1, PTL

LEMMA OneIndex ==
    ASSUME NEW S, NEW s \in Seq(S), Injective(s), NEW p
    PROVE  /\ p \notin Elems(s) => Places(s, p) = {}
           /\ p \in Elems(s) => \E i : Places(s, p) = {i}
<1>1. DOMAIN s = 1..Len(s)
  BY LenProperties
<1>2. ASSUME p \in Elems(s) PROVE \E i : Places(s, p) = {i}
  <2>1. PICK i \in 1..Len(s) : s[i] = p
    BY <1>2 DEF Elems
  <2>2. \A j \in 1..Len(s) : s[j] = p => j = i
    BY <2>1 DEF Injective
  <2>. QED  BY <1>1, <2>1, <2>2 DEF Places
<1>3. ASSUME p \notin Elems(s) PROVE Places(s, p) = {}
  BY <1>1, <1>3 DEF Elems, Places
<1>. QED  BY <1>2, <1>3

(* A process that was started has one holder until it was waited for, and   *)
(* none after that: no two calls share one, and none is forgotten.          *)
THEOREM ProcessesHaveOneHolder == Spec => []OneHolder
<1>1. Inv => OneHolder
  <2>. SUFFICES ASSUME Inv, NEW p \in Procs
                PROVE  IF life[p] = "none" THEN Holders(p) = {}
                       ELSE \E h \in Holders(p) : Holders(p) = {h}
    BY DEF OneHolder
  <2>. DEFINE C == {c \in Callers : batch[c] = p}
              At(g) == Places(free[g], p)
              X == Places(extras, p)
  <2>0. /\ free[1] \in Seq(Procs) /\ free[2] \in Seq(Procs) /\ extras \in Seq(Procs)
        /\ Injective(free[1]) /\ Injective(free[2]) /\ Injective(extras)
    BY DEF Inv, TypeOK, PlaceInv, Pools
  <2>1. Holders(p) = C \cup ({1} \X At(1)) \cup ({2} \X At(2)) \cup ({0} \X X)
    BY DEF Holders
  <2>2. /\ p \notin Elems(free[1]) => At(1) = {}
        /\ p \in Elems(free[1]) => \E i : At(1) = {i}
    BY <2>0, OneIndex
  <2>3. /\ p \notin Elems(free[2]) => At(2) = {}
        /\ p \in Elems(free[2]) => \E i : At(2) = {i}
    BY <2>0, OneIndex
  <2>4. /\ p \notin Elems(extras) => X = {}
        /\ p \in Elems(extras) => \E i : X = {i}
    BY <2>0, OneIndex
  <2>5. /\ ~HasProcess(p) => C = {}
        /\ HasProcess(p) => \E c : C = {c}
    <3>1. ASSUME NEW c \in Callers, batch[c] = p PROVE C = {c}
      <4>1. batch[c] # None
        BY <3>1, BatchPoolAssumption
      <4>2. \A d \in Callers : batch[d] = p => d = c
        BY <3>1, <4>1 DEF Inv, PlaceInv
      <4>. QED  BY <3>1, <4>2
    <3>. QED  BY <3>1 DEF HasProcess
  <2>. HIDE DEF C, At, X
  <2>6. HasProcess(p) => p \notin Elems(free[1]) \cup Elems(free[2]) \cup Elems(extras)
    BY DEF Inv, PlaceInv, HasProcess
  <2>7. /\ p \notin Elems(free[1]) \cap Elems(free[2])
        /\ p \notin Elems(free[1]) \cap Elems(extras)
        /\ p \notin Elems(free[2]) \cap Elems(extras)
    BY DEF Inv, PlaceInv
  <2>8. life[p] # "none" <=>
            HasProcess(p) \/ p \in Elems(free[1]) \cup Elems(free[2]) \cup Elems(extras)
    BY DEF Inv, PlaceInv
  <2>9. CASE life[p] = "none"
    BY <2>1, <2>2, <2>3, <2>4, <2>5, <2>8, <2>9
  <2>10. CASE HasProcess(p)
    BY <2>1, <2>2, <2>3, <2>4, <2>5, <2>6, <2>8, <2>10
  <2>11. CASE p \in Elems(free[1])
    <3>1. PICK i : At(1) = {i}
      BY <2>2, <2>3, <2>4, <2>11
    <3>2. Holders(p) = {<<1, i>>}
      BY <2>1, <2>2, <2>3, <2>4, <2>5, <2>6, <2>7, <2>11, <3>1
    <3>. QED  BY <2>8, <2>11, <3>2
  <2>12. CASE p \in Elems(free[2])
    <3>1. PICK i : At(2) = {i}
      BY <2>2, <2>3, <2>4, <2>12
    <3>2. Holders(p) = {<<2, i>>}
      BY <2>1, <2>2, <2>3, <2>4, <2>5, <2>6, <2>7, <2>12, <3>1
    <3>. QED  BY <2>8, <2>12, <3>2
  <2>13. CASE p \in Elems(extras)
    <3>1. PICK i : X = {i}
      BY <2>2, <2>3, <2>4, <2>13
    <3>2. Holders(p) = {<<0, i>>}
      BY <2>1, <2>2, <2>3, <2>4, <2>5, <2>6, <2>7, <2>13, <3>1
    <3>. QED  BY <2>8, <2>13, <3>2
  <2>. QED  BY <2>8, <2>9, <2>10, <2>11, <2>12, <2>13
<1>. QED  BY Invariant, <1>1, PTL
-----------------------------------------------------------------------------
(* A process that is still there while its caller waits for it has said     *)
(* all, or is in the middle of the blob that a worker could not write.      *)
Waits(c) ==
    pc[c] = "wait" /\ life[batch[c]] # "exited" =>
        \/ unread[batch[c]] = <<>>
        \/ c \in Workers /\ unread[batch[c]] = <<oid[c]>>

(* A call leaves the others' processes alone.                               *)
LEMMA OthersWait ==
    ASSUME Inv, NEW c \in Callers, NEW d \in Callers \ {c}, CallStep(d), pc[c] = "wait"
    PROVE  /\ pc'[c] = pc[c] /\ oid'[c] = oid[c] /\ batch'[c] = batch[c]
           /\ unread'[batch[c]] = unread[batch[c]] /\ life'[batch[c]] = life[batch[c]]
<1>. USE DEF Return, RetryOrFail, Close, CloseInput, Go
<1>1. /\ batch[c] \in Procs /\ batch[c] # None /\ batch[c] # batch[d]
      /\ life[batch[c]] # "none"
  BY HasOne, OwnProcess DEF Inv, PlaceInv, HasProcess
<1>2. TypeOK
  BY DEF Inv
<1>3. CASE Acquire(d)
  <2>1. batch'[c] = batch[c] /\ UNCHANGED unread
    BY <1>2, <1>3 DEF Acquire, Start, TypeOK
  <2>2. pc'[c] = pc[c] /\ oid'[c] = oid[c]
    BY <1>2, <1>3 DEF Acquire, TypeOK
  <2>3. life'[batch[c]] = life[batch[c]]
    <3>1. \/ UNCHANGED life
          \/ \E p \in Unused : life' = [life EXCEPT ![p] = "running"]
      BY <1>3 DEF Acquire, Start
    <3>2. batch[c] \notin Unused
      BY <1>1 DEF Unused
    <3>. QED  BY <1>1, <1>2, <3>1, <3>2 DEF TypeOK
  <2>. QED  BY <2>1, <2>2, <2>3
<1>4. CASE Request(d) \/ ReadHeader(d) \/ ReadContent(d) \/ WriteFails(d) \/ ProcessLost(d)
  BY <1>1, <1>2, <1>4 DEF Request, ReadHeader, ReadContent, WriteFails, ProcessLost, TypeOK
<1>5. CASE TooLarge(d) \/ ContextDone(d) \/ Waited(d)
  BY <1>1, <1>2, <1>5 DEF TooLarge, ContextDone, Waited, Reap, Gone, TypeOK
<1>6. CASE Release(d)
  BY <1>1, <1>2, <1>6 DEF Release, TypeOK
<1>. QED  BY <1>3, <1>4, <1>5, <1>6 DEF CallStep

LEMMA WaitsStep ==
    ASSUME Inv, NEW c \in Callers, Waits(c), [Next]_vars PROVE Waits(c)'
<1>. USE DEF Waits
<1>1. ASSUME NEW d \in Callers \ {c}, CallStep(d) PROVE Waits(c)'
  <2>1. CASE pc[c] = "wait"
    BY <1>1, <2>1, OthersWait
  <2>2. CASE pc[c] # "wait"
    <3>1. pc'[c] = pc[c]
      BY <1>1 DEF CallStep, Acquire, Request, ReadHeader, ReadContent, WriteFails,
         ProcessLost, TooLarge, ContextDone, Waited, Release, Close, Go, Return,
         RetryOrFail, Inv, TypeOK
    <3>. QED  BY <2>2, <3>1
  <2>. QED  BY <2>1, <2>2
<1>2. CASE CallStep(c)
  <2>. USE DEF Close, CloseInput, Go, Return, RetryOrFail
  <2>0. TypeOK
    BY DEF Inv
  <2>1. CASE Acquire(c) \/ Request(c) \/ TooLarge(c) \/ ContextDone(c) \/ Waited(c)
    <3>1. pc'[c] # "wait"
      BY <2>0, <2>1 DEF Acquire, Request, TooLarge, ContextDone, Waited, TypeOK
    <3>. QED  BY <3>1
  <2>2. CASE ReadHeader(c) \/ ReadContent(c)
    <3>1. /\ unread[batch[c]] = <<oid[c]>> /\ batch[c] \in Procs
          /\ Tail(<<oid[c]>>) = <<>>
      BY <2>2, HasOne DEF ReadHeader, ReadContent, Inv, Talks
    <3>2. UNCHANGED batch /\ (pc'[c] = "wait" => unread'[batch[c]] = <<>>)
      BY <2>0, <2>2, <3>1 DEF ReadHeader, ReadContent, TypeOK
    <3>. QED  BY <3>2
  <2>3. CASE WriteFails(c)
    <3>1. unread[batch[c]] = <<oid[c]>>
      BY <2>3 DEF WriteFails, Inv, Talks
    <3>. QED  BY <2>3, <3>1 DEF WriteFails
  <2>4. CASE ProcessLost(c)
    <3>1. batch[c] \in Procs /\ life[batch[c]] = "exited"
      BY <2>4, HasOne DEF ProcessLost, Inv
    <3>. QED  BY <2>0, <2>4, <3>1 DEF ProcessLost, TypeOK
  <2>5. CASE Release(c)
    <3>1. unread[batch[c]] = <<>>
      BY <2>5 DEF Release, Inv, Talks
    <3>2. UNCHANGED unread /\ (pc'[c] = "wait" => UNCHANGED batch)
      BY <2>0, <2>5 DEF Release, TypeOK
    <3>. QED  BY <3>1, <3>2
  <2>. QED  BY <1>2, <2>1, <2>2, <2>3, <2>4, <2>5 DEF CallStep
<1>3. ASSUME NEW d \in Callers, NEW o \in Wanted[d], StartCall(d, o) PROVE Waits(c)'
  BY <1>3 DEF StartCall, Inv, TypeOK
<1>4. CASE \/ CloseStore \/ KeeperStep
           \/ (\E n \in Sizes : SetBatchPoolSize(n)) \/ (\E p \in Procs : Exit(p) \/ Die(p))
           \/ UNCHANGED vars
  <2>1. UNCHANGED <<pc, oid, batch>>
    BY <1>4 DEF CloseStore, KeeperStep, CloseExtra, ExtraWaited, KeeperDone,
       SetBatchPoolSize, Exit, Die, callVars, vars
  <2>2. ASSUME pc[c] = "wait", NEW p \in Procs, p = batch[c]
        PROVE  unread'[p] = unread[p] /\ (life[p] = "exited" => life'[p] = "exited")
    <3>1. HasProcess(p) /\ p \notin Elems(extras)
      BY <2>2 DEF HasProcess, Inv, PlaceInv
    <3>2. extras # <<>> => Head(extras) \in Elems(extras) /\ Head(extras) \in Procs
      BY TailElems DEF Inv, TypeOK, PlaceInv
    <3>. QED
      BY <1>4, <3>1, <3>2 DEF CloseStore, KeeperStep, CloseExtra, ExtraWaited,
         KeeperDone, SetBatchPoolSize, Exit, Die, CloseInput, Gone, vars, Inv, TypeOK
  <2>3. pc[c] = "wait" => batch[c] \in Procs
    BY HasOne DEF Inv
  <2>. QED  BY <2>1, <2>2, <2>3
<1>. QED  BY <1>1, <1>2, <1>3, <1>4 DEF Next

(* What the two liveness properties rest on: a call hangs only if it is a   *)
(* worker's whose file could not be written in the middle of a large blob,  *)
(* never a reader's; and Close and SetBatchPoolSize never wait for a        *)
(* process that has something left to say.                                  *)
HangsAreFailedWrites ==
    /\ \A c \in Callers : Hung(c) => c \in Workers /\ oid[c] \in Large
    /\ \A i \in 1..Len(extras) : ~Stuck(extras[i])

(* So it is for any calls, processes and objects, wherever processes die.   *)
THEOREM FewHang == Spec => []HangsAreFailedWrites
<1>. DEFINE AllWait == \A c \in Callers : Waits(c)
<1>1. Init => AllWait
  BY DEF Init, Waits
<1>2. Inv /\ AllWait /\ [Next]_vars => AllWait'
  BY WaitsStep
<1>3. Inv /\ AllWait => HangsAreFailedWrites
  <2>. SUFFICES ASSUME Inv, AllWait PROVE HangsAreFailedWrites
    OBVIOUS
  <2>1. ASSUME NEW c \in Callers, Hung(c) PROVE c \in Workers /\ oid[c] \in Large
    <3>1. unread[batch[c]] = <<oid[c]>> /\ c \in Workers
      BY <2>1 DEF Hung, Stuck, Waits
    <3>2. Head(<<oid[c]>>) = oid[c]
      OBVIOUS
    <3>. QED  BY <2>1, <3>1, <3>2 DEF Hung, Stuck
  <2>2. ASSUME NEW i \in 1..Len(extras) PROVE ~Stuck(extras[i])
    <3>1. extras[i] \in Procs /\ extras[i] \in Elems(extras)
      BY ElementOfSeq DEF Inv, TypeOK, Elems
    <3>2. ~HasProcess(extras[i])
      BY <3>1 DEF HasProcess, Inv, PlaceInv
    <3>. QED  BY <3>1, <3>2 DEF Inv, Silent, Stuck
  <2>. QED  BY <2>1, <2>2 DEF HangsAreFailedWrites
<1>. QED  BY Invariant, <1>1, <1>2, <1>3, PTL DEF Spec
=============================================================================
