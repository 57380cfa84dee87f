----------------------------- MODULE BatchPool -----------------------------
(***************************************************************************)
(* The git cat-file --batch processes of one git directory: hydrator       *)
(* workers (BlobToCache) and readers of symlinks (ReadBlob) take a process *)
(* from the pool or start one, write a request, read the answer, and put   *)
(* the process back or close it.  Close and SetBatchPoolSize shut down     *)
(* pooled processes, and a process may die at any time.                    *)
(*                                                                         *)
(* A critical section of a mutex, a system call or an answer is one        *)
(* action.  What fetchToFile does to the cache directory is in Hydrator.   *)
(***************************************************************************)
EXTENDS Naturals, Sequences, FiniteSets

CONSTANTS
    Workers,   \* callers of BlobToCache
    Readers,   \* callers of ReadBlob
    Procs,     \* identities of processes, used again once waited for
    Oids,
    Wanted,    \* the Oids each caller may ask for
    Missing,   \* the Oids that git does not have
    Large,     \* longer than maxBytes of ReadBlob, and than what a pipe holds
    Sizes,     \* arguments of SetBatchPoolSize
    FirstSize, \* DefaultHydrationConcurrency
    None

Callers == Workers \cup Readers

(* Store.pools has one pool until Close, which removes it; a call that      *)
(* comes later makes a second one.                                          *)
Pools == {1, 2}

ASSUME BatchPoolAssumption ==
    /\ IsFiniteSet(Workers) /\ IsFiniteSet(Readers)
    /\ Workers \cap Readers = {}
    /\ Missing \cap Large = {}
    /\ Wanted \in [Callers -> SUBSET Oids]
    /\ Sizes \subseteq Nat \ {0}
    /\ FirstSize \in Nat \ {0}
    /\ None \notin Procs /\ None \notin Oids

VARIABLES
    life,    \* "none", "running", "exited" but not waited for, "closed": exits on EOF
    unread,  \* per process, the requests whose answers were not read
    free,    \* free: per pool, the processes for reuse
    maxSize, \* maxSize of the pools
    current, \* the pool in Store.pools, or the one the next call makes
    pc,      \* where each caller is
    oid,     \* the blob it asks for
    pool,    \* the pool it took its process from
    batch,   \* the process it holds
    attempt, \* first or second process
    answer,  \* the blob whose content it will return, None for an error
    keeper,  \* "off", or the operation that holds Store.mu: "close", "resize"
    extras,  \* the processes it still has to close
    inFlight \* history: how many calls Close found

callVars == <<pc, oid, pool, attempt, answer>>
storeVars == <<maxSize, current, keeper, inFlight>>
vars == <<callVars, batch, life, unread, free, extras, storeVars>>

-----------------------------------------------------------------------------
Init ==
    /\ life = [p \in Procs |-> "none"]
    /\ unread = [p \in Procs |-> <<>>]
    /\ free = [g \in Pools |-> <<>>]
    /\ maxSize = [g \in Pools |-> FirstSize]
    /\ current = 1
    /\ pc = [c \in Callers |-> "idle"]
    /\ oid = [c \in Callers |-> None]
    /\ pool = [c \in Callers |-> 1]
    /\ batch = [c \in Callers |-> None]
    /\ attempt = [c \in Callers |-> 1]
    /\ answer = [c \in Callers |-> None]
    /\ keeper = "off"
    /\ extras = <<>>
    /\ inFlight = 0

(* A process with its input closed exits, unless it is still writing an    *)
(* answer that nobody reads and that the pipe does not hold.               *)
Stuck(p) == unread[p] # <<>> /\ Head(unread[p]) \in Large

Busy(c) == pc[c] # "idle"

(* The call returns answer, which the caller then forgets.                  *)
Return(c) ==
    /\ pc' = [pc EXCEPT ![c] = "idle"]
    /\ oid' = [oid EXCEPT ![c] = None]
    /\ attempt' = [attempt EXCEPT ![c] = 1]
    /\ answer' = [answer EXCEPT ![c] = None]

Go(c, place) == pc' = [pc EXCEPT ![c] = place] /\ UNCHANGED <<oid, attempt, answer>>

(* Mutation: close() only waits.                                            *)
WaitOnly(p) == life' = life

(* close() closes the input and waits, whatever the process is doing.       *)
CloseInput(p) ==
    life' = [life EXCEPT ![p] = IF @ = "running" THEN "closed" ELSE @]

Close(c) == CloseInput(batch[c]) /\ Go(c, "wait")

(* Mutation: the second try keeps the process that was closed.              *)
RetryClosed(c) == pc' = [pc EXCEPT ![c] = "request"] /\ UNCHANGED <<oid, attempt, answer>>

(* After a first failure the call tries another process.                    *)
RetryOrFail(c) ==
    IF attempt[c] = 1
    THEN /\ pc' = [pc EXCEPT ![c] = "acquire"]
         /\ attempt' = [attempt EXCEPT ![c] = 2]
         /\ UNCHANGED <<oid, answer>>
    ELSE Return(c)

Gone(p) ==
    /\ life' = [life EXCEPT ![p] = "none"]
    /\ unread' = [unread EXCEPT ![p] = <<>>]

(* The caller waits for its process, or kills it and waits: nothing of it   *)
(* is left.                                                                 *)
Reap(c) ==
    /\ Gone(batch[c])
    /\ batch' = [batch EXCEPT ![c] = None]

-----------------------------------------------------------------------------
(* BlobToCache and ReadBlob                                                 *)

StartCall(c, o) ==
    /\ pc[c] = "idle"
    /\ keeper = "off"
    /\ pc' = [pc EXCEPT ![c] = "acquire"]
    /\ oid' = [oid EXCEPT ![c] = o]
    /\ pool' = [pool EXCEPT ![c] = current]
    /\ UNCHANGED <<batch, attempt, answer, life, unread, free, extras, storeVars>>

(* p.mu is held by closeAll while it waits for processes to exit.           *)
PoolLocked(g) == keeper = "close" /\ g = current

(* It does not matter which.                                                *)
Unused ==
    LET U == {p \in Procs : life[p] = "none"}
    IN  IF U = {} THEN {} ELSE {CHOOSE p \in U : TRUE}

Start(c, p) ==
    /\ life' = [life EXCEPT ![p] = "running"]
    /\ batch' = [batch EXCEPT ![c] = p]

(* alive() is true until the process was waited for, and nobody waits for   *)
(* a process that he leaves in the pool: the newest one is taken, dead or   *)
(* not.  Without one a process is started, which may fail.                  *)
Acquire(c) ==
    LET f == free[pool[c]]
        n == Len(f)
    IN  /\ pc[c] = "acquire"
        /\ ~PoolLocked(pool[c])
        /\ \/ /\ n > 0
              /\ batch' = [batch EXCEPT ![c] = f[n]]
              /\ free' = [free EXCEPT ![pool[c]] = SubSeq(f, 1, n - 1)]
              /\ Go(c, "request")
              /\ UNCHANGED life
           \/ /\ n = 0
              /\ \E p \in Unused : Start(c, p)
              /\ Go(c, "request")
              /\ UNCHANGED free
           \/ n = 0 /\ Return(c) /\ UNCHANGED <<batch, free, life>>
        /\ UNCHANGED <<pool, unread, extras, storeVars>>

Request(c) ==
    /\ pc[c] = "request"
    /\ life[batch[c]] = "running"
    /\ unread' = [unread EXCEPT ![batch[c]] = Append(@, oid[c])]
    /\ Go(c, "header")
    /\ UNCHANGED <<pool, batch, life, free, extras, storeVars>>

(* The answer of a process that died since may be in the pipe.  The header  *)
(* says how long the content is, or that there is none, which the caller    *)
(* takes for a broken process.  Nobody compares the name of the object in   *)
(* it with the one that was asked for.                                      *)
ReadHeader(c) ==
    LET p == batch[c]
    IN  /\ pc[c] = "header"
        /\ IF Head(unread[p]) \in Missing
           THEN unread' = [unread EXCEPT ![p] = Tail(@)] /\ Close(c)
           ELSE Go(c, "content") /\ UNCHANGED <<life, unread>>
        /\ UNCHANGED <<pool, batch, free, extras, storeVars>>

(* The content and the LF behind it are read, also when the file for them   *)
(* cannot be created or renamed.                                            *)
ReadContent(c) ==
    LET p == batch[c]
    IN  /\ pc[c] = "content"
        /\ c \in Readers => Head(unread[p]) \notin Large
        /\ unread' = [unread EXCEPT ![p] = Tail(@)]
        /\ \/ /\ pc' = [pc EXCEPT ![c] = "release"]
              /\ answer' = [answer EXCEPT ![c] = Head(unread[p])]
              /\ UNCHANGED <<oid, attempt, life>>
           \/ c \in Workers /\ Close(c)
        /\ UNCHANGED <<pool, batch, free, extras, storeVars>>

(* A write to the file fails: the rest of the content stays in the pipe.    *)
WriteFails(c) ==
    /\ pc[c] = "content"
    /\ c \in Workers
    /\ Close(c)
    /\ UNCHANGED <<pool, batch, unread, free, extras, storeVars>>

(* EPIPE, or the end of a dead process's output.                            *)
ProcessLost(c) ==
    /\ pc[c] \in {"request", "header", "content"}
    /\ life[batch[c]] = "exited"
    /\ Close(c)
    /\ UNCHANGED <<pool, batch, unread, free, extras, storeVars>>

(* Mutation: the process is put back, the content unread.                   *)
TooLargeReleased(c) ==
    /\ pc[c] = "content"
    /\ c \in Readers
    /\ Head(unread[batch[c]]) \in Large
    /\ free' = [free EXCEPT ![pool[c]] = Append(@, batch[c])]
    /\ batch' = [batch EXCEPT ![c] = None]
    /\ Return(c)
    /\ UNCHANGED <<pool, life, unread, extras, storeVars>>

(* ErrBlobTooLarge: kill, and no second try.                                *)
TooLarge(c) ==
    /\ pc[c] = "content"
    /\ c \in Readers
    /\ Head(unread[batch[c]]) \in Large
    /\ Reap(c)
    /\ Return(c)
    /\ UNCHANGED <<pool, free, extras, storeVars>>

(* readBatchBlob kills the process when the context is done; ReadBlob then  *)
(* tries another one with the same context.                                 *)
ContextDone(c) ==
    /\ pc[c] \in {"request", "header", "content"}
    /\ c \in Readers
    /\ Reap(c)
    /\ RetryOrFail(c)
    /\ UNCHANGED <<pool, free, extras, storeVars>>

Waited(c) ==
    /\ pc[c] = "wait"
    /\ life[batch[c]] = "exited"
    /\ Reap(c)
    /\ IF answer[c] = None THEN RetryOrFail(c) ELSE Return(c)
    /\ UNCHANGED <<pool, free, extras, storeVars>>

(* Mutation: off by one.                                                    *)
RoomForOneMore(g) == Len(free[g]) <= maxSize[g]

HasRoom(g) == Len(free[g]) < maxSize[g]

Release(c) ==
    LET g == pool[c]
    IN  /\ pc[c] = "release"
        /\ ~PoolLocked(g)
        /\ IF HasRoom(g)
           THEN /\ free' = [free EXCEPT ![g] = Append(@, batch[c])]
                /\ batch' = [batch EXCEPT ![c] = None]
                /\ Return(c)
                /\ UNCHANGED life
           ELSE Close(c) /\ UNCHANGED <<free, batch>>
        /\ UNCHANGED <<pool, unread, extras, storeVars>>

-----------------------------------------------------------------------------
(* Store.Close and SetBatchPoolSize                                         *)

(* Mutation: p.free keeps what was closed.                                  *)
StillThere == free[1]

AfterClose == <<>>

CloseStore ==
    /\ keeper = "off"
    /\ current = 1
    /\ keeper' = "close"
    /\ extras' = free[1]
    /\ free' = [free EXCEPT ![1] = AfterClose]
    /\ inFlight' = Cardinality({c \in Callers : Busy(c)})
    /\ UNCHANGED <<callVars, batch, life, unread, maxSize, current>>

Kept(f, n) == IF Len(f) > n THEN SubSeq(f, 1, n) ELSE f

(* Mutation: off by one, the last process that stays is closed too.         *)
ExtrasAndLast(f, n) == IF Len(f) < n THEN <<>> ELSE SubSeq(f, n, Len(f))

Extras(f, n) == SubSeq(f, n + 1, Len(f))

SetBatchPoolSize(n) ==
    /\ keeper = "off"
    /\ keeper' = "resize"
    /\ maxSize' = [g \in Pools |-> IF g >= current THEN n ELSE maxSize[g]]
    /\ extras' = Extras(free[current], n)
    /\ free' = [free EXCEPT ![current] = Kept(@, n)]
    /\ UNCHANGED <<callVars, batch, life, unread, current, inFlight>>

CloseExtra ==
    /\ extras # <<>>
    /\ life[Head(extras)] = "running"
    /\ CloseInput(Head(extras))
    /\ UNCHANGED <<callVars, batch, unread, free, extras, storeVars>>

ExtraWaited ==
    /\ extras # <<>>
    /\ life[Head(extras)] = "exited"
    /\ Gone(Head(extras))
    /\ extras' = Tail(extras)
    /\ UNCHANGED <<callVars, batch, free, storeVars>>

KeeperDone ==
    /\ keeper # "off"
    /\ extras = <<>>
    /\ keeper' = "off"
    /\ current' = IF keeper = "close" THEN 2 ELSE current
    /\ UNCHANGED <<callVars, batch, life, unread, free, extras, maxSize, inFlight>>

-----------------------------------------------------------------------------
(* git                                                                      *)

Exit(p) ==
    /\ life[p] = "closed"
    /\ ~Stuck(p)
    /\ life' = [life EXCEPT ![p] = "exited"]
    /\ UNCHANGED <<callVars, batch, unread, free, extras, storeVars>>

(* A crash, or a promisor remote that cannot be reached.                    *)
Die(p) ==
    /\ life[p] \in {"running", "closed"}
    /\ life' = [life EXCEPT ![p] = "exited"]
    /\ UNCHANGED <<callVars, batch, unread, free, extras, storeVars>>

-----------------------------------------------------------------------------
CallStep(c) ==
    \/ Acquire(c) \/ Request(c) \/ ReadHeader(c) \/ ReadContent(c) \/ Release(c)
    \/ WriteFails(c) \/ ProcessLost(c) \/ TooLarge(c) \/ ContextDone(c) \/ Waited(c)

KeeperStep == CloseExtra \/ ExtraWaited \/ KeeperDone

Next ==
    \/ \E c \in Callers : CallStep(c) \/ \E o \in Wanted[c] : StartCall(c, o)
    \/ CloseStore
    \/ \E n \in Sizes : SetBatchPoolSize(n)
    \/ KeeperStep
    \/ \E p \in Procs : Exit(p) \/ Die(p)

Spec == Init /\ [][Next]_vars

(* Running goroutines go on, git answers every request and exits on EOF     *)
(* when it can.  A process need not die, and no call need be made.          *)
FairSpec ==
    /\ Spec
    /\ \A c \in Callers : WF_vars(CallStep(c))
    /\ WF_vars(KeeperStep)
    /\ \A p \in Procs : WF_vars(Exit(p))
-----------------------------------------------------------------------------
(* Every variable has its type; whoever is talking to a process holds one.  *)
TypeOK ==
    /\ life \in [Procs -> {"none", "running", "closed", "exited"}]
    /\ unread \in [Procs -> Seq(Oids)]
    /\ free \in [Pools -> Seq(Procs)]
    /\ maxSize \in [Pools -> Nat \ {0}]
    /\ current \in Pools
    /\ pc \in [Callers -> {"idle", "acquire", "request", "header", "content",
                           "wait", "release"}]
    /\ oid \in [Callers -> Oids \cup {None}]
    /\ pool \in [Callers -> Pools]
    /\ batch \in [Callers -> Procs \cup {None}]
    /\ attempt \in [Callers -> {1, 2}]
    /\ answer \in [Callers -> Oids \cup {None}]
    /\ keeper \in {"off", "close", "resize"}
    /\ extras \in Seq(Procs)
    /\ inFlight \in Nat
    /\ \A c \in Callers : batch[c] = None <=> pc[c] \in {"idle", "acquire"}

(* A call returns the content of the blob it asked for or an error, never   *)
(* what is left of the answer to another call: names in the answers are     *)
(* not compared, so this rests on which processes are put back.             *)
RightBlob == \A c \in Callers : answer[c] \in {None, oid[c]}

(* Where a process is: with a caller, in a pool, or to be shut down.        *)
Places(s, p) == {i \in DOMAIN s : s[i] = p}

Holders(p) ==
    {c \in Callers : batch[c] = p}
    \cup ({1} \X Places(free[1], p)) \cup ({2} \X Places(free[2], p))
    \cup ({0} \X Places(extras, p))

(* "Callers must ensure exclusive access (the batchPool handles this)":     *)
(* a process that was started and not yet waited for has one holder, so no  *)
(* two calls share it and none is forgotten; one that was waited for has    *)
(* none, so nobody is handed it again.                                      *)
OneHolder ==
    \A p \in Procs :
        IF life[p] = "none" THEN Holders(p) = {}
        ELSE \E h \in Holders(p) : Holders(p) = {h}

(* No pool is larger than its limit, also when the limit was lowered while  *)
(* processes were out.                                                      *)
PoolBound == \A g \in Pools : Len(free[g]) <= maxSize[g]

(* Close leaves no process but those of the calls it finds: each of them    *)
(* may put one into the pool that was removed, where nobody closes it.      *)
Leftover ==
    current = 2 =>
        Len(free[1]) + Cardinality({c \in Callers : Busy(c) /\ pool[c] = 1})
            <= inFlight

(* A caller waits for a process that waits for the caller to read.          *)
Hung(c) == pc[c] = "wait" /\ life[batch[c]] = "closed" /\ Stuck(batch[c])

(* A call returns or hangs in Hung: retries end, and nobody waits for a     *)
(* process that has no reason to exit.                                      *)
CallsReturn == \A c \in Callers : Busy(c) ~> (~Busy(c) \/ Hung(c))

(* Close and SetBatchPoolSize, which block every new call meanwhile, come   *)
(* to an end: no process in a pool has anything left to say.                *)
KeeperReturns == keeper # "off" ~> keeper = "off"
=============================================================================
