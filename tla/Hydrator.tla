------------------------------ MODULE Hydrator ------------------------------
(***************************************************************************)
(* One repository's hydrator: EnsureHydrated and ReadBlob callers, the     *)
(* priority queue with deduplicated waiters, the shared verification of    *)
(* cache files, the workers, and the fetch of a blob through a temporary   *)
(* file into the cache directory.                                          *)
(*                                                                         *)
(* A critical section of Service.mu is one action; what the code does      *)
(* outside the mutex, or to a file, is an action of its own.  Every call   *)
(* and every prefetch happens at most once: a program that calls twice is  *)
(* one with two members of Calls for the same object.                      *)
(***************************************************************************)
EXTENDS Integers, FiniteSets

CONSTANTS
    Calls,        \* EnsureHydrated and ReadBlob calls
    Direct,       \* the Calls that are ReadBlob calls (symlink targets)
    Prefetches,   \* tasks enqueued by PrefetchDir
    Workers,      \* worker goroutines of Start
    Oids,         \* blobs
    OidOf,        \* the blob each call or prefetch is about
    SizeKnown,    \* the Calls whose node has SizeState = "known"
    PrefetchPri,  \* ClassifyPriority of the prefetched path
    Impatient,    \* the Calls whose context may be cancelled
    Flaky,        \* the Tasks whose system calls, or git, may fail
    Leftover,     \* what the cache directory may hold when the process starts
    MayStop,      \* Stop may be called
    NoTask

Tasks == Calls \cup Prefetches

PriorityExplicitRead == 1000

(* A file is missing, has a wrong length, has the right length but wrong   *)
(* bytes, or is the blob.                                                  *)
Contents == {"absent", "torn", "corrupt", "good"}

ASSUME HydratorAssumption ==
    /\ Direct \subseteq Calls
    /\ SizeKnown \subseteq Calls
    /\ Impatient \subseteq Calls
    /\ Calls \cap Prefetches = {}
    /\ Flaky \subseteq Tasks
    /\ Leftover \subseteq Contents
    /\ MayStop \in BOOLEAN
    /\ NoTask \notin Tasks
    /\ OidOf \in [Tasks -> Oids]
    /\ PrefetchPri \in [Prefetches -> 0..(PriorityExplicitRead - 1)]

VARIABLES
    pc,         \* where each call is
    outcome,    \* what the caller of each call read
    ppc,        \* where each prefetch is
    queue,      \* pq: the tasks waiting for a worker
    wait,       \* wait: per blob, the calls whose channel is registered
    result,     \* what was sent on the result channel of each call
    verifying,  \* verifying: per blob, the calls waiting for a verification
    vresult,    \* what was sent on the verification channel of each call
    verif,      \* the verification goroutine each call started, if any
    verified,   \* verified: blobs whose cache file was checked or fetched
    token,      \* workReady holds its one element
    stop,       \* how far Stop has come
    wpc,        \* where each worker is
    job,        \* the task each worker popped
    held,       \* waits: the calls whose channels the worker took
    attempt,    \* first or second try of BlobToCache
    wres,       \* outcome of the worker's fetch
    fd,         \* what the worker's open file is called now
    clean,      \* no other worker truncated that file since it was created
    tmp,        \* content of <oid>.tmp
    cache       \* content of <oid>

callVars   == <<pc, outcome, result, vresult>>
verifVars  == <<verifying, verif>>
queueVars  == <<queue, wait>>
workerVars == <<wpc, job, held, attempt, wres>>
fileVars   == <<fd, clean, tmp, cache>>
vars == <<callVars, ppc, queueVars, verifVars, verified, token, stop,
          workerVars, fileVars>>

-----------------------------------------------------------------------------
Pri(t) == IF t \in Calls THEN PriorityExplicitRead ELSE PrefetchPri[t]

(* Tasks of one priority are ordered by EnqueuedAt, which is stamped before *)
(* the mutex is taken: any of them may come first.                          *)
Foremost == {t \in queue : \A u \in queue : Pri(u) <= Pri(t)}

Fetching(w, o) == job[w] # NoTask /\ OidOf[job[w]] = o

Oid(w) == OidOf[job[w]]

(* What the workers' open files are called after the file <oid> is         *)
(* unlinked, after <oid>.tmp is unlinked, and after <oid>.tmp is renamed.  *)
FdAfterUnlinkDst(o) ==
    [w \in Workers |-> IF Fetching(w, o) /\ fd[w] = "dst" THEN "gone" ELSE fd[w]]
FdAfterUnlinkTmp(o) ==
    [w \in Workers |-> IF Fetching(w, o) /\ fd[w] = "tmp" THEN "gone" ELSE fd[w]]
FdAfterRename(o) ==
    [w \in Workers |->
        CASE Fetching(w, o) /\ fd[w] = "tmp" -> "dst"
          [] Fetching(w, o) /\ fd[w] = "dst" -> "gone"
          [] OTHER -> fd[w]]

(* Mutation: a short copy is not noticed.                                   *)
FilledShort(unshared, content) == {content}

(* A file after its writer wrote all of the blob: if another worker         *)
(* truncated it meanwhile, the bytes written before are a hole or missing.  *)
Filled(unshared, content) ==
    IF unshared \/ content = "good" THEN {"good"} ELSE {"good", "corrupt", content}

-----------------------------------------------------------------------------
(* The cache directory outlives the process, and a fetched blob is not      *)
(* synced to disk before it is renamed: after a power cut its file may hold *)
(* anything.                                                                *)
Init ==
    /\ pc = [c \in Calls |-> "idle"]
    /\ outcome = [c \in Calls |-> "none"]
    /\ ppc = [p \in Prefetches |-> "idle"]
    /\ queue = {}
    /\ wait = [o \in Oids |-> {}]
    /\ result = [c \in Calls |-> "none"]
    /\ verifying = [o \in Oids |-> {}]
    /\ vresult = [c \in Calls |-> "none"]
    /\ verif = [c \in Calls |-> "none"]
    /\ verified = {}
    /\ token = FALSE
    /\ stop = "no"
    /\ wpc = [w \in Workers |-> "idle"]
    /\ job = [w \in Workers |-> NoTask]
    /\ held = [w \in Workers |-> {}]
    /\ attempt = [w \in Workers |-> 1]
    /\ wres = [w \in Workers |-> "none"]
    /\ fd = [w \in Workers |-> "none"]
    /\ clean = [w \in Workers |-> TRUE]
    /\ tmp \in [Oids -> {"absent", "torn"}]
    /\ cache \in [Oids -> Leftover]

-----------------------------------------------------------------------------
(* The calls.                                                              *)

GoTo(c, p) == pc' = [pc EXCEPT ![c] = p]

Return(c, what) ==
    /\ GoTo(c, "done")
    /\ outcome' = [outcome EXCEPT ![c] = what]

StartCall(c) ==
    /\ pc[c] = "idle"
    /\ GoTo(c, "stat")
    /\ UNCHANGED <<outcome, result, vresult, ppc, queueVars, verifVars, verified,
                   token, stop, workerVars, fileVars>>

(* validateCachedBlob: os.Stat and the size check.                          *)
StatCache(c) ==
    /\ pc[c] = "stat"
    /\ LET content == cache[OidOf[c]] IN
         GoTo(c, CASE content = "absent" -> "miss"
                   [] content = "torn" /\ c \in SizeKnown -> "discard"
                   [] OTHER -> "gate")
    /\ UNCHANGED <<outcome, result, vresult, ppc, queueVars, verifVars, verified,
                   token, stop, workerVars, fileVars>>

(* removeInvalidCacheFile unlinks whatever file now has the name ...        *)
DiscardFile(c) ==
    /\ pc[c] = "discard"
    /\ cache' = [cache EXCEPT ![OidOf[c]] = "absent"]
    /\ fd' = FdAfterUnlinkDst(OidOf[c])
    /\ GoTo(c, "unmark")
    /\ UNCHANGED <<outcome, result, vresult, ppc, queueVars, verifVars, verified,
                   token, stop, workerVars, clean, tmp>>

(* ... and then, under the mutex, forgets that it was verified.             *)
ClearVerified(c) ==
    /\ pc[c] = "unmark"
    /\ verified' = verified \ {OidOf[c]}
    /\ GoTo(c, "miss")
    /\ UNCHANGED <<outcome, result, vresult, ppc, queueVars, verifVars,
                   token, stop, workerVars, fileVars>>

(* isVerified and the first half of verifyBlobOnce.  The code looks twice,  *)
(* in two critical sections; a hit in either has the same effect.           *)
VerifyBlobOnce(c) ==
    /\ pc[c] = "gate"
    /\ IF OidOf[c] \in verified
       THEN /\ GoTo(c, "open")
            /\ UNCHANGED verifVars
       ELSE /\ verifying' = [verifying EXCEPT ![OidOf[c]] = @ \cup {c}]
            /\ verif' = IF verifying[OidOf[c]] = {}
                        THEN [verif EXCEPT ![c] = "hash"] ELSE verif
            /\ GoTo(c, "verify")
    /\ UNCHANGED <<outcome, result, vresult, ppc, queueVars, verified,
                   token, stop, workerVars, fileVars>>

(* What an answer means to validateCachedBlob: an error is a cache miss.    *)
(* Mutation: it is a hit.                                                   *)
ErrorIsHit(answer) == IF answer = "bad" THEN "discard" ELSE "open"

AfterVerification(answer) ==
    CASE answer = "ok"  -> "open"
      [] answer = "bad" -> "discard"
      [] OTHER -> "miss"

(* awaitVerification: an answer.                                            *)
VerificationAnswered(c) ==
    /\ pc[c] = "verify"
    /\ vresult[c] # "none"
    /\ GoTo(c, AfterVerification(vresult[c]))
    /\ vresult' = [vresult EXCEPT ![c] = "none"]
    /\ UNCHANGED <<outcome, result, ppc, queueVars, verifVars, verified,
                   token, stop, workerVars, fileVars>>

(* Mutation: the leader's cancellation also stops the shared verification.  *)
VerificationCancelledForAll(c) ==
    /\ pc[c] = "verify"
    /\ c \in Impatient
    /\ verifying' = [verifying EXCEPT ![OidOf[c]] = @ \ {c}]
    /\ verif' = [verif EXCEPT ![c] = "none"]
    /\ Return(c, "failed")
    /\ UNCHANGED <<result, vresult, ppc, queueVars, verified,
                   token, stop, workerVars, fileVars>>

(* awaitVerification: the caller's context is done.                         *)
VerificationCancelled(c) ==
    /\ pc[c] = "verify"
    /\ c \in Impatient
    /\ verifying' = [verifying EXCEPT ![OidOf[c]] = @ \ {c}]
    /\ Return(c, "failed")
    /\ UNCHANGED <<result, vresult, ppc, queueVars, verif, verified,
                   token, stop, workerVars, fileVars>>

(* EnsureHydrated: register the channel; the first waiter pushes the task.  *)
Enlist(c) ==
    /\ pc[c] = "miss"
    /\ c \notin Direct
    /\ wait' = [wait EXCEPT ![OidOf[c]] = @ \cup {c}]
    /\ IF wait[OidOf[c]] = {}
       THEN queue' = queue \cup {c} /\ GoTo(c, "signal")
       ELSE GoTo(c, "await") /\ UNCHANGED queue
    /\ UNCHANGED <<outcome, result, vresult, ppc, verifVars, verified,
                   token, stop, workerVars, fileVars>>

SignalWork(c) ==
    /\ pc[c] = "signal"
    /\ token' = TRUE
    /\ GoTo(c, "await")
    /\ UNCHANGED <<outcome, result, vresult, ppc, queueVars, verifVars, verified,
                   stop, workerVars, fileVars>>

(* ReadBlob: no valid cache file, or one above the limit, which its own     *)
(* os.Stat sees first, so a bounded read past the cache.                    *)
ReadPastCache(c) ==
    /\ c \in Direct
    /\ \/ pc[c] = "miss"
       \/ pc[c] = "stat" /\ cache[OidOf[c]] # "absent"
    /\ \E r \in {"good", "failed"} : Return(c, r)
    /\ UNCHANGED <<result, vresult, ppc, queueVars, verifVars, verified,
                   token, stop, workerVars, fileVars>>

(* ErrBlobTooLarge of ReadBlob and readCachedBlob; os.Stat or os.Remove     *)
(* fails otherwise than for a missing file.                                 *)
CallFails(c) ==
    /\ \/ c \in Direct /\ pc[c] \in {"stat", "open"}
       \/ c \in Flaky /\ pc[c] \in {"stat", "discard"}
    /\ Return(c, "failed")
    /\ UNCHANGED <<result, vresult, ppc, queueVars, verifVars, verified,
                   token, stop, workerVars, fileVars>>

Answered(c) ==
    /\ pc[c] = "await"
    /\ \/ result[c] = "ok" /\ GoTo(c, "open") /\ UNCHANGED outcome
       \/ result[c] = "error" /\ Return(c, "failed")
    /\ UNCHANGED <<result, vresult, ppc, queueVars, verifVars, verified,
                   token, stop, workerVars, fileVars>>

(* Mutation: a reader that gives up takes its task out of the queue.        *)
CancelledWithTask(c) ==
    /\ pc[c] = "await"
    /\ c \in Impatient
    /\ wait' = [wait EXCEPT ![OidOf[c]] = @ \ {c}]
    /\ queue' = queue \ {c}
    /\ Return(c, "failed")
    /\ UNCHANGED <<result, vresult, ppc, verifVars, verified,
                   token, stop, workerVars, fileVars>>

(* The caller's context is done: its channel leaves the wait list, if it is *)
(* still there.                                                             *)
Cancelled(c) ==
    /\ pc[c] = "await"
    /\ c \in Impatient
    /\ wait' = [wait EXCEPT ![OidOf[c]] = @ \ {c}]
    /\ Return(c, "failed")
    /\ UNCHANGED <<result, vresult, ppc, queue, verifVars, verified,
                   token, stop, workerVars, fileVars>>

(* The caller opens the returned path and reads it.                         *)
OpenCache(c) ==
    /\ pc[c] = "open"
    /\ Return(c, cache[OidOf[c]])
    /\ UNCHANGED <<result, vresult, ppc, queueVars, verifVars, verified,
                   token, stop, workerVars, fileVars>>

-----------------------------------------------------------------------------
(* runVerification, the goroutine started by call c.                        *)

(* git hash-object reads the file; it fails when there is none, when git    *)
(* fails, and when Stop cancels it.                                         *)
HashFile(c) ==
    /\ verif[c] = "hash"
    /\ \E r \in {"err"} \cup
                (CASE cache[OidOf[c]] = "good"   -> {"ok"}
                   [] cache[OidOf[c]] = "absent" -> {}
                   [] OTHER -> {"bad"}) :
          verif' = [verif EXCEPT ![c] = r]
    /\ UNCHANGED <<callVars, ppc, queueVars, verifying, verified,
                   token, stop, workerVars, fileVars>>

(* The blobs an answer lets through.  Mutation: any answer does.            *)
AnyAnswerVerifies(answer, o) == IF answer # "err" THEN {o} ELSE {}

VerifiedBy(answer, o) == IF answer = "ok" THEN {o} ELSE {}

FinishVerification(c) ==
    /\ verif[c] \in {"ok", "bad", "err"}
    /\ verified' = verified \cup VerifiedBy(verif[c], OidOf[c])
    /\ vresult' = [d \in Calls |->
                      IF d \in verifying[OidOf[c]] THEN verif[c] ELSE vresult[d]]
    /\ verifying' = [verifying EXCEPT ![OidOf[c]] = {}]
    /\ verif' = [verif EXCEPT ![c] = "none"]
    /\ UNCHANGED <<pc, outcome, result, ppc, queueVars,
                   token, stop, workerVars, fileVars>>

-----------------------------------------------------------------------------
(* Enqueue of a prefetch task: push under the mutex, then signal.           *)

Enqueue(p) ==
    /\ ppc[p] = "idle"
    /\ queue' = queue \cup {p}
    /\ ppc' = [ppc EXCEPT ![p] = "signal"]
    /\ UNCHANGED <<callVars, wait, verifVars, verified, token, stop,
                   workerVars, fileVars>>

SignalPrefetch(p) ==
    /\ ppc[p] = "signal"
    /\ token' = TRUE
    /\ ppc' = [ppc EXCEPT ![p] = "done"]
    /\ UNCHANGED <<callVars, queueVars, verifVars, verified, stop,
                   workerVars, fileVars>>

-----------------------------------------------------------------------------
(* The workers.                                                            *)

WorkerTo(w, p) == wpc' = [wpc EXCEPT ![w] = p]

Wake(w) ==
    /\ wpc[w] = "idle"
    /\ token
    /\ token' = FALSE
    /\ WorkerTo(w, "drain")
    /\ UNCHANGED <<callVars, ppc, queueVars, verifVars, verified, stop,
                   job, held, attempt, wres, fileVars>>

WorkerExit(w) ==
    /\ wpc[w] = "idle"
    /\ stop # "no"
    /\ WorkerTo(w, "exited")
    /\ UNCHANGED <<callVars, ppc, queueVars, verifVars, verified, token, stop,
                   job, held, attempt, wres, fileVars>>

(* step found the queue empty: back to the select.                          *)
QueueDrained(w) ==
    /\ wpc[w] = "drain"
    /\ queue = {}
    /\ WorkerTo(w, "idle")
    /\ UNCHANGED <<callVars, ppc, queueVars, verifVars, verified, token, stop,
                   job, held, attempt, wres, fileVars>>

(* inflight.take.  Mutation: the waiters are looked up but not removed.     *)
Looked(o) == wait

Taken(o) == [wait EXCEPT ![o] = {}]

(* step pops a task and takes the waiters the blob has at this moment.      *)
PopTask(w) ==
    /\ wpc[w] = "drain"
    /\ \E t \in Foremost :
          /\ queue' = queue \ {t}
          /\ job' = [job EXCEPT ![w] = t]
          /\ held' = [held EXCEPT ![w] = wait[OidOf[t]]]
          /\ wait' = Taken(OidOf[t])
    /\ WorkerTo(w, "fetch")
    /\ UNCHANGED <<callVars, ppc, verifVars, verified, token, stop, attempt, wres,
                   fileVars>>

(* Mutation: it retries until it succeeds.                                  *)
RetryForever(w) ==
    /\ attempt' = [attempt EXCEPT ![w] = @ + 1]
    /\ attempt[w] <= 2
    /\ WorkerTo(w, "fetch")
    /\ UNCHANGED wres

(* BlobToCache after a failed fetchToFile: one retry with a new process.    *)
RetryOrFail(w) ==
    IF attempt[w] = 1
    THEN /\ attempt' = [attempt EXCEPT ![w] = 2]
         /\ WorkerTo(w, "fetch")
         /\ UNCHANGED wres
    ELSE /\ WorkerTo(w, "notify")
         /\ wres' = [wres EXCEPT ![w] = "error"]
         /\ UNCHANGED attempt

(* No directory or no git process: BlobToCache gives up at once.            *)
FetchRefused(w) ==
    /\ wpc[w] = "fetch"
    /\ job[w] \in Flaky
    /\ WorkerTo(w, "notify")
    /\ wres' = [wres EXCEPT ![w] = "error"]
    /\ UNCHANGED <<callVars, ppc, queueVars, verifVars, verified, token, stop,
                   job, held, attempt, fileVars>>

(* fetchToFile fails before it created the temporary file.                  *)
RequestFails(w) ==
    /\ wpc[w] = "fetch"
    /\ job[w] \in Flaky
    /\ RetryOrFail(w)
    /\ UNCHANGED <<callVars, ppc, queueVars, verifVars, verified, token, stop,
                   job, held, fileVars>>

(* os.Create(tmp): the name is shared by every fetch of the blob, and an    *)
(* existing file is truncated under the worker that is writing it.          *)
CreateTmp(w) ==
    /\ wpc[w] = "fetch"
    /\ tmp' = [tmp EXCEPT ![Oid(w)] = "torn"]
    /\ fd' = [fd EXCEPT ![w] = "tmp"]
    /\ clean' = [v \in Workers |->
                    IF v = w THEN TRUE
                    ELSE clean[v] /\ ~(Fetching(v, Oid(w)) /\ fd[v] = "tmp")]
    /\ WorkerTo(w, "copy")
    /\ UNCHANGED <<callVars, ppc, queueVars, verifVars, verified, token, stop,
                   job, held, attempt, wres, cache>>

(* io.CopyN and Close succeed.                                              *)
CopyBlob(w) ==
    /\ wpc[w] = "copy"
    /\ \/ /\ fd[w] = "tmp"
          /\ \E new \in Filled(clean[w], tmp[Oid(w)]) :
                tmp' = [tmp EXCEPT ![Oid(w)] = new]
          /\ UNCHANGED cache
       \/ /\ fd[w] = "dst"
          /\ \E new \in Filled(clean[w], cache[Oid(w)]) :
                cache' = [cache EXCEPT ![Oid(w)] = new]
          /\ UNCHANGED tmp
       \/ /\ fd[w] = "gone"
          /\ UNCHANGED <<tmp, cache>>
    /\ fd' = [fd EXCEPT ![w] = "none"]
    /\ clean' = [clean EXCEPT ![w] = TRUE]
    /\ WorkerTo(w, "rename")
    /\ UNCHANGED <<callVars, ppc, queueVars, verifVars, verified, token, stop,
                   job, held, attempt, wres>>

(* The copy, the close or the rename fails, the rename also because another *)
(* worker renamed or removed the file: os.Remove(tmp), then retry.          *)
FetchFails(w) ==
    /\ \/ wpc[w] = "copy" /\ job[w] \in Flaky
       \/ wpc[w] = "rename" /\ (job[w] \in Flaky \/ tmp[Oid(w)] = "absent")
    /\ tmp' = [tmp EXCEPT ![Oid(w)] = "absent"]
    /\ fd' = [FdAfterUnlinkTmp(Oid(w)) EXCEPT ![w] = "none"]
    /\ clean' = [clean EXCEPT ![w] = TRUE]
    /\ RetryOrFail(w)
    /\ UNCHANGED <<callVars, ppc, queueVars, verifVars, verified, token, stop,
                   job, held, cache>>

RenameTmp(w) ==
    /\ wpc[w] = "rename"
    /\ tmp[Oid(w)] # "absent"
    /\ cache' = [cache EXCEPT ![Oid(w)] = tmp[Oid(w)]]
    /\ tmp' = [tmp EXCEPT ![Oid(w)] = "absent"]
    /\ fd' = FdAfterRename(Oid(w))
    /\ WorkerTo(w, "mark")
    /\ UNCHANGED <<callVars, ppc, queueVars, verifVars, verified, token, stop,
                   job, held, attempt, wres, clean>>

MarkVerified(w) ==
    /\ wpc[w] = "mark"
    /\ verified' = verified \cup {Oid(w)}
    /\ wres' = [wres EXCEPT ![w] = "ok"]
    /\ WorkerTo(w, "notify")
    /\ UNCHANGED <<callVars, ppc, queueVars, verifVars, token, stop,
                   job, held, attempt, fileVars>>

(* The channels after notifyWaiters sent r to those of calls.  Mutation:    *)
(* only success is sent.                                                    *)
SentIfOk(calls, r) ==
    [c \in Calls |-> IF c \in calls /\ r = "ok" THEN r ELSE result[c]]

Sent(calls, r) == [c \in Calls |-> IF c \in calls THEN r ELSE result[c]]

(* notifyWaiters and the onHydrated callback; step returns TRUE.            *)
Notify(w) ==
    /\ wpc[w] = "notify"
    /\ result' = Sent(held[w], wres[w])
    /\ held' = [held EXCEPT ![w] = {}]
    /\ job' = [job EXCEPT ![w] = NoTask]
    /\ wres' = [wres EXCEPT ![w] = "none"]
    /\ attempt' = [attempt EXCEPT ![w] = 1]
    /\ WorkerTo(w, "signal")
    /\ UNCHANGED <<pc, outcome, vresult, ppc, queueVars, verifVars, verified,
                   token, stop, fileVars>>

(* Mutation: one task per signal: the worker neither drains nor re-signals. *)
BackToSelect(w) ==
    /\ wpc[w] = "signal"
    /\ WorkerTo(w, "idle")
    /\ UNCHANGED <<callVars, ppc, queueVars, verifVars, verified, token, stop,
                   job, held, attempt, wres, fileVars>>

(* signalWork after a step, then the next turn of the drain loop.           *)
Resignal(w) ==
    /\ wpc[w] = "signal"
    /\ token' = TRUE
    /\ WorkerTo(w, "drain")
    /\ UNCHANGED <<callVars, ppc, queueVars, verifVars, verified, stop,
                   job, held, attempt, wres, fileVars>>

-----------------------------------------------------------------------------
(* Stop: close stopCh, then answer every registered channel with an error.  *)

CloseStopCh ==
    /\ MayStop
    /\ stop = "no"
    /\ stop' = "closing"
    /\ UNCHANGED <<callVars, ppc, queueVars, verifVars, verified, token,
                   workerVars, fileVars>>

(* inflight.closeAll sends r to every registered channel.                   *)
Closed(list, sent, r) ==
    [c \in Calls |-> IF c \in list[OidOf[c]] THEN r ELSE sent[c]]

CloseAll ==
    /\ stop = "closing"
    /\ stop' = "done"
    /\ result' = Closed(wait, result, "error")
    /\ vresult' = Closed(verifying, vresult, "err")
    /\ wait' = [o \in Oids |-> {}]
    /\ verifying' = [o \in Oids |-> {}]
    /\ UNCHANGED <<pc, outcome, ppc, queue, verif, verified, token,
                   workerVars, fileVars>>

-----------------------------------------------------------------------------
CallStep(c) ==
    \/ StatCache(c) \/ DiscardFile(c) \/ ClearVerified(c) \/ VerifyBlobOnce(c)
    \/ VerificationAnswered(c) \/ Enlist(c) \/ SignalWork(c) \/ ReadPastCache(c)
    \/ CallFails(c) \/ Answered(c) \/ OpenCache(c)

CancelCall(c) == VerificationCancelled(c) \/ Cancelled(c)

VerifierStep(c) == HashFile(c) \/ FinishVerification(c)

(* The steps that need an answer of git: the header and the whole blob, or  *)
(* an error because the process died.                                       *)
GitAnswers(w) == FetchRefused(w) \/ RequestFails(w) \/ CreateTmp(w)
                 \/ CopyBlob(w) \/ FetchFails(w)

WorkerStep(w) ==
    \/ Wake(w) \/ WorkerExit(w) \/ QueueDrained(w) \/ PopTask(w)
    \/ RenameTmp(w) \/ MarkVerified(w) \/ Notify(w) \/ Resignal(w)

Next ==
    \/ \E c \in Calls : StartCall(c) \/ CallStep(c) \/ CancelCall(c) \/ VerifierStep(c)
    \/ \E p \in Prefetches : Enqueue(p) \/ SignalPrefetch(p)
    \/ \E w \in Workers : WorkerStep(w) \/ GitAnswers(w)
    \/ CloseStopCh
    \/ CloseAll

Spec == Init /\ [][Next]_vars

(* Goroutines that can run are scheduled; callers, prefetches, cancellation *)
(* and Stop may never come.                                                 *)
SchedulerFairness ==
    /\ \A c \in Calls : WF_vars(CallStep(c)) /\ WF_vars(VerifierStep(c))
    /\ \A p \in Prefetches : WF_vars(SignalPrefetch(p))
    /\ \A w \in Workers : WF_vars(WorkerStep(w))

(* Every git process answers or dies in the end.                            *)
GitFairness == \A w \in Workers : WF_vars(GitAnswers(w))

FairSpec == Spec /\ SchedulerFairness /\ GitFairness

-----------------------------------------------------------------------------
CallsTyped ==
    /\ pc \in [Calls -> {"idle", "stat", "discard", "unmark", "gate", "verify",
                         "miss", "signal", "await", "open", "done"}]
    /\ outcome \in [Calls -> Contents \cup {"none", "failed"}]
    /\ result \in [Calls -> {"none", "ok", "error"}]
    /\ vresult \in [Calls -> {"none", "ok", "bad", "err"}]

QueueTyped ==
    /\ ppc \in [Prefetches -> {"idle", "signal", "done"}]
    /\ queue \subseteq Tasks
    /\ wait \in [Oids -> SUBSET Calls]
    /\ token \in BOOLEAN
    /\ stop \in {"no", "closing", "done"}

VerificationTyped ==
    /\ verifying \in [Oids -> SUBSET Calls]
    /\ verif \in [Calls -> {"none", "hash", "ok", "bad", "err"}]
    /\ verified \subseteq Oids

WorkersTyped ==
    /\ wpc \in [Workers -> {"idle", "drain", "fetch", "copy", "rename", "mark",
                            "notify", "signal", "exited"}]
    /\ job \in [Workers -> Tasks \cup {NoTask}]
    /\ held \in [Workers -> SUBSET Calls]
    /\ attempt \in [Workers -> {1, 2}]
    /\ wres \in [Workers -> {"none", "ok", "error"}]
    /\ \A w \in Workers :
          job[w] = NoTask <=> wpc[w] \in {"idle", "drain", "signal", "exited"}

FilesTyped ==
    /\ fd \in [Workers -> {"none", "tmp", "dst", "gone"}]
    /\ clean \in [Workers -> BOOLEAN]
    /\ tmp \in [Oids -> Contents]
    /\ cache \in [Oids -> Contents]

(* Every variable holds a value of its kind, and a worker has a task        *)
(* exactly while it is inside step.                                         *)
TypeOK ==
    /\ CallsTyped
    /\ QueueTyped
    /\ VerificationTyped
    /\ WorkersTyped
    /\ FilesTyped

(* Registered channels belong to a task: whenever a call is in the wait     *)
(* list of a blob, an explicit-read task for that blob is still queued, so  *)
(* deduplicating waiters, cancelling the one that pushed the task, and Stop *)
(* never leave a waiter that no worker will take (EnsureHydrated, inflight).*)
NoOrphanWaiter ==
    \A o \in Oids : wait[o] # {} => \E t \in queue \cap Calls : OidOf[t] = o

(* A queued task is never forgotten: until Stop, if the queue is not empty, *)
(* then workReady is full, or a worker is between waking and finding the    *)
(* queue empty, or a producer has pushed and not yet signalled.             *)
NoLostWakeup ==
    queue # {} /\ stop = "no" =>
        \/ token
        \/ \E w \in Workers : wpc[w] # "idle"
        \/ \E c \in Calls : pc[c] = "signal"
        \/ \E p \in Prefetches : ppc[p] = "signal"

(* A call that waits for a fetch can be answered: its channel is in its     *)
(* blob's wait list, or one worker holds it, or the answer was sent.  At    *)
(* most one of the three holds, so nothing is sent on a channel twice,      *)
(* which would panic as notifyWaiters closes it.                            *)
ChannelHeldOnce ==
    \A c \in Calls :
        /\ pc[c] \in {"signal", "await"} =>
              \/ c \in wait[OidOf[c]]
              \/ \E w \in Workers : c \in held[w]
              \/ result[c] # "none"
        /\ c \in wait[OidOf[c]] =>
              result[c] = "none" /\ \A w \in Workers : c \notin held[w]
        /\ \A w \in Workers : c \in held[w] =>
              /\ result[c] = "none"
              /\ \A v \in Workers : c \in held[v] => v = w

(* The same for the channels of a shared verification; and while one waits, *)
(* a verification of the blob is running, whoever started it and whether or *)
(* not that call has given up since.                                        *)
VerificationRuns ==
    /\ \A c \in Calls : pc[c] = "verify" =>
          c \in verifying[OidOf[c]] \/ vresult[c] # "none"
    /\ \A o \in Oids : \A c \in verifying[o] : vresult[c] = "none"
    /\ \A o \in Oids : verifying[o] # {} =>
          \E c \in Calls : OidOf[c] = o /\ verif[c] # "none"

(* What counts as verified is the blob or nothing at all.  It needs that no *)
(* two workers fetch one blob at a time.                                    *)
VerifiedIsWhole == \A o \in verified : cache[o] \in {"good", "absent"}

(* No caller reads a damaged cache file, whatever a power cut left behind.  *)
NoDamagedRead == \A c \in Calls : outcome[c] \notin {"torn", "corrupt"}

(* A cache file only ever appears or changes by becoming the whole blob:    *)
(* "temp file, then atomic rename".                                         *)
FetchInstallsWhole ==
    [][\A o \in Oids :
          cache'[o] \in {cache[o], "absent", "good"}]_vars

(* Until Stop, every started call returns, whatever the priorities of the   *)
(* other tasks and the failures of their fetches.                           *)
CallsReturn ==
    \A c \in Calls : pc[c] = "stat" ~> (pc[c] = "done" \/ stop # "no")
=============================================================================
