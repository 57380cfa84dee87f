--------------------------- MODULE HydratorProofs ---------------------------
(***************************************************************************)
(* Proofs about Hydrator.  Types, NoOrphanWaiter and NoLostWakeup are      *)
(* inductive as they stand; ChannelHeldOnce and VerificationRuns are made  *)
(* inductive by ChannelInv and VerificationInv, which also say where a     *)
(* channel cannot be yet.  What the cache files hold is proved while no    *)
(* two workers fetch one blob: otherwise it is false (MCHydratorTmp).      *)
(***************************************************************************)
EXTENDS Hydrator, TLAPS

(* Before its channel is registered, a call's channel is nowhere; the lists *)
(* are filed under the right blob, a worker holds channels only inside      *)
(* step, and it has an outcome to send when it comes to notifyWaiters.      *)
ChannelInv ==
    /\ \A o \in Oids : \A c \in wait[o] : OidOf[c] = o
    /\ \A c \in Calls :
          pc[c] \in {"idle", "stat", "discard", "unmark", "gate", "verify", "miss"} =>
             /\ result[c] = "none"
             /\ c \notin wait[OidOf[c]]
             /\ \A w \in Workers : c \notin held[w]
    /\ \A w \in Workers : job[w] = NoTask => held[w] = {}
    /\ \A w \in Workers : wpc[w] = "notify" => wres[w] # "none"
    /\ ChannelHeldOnce

(* A call's verification channel is registered only while it waits on it,   *)
(* under its blob, and nothing was sent to it before.                       *)
VerificationInv ==
    /\ \A o \in Oids : \A c \in verifying[o] : OidOf[c] = o /\ pc[c] = "verify"
    /\ \A c \in Calls : pc[c] \in {"idle", "stat", "gate"} => vresult[c] = "none"
    /\ VerificationRuns

(* step takes the waiters of a blob when it pops the task, so a reader that *)
(* comes later pushes another one, which a second worker may pop.           *)
OneFetchPerBlob ==
    \A v, w \in Workers :
        job[v] # NoTask /\ job[w] # NoTask /\ Oid(v) = Oid(w) => v = w

Whole(o) == cache[o] \in {"good", "absent"}

(* While that does not happen: a worker's file is still the temporary file  *)
(* it created, which it renames only when it holds the whole blob; and once *)
(* a blob was verified or fetched its cache file is the blob or is gone,    *)
(* whoever still has to be told.                                            *)
WorkerFilesInv ==
    \A w \in Workers :
        /\ IF wpc[w] = "copy" THEN fd[w] = "tmp" /\ clean[w] ELSE fd[w] = "none"
        /\ wpc[w] = "rename" => tmp[Oid(w)] = "good"
        /\ wpc[w] = "mark" => Whole(Oid(w))
        /\ wpc[w] = "notify" /\ wres[w] = "ok" => Whole(Oid(w))
        /\ \A c \in held[w] : OidOf[c] = Oid(w)

AnswersWholeInv ==
    \A c \in Calls :
        verif[c] = "ok" \/ vresult[c] = "ok" \/ result[c] = "ok" \/ pc[c] = "open"
            => Whole(OidOf[c])

FilesInv ==
    /\ WorkerFilesInv
    /\ AnswersWholeInv
    /\ VerifiedIsWhole
    /\ NoDamagedRead

-----------------------------------------------------------------------------
(* Types.                                                                  *)

(* The initial state is of the right types.                                 *)
LEMMA TypeInit == Init => TypeOK
  <1>. SUFFICES ASSUME Init PROVE TypeOK
    OBVIOUS
  <1>1. CallsTyped
    BY DEF Init, CallsTyped
  <1>2. QueueTyped
    BY DEF Init, QueueTyped
  <1>3. VerificationTyped
    BY DEF Init, VerificationTyped
  <1>4. WorkersTyped
    BY DEF Init, WorkersTyped
  <1>5. FilesTyped
    BY HydratorAssumption DEF Init, FilesTyped, Contents
  <1>. QED
    BY <1>1, <1>2, <1>3, <1>4, <1>5 DEF TypeOK

(* Every action keeps the types, group of variables by group of variables.  *)
LEMMA TypeStep == TypeOK /\ [Next]_vars => TypeOK'
  <1>. SUFFICES ASSUME TypeOK, [Next]_vars PROVE TypeOK'
    OBVIOUS
  <1>0. CallsTyped /\ QueueTyped /\ VerificationTyped /\ WorkersTyped /\ FilesTyped
    BY DEF TypeOK
  <1>1. ASSUME NEW c \in Calls, StartCall(c) PROVE TypeOK'
    <2>1. CallsTyped'
      BY <1>0, <1>1 DEF StartCall, GoTo, verifVars, queueVars, workerVars,
         fileVars, CallsTyped
    <2>2. QueueTyped' /\ VerificationTyped' /\ WorkersTyped' /\ FilesTyped'
      BY <1>0, <1>1 DEF StartCall, verifVars, queueVars, workerVars,
         fileVars, QueueTyped, VerificationTyped, WorkersTyped, FilesTyped
    <2>. QED
      BY <2>1, <2>2 DEF TypeOK
  <1>2. ASSUME NEW c \in Calls, StatCache(c) PROVE TypeOK'
    <2>1. OidOf[c] \in Oids
      BY HydratorAssumption DEF Tasks
    <2>2. CallsTyped'
      BY <1>0, <1>2, <2>1 DEF StatCache, GoTo, verifVars, queueVars,
         workerVars, fileVars, CallsTyped, Contents
    <2>3. QueueTyped' /\ VerificationTyped' /\ WorkersTyped' /\ FilesTyped'
      BY <1>0, <1>2 DEF StatCache, verifVars, queueVars, workerVars,
         fileVars, QueueTyped, VerificationTyped, WorkersTyped, FilesTyped
    <2>. QED
      BY <2>2, <2>3 DEF TypeOK
  <1>3. ASSUME NEW c \in Calls, DiscardFile(c) PROVE TypeOK'
    <2>1. OidOf[c] \in Oids
      BY HydratorAssumption DEF Tasks
    <2>2. CallsTyped'
      BY <1>0, <1>3, <2>1 DEF DiscardFile, GoTo, FdAfterUnlinkDst,
         verifVars, queueVars, workerVars, CallsTyped
    <2>3. FilesTyped'
      BY <1>0, <1>3, <2>1 DEF DiscardFile, GoTo, FdAfterUnlinkDst,
         verifVars, queueVars, workerVars, FilesTyped, Contents
    <2>4. QueueTyped' /\ VerificationTyped' /\ WorkersTyped'
      BY <1>0, <1>3 DEF DiscardFile, verifVars, queueVars, workerVars,
         QueueTyped, VerificationTyped, WorkersTyped
    <2>. QED
      BY <2>2, <2>3, <2>4 DEF TypeOK
  <1>4. ASSUME NEW c \in Calls, ClearVerified(c) PROVE TypeOK'
    <2>1. OidOf[c] \in Oids
      BY HydratorAssumption DEF Tasks
    <2>2. CallsTyped'
      BY <1>0, <1>4, <2>1 DEF ClearVerified, GoTo, verifVars, queueVars,
         workerVars, fileVars, CallsTyped
    <2>3. VerificationTyped'
      BY <1>0, <1>4, <2>1 DEF ClearVerified, GoTo, verifVars, queueVars,
         workerVars, fileVars, VerificationTyped
    <2>4. QueueTyped' /\ WorkersTyped' /\ FilesTyped'
      BY <1>0, <1>4 DEF ClearVerified, verifVars, queueVars, workerVars,
         fileVars, QueueTyped, WorkersTyped, FilesTyped
    <2>. QED
      BY <2>2, <2>3, <2>4 DEF TypeOK
  <1>5. ASSUME NEW c \in Calls, VerifyBlobOnce(c) PROVE TypeOK'
    <2>1. OidOf[c] \in Oids
      BY HydratorAssumption DEF Tasks
    <2>2. CallsTyped'
      BY <1>0, <1>5, <2>1 DEF VerifyBlobOnce, GoTo, queueVars, workerVars,
         fileVars, CallsTyped
    <2>3. VerificationTyped'
      <3>1. CASE OidOf[c] \in verified
        BY <1>0, <1>5, <3>1 DEF VerifyBlobOnce, verifVars, VerificationTyped
      <3>2. CASE OidOf[c] \notin verified
        <4>1. /\ verifying' = [verifying EXCEPT ![OidOf[c]] = @ \cup {c}]
              /\ verif' = verif \/ verif' = [verif EXCEPT ![c] = "hash"]
              /\ UNCHANGED verified
          BY <1>5, <3>2 DEF VerifyBlobOnce
        <4>. QED
          BY <1>0, <2>1, <4>1 DEF VerificationTyped
      <3>. QED
        BY <3>1, <3>2
    <2>4. QueueTyped' /\ WorkersTyped' /\ FilesTyped'
      BY <1>0, <1>5 DEF VerifyBlobOnce, queueVars, workerVars, fileVars,
         QueueTyped, WorkersTyped, FilesTyped
    <2>. QED
      BY <2>2, <2>3, <2>4 DEF TypeOK
  <1>6. ASSUME NEW c \in Calls, VerificationAnswered(c) PROVE TypeOK'
    <2>1. CallsTyped'
      BY <1>0, <1>6 DEF VerificationAnswered, AfterVerification, GoTo,
         verifVars, queueVars, workerVars, fileVars, CallsTyped
    <2>2. QueueTyped' /\ VerificationTyped' /\ WorkersTyped' /\ FilesTyped'
      BY <1>0, <1>6 DEF VerificationAnswered, verifVars, queueVars,
         workerVars, fileVars, QueueTyped, VerificationTyped, WorkersTyped,
         FilesTyped
    <2>. QED
      BY <2>1, <2>2 DEF TypeOK
  <1>7. ASSUME NEW c \in Calls, VerificationCancelled(c) PROVE TypeOK'
    <2>1. OidOf[c] \in Oids
      BY HydratorAssumption DEF Tasks
    <2>2. CallsTyped'
      BY <1>0, <1>7, <2>1 DEF VerificationCancelled, Return, GoTo,
         queueVars, workerVars, fileVars, CallsTyped
    <2>3. VerificationTyped'
      BY <1>0, <1>7, <2>1 DEF VerificationCancelled, Return, GoTo,
         queueVars, workerVars, fileVars, VerificationTyped
    <2>4. QueueTyped' /\ WorkersTyped' /\ FilesTyped'
      BY <1>0, <1>7 DEF VerificationCancelled, queueVars, workerVars,
         fileVars, QueueTyped, WorkersTyped, FilesTyped
    <2>. QED
      BY <2>2, <2>3, <2>4 DEF TypeOK
  <1>8. ASSUME NEW c \in Calls, Enlist(c) PROVE TypeOK'
    <2>1. OidOf[c] \in Oids
      BY HydratorAssumption DEF Tasks
    <2>2. CallsTyped'
      BY <1>0, <1>8, <2>1 DEF Enlist, GoTo, verifVars, workerVars, fileVars,
         CallsTyped
    <2>3. QueueTyped'
      BY <1>0, <1>8, <2>1, HydratorAssumption DEF Enlist, GoTo, verifVars,
         workerVars, fileVars, QueueTyped, Tasks
    <2>4. VerificationTyped' /\ WorkersTyped' /\ FilesTyped'
      BY <1>0, <1>8 DEF Enlist, verifVars, workerVars, fileVars,
         VerificationTyped, WorkersTyped, FilesTyped
    <2>. QED
      BY <2>2, <2>3, <2>4 DEF TypeOK
  <1>9. ASSUME NEW c \in Calls, SignalWork(c) PROVE TypeOK'
    <2>1. CallsTyped'
      BY <1>0, <1>9 DEF SignalWork, GoTo, verifVars, queueVars, workerVars,
         fileVars, CallsTyped
    <2>2. QueueTyped'
      BY <1>0, <1>9, HydratorAssumption DEF SignalWork, GoTo, verifVars,
         queueVars, workerVars, fileVars, QueueTyped, Tasks
    <2>3. VerificationTyped' /\ WorkersTyped' /\ FilesTyped'
      BY <1>0, <1>9 DEF SignalWork, verifVars, queueVars, workerVars,
         fileVars, VerificationTyped, WorkersTyped, FilesTyped
    <2>. QED
      BY <2>1, <2>2, <2>3 DEF TypeOK
  <1>10. ASSUME NEW c \in Calls, ReadPastCache(c) \/ CallFails(c) PROVE TypeOK'
    <2>1. CallsTyped'
      BY <1>0, <1>10 DEF ReadPastCache, CallFails, Return, GoTo, verifVars, queueVars,
         workerVars, fileVars, CallsTyped, Contents
    <2>2. QueueTyped' /\ VerificationTyped' /\ WorkersTyped' /\ FilesTyped'
      BY <1>0, <1>10 DEF ReadPastCache, CallFails, verifVars, queueVars, workerVars,
         fileVars, QueueTyped, VerificationTyped, WorkersTyped, FilesTyped
    <2>. QED
      BY <2>1, <2>2 DEF TypeOK
  <1>11. ASSUME NEW c \in Calls, Answered(c) PROVE TypeOK'
    <2>1. CallsTyped'
      BY <1>0, <1>11 DEF Answered, GoTo, Return, verifVars, queueVars,
         workerVars, fileVars, CallsTyped
    <2>2. QueueTyped' /\ VerificationTyped' /\ WorkersTyped' /\ FilesTyped'
      BY <1>0, <1>11 DEF Answered, verifVars, queueVars, workerVars,
         fileVars, QueueTyped, VerificationTyped, WorkersTyped, FilesTyped
    <2>. QED
      BY <2>1, <2>2 DEF TypeOK
  <1>12. ASSUME NEW c \in Calls, Cancelled(c) PROVE TypeOK'
    <2>1. OidOf[c] \in Oids
      BY HydratorAssumption DEF Tasks
    <2>2. CallsTyped'
      BY <1>0, <1>12, <2>1 DEF Cancelled, Return, GoTo, verifVars,
         workerVars, fileVars, CallsTyped
    <2>3. QueueTyped'
      BY <1>0, <1>12, <2>1, HydratorAssumption DEF Cancelled, Return, GoTo,
         verifVars, workerVars, fileVars, QueueTyped, Tasks
    <2>4. VerificationTyped' /\ WorkersTyped' /\ FilesTyped'
      BY <1>0, <1>12 DEF Cancelled, verifVars, workerVars, fileVars,
         VerificationTyped, WorkersTyped, FilesTyped
    <2>. QED
      BY <2>2, <2>3, <2>4 DEF TypeOK
  <1>13. ASSUME NEW c \in Calls, OpenCache(c) PROVE TypeOK'
    <2>1. OidOf[c] \in Oids
      BY HydratorAssumption DEF Tasks
    <2>2. CallsTyped'
      BY <1>0, <1>13, <2>1 DEF OpenCache, Return, GoTo, verifVars,
         queueVars, workerVars, fileVars, CallsTyped, Contents, FilesTyped
    <2>3. QueueTyped' /\ VerificationTyped' /\ WorkersTyped' /\ FilesTyped'
      BY <1>0, <1>13 DEF OpenCache, verifVars, queueVars, workerVars,
         fileVars, QueueTyped, VerificationTyped, WorkersTyped, FilesTyped
    <2>. QED
      BY <2>2, <2>3 DEF TypeOK
  <1>14. ASSUME NEW c \in Calls, HashFile(c) PROVE TypeOK'
    <2>1. OidOf[c] \in Oids
      BY HydratorAssumption DEF Tasks
    <2>2. VerificationTyped'
      BY <1>0, <1>14, <2>1 DEF HashFile, callVars, queueVars, workerVars,
         fileVars, VerificationTyped
    <2>3. CallsTyped' /\ QueueTyped' /\ WorkersTyped' /\ FilesTyped'
      BY <1>0, <1>14 DEF HashFile, callVars, queueVars, workerVars,
         fileVars, CallsTyped, QueueTyped, WorkersTyped, FilesTyped
    <2>. QED
      BY <2>2, <2>3 DEF TypeOK
  <1>15. ASSUME NEW c \in Calls, FinishVerification(c) PROVE TypeOK'
    <2>1. OidOf[c] \in Oids
      BY HydratorAssumption DEF Tasks
    <2>2. CallsTyped'
      BY <1>0, <1>15, <2>1 DEF FinishVerification, VerifiedBy, queueVars,
         workerVars, fileVars, CallsTyped, VerificationTyped
    <2>3. VerificationTyped'
      BY <1>0, <1>15, <2>1 DEF FinishVerification, VerifiedBy, queueVars,
         workerVars, fileVars, VerificationTyped
    <2>4. QueueTyped' /\ WorkersTyped' /\ FilesTyped'
      BY <1>0, <1>15 DEF FinishVerification, queueVars, workerVars,
         fileVars, QueueTyped, WorkersTyped, FilesTyped
    <2>. QED
      BY <2>2, <2>3, <2>4 DEF TypeOK
  <1>16. ASSUME NEW p \in Prefetches, Enqueue(p) PROVE TypeOK'
    <2>1. QueueTyped'
      BY <1>0, <1>16, HydratorAssumption DEF Enqueue, callVars, verifVars,
         workerVars, fileVars, QueueTyped, Tasks
    <2>2. CallsTyped' /\ VerificationTyped' /\ WorkersTyped' /\ FilesTyped'
      BY <1>0, <1>16 DEF Enqueue, callVars, verifVars, workerVars, fileVars,
         CallsTyped, VerificationTyped, WorkersTyped, FilesTyped
    <2>. QED
      BY <2>1, <2>2 DEF TypeOK
  <1>17. ASSUME NEW p \in Prefetches, SignalPrefetch(p) PROVE TypeOK'
    <2>1. QueueTyped'
      BY <1>0, <1>17, HydratorAssumption DEF SignalPrefetch, callVars,
         verifVars, queueVars, workerVars, fileVars, QueueTyped, Tasks
    <2>2. CallsTyped' /\ VerificationTyped' /\ WorkersTyped' /\ FilesTyped'
      BY <1>0, <1>17 DEF SignalPrefetch, callVars, verifVars, queueVars,
         workerVars, fileVars, CallsTyped, VerificationTyped, WorkersTyped,
         FilesTyped
    <2>. QED
      BY <2>1, <2>2 DEF TypeOK
  <1>18. ASSUME NEW w \in Workers, Wake(w) PROVE TypeOK'
    <2>1. QueueTyped'
      BY <1>0, <1>18, HydratorAssumption DEF Wake, WorkerTo, callVars,
         verifVars, queueVars, fileVars, QueueTyped, Tasks
    <2>2. WorkersTyped'
      BY <1>0, <1>18, HydratorAssumption DEF Wake, WorkerTo, callVars,
         verifVars, queueVars, fileVars, WorkersTyped
    <2>3. CallsTyped' /\ VerificationTyped' /\ FilesTyped'
      BY <1>0, <1>18 DEF Wake, callVars, verifVars, queueVars, fileVars,
         CallsTyped, VerificationTyped, FilesTyped
    <2>. QED
      BY <2>1, <2>2, <2>3 DEF TypeOK
  <1>19. ASSUME NEW w \in Workers, WorkerExit(w) PROVE TypeOK'
    <2>1. WorkersTyped'
      BY <1>0, <1>19, HydratorAssumption DEF WorkerExit, WorkerTo, callVars,
         verifVars, queueVars, fileVars, WorkersTyped
    <2>2. CallsTyped' /\ QueueTyped' /\ VerificationTyped' /\ FilesTyped'
      BY <1>0, <1>19 DEF WorkerExit, callVars, verifVars, queueVars,
         fileVars, CallsTyped, QueueTyped, VerificationTyped, FilesTyped
    <2>. QED
      BY <2>1, <2>2 DEF TypeOK
  <1>20. ASSUME NEW w \in Workers, QueueDrained(w) PROVE TypeOK'
    <2>1. WorkersTyped'
      BY <1>0, <1>20, HydratorAssumption DEF QueueDrained, WorkerTo,
         callVars, verifVars, queueVars, fileVars, WorkersTyped
    <2>2. CallsTyped' /\ QueueTyped' /\ VerificationTyped' /\ FilesTyped'
      BY <1>0, <1>20 DEF QueueDrained, callVars, verifVars, queueVars,
         fileVars, CallsTyped, QueueTyped, VerificationTyped, FilesTyped
    <2>. QED
      BY <2>1, <2>2 DEF TypeOK
  <1>21. ASSUME NEW w \in Workers, PopTask(w) PROVE TypeOK'
    <2>1. QueueTyped'
      BY <1>0, <1>21, HydratorAssumption DEF PopTask, Taken, WorkerTo,
         Foremost, callVars, verifVars, fileVars, QueueTyped, Tasks
    <2>2. WorkersTyped'
      BY <1>0, <1>21, HydratorAssumption DEF PopTask, Taken, WorkerTo,
         Foremost, callVars, verifVars, fileVars, WorkersTyped, Tasks,
         QueueTyped
    <2>3. CallsTyped' /\ VerificationTyped' /\ FilesTyped'
      BY <1>0, <1>21 DEF PopTask, callVars, verifVars, fileVars, CallsTyped,
         VerificationTyped, FilesTyped
    <2>. QED
      BY <2>1, <2>2, <2>3 DEF TypeOK
  <1>22. ASSUME NEW w \in Workers, RenameTmp(w) PROVE TypeOK'
    <2>1. job[w] \in Tasks /\ OidOf[job[w]] \in Oids
      BY <1>0, <1>22, HydratorAssumption DEF RenameTmp, WorkersTyped
    <2>2. WorkersTyped'
      BY <1>0, <1>22, <2>1, HydratorAssumption DEF RenameTmp, WorkerTo,
         FdAfterRename, Oid, callVars, verifVars, queueVars, WorkersTyped,
         FilesTyped
    <2>3. FilesTyped'
      BY <1>0, <1>22, <2>1 DEF RenameTmp, WorkerTo, FdAfterRename, Oid,
         callVars, verifVars, queueVars, FilesTyped, Contents
    <2>4. CallsTyped' /\ QueueTyped' /\ VerificationTyped'
      BY <1>0, <1>22 DEF RenameTmp, callVars, verifVars, queueVars,
         CallsTyped, QueueTyped, VerificationTyped
    <2>. QED
      BY <2>2, <2>3, <2>4 DEF TypeOK
  <1>23. ASSUME NEW w \in Workers, MarkVerified(w) PROVE TypeOK'
    <2>1. job[w] \in Tasks /\ OidOf[job[w]] \in Oids
      BY <1>0, <1>23, HydratorAssumption DEF MarkVerified, WorkersTyped
    <2>2. VerificationTyped'
      BY <1>0, <1>23, <2>1 DEF MarkVerified, WorkerTo, Oid, callVars,
         verifVars, queueVars, fileVars, VerificationTyped
    <2>3. WorkersTyped'
      BY <1>0, <1>23, <2>1, HydratorAssumption DEF MarkVerified, WorkerTo,
         Oid, callVars, verifVars, queueVars, fileVars, WorkersTyped
    <2>4. CallsTyped' /\ QueueTyped' /\ FilesTyped'
      BY <1>0, <1>23 DEF MarkVerified, callVars, verifVars, queueVars,
         fileVars, CallsTyped, QueueTyped, FilesTyped
    <2>. QED
      BY <2>2, <2>3, <2>4 DEF TypeOK
  <1>24. ASSUME NEW w \in Workers, Notify(w) PROVE TypeOK'
    <2>1. CallsTyped'
      BY <1>0, <1>24 DEF Notify, Sent, WorkerTo, verifVars, queueVars,
         fileVars, CallsTyped, WorkersTyped
    <2>2. WorkersTyped'
      BY <1>0, <1>24, HydratorAssumption DEF Notify, Sent, WorkerTo,
         verifVars, queueVars, fileVars, WorkersTyped
    <2>3. QueueTyped' /\ VerificationTyped' /\ FilesTyped'
      BY <1>0, <1>24 DEF Notify, verifVars, queueVars, fileVars, QueueTyped,
         VerificationTyped, FilesTyped
    <2>. QED
      BY <2>1, <2>2, <2>3 DEF TypeOK
  <1>25. ASSUME NEW w \in Workers, Resignal(w) PROVE TypeOK'
    <2>1. QueueTyped'
      BY <1>0, <1>25, HydratorAssumption DEF Resignal, WorkerTo, callVars,
         verifVars, queueVars, fileVars, QueueTyped, Tasks
    <2>2. WorkersTyped'
      BY <1>0, <1>25, HydratorAssumption DEF Resignal, WorkerTo, callVars,
         verifVars, queueVars, fileVars, WorkersTyped
    <2>3. CallsTyped' /\ VerificationTyped' /\ FilesTyped'
      BY <1>0, <1>25 DEF Resignal, callVars, verifVars, queueVars, fileVars,
         CallsTyped, VerificationTyped, FilesTyped
    <2>. QED
      BY <2>1, <2>2, <2>3 DEF TypeOK
  <1>26. ASSUME NEW w \in Workers, FetchRefused(w) PROVE TypeOK'
    <2>1. WorkersTyped'
      BY <1>0, <1>26, HydratorAssumption DEF FetchRefused, WorkerTo,
         callVars, verifVars, queueVars, fileVars, WorkersTyped
    <2>2. CallsTyped' /\ QueueTyped' /\ VerificationTyped' /\ FilesTyped'
      BY <1>0, <1>26 DEF FetchRefused, callVars, verifVars, queueVars,
         fileVars, CallsTyped, QueueTyped, VerificationTyped, FilesTyped
    <2>. QED
      BY <2>1, <2>2 DEF TypeOK
  <1>27. ASSUME NEW w \in Workers, RequestFails(w) PROVE TypeOK'
    <2>1. WorkersTyped'
      BY <1>0, <1>27, HydratorAssumption DEF RequestFails, RetryOrFail,
         WorkerTo, callVars, verifVars, queueVars, fileVars, WorkersTyped
    <2>2. CallsTyped' /\ QueueTyped' /\ VerificationTyped' /\ FilesTyped'
      BY <1>0, <1>27 DEF RequestFails, callVars, verifVars, queueVars,
         fileVars, CallsTyped, QueueTyped, VerificationTyped, FilesTyped
    <2>. QED
      BY <2>1, <2>2 DEF TypeOK
  <1>28. ASSUME NEW w \in Workers, CreateTmp(w) PROVE TypeOK'
    <2>1. job[w] \in Tasks /\ OidOf[job[w]] \in Oids
      BY <1>0, <1>28, HydratorAssumption DEF CreateTmp, WorkersTyped
    <2>2. WorkersTyped'
      BY <1>0, <1>28, <2>1, HydratorAssumption DEF CreateTmp, WorkerTo, Oid,
         Fetching, callVars, verifVars, queueVars, WorkersTyped
    <2>3. FilesTyped'
      BY <1>0, <1>28, <2>1 DEF CreateTmp, WorkerTo, Oid, Fetching, callVars,
         verifVars, queueVars, FilesTyped, Contents
    <2>4. CallsTyped' /\ QueueTyped' /\ VerificationTyped'
      BY <1>0, <1>28 DEF CreateTmp, callVars, verifVars, queueVars,
         CallsTyped, QueueTyped, VerificationTyped
    <2>. QED
      BY <2>2, <2>3, <2>4 DEF TypeOK
  <1>29. ASSUME NEW w \in Workers, CopyBlob(w) PROVE TypeOK'
    <2>1. job[w] \in Tasks /\ OidOf[job[w]] \in Oids
      BY <1>0, <1>29, HydratorAssumption DEF CopyBlob, WorkersTyped
    <2>2. WorkersTyped'
      BY <1>0, <1>29, <2>1, HydratorAssumption DEF CopyBlob, WorkerTo,
         Filled, Oid, callVars, verifVars, queueVars, WorkersTyped,
         FilesTyped
    <2>3. FilesTyped'
      BY <1>0, <1>29, <2>1 DEF CopyBlob, WorkerTo, Filled, Oid, callVars,
         verifVars, queueVars, FilesTyped, Contents
    <2>4. CallsTyped' /\ QueueTyped' /\ VerificationTyped'
      BY <1>0, <1>29 DEF CopyBlob, callVars, verifVars, queueVars,
         CallsTyped, QueueTyped, VerificationTyped
    <2>. QED
      BY <2>2, <2>3, <2>4 DEF TypeOK
  <1>30. ASSUME NEW w \in Workers, FetchFails(w) PROVE TypeOK'
    <2>1. job[w] \in Tasks /\ OidOf[job[w]] \in Oids
      BY <1>0, <1>30, HydratorAssumption DEF FetchFails, WorkersTyped
    <2>2. WorkersTyped'
      BY <1>0, <1>30, <2>1, HydratorAssumption DEF FetchFails, RetryOrFail,
         FdAfterUnlinkTmp, Oid, WorkerTo, callVars, verifVars, queueVars,
         WorkersTyped, FilesTyped
    <2>3. FilesTyped'
      BY <1>0, <1>30, <2>1 DEF FetchFails, RetryOrFail, FdAfterUnlinkTmp,
         Oid, WorkerTo, callVars, verifVars, queueVars, FilesTyped, Contents
    <2>4. CallsTyped' /\ QueueTyped' /\ VerificationTyped'
      BY <1>0, <1>30 DEF FetchFails, callVars, verifVars, queueVars,
         CallsTyped, QueueTyped, VerificationTyped
    <2>. QED
      BY <2>2, <2>3, <2>4 DEF TypeOK
  <1>31. CASE CloseStopCh
    <2>1. QueueTyped'
      BY <1>0, <1>31, HydratorAssumption DEF CloseStopCh, callVars,
         verifVars, queueVars, workerVars, fileVars, QueueTyped, Tasks
    <2>2. CallsTyped' /\ VerificationTyped' /\ WorkersTyped' /\ FilesTyped'
      BY <1>0, <1>31 DEF CloseStopCh, callVars, verifVars, queueVars,
         workerVars, fileVars, CallsTyped, VerificationTyped, WorkersTyped,
         FilesTyped
    <2>. QED
      BY <2>1, <2>2 DEF TypeOK
  <1>32. CASE CloseAll
    <2>1. CallsTyped'
      BY <1>0, <1>32 DEF CloseAll, Closed, workerVars, fileVars, CallsTyped
    <2>2. QueueTyped'
      BY <1>0, <1>32, HydratorAssumption DEF CloseAll, Closed, workerVars,
         fileVars, QueueTyped, Tasks
    <2>3. VerificationTyped'
      BY <1>0, <1>32 DEF CloseAll, Closed, workerVars, fileVars,
         VerificationTyped
    <2>4. WorkersTyped' /\ FilesTyped'
      BY <1>0, <1>32 DEF CloseAll, workerVars, fileVars, WorkersTyped,
         FilesTyped
    <2>. QED
      BY <2>1, <2>2, <2>3, <2>4 DEF TypeOK
  <1>33. CASE UNCHANGED vars
    BY <1>0, <1>33 DEF TypeOK, CallsTyped, QueueTyped, VerificationTyped,
       WorkersTyped, FilesTyped, vars, callVars, verifVars, queueVars,
       workerVars, fileVars
  <1>. QED
    BY <1>1, <1>2, <1>3, <1>4, <1>5, <1>6, <1>7, <1>8, <1>9, <1>10, <1>11,
       <1>12, <1>13, <1>14, <1>15, <1>16, <1>17, <1>18, <1>19, <1>20, <1>21,
       <1>22, <1>23, <1>24, <1>25, <1>26, <1>27, <1>28, <1>29, <1>30, <1>31,
       <1>32, <1>33 DEF Next, CallStep, CancelCall, VerifierStep,
       WorkerStep, GitAnswers

(* Every reachable state is of the right types, and a worker has a task     *)
(* exactly while it is inside step (hydrator.go).                           *)
THEOREM TypeCorrect == Spec => []TypeOK
  BY TypeInit, TypeStep, PTL DEF Spec

-----------------------------------------------------------------------------
(* Waiters and wakeups.                                                     *)

(* Pushing, popping, cancelling and Stop keep a task for every waiter.      *)
LEMMA NoOrphanWaiterStep ==
  TypeOK /\ NoOrphanWaiter /\ [Next]_vars => NoOrphanWaiter'
  <1>. SUFFICES ASSUME TypeOK, NoOrphanWaiter, [Next]_vars PROVE NoOrphanWaiter'
    OBVIOUS
  <1>0. CallsTyped /\ QueueTyped /\ VerificationTyped /\ WorkersTyped /\ FilesTyped
    BY DEF TypeOK
  <1>1. ASSUME NEW c \in Calls, Enlist(c) PROVE NoOrphanWaiter'
    BY <1>0, <1>1, HydratorAssumption DEF Enlist, GoTo, verifVars,
       workerVars, fileVars, NoOrphanWaiter, Tasks, QueueTyped
  <1>2. ASSUME NEW c \in Calls, Cancelled(c) PROVE NoOrphanWaiter'
    BY <1>0, <1>2, HydratorAssumption DEF Cancelled, Return, GoTo,
       verifVars, workerVars, fileVars, NoOrphanWaiter, Tasks, QueueTyped
  <1>3. ASSUME NEW p \in Prefetches, Enqueue(p) PROVE NoOrphanWaiter'
    BY <1>0, <1>3, HydratorAssumption DEF Enqueue, callVars, verifVars,
       workerVars, fileVars, NoOrphanWaiter, Tasks, QueueTyped
  <1>4. ASSUME NEW w \in Workers, PopTask(w) PROVE NoOrphanWaiter'
    BY <1>0, <1>4, HydratorAssumption DEF PopTask, Taken, WorkerTo,
       Foremost, callVars, verifVars, fileVars, NoOrphanWaiter, Tasks,
       QueueTyped
  <1>5. CASE CloseAll
    BY <1>0, <1>5, HydratorAssumption DEF CloseAll, Closed, workerVars,
       fileVars, NoOrphanWaiter, Tasks, QueueTyped
  <1>6. ASSUME NEW c \in Calls, StartCall(c) \/ StatCache(c) \/
              DiscardFile(c) \/ ClearVerified(c) \/ VerifyBlobOnce(c) \/
              VerificationAnswered(c) \/ VerificationCancelled(c) \/
              SignalWork(c) \/ ReadPastCache(c) \/ CallFails(c) \/ Answered(c) \/
              OpenCache(c) \/ HashFile(c) \/ FinishVerification(c)
         PROVE  NoOrphanWaiter'
    <2>1. UNCHANGED <<wait, queue>>
      BY <1>6 DEF StartCall, StatCache, DiscardFile, ClearVerified,
         VerifyBlobOnce, VerificationAnswered, VerificationCancelled,
         SignalWork, ReadPastCache, CallFails, Answered, OpenCache, HashFile,
         FinishVerification, callVars, fileVars, queueVars, verifVars,
         workerVars
    <2>. QED
      BY <2>1 DEF NoOrphanWaiter, Tasks
  <1>7. ASSUME NEW p \in Prefetches, SignalPrefetch(p)
         PROVE  NoOrphanWaiter'
    <2>1. UNCHANGED <<wait, queue>>
      BY <1>7 DEF SignalPrefetch, callVars, fileVars, queueVars, verifVars,
         workerVars
    <2>. QED
      BY <2>1 DEF NoOrphanWaiter, Tasks
  <1>8. ASSUME NEW w \in Workers, Wake(w) \/ WorkerExit(w) \/
              QueueDrained(w) \/ RenameTmp(w) \/ MarkVerified(w) \/
              Notify(w) \/ Resignal(w) \/ FetchRefused(w) \/ RequestFails(w)
              \/ CreateTmp(w) \/ CopyBlob(w) \/ FetchFails(w)
         PROVE  NoOrphanWaiter'
    <2>1. UNCHANGED <<wait, queue>>
      BY <1>8 DEF Wake, WorkerExit, QueueDrained, RenameTmp, MarkVerified,
         Notify, Resignal, FetchRefused, RequestFails, CreateTmp, CopyBlob,
         FetchFails, callVars, fileVars, queueVars, verifVars
    <2>. QED
      BY <2>1 DEF NoOrphanWaiter, Tasks
  <1>9. ASSUME CloseStopCh \/ UNCHANGED vars
         PROVE  NoOrphanWaiter'
    <2>1. UNCHANGED <<wait, queue>>
      BY <1>9 DEF CloseStopCh, callVars, fileVars, queueVars, vars,
         verifVars, workerVars
    <2>. QED
      BY <2>1 DEF NoOrphanWaiter, Tasks
  <1>. QED
    BY <1>1, <1>2, <1>3, <1>4, <1>5, <1>6, <1>7, <1>8, <1>9 DEF Next,
       CallStep, CancelCall, VerifierStep, WorkerStep, GitAnswers

(* No waiter is left without a task: deduplication in EnsureHydrated adds a *)
(* second waiter without a task of its own, and the first may give up.      *)
THEOREM WaitersHaveTasks == Spec => []NoOrphanWaiter
  <1>1. Init => NoOrphanWaiter
    BY DEF Init, NoOrphanWaiter
  <1>. QED
    BY <1>1, TypeCorrect, NoOrphanWaiterStep, PTL DEF Spec

(* A worker goes to sleep only on an empty queue, and whoever pushes signals. *)
LEMMA NoLostWakeupStep ==
  TypeOK /\ NoLostWakeup /\ [Next]_vars => NoLostWakeup'
  <1>. SUFFICES ASSUME TypeOK, NoLostWakeup, [Next]_vars PROVE NoLostWakeup'
    OBVIOUS
  <1>0. CallsTyped /\ QueueTyped /\ VerificationTyped /\ WorkersTyped /\ FilesTyped
    BY DEF TypeOK
  <1>1. ASSUME NEW c \in Calls, StartCall(c) PROVE NoLostWakeup'
    BY <1>0, <1>1, HydratorAssumption DEF StartCall, GoTo, verifVars,
       queueVars, workerVars, fileVars, NoLostWakeup, CallsTyped
  <1>2. ASSUME NEW c \in Calls, StatCache(c) PROVE NoLostWakeup'
    BY <1>0, <1>2, HydratorAssumption DEF StatCache, GoTo, verifVars,
       queueVars, workerVars, fileVars, NoLostWakeup, CallsTyped
  <1>3. ASSUME NEW c \in Calls, DiscardFile(c) PROVE NoLostWakeup'
    BY <1>0, <1>3, HydratorAssumption DEF DiscardFile, GoTo,
       FdAfterUnlinkDst, verifVars, queueVars, workerVars, NoLostWakeup,
       CallsTyped
  <1>4. ASSUME NEW c \in Calls, ClearVerified(c) PROVE NoLostWakeup'
    BY <1>0, <1>4, HydratorAssumption DEF ClearVerified, GoTo, verifVars,
       queueVars, workerVars, fileVars, NoLostWakeup, CallsTyped
  <1>5. ASSUME NEW c \in Calls, VerifyBlobOnce(c) PROVE NoLostWakeup'
    BY <1>0, <1>5, HydratorAssumption DEF VerifyBlobOnce, GoTo, queueVars,
       workerVars, fileVars, NoLostWakeup, CallsTyped
  <1>6. ASSUME NEW c \in Calls, VerificationAnswered(c) PROVE NoLostWakeup'
    BY <1>0, <1>6, HydratorAssumption DEF VerificationAnswered,
       AfterVerification, GoTo, verifVars, queueVars, workerVars, fileVars,
       NoLostWakeup, CallsTyped
  <1>7. ASSUME NEW c \in Calls, VerificationCancelled(c) PROVE NoLostWakeup'
    BY <1>0, <1>7, HydratorAssumption DEF VerificationCancelled, Return,
       GoTo, queueVars, workerVars, fileVars, NoLostWakeup, CallsTyped
  <1>8. ASSUME NEW c \in Calls, Enlist(c) PROVE NoLostWakeup'
    BY <1>0, <1>8, HydratorAssumption DEF Enlist, GoTo, verifVars,
       workerVars, fileVars, NoLostWakeup, CallsTyped
  <1>9. ASSUME NEW c \in Calls, SignalWork(c) PROVE NoLostWakeup'
    BY <1>0, <1>9, HydratorAssumption DEF SignalWork, GoTo, verifVars,
       queueVars, workerVars, fileVars, NoLostWakeup, CallsTyped
  <1>10. ASSUME NEW c \in Calls, ReadPastCache(c) \/ CallFails(c) PROVE NoLostWakeup'
    BY <1>0, <1>10, HydratorAssumption DEF ReadPastCache, CallFails, Return, GoTo,
       verifVars, queueVars, workerVars, fileVars, NoLostWakeup, CallsTyped
  <1>11. ASSUME NEW c \in Calls, Answered(c) PROVE NoLostWakeup'
    BY <1>0, <1>11, HydratorAssumption DEF Answered, GoTo, Return,
       verifVars, queueVars, workerVars, fileVars, NoLostWakeup, CallsTyped
  <1>12. ASSUME NEW c \in Calls, Cancelled(c) PROVE NoLostWakeup'
    BY <1>0, <1>12, HydratorAssumption DEF Cancelled, Return, GoTo,
       verifVars, workerVars, fileVars, NoLostWakeup, CallsTyped
  <1>13. ASSUME NEW c \in Calls, OpenCache(c) PROVE NoLostWakeup'
    BY <1>0, <1>13, HydratorAssumption DEF OpenCache, Return, GoTo,
       verifVars, queueVars, workerVars, fileVars, NoLostWakeup, CallsTyped
  <1>14. ASSUME NEW p \in Prefetches, Enqueue(p) PROVE NoLostWakeup'
    BY <1>0, <1>14, HydratorAssumption DEF Enqueue, callVars, verifVars,
       workerVars, fileVars, NoLostWakeup, QueueTyped
  <1>15. ASSUME NEW p \in Prefetches, SignalPrefetch(p) PROVE NoLostWakeup'
    BY <1>0, <1>15, HydratorAssumption DEF SignalPrefetch, callVars,
       verifVars, queueVars, workerVars, fileVars, NoLostWakeup, QueueTyped
  <1>16. ASSUME NEW w \in Workers, Wake(w) PROVE NoLostWakeup'
    BY <1>0, <1>16, HydratorAssumption DEF Wake, WorkerTo, callVars,
       verifVars, queueVars, fileVars, NoLostWakeup, WorkersTyped
  <1>17. ASSUME NEW w \in Workers, WorkerExit(w) PROVE NoLostWakeup'
    BY <1>0, <1>17, HydratorAssumption DEF WorkerExit, WorkerTo, callVars,
       verifVars, queueVars, fileVars, NoLostWakeup, WorkersTyped
  <1>18. ASSUME NEW w \in Workers, QueueDrained(w) PROVE NoLostWakeup'
    BY <1>0, <1>18, HydratorAssumption DEF QueueDrained, WorkerTo, callVars,
       verifVars, queueVars, fileVars, NoLostWakeup, WorkersTyped
  <1>19. ASSUME NEW w \in Workers, PopTask(w) PROVE NoLostWakeup'
    BY <1>0, <1>19, HydratorAssumption DEF PopTask, Taken, WorkerTo,
       Foremost, callVars, verifVars, fileVars, NoLostWakeup, WorkersTyped
  <1>20. ASSUME NEW w \in Workers, RenameTmp(w) PROVE NoLostWakeup'
    BY <1>0, <1>20, HydratorAssumption DEF RenameTmp, WorkerTo,
       FdAfterRename, Oid, callVars, verifVars, queueVars, NoLostWakeup,
       WorkersTyped
  <1>21. ASSUME NEW w \in Workers, MarkVerified(w) PROVE NoLostWakeup'
    BY <1>0, <1>21, HydratorAssumption DEF MarkVerified, WorkerTo, Oid,
       callVars, verifVars, queueVars, fileVars, NoLostWakeup, WorkersTyped
  <1>22. ASSUME NEW w \in Workers, Notify(w) PROVE NoLostWakeup'
    BY <1>0, <1>22, HydratorAssumption DEF Notify, Sent, WorkerTo,
       verifVars, queueVars, fileVars, NoLostWakeup, WorkersTyped
  <1>23. ASSUME NEW w \in Workers, Resignal(w) PROVE NoLostWakeup'
    BY <1>0, <1>23, HydratorAssumption DEF Resignal, WorkerTo, callVars,
       verifVars, queueVars, fileVars, NoLostWakeup, WorkersTyped
  <1>24. ASSUME NEW w \in Workers, FetchRefused(w) PROVE NoLostWakeup'
    BY <1>0, <1>24, HydratorAssumption DEF FetchRefused, WorkerTo, callVars,
       verifVars, queueVars, fileVars, NoLostWakeup, WorkersTyped
  <1>25. ASSUME NEW w \in Workers, RequestFails(w) PROVE NoLostWakeup'
    BY <1>0, <1>25, HydratorAssumption DEF RequestFails, RetryOrFail,
       WorkerTo, callVars, verifVars, queueVars, fileVars, NoLostWakeup,
       WorkersTyped
  <1>26. ASSUME NEW w \in Workers, CreateTmp(w) PROVE NoLostWakeup'
    BY <1>0, <1>26, HydratorAssumption DEF CreateTmp, WorkerTo, Oid,
       Fetching, callVars, verifVars, queueVars, NoLostWakeup, WorkersTyped
  <1>27. ASSUME NEW w \in Workers, CopyBlob(w) PROVE NoLostWakeup'
    BY <1>0, <1>27, HydratorAssumption DEF CopyBlob, WorkerTo, Filled, Oid,
       callVars, verifVars, queueVars, NoLostWakeup, WorkersTyped
  <1>28. ASSUME NEW w \in Workers, FetchFails(w) PROVE NoLostWakeup'
    BY <1>0, <1>28, HydratorAssumption DEF FetchFails, RetryOrFail,
       FdAfterUnlinkTmp, Oid, WorkerTo, callVars, verifVars, queueVars,
       NoLostWakeup, WorkersTyped
  <1>29. CASE CloseStopCh
    BY <1>0, <1>29, HydratorAssumption DEF CloseStopCh, callVars, verifVars,
       queueVars, workerVars, fileVars, NoLostWakeup
  <1>30. CASE CloseAll
    BY <1>0, <1>30, HydratorAssumption DEF CloseAll, Closed, workerVars,
       fileVars, NoLostWakeup
  <1>31. ASSUME NEW c \in Calls, HashFile(c) \/ FinishVerification(c)
         PROVE  NoLostWakeup'
    <2>1. UNCHANGED <<queue, stop, token, wpc, pc, ppc>>
      BY <1>31 DEF HashFile, FinishVerification, callVars, fileVars,
         queueVars, workerVars
    <2>. QED
      BY <2>1 DEF NoLostWakeup
  <1>32. ASSUME UNCHANGED vars
         PROVE  NoLostWakeup'
    <2>1. UNCHANGED <<queue, stop, token, wpc, pc, ppc>>
      BY <1>32 DEF callVars, fileVars, queueVars, vars, verifVars,
         workerVars
    <2>. QED
      BY <2>1 DEF NoLostWakeup
  <1>. QED
    BY <1>1, <1>2, <1>3, <1>4, <1>5, <1>6, <1>7, <1>8, <1>9, <1>10, <1>11,
       <1>12, <1>13, <1>14, <1>15, <1>16, <1>17, <1>18, <1>19, <1>20, <1>21,
       <1>22, <1>23, <1>24, <1>25, <1>26, <1>27, <1>28, <1>29, <1>30, <1>31,
       <1>32 DEF Next, CallStep, CancelCall, VerifierStep, WorkerStep,
       GitAnswers

(* The one-element workReady channel, a non-blocking send after every push  *)
(* and the re-signal after every step never lose a wakeup.                  *)
THEOREM WakeupsNotLost == Spec => []NoLostWakeup
  <1>1. Init => NoLostWakeup
    BY DEF Init, NoLostWakeup
  <1>. QED
    BY <1>1, TypeCorrect, NoLostWakeupStep, PTL DEF Spec

-----------------------------------------------------------------------------
(* Result channels.                                                         *)

(* A result channel moves from the caller to a wait list, to a worker, to   *)
(* its answer, and never back.                                              *)
LEMMA ChannelStep ==
  TypeOK /\ ChannelInv /\ [Next]_vars => ChannelInv'
  <1>. SUFFICES ASSUME TypeOK, ChannelInv, [Next]_vars PROVE ChannelInv'
    OBVIOUS
  <1>0. CallsTyped /\ QueueTyped /\ VerificationTyped /\ WorkersTyped /\ FilesTyped
    BY DEF TypeOK
  <1>1. ASSUME NEW c \in Calls, StartCall(c) PROVE ChannelInv'
    BY <1>0, <1>1, HydratorAssumption DEF StartCall, GoTo, verifVars,
       queueVars, workerVars, fileVars, ChannelInv, ChannelHeldOnce, Tasks,
       CallsTyped, QueueTyped, WorkersTyped
  <1>2. ASSUME NEW c \in Calls, StatCache(c) PROVE ChannelInv'
    BY <1>0, <1>2, HydratorAssumption DEF StatCache, GoTo, verifVars,
       queueVars, workerVars, fileVars, ChannelInv, ChannelHeldOnce, Tasks,
       CallsTyped, QueueTyped, WorkersTyped
  <1>3. ASSUME NEW c \in Calls, DiscardFile(c) PROVE ChannelInv'
    BY <1>0, <1>3, HydratorAssumption DEF DiscardFile, GoTo,
       FdAfterUnlinkDst, verifVars, queueVars, workerVars, ChannelInv,
       ChannelHeldOnce, Tasks, CallsTyped, QueueTyped, WorkersTyped
  <1>4. ASSUME NEW c \in Calls, ClearVerified(c) PROVE ChannelInv'
    BY <1>0, <1>4, HydratorAssumption DEF ClearVerified, GoTo, verifVars,
       queueVars, workerVars, fileVars, ChannelInv, ChannelHeldOnce, Tasks,
       CallsTyped, QueueTyped, WorkersTyped
  <1>5. ASSUME NEW c \in Calls, VerifyBlobOnce(c) PROVE ChannelInv'
    BY <1>0, <1>5, HydratorAssumption DEF VerifyBlobOnce, GoTo, queueVars,
       workerVars, fileVars, ChannelInv, ChannelHeldOnce, Tasks, CallsTyped,
       QueueTyped, WorkersTyped
  <1>6. ASSUME NEW c \in Calls, VerificationAnswered(c) PROVE ChannelInv'
    BY <1>0, <1>6, HydratorAssumption DEF VerificationAnswered,
       AfterVerification, GoTo, verifVars, queueVars, workerVars, fileVars,
       ChannelInv, ChannelHeldOnce, Tasks, CallsTyped, QueueTyped,
       WorkersTyped
  <1>7. ASSUME NEW c \in Calls, VerificationCancelled(c) PROVE ChannelInv'
    BY <1>0, <1>7, HydratorAssumption DEF VerificationCancelled, Return,
       GoTo, queueVars, workerVars, fileVars, ChannelInv, ChannelHeldOnce,
       Tasks, CallsTyped, QueueTyped, WorkersTyped
  <1>8. ASSUME NEW c \in Calls, Enlist(c) PROVE ChannelInv'
    BY <1>0, <1>8, HydratorAssumption DEF Enlist, GoTo, verifVars,
       workerVars, fileVars, ChannelInv, ChannelHeldOnce, Tasks, CallsTyped,
       QueueTyped, WorkersTyped
  <1>9. ASSUME NEW c \in Calls, SignalWork(c) PROVE ChannelInv'
    BY <1>0, <1>9, HydratorAssumption DEF SignalWork, GoTo, verifVars,
       queueVars, workerVars, fileVars, ChannelInv, ChannelHeldOnce, Tasks,
       CallsTyped, QueueTyped, WorkersTyped
  <1>10. ASSUME NEW c \in Calls, ReadPastCache(c) \/ CallFails(c) PROVE ChannelInv'
    BY <1>0, <1>10, HydratorAssumption DEF ReadPastCache, CallFails, Return, GoTo,
       verifVars, queueVars, workerVars, fileVars, ChannelInv,
       ChannelHeldOnce, Tasks, CallsTyped, QueueTyped, WorkersTyped
  <1>11. ASSUME NEW c \in Calls, Answered(c) PROVE ChannelInv'
    BY <1>0, <1>11, HydratorAssumption DEF Answered, GoTo, Return,
       verifVars, queueVars, workerVars, fileVars, ChannelInv,
       ChannelHeldOnce, Tasks, CallsTyped, QueueTyped, WorkersTyped
  <1>12. ASSUME NEW c \in Calls, Cancelled(c) PROVE ChannelInv'
    BY <1>0, <1>12, HydratorAssumption DEF Cancelled, Return, GoTo,
       verifVars, workerVars, fileVars, ChannelInv, ChannelHeldOnce, Tasks,
       CallsTyped, QueueTyped, WorkersTyped
  <1>13. ASSUME NEW c \in Calls, OpenCache(c) PROVE ChannelInv'
    BY <1>0, <1>13, HydratorAssumption DEF OpenCache, Return, GoTo,
       verifVars, queueVars, workerVars, fileVars, ChannelInv,
       ChannelHeldOnce, Tasks, CallsTyped, QueueTyped, WorkersTyped
  <1>14. ASSUME NEW w \in Workers, Wake(w) PROVE ChannelInv'
    BY <1>0, <1>14, HydratorAssumption DEF Wake, WorkerTo, callVars,
       verifVars, queueVars, fileVars, ChannelInv, ChannelHeldOnce, Tasks,
       CallsTyped, QueueTyped, WorkersTyped
  <1>15. ASSUME NEW w \in Workers, WorkerExit(w) PROVE ChannelInv'
    BY <1>0, <1>15, HydratorAssumption DEF WorkerExit, WorkerTo, callVars,
       verifVars, queueVars, fileVars, ChannelInv, ChannelHeldOnce, Tasks,
       CallsTyped, QueueTyped, WorkersTyped
  <1>16. ASSUME NEW w \in Workers, QueueDrained(w) PROVE ChannelInv'
    BY <1>0, <1>16, HydratorAssumption DEF QueueDrained, WorkerTo, callVars,
       verifVars, queueVars, fileVars, ChannelInv, ChannelHeldOnce, Tasks,
       CallsTyped, QueueTyped, WorkersTyped
  <1>17. ASSUME NEW w \in Workers, PopTask(w) PROVE ChannelInv'
    BY <1>0, <1>17, HydratorAssumption DEF PopTask, Taken, WorkerTo,
       Foremost, callVars, verifVars, fileVars, ChannelInv, ChannelHeldOnce,
       Tasks, CallsTyped, QueueTyped, WorkersTyped
  <1>18. ASSUME NEW w \in Workers, RenameTmp(w) PROVE ChannelInv'
    BY <1>0, <1>18, HydratorAssumption DEF RenameTmp, WorkerTo,
       FdAfterRename, Oid, callVars, verifVars, queueVars, ChannelInv,
       ChannelHeldOnce, Tasks, CallsTyped, QueueTyped, WorkersTyped
  <1>19. ASSUME NEW w \in Workers, MarkVerified(w) PROVE ChannelInv'
    BY <1>0, <1>19, HydratorAssumption DEF MarkVerified, WorkerTo, Oid,
       callVars, verifVars, queueVars, fileVars, ChannelInv,
       ChannelHeldOnce, Tasks, CallsTyped, QueueTyped, WorkersTyped
  <1>20. ASSUME NEW w \in Workers, Notify(w) PROVE ChannelInv'
    BY <1>0, <1>20, HydratorAssumption DEF Notify, Sent, WorkerTo,
       verifVars, queueVars, fileVars, ChannelInv, ChannelHeldOnce, Tasks,
       CallsTyped, QueueTyped, WorkersTyped
  <1>21. ASSUME NEW w \in Workers, Resignal(w) PROVE ChannelInv'
    BY <1>0, <1>21, HydratorAssumption DEF Resignal, WorkerTo, callVars,
       verifVars, queueVars, fileVars, ChannelInv, ChannelHeldOnce, Tasks,
       CallsTyped, QueueTyped, WorkersTyped
  <1>22. ASSUME NEW w \in Workers, FetchRefused(w) PROVE ChannelInv'
    BY <1>0, <1>22, HydratorAssumption DEF FetchRefused, WorkerTo, callVars,
       verifVars, queueVars, fileVars, ChannelInv, ChannelHeldOnce, Tasks,
       CallsTyped, QueueTyped, WorkersTyped
  <1>23. ASSUME NEW w \in Workers, RequestFails(w) PROVE ChannelInv'
    BY <1>0, <1>23, HydratorAssumption DEF RequestFails, RetryOrFail,
       WorkerTo, callVars, verifVars, queueVars, fileVars, ChannelInv,
       ChannelHeldOnce, Tasks, CallsTyped, QueueTyped, WorkersTyped
  <1>24. ASSUME NEW w \in Workers, CreateTmp(w) PROVE ChannelInv'
    BY <1>0, <1>24, HydratorAssumption DEF CreateTmp, WorkerTo, Oid,
       Fetching, callVars, verifVars, queueVars, ChannelInv,
       ChannelHeldOnce, Tasks, CallsTyped, QueueTyped, WorkersTyped
  <1>25. ASSUME NEW w \in Workers, CopyBlob(w) PROVE ChannelInv'
    BY <1>0, <1>25, HydratorAssumption DEF CopyBlob, WorkerTo, Filled, Oid,
       callVars, verifVars, queueVars, ChannelInv, ChannelHeldOnce, Tasks,
       CallsTyped, QueueTyped, WorkersTyped
  <1>26. ASSUME NEW w \in Workers, FetchFails(w) PROVE ChannelInv'
    BY <1>0, <1>26, HydratorAssumption DEF FetchFails, RetryOrFail,
       FdAfterUnlinkTmp, Oid, WorkerTo, callVars, verifVars, queueVars,
       ChannelInv, ChannelHeldOnce, Tasks, CallsTyped, QueueTyped,
       WorkersTyped
  <1>27. CASE CloseAll
    BY <1>0, <1>27, HydratorAssumption DEF CloseAll, Closed, workerVars,
       fileVars, ChannelInv, ChannelHeldOnce, Tasks, CallsTyped, QueueTyped,
       WorkersTyped
  <1>28. ASSUME NEW c \in Calls, HashFile(c) \/ FinishVerification(c)
         PROVE  ChannelInv'
    <2>1. UNCHANGED <<pc, result, wait, held, job, wpc, wres>>
      BY <1>28 DEF HashFile, FinishVerification, callVars, fileVars,
         queueVars, workerVars
    <2>. QED
      BY <2>1 DEF ChannelInv, ChannelHeldOnce, Tasks
  <1>29. ASSUME NEW p \in Prefetches, Enqueue(p) \/ SignalPrefetch(p)
         PROVE  ChannelInv'
    <2>1. UNCHANGED <<pc, result, wait, held, job, wpc, wres>>
      BY <1>29 DEF Enqueue, SignalPrefetch, callVars, fileVars, queueVars,
         verifVars, workerVars
    <2>. QED
      BY <2>1 DEF ChannelInv, ChannelHeldOnce, Tasks
  <1>30. ASSUME CloseStopCh \/ UNCHANGED vars
         PROVE  ChannelInv'
    <2>1. UNCHANGED <<pc, result, wait, held, job, wpc, wres>>
      BY <1>30 DEF CloseStopCh, callVars, fileVars, queueVars, vars,
         verifVars, workerVars
    <2>. QED
      BY <2>1 DEF ChannelInv, ChannelHeldOnce, Tasks
  <1>. QED
    BY <1>1, <1>2, <1>3, <1>4, <1>5, <1>6, <1>7, <1>8, <1>9, <1>10, <1>11,
       <1>12, <1>13, <1>14, <1>15, <1>16, <1>17, <1>18, <1>19, <1>20, <1>21,
       <1>22, <1>23, <1>24, <1>25, <1>26, <1>27, <1>28, <1>29, <1>30 DEF
       Next, CallStep, CancelCall, VerifierStep, WorkerStep, GitAnswers

(* With the types, the inductive invariant of the result channels.          *)
LEMMA ChannelInvariant == Spec => []ChannelInv
  <1>1. Init => ChannelInv
    BY HydratorAssumption DEF Init, ChannelInv, ChannelHeldOnce, Tasks
  <1>. QED
    BY <1>1, TypeCorrect, ChannelStep, PTL DEF Spec

(* Every waiting call can still be answered, and no channel is sent to      *)
(* twice, whatever the interleaving of readers, cancellations, workers and  *)
(* Stop.                                                                    *)
THEOREM ChannelsHeldOnce == Spec => []ChannelHeldOnce
  <1>1. ChannelInv => ChannelHeldOnce
    BY DEF ChannelInv
  <1>. QED
    BY <1>1, ChannelInvariant, PTL

-----------------------------------------------------------------------------
(* Shared verifications.                                                    *)

(* A verification that is waited for runs on when its leader gives up.      *)
LEMMA VerificationStep ==
  TypeOK /\ VerificationInv /\ [Next]_vars => VerificationInv'
  <1>. SUFFICES ASSUME TypeOK, VerificationInv, [Next]_vars PROVE VerificationInv'
    OBVIOUS
  <1>0. CallsTyped /\ QueueTyped /\ VerificationTyped /\ WorkersTyped /\ FilesTyped
    BY DEF TypeOK
  <1>1. ASSUME NEW c \in Calls, StartCall(c) PROVE VerificationInv'
    BY <1>0, <1>1, HydratorAssumption DEF StartCall, GoTo, verifVars,
       queueVars, workerVars, fileVars, VerificationInv, VerificationRuns,
       Tasks, CallsTyped, VerificationTyped
  <1>2. ASSUME NEW c \in Calls, StatCache(c) PROVE VerificationInv'
    BY <1>0, <1>2, HydratorAssumption DEF StatCache, GoTo, verifVars,
       queueVars, workerVars, fileVars, VerificationInv, VerificationRuns,
       Tasks, CallsTyped, VerificationTyped
  <1>3. ASSUME NEW c \in Calls, DiscardFile(c) PROVE VerificationInv'
    BY <1>0, <1>3, HydratorAssumption DEF DiscardFile, GoTo,
       FdAfterUnlinkDst, verifVars, queueVars, workerVars, VerificationInv,
       VerificationRuns, Tasks, CallsTyped, VerificationTyped
  <1>4. ASSUME NEW c \in Calls, ClearVerified(c) PROVE VerificationInv'
    BY <1>0, <1>4, HydratorAssumption DEF ClearVerified, GoTo, verifVars,
       queueVars, workerVars, fileVars, VerificationInv, VerificationRuns,
       Tasks, CallsTyped, VerificationTyped
  <1>5. ASSUME NEW c \in Calls, VerifyBlobOnce(c) PROVE VerificationInv'
    <2>1. OidOf[c] \in Oids
      BY HydratorAssumption DEF Tasks
    <2>2. CASE OidOf[c] \in verified
      <3>1. UNCHANGED <<verifying, vresult, verif>> /\ pc' = [pc EXCEPT ![c] = "open"]
        BY <1>5, <2>2 DEF VerifyBlobOnce, GoTo, verifVars
      <3>. QED
        BY <1>0, <1>5, <3>1
           DEF VerifyBlobOnce, VerificationInv, VerificationRuns, CallsTyped
    <2>3. CASE OidOf[c] \notin verified
      <3>1. /\ pc[c] = "gate"
            /\ pc' = [pc EXCEPT ![c] = "verify"]
            /\ verifying' = [verifying EXCEPT ![OidOf[c]] = @ \cup {c}]
            /\ verif' = IF verifying[OidOf[c]] = {}
                         THEN [verif EXCEPT ![c] = "hash"] ELSE verif
            /\ UNCHANGED vresult
        BY <1>5, <2>3 DEF VerifyBlobOnce, GoTo
      <3>2. /\ \A o \in Oids : \A d \in verifying'[o] : OidOf[d] = o /\ pc'[d] = "verify"
            /\ \A d \in Calls : pc'[d] \in {"idle", "stat", "gate"} => vresult'[d] = "none"
        BY <1>0, <2>1, <3>1 DEF VerificationInv, CallsTyped, VerificationTyped
      <3>3. /\ \A d \in Calls : pc'[d] = "verify" =>
                  d \in verifying'[OidOf[d]] \/ vresult'[d] # "none"
            /\ \A o \in Oids : \A d \in verifying'[o] : vresult'[d] = "none"
        BY <1>0, <2>1, <3>1, HydratorAssumption
           DEF VerificationInv, VerificationRuns, CallsTyped, VerificationTyped, Tasks
      <3>4. ASSUME NEW o \in Oids, verifying'[o] # {}
            PROVE  \E d \in Calls : OidOf[d] = o /\ verif'[d] # "none"
        <4>1. CASE verifying[o] = {}
          <5>1. o = OidOf[c]
            BY <1>0, <3>1, <3>4, <4>1 DEF VerificationTyped
          <5>2. verif'[c] = "hash"
            BY <1>0, <3>1, <4>1, <5>1 DEF VerificationTyped
          <5>. QED
            BY <5>1, <5>2
        <4>2. CASE verifying[o] # {}
          <5>1. PICK d \in Calls : OidOf[d] = o /\ verif[d] # "none"
            BY <4>2 DEF VerificationInv, VerificationRuns
          <5>2. verif'[d] # "none"
            BY <1>0, <3>1, <5>1 DEF VerificationTyped
          <5>. QED
            BY <5>1, <5>2
        <4>. QED
          BY <4>1, <4>2
      <3>. QED
        BY <3>2, <3>3, <3>4 DEF VerificationInv, VerificationRuns
    <2>. QED
      BY <2>2, <2>3
  <1>6. ASSUME NEW c \in Calls, VerificationAnswered(c) PROVE VerificationInv'
    BY <1>0, <1>6, HydratorAssumption DEF VerificationAnswered,
       AfterVerification, GoTo, verifVars, queueVars, workerVars, fileVars,
       VerificationInv, VerificationRuns, Tasks, CallsTyped,
       VerificationTyped
  <1>7. ASSUME NEW c \in Calls, VerificationCancelled(c) PROVE VerificationInv'
    BY <1>0, <1>7, HydratorAssumption DEF VerificationCancelled, Return,
       GoTo, queueVars, workerVars, fileVars, VerificationInv,
       VerificationRuns, Tasks, CallsTyped, VerificationTyped
  <1>8. ASSUME NEW c \in Calls, Enlist(c) PROVE VerificationInv'
    BY <1>0, <1>8, HydratorAssumption DEF Enlist, GoTo, verifVars,
       workerVars, fileVars, VerificationInv, VerificationRuns, Tasks,
       CallsTyped, VerificationTyped
  <1>9. ASSUME NEW c \in Calls, SignalWork(c) PROVE VerificationInv'
    BY <1>0, <1>9, HydratorAssumption DEF SignalWork, GoTo, verifVars,
       queueVars, workerVars, fileVars, VerificationInv, VerificationRuns,
       Tasks, CallsTyped, VerificationTyped
  <1>10. ASSUME NEW c \in Calls, ReadPastCache(c) \/ CallFails(c) PROVE VerificationInv'
    BY <1>0, <1>10, HydratorAssumption DEF ReadPastCache, CallFails, Return, GoTo,
       verifVars, queueVars, workerVars, fileVars, VerificationInv,
       VerificationRuns, Tasks, CallsTyped, VerificationTyped
  <1>11. ASSUME NEW c \in Calls, Answered(c) PROVE VerificationInv'
    BY <1>0, <1>11, HydratorAssumption DEF Answered, GoTo, Return,
       verifVars, queueVars, workerVars, fileVars, VerificationInv,
       VerificationRuns, Tasks, CallsTyped, VerificationTyped
  <1>12. ASSUME NEW c \in Calls, Cancelled(c) PROVE VerificationInv'
    BY <1>0, <1>12, HydratorAssumption DEF Cancelled, Return, GoTo,
       verifVars, workerVars, fileVars, VerificationInv, VerificationRuns,
       Tasks, CallsTyped, VerificationTyped
  <1>13. ASSUME NEW c \in Calls, OpenCache(c) PROVE VerificationInv'
    BY <1>0, <1>13, HydratorAssumption DEF OpenCache, Return, GoTo,
       verifVars, queueVars, workerVars, fileVars, VerificationInv,
       VerificationRuns, Tasks, CallsTyped, VerificationTyped
  <1>14. ASSUME NEW c \in Calls, HashFile(c) PROVE VerificationInv'
    BY <1>0, <1>14, HydratorAssumption DEF HashFile, callVars, queueVars,
       workerVars, fileVars, VerificationInv, VerificationRuns, Tasks,
       CallsTyped, VerificationTyped
  <1>15. ASSUME NEW c \in Calls, FinishVerification(c) PROVE VerificationInv'
    <2>1. OidOf[c] \in Oids
      BY HydratorAssumption DEF Tasks
    <2>2. /\ vresult' = [d \in Calls |->
                           IF d \in verifying[OidOf[c]] THEN verif[c] ELSE vresult[d]]
          /\ verifying' = [verifying EXCEPT ![OidOf[c]] = {}]
          /\ verif' = [verif EXCEPT ![c] = "none"]
          /\ verif[c] \in {"ok", "bad", "err"}
          /\ UNCHANGED pc
      BY <1>15 DEF FinishVerification, VerifiedBy
    <2>3. /\ \A o \in Oids : \A d \in verifying'[o] :
                d \in verifying[o] /\ OidOf[d] = o /\ pc'[d] = "verify"
          /\ \A d \in Calls : pc'[d] \in {"idle", "stat", "gate"} => vresult'[d] = "none"
      BY <1>0, <2>1, <2>2 DEF VerificationInv, VerificationTyped, CallsTyped
    <2>4. \A d \in Calls : pc'[d] = "verify" =>
             d \in verifying'[OidOf[d]] \/ vresult'[d] # "none"
      <3>. SUFFICES ASSUME NEW d \in Calls, pc[d] = "verify"
                    PROVE  d \in verifying'[OidOf[d]] \/ vresult'[d] # "none"
        BY <2>2
      <3>1. OidOf[d] \in Oids
        BY HydratorAssumption DEF Tasks
      <3>2. CASE d \in verifying[OidOf[c]]
        BY <2>2, <3>2
      <3>3. CASE d \notin verifying[OidOf[c]]
        BY <1>0, <2>2, <3>1, <3>3 DEF VerificationInv, VerificationRuns, VerificationTyped
      <3>. QED
        BY <3>2, <3>3
    <2>5. \A o \in Oids : \A d \in verifying'[o] : vresult'[d] = "none"
      <3>. SUFFICES ASSUME NEW o \in Oids, NEW d \in verifying'[o]
                    PROVE  vresult'[d] = "none"
        OBVIOUS
      <3>1. o # OidOf[c] /\ d \in verifying[o] /\ OidOf[d] = o
        BY <1>0, <2>1, <2>2, <2>3 DEF VerificationTyped
      <3>2. d \notin verifying[OidOf[c]]
        BY <2>1, <3>1 DEF VerificationInv
      <3>3. d \in Calls /\ vresult[d] = "none"
        BY <1>0, <3>1 DEF VerificationInv, VerificationRuns, VerificationTyped
      <3>. QED
        BY <2>2, <3>2, <3>3
    <2>6. ASSUME NEW o \in Oids, verifying'[o] # {}
          PROVE  \E d \in Calls : OidOf[d] = o /\ verif'[d] # "none"
      <3>1. o # OidOf[c] /\ verifying[o] # {}
        BY <1>0, <2>2, <2>6 DEF VerificationTyped
      <3>2. PICK d \in Calls : OidOf[d] = o /\ verif[d] # "none"
        BY <3>1 DEF VerificationInv, VerificationRuns
      <3>3. verif'[d] = verif[d]
        BY <1>0, <2>2, <3>1, <3>2 DEF VerificationTyped
      <3>. QED
        BY <3>2, <3>3
    <2>. QED
      BY <2>3, <2>4, <2>5, <2>6 DEF VerificationInv, VerificationRuns
  <1>16. CASE CloseAll
    BY <1>0, <1>16, HydratorAssumption DEF CloseAll, Closed, workerVars,
       fileVars, VerificationInv, VerificationRuns, Tasks, CallsTyped,
       VerificationTyped
  <1>17. ASSUME NEW p \in Prefetches, Enqueue(p) \/ SignalPrefetch(p)
         PROVE  VerificationInv'
    <2>1. UNCHANGED <<pc, verifying, vresult, verif>>
      BY <1>17 DEF Enqueue, SignalPrefetch, callVars, fileVars, queueVars,
         verifVars, workerVars
    <2>. QED
      BY <2>1 DEF VerificationInv, VerificationRuns, Tasks
  <1>18. ASSUME NEW w \in Workers, Wake(w) \/ WorkerExit(w) \/
              QueueDrained(w) \/ PopTask(w) \/ RenameTmp(w) \/
              MarkVerified(w) \/ Notify(w) \/ Resignal(w) \/ FetchRefused(w)
              \/ RequestFails(w) \/ CreateTmp(w) \/ CopyBlob(w) \/
              FetchFails(w)
         PROVE  VerificationInv'
    <2>1. UNCHANGED <<pc, verifying, vresult, verif>>
      BY <1>18 DEF Wake, WorkerExit, QueueDrained, PopTask, RenameTmp,
         MarkVerified, Notify, Resignal, FetchRefused, RequestFails,
         CreateTmp, CopyBlob, FetchFails, callVars, fileVars, queueVars,
         verifVars
    <2>. QED
      BY <2>1 DEF VerificationInv, VerificationRuns, Tasks
  <1>19. ASSUME CloseStopCh \/ UNCHANGED vars
         PROVE  VerificationInv'
    <2>1. UNCHANGED <<pc, verifying, vresult, verif>>
      BY <1>19 DEF CloseStopCh, callVars, fileVars, queueVars, vars,
         verifVars, workerVars
    <2>. QED
      BY <2>1 DEF VerificationInv, VerificationRuns, Tasks
  <1>. QED
    BY <1>1, <1>2, <1>3, <1>4, <1>5, <1>6, <1>7, <1>8, <1>9, <1>10, <1>11,
       <1>12, <1>13, <1>14, <1>15, <1>16, <1>17, <1>18, <1>19 DEF Next,
       CallStep, CancelCall, VerifierStep, WorkerStep, GitAnswers

(* With the types, the inductive invariant of the shared verifications.     *)
LEMMA VerificationInvariant == Spec => []VerificationInv
  <1>1. Init => VerificationInv
    BY HydratorAssumption DEF Init, VerificationInv, VerificationRuns, Tasks
  <1>. QED
    BY <1>1, TypeCorrect, VerificationStep, PTL DEF Spec

(* Nobody waits for a verification that does not run.                       *)
THEOREM VerificationsRun == Spec => []VerificationRuns
  <1>1. VerificationInv => VerificationRuns
    BY DEF VerificationInv
  <1>. QED
    BY <1>1, VerificationInvariant, PTL

-----------------------------------------------------------------------------
(* Cache files.                                                             *)

(* A worker installs whole blobs, and what was found whole stays so.        *)
LEMMA FilesStep ==
  /\ OneFetchPerBlob /\ TypeOK /\ ChannelInv /\ VerificationInv /\ FilesInv
  /\ [Next]_vars
  => FilesInv'
  <1>. SUFFICES ASSUME OneFetchPerBlob, TypeOK, ChannelInv, VerificationInv, FilesInv,
                       [Next]_vars
                PROVE  FilesInv'
    OBVIOUS
  <1>0. CallsTyped /\ QueueTyped /\ VerificationTyped /\ WorkersTyped /\ FilesTyped
    BY DEF TypeOK
  <1>1. ASSUME NEW c \in Calls, StartCall(c) PROVE FilesInv'
    <2>1. AnswersWholeInv'
      BY <1>0, <1>1 DEF StartCall, GoTo, verifVars, queueVars, workerVars,
         fileVars, FilesInv, AnswersWholeInv, Whole, CallsTyped
    <2>2. WorkerFilesInv' /\ VerifiedIsWhole' /\ NoDamagedRead'
      BY <1>1 DEF StartCall, GoTo, verifVars, queueVars, workerVars,
         fileVars, FilesInv, WorkerFilesInv, VerifiedIsWhole, NoDamagedRead,
         Whole, Oid
    <2>. QED
      BY <2>1, <2>2 DEF FilesInv
  <1>2. ASSUME NEW c \in Calls, StatCache(c) PROVE FilesInv'
    <2>1. OidOf[c] \in Oids
      BY HydratorAssumption DEF Tasks
    <2>2. AnswersWholeInv'
      BY <1>0, <1>2, <2>1 DEF StatCache, GoTo, verifVars, queueVars,
         workerVars, fileVars, FilesInv, AnswersWholeInv, Whole, CallsTyped
    <2>3. WorkerFilesInv' /\ VerifiedIsWhole' /\ NoDamagedRead'
      BY <1>2 DEF StatCache, GoTo, verifVars, queueVars, workerVars,
         fileVars, FilesInv, WorkerFilesInv, VerifiedIsWhole, NoDamagedRead,
         Whole, Oid
    <2>. QED
      BY <2>2, <2>3 DEF FilesInv
  <1>3. ASSUME NEW c \in Calls, DiscardFile(c) PROVE FilesInv'
    <2>1. OidOf[c] \in Oids
      BY HydratorAssumption DEF Tasks
    <2>2. WorkerFilesInv'
      BY <1>0, <1>3, <2>1, HydratorAssumption DEF DiscardFile, GoTo,
         FdAfterUnlinkDst, verifVars, queueVars, workerVars, FilesInv,
         WorkerFilesInv, Whole, Oid, Tasks, FilesTyped
    <2>3. AnswersWholeInv'
      BY <1>0, <1>3, <2>1, HydratorAssumption DEF DiscardFile, GoTo,
         FdAfterUnlinkDst, verifVars, queueVars, workerVars, FilesInv,
         AnswersWholeInv, Whole, Tasks, CallsTyped, FilesTyped
    <2>4. VerifiedIsWhole'
      BY <1>0, <1>3, <2>1, HydratorAssumption DEF DiscardFile, GoTo,
         FdAfterUnlinkDst, verifVars, queueVars, workerVars, FilesInv,
         VerifiedIsWhole, Tasks, FilesTyped
    <2>5. NoDamagedRead'
      BY <1>3 DEF DiscardFile, GoTo, FdAfterUnlinkDst, verifVars, queueVars,
         workerVars, FilesInv, NoDamagedRead
    <2>. QED
      BY <2>2, <2>3, <2>4, <2>5 DEF FilesInv
  <1>4. ASSUME NEW c \in Calls, ClearVerified(c) PROVE FilesInv'
    <2>1. OidOf[c] \in Oids
      BY HydratorAssumption DEF Tasks
    <2>2. AnswersWholeInv'
      BY <1>0, <1>4, <2>1 DEF ClearVerified, GoTo, verifVars, queueVars,
         workerVars, fileVars, FilesInv, AnswersWholeInv, Whole, CallsTyped
    <2>3. VerifiedIsWhole'
      BY <1>0, <1>4, <2>1 DEF ClearVerified, GoTo, verifVars, queueVars,
         workerVars, fileVars, FilesInv, VerifiedIsWhole, VerificationTyped
    <2>4. WorkerFilesInv' /\ NoDamagedRead'
      BY <1>4 DEF ClearVerified, GoTo, verifVars, queueVars, workerVars,
         fileVars, FilesInv, WorkerFilesInv, NoDamagedRead, Whole, Oid
    <2>. QED
      BY <2>2, <2>3, <2>4 DEF FilesInv
  <1>5. ASSUME NEW c \in Calls, VerifyBlobOnce(c) PROVE FilesInv'
    <2>1. OidOf[c] \in Oids
      BY HydratorAssumption DEF Tasks
    <2>2. /\ pc' = [pc EXCEPT ![c] = IF OidOf[c] \in verified THEN "open" ELSE "verify"]
          /\ verif' = verif \/ verif' = [verif EXCEPT ![c] = "hash"]
          /\ UNCHANGED <<outcome, vresult, result, verified, wpc, job, held, wres,
                         fd, clean, tmp, cache>>
      BY <1>5 DEF VerifyBlobOnce, GoTo, verifVars, queueVars, workerVars, fileVars
    <2>3. WorkerFilesInv'
      BY <2>2 DEF FilesInv, WorkerFilesInv, Whole, Oid
    <2>4. AnswersWholeInv'
      BY <1>0, <2>1, <2>2 DEF FilesInv, AnswersWholeInv, VerifiedIsWhole, Whole,
         CallsTyped, VerificationTyped
    <2>5. VerifiedIsWhole' /\ NoDamagedRead'
      BY <2>2 DEF FilesInv, VerifiedIsWhole, NoDamagedRead
    <2>. QED
      BY <2>3, <2>4, <2>5 DEF FilesInv
  <1>6. ASSUME NEW c \in Calls, VerificationAnswered(c) PROVE FilesInv'
    <2>1. AnswersWholeInv'
      BY <1>0, <1>6 DEF VerificationAnswered, AfterVerification, GoTo,
         verifVars, queueVars, workerVars, fileVars, FilesInv,
         AnswersWholeInv, Whole, CallsTyped
    <2>2. WorkerFilesInv' /\ VerifiedIsWhole' /\ NoDamagedRead'
      BY <1>6 DEF VerificationAnswered, AfterVerification, GoTo, verifVars,
         queueVars, workerVars, fileVars, FilesInv, WorkerFilesInv,
         VerifiedIsWhole, NoDamagedRead, Whole, Oid
    <2>. QED
      BY <2>1, <2>2 DEF FilesInv
  <1>7. ASSUME NEW c \in Calls, VerificationCancelled(c) PROVE FilesInv'
    <2>1. OidOf[c] \in Oids
      BY HydratorAssumption DEF Tasks
    <2>2. AnswersWholeInv'
      BY <1>0, <1>7, <2>1 DEF VerificationCancelled, Return, GoTo,
         queueVars, workerVars, fileVars, FilesInv, AnswersWholeInv, Whole,
         CallsTyped
    <2>3. NoDamagedRead'
      BY <1>0, <1>7, <2>1 DEF VerificationCancelled, Return, GoTo,
         queueVars, workerVars, fileVars, FilesInv, NoDamagedRead,
         CallsTyped
    <2>4. WorkerFilesInv' /\ VerifiedIsWhole'
      BY <1>7 DEF VerificationCancelled, Return, GoTo, queueVars,
         workerVars, fileVars, FilesInv, WorkerFilesInv, VerifiedIsWhole,
         Whole, Oid
    <2>. QED
      BY <2>2, <2>3, <2>4 DEF FilesInv
  <1>8. ASSUME NEW c \in Calls, Enlist(c) PROVE FilesInv'
    <2>1. OidOf[c] \in Oids
      BY HydratorAssumption DEF Tasks
    <2>2. AnswersWholeInv'
      BY <1>0, <1>8, <2>1 DEF Enlist, GoTo, verifVars, workerVars, fileVars,
         FilesInv, AnswersWholeInv, Whole, CallsTyped
    <2>3. WorkerFilesInv' /\ VerifiedIsWhole' /\ NoDamagedRead'
      BY <1>8 DEF Enlist, GoTo, verifVars, workerVars, fileVars, FilesInv,
         WorkerFilesInv, VerifiedIsWhole, NoDamagedRead, Whole, Oid
    <2>. QED
      BY <2>2, <2>3 DEF FilesInv
  <1>9. ASSUME NEW c \in Calls, SignalWork(c) PROVE FilesInv'
    <2>1. AnswersWholeInv'
      BY <1>0, <1>9 DEF SignalWork, GoTo, verifVars, queueVars, workerVars,
         fileVars, FilesInv, AnswersWholeInv, Whole, CallsTyped
    <2>2. WorkerFilesInv' /\ VerifiedIsWhole' /\ NoDamagedRead'
      BY <1>9 DEF SignalWork, GoTo, verifVars, queueVars, workerVars,
         fileVars, FilesInv, WorkerFilesInv, VerifiedIsWhole, NoDamagedRead,
         Whole, Oid
    <2>. QED
      BY <2>1, <2>2 DEF FilesInv
  <1>10. ASSUME NEW c \in Calls, ReadPastCache(c) \/ CallFails(c) PROVE FilesInv'
    <2>1. AnswersWholeInv'
      BY <1>0, <1>10 DEF ReadPastCache, CallFails, Return, GoTo, verifVars, queueVars,
         workerVars, fileVars, FilesInv, AnswersWholeInv, Whole, CallsTyped
    <2>2. NoDamagedRead'
      BY <1>0, <1>10 DEF ReadPastCache, CallFails, Return, GoTo, verifVars, queueVars,
         workerVars, fileVars, FilesInv, NoDamagedRead, CallsTyped
    <2>3. WorkerFilesInv' /\ VerifiedIsWhole'
      BY <1>10 DEF ReadPastCache, CallFails, Return, GoTo, verifVars, queueVars,
         workerVars, fileVars, FilesInv, WorkerFilesInv, VerifiedIsWhole,
         Whole, Oid
    <2>. QED
      BY <2>1, <2>2, <2>3 DEF FilesInv
  <1>11. ASSUME NEW c \in Calls, Answered(c) PROVE FilesInv'
    <2>1. AnswersWholeInv'
      BY <1>0, <1>11 DEF Answered, GoTo, Return, verifVars, queueVars,
         workerVars, fileVars, FilesInv, AnswersWholeInv, Whole, CallsTyped
    <2>2. NoDamagedRead'
      BY <1>0, <1>11 DEF Answered, GoTo, Return, verifVars, queueVars,
         workerVars, fileVars, FilesInv, NoDamagedRead, CallsTyped
    <2>3. WorkerFilesInv' /\ VerifiedIsWhole'
      BY <1>11 DEF Answered, GoTo, Return, verifVars, queueVars, workerVars,
         fileVars, FilesInv, WorkerFilesInv, VerifiedIsWhole, Whole, Oid
    <2>. QED
      BY <2>1, <2>2, <2>3 DEF FilesInv
  <1>12. ASSUME NEW c \in Calls, Cancelled(c) PROVE FilesInv'
    <2>1. OidOf[c] \in Oids
      BY HydratorAssumption DEF Tasks
    <2>2. AnswersWholeInv'
      BY <1>0, <1>12, <2>1 DEF Cancelled, Return, GoTo, verifVars,
         workerVars, fileVars, FilesInv, AnswersWholeInv, Whole, CallsTyped
    <2>3. NoDamagedRead'
      BY <1>0, <1>12, <2>1 DEF Cancelled, Return, GoTo, verifVars,
         workerVars, fileVars, FilesInv, NoDamagedRead, CallsTyped
    <2>4. WorkerFilesInv' /\ VerifiedIsWhole'
      BY <1>12 DEF Cancelled, Return, GoTo, verifVars, workerVars, fileVars,
         FilesInv, WorkerFilesInv, VerifiedIsWhole, Whole, Oid
    <2>. QED
      BY <2>2, <2>3, <2>4 DEF FilesInv
  <1>13. ASSUME NEW c \in Calls, OpenCache(c) PROVE FilesInv'
    <2>1. OidOf[c] \in Oids
      BY HydratorAssumption DEF Tasks
    <2>2. AnswersWholeInv'
      BY <1>0, <1>13, <2>1 DEF OpenCache, Return, GoTo, verifVars, queueVars,
         workerVars, fileVars, FilesInv, AnswersWholeInv, Whole, CallsTyped
    <2>3. NoDamagedRead'
      BY <1>0, <1>13, <2>1 DEF OpenCache, Return, GoTo, verifVars, queueVars,
         workerVars, fileVars, FilesInv, NoDamagedRead, AnswersWholeInv,
         Whole, CallsTyped
    <2>4. WorkerFilesInv' /\ VerifiedIsWhole'
      BY <1>13 DEF OpenCache, Return, GoTo, verifVars, queueVars, workerVars,
         fileVars, FilesInv, WorkerFilesInv, VerifiedIsWhole, Whole, Oid
    <2>. QED
      BY <2>2, <2>3, <2>4 DEF FilesInv
  <1>14. ASSUME NEW c \in Calls, HashFile(c) PROVE FilesInv'
    <2>1. OidOf[c] \in Oids
      BY HydratorAssumption DEF Tasks
    <2>2. AnswersWholeInv'
      BY <1>0, <1>14, <2>1, HydratorAssumption DEF HashFile, callVars,
         queueVars, workerVars, fileVars, FilesInv, AnswersWholeInv, Whole,
         Tasks, VerificationTyped
    <2>3. WorkerFilesInv' /\ VerifiedIsWhole' /\ NoDamagedRead'
      BY <1>14 DEF HashFile, callVars, queueVars, workerVars, fileVars,
         FilesInv, WorkerFilesInv, VerifiedIsWhole, NoDamagedRead, Whole,
         Oid
    <2>. QED
      BY <2>2, <2>3 DEF FilesInv
  <1>15. ASSUME NEW c \in Calls, FinishVerification(c) PROVE FilesInv'
    <2>1. OidOf[c] \in Oids
      BY HydratorAssumption DEF Tasks
    <2>2. /\ vresult' = [d \in Calls |->
                           IF d \in verifying[OidOf[c]] THEN verif[c] ELSE vresult[d]]
          /\ verif' = [verif EXCEPT ![c] = "none"]
          /\ verified' = IF verif[c] = "ok" THEN verified \cup {OidOf[c]} ELSE verified
          /\ UNCHANGED <<pc, outcome, result, wpc, job, held, wres,
                         fd, clean, tmp, cache>>
      BY <1>15 DEF FinishVerification, VerifiedBy, queueVars, workerVars, fileVars
    <2>3. WorkerFilesInv'
      BY <2>2 DEF FilesInv, WorkerFilesInv, Whole, Oid
    <2>4. AnswersWholeInv'
      <3>. SUFFICES ASSUME NEW d \in Calls,
                           \/ verif'[d] = "ok" \/ vresult'[d] = "ok"
                           \/ result'[d] = "ok" \/ pc'[d] = "open"
                    PROVE  Whole(OidOf[d])
        BY <2>2 DEF AnswersWholeInv, Whole
      <3>1. CASE d \in verifying[OidOf[c]] /\ verif[c] = "ok"
        BY <2>1, <3>1 DEF VerificationInv, FilesInv, AnswersWholeInv
      <3>2. CASE ~(d \in verifying[OidOf[c]] /\ verif[c] = "ok")
        <4>1. \/ verif[d] = "ok" \/ vresult[d] = "ok"
              \/ result[d] = "ok" \/ pc[d] = "open"
          BY <1>0, <2>2, <3>2 DEF VerificationTyped
        <4>. QED
          BY <4>1 DEF FilesInv, AnswersWholeInv
      <3>. QED
        BY <3>1, <3>2
    <2>5. VerifiedIsWhole' /\ NoDamagedRead'
      BY <2>2 DEF FilesInv, AnswersWholeInv, Whole, VerifiedIsWhole, NoDamagedRead
    <2>. QED
      BY <2>3, <2>4, <2>5 DEF FilesInv
  <1>16. ASSUME NEW w \in Workers, Wake(w) PROVE FilesInv'
    <2>1. WorkerFilesInv'
      BY <1>0, <1>16 DEF Wake, WorkerTo, callVars, verifVars, queueVars,
         fileVars, FilesInv, WorkerFilesInv, Whole, Oid, OneFetchPerBlob,
         WorkersTyped
    <2>2. AnswersWholeInv' /\ VerifiedIsWhole' /\ NoDamagedRead'
      BY <1>16 DEF Wake, WorkerTo, callVars, verifVars, queueVars, fileVars,
         FilesInv, AnswersWholeInv, VerifiedIsWhole, NoDamagedRead, Whole
    <2>. QED
      BY <2>1, <2>2 DEF FilesInv
  <1>17. ASSUME NEW w \in Workers, WorkerExit(w) PROVE FilesInv'
    <2>1. WorkerFilesInv'
      BY <1>0, <1>17 DEF WorkerExit, WorkerTo, callVars, verifVars,
         queueVars, fileVars, FilesInv, WorkerFilesInv, Whole, Oid,
         OneFetchPerBlob, WorkersTyped
    <2>2. AnswersWholeInv' /\ VerifiedIsWhole' /\ NoDamagedRead'
      BY <1>17 DEF WorkerExit, WorkerTo, callVars, verifVars, queueVars,
         fileVars, FilesInv, AnswersWholeInv, VerifiedIsWhole,
         NoDamagedRead, Whole
    <2>. QED
      BY <2>1, <2>2 DEF FilesInv
  <1>18. ASSUME NEW w \in Workers, QueueDrained(w) PROVE FilesInv'
    <2>1. WorkerFilesInv'
      BY <1>0, <1>18 DEF QueueDrained, WorkerTo, callVars, verifVars,
         queueVars, fileVars, FilesInv, WorkerFilesInv, Whole, Oid,
         OneFetchPerBlob, WorkersTyped
    <2>2. AnswersWholeInv' /\ VerifiedIsWhole' /\ NoDamagedRead'
      BY <1>18 DEF QueueDrained, WorkerTo, callVars, verifVars, queueVars,
         fileVars, FilesInv, AnswersWholeInv, VerifiedIsWhole,
         NoDamagedRead, Whole
    <2>. QED
      BY <2>1, <2>2 DEF FilesInv
  <1>19. ASSUME NEW w \in Workers, PopTask(w) PROVE FilesInv'
    <2>1. WorkerFilesInv'
      BY <1>0, <1>19, HydratorAssumption DEF PopTask, Taken, WorkerTo,
         Foremost, callVars, verifVars, fileVars, FilesInv, WorkerFilesInv,
         Whole, Oid, OneFetchPerBlob, ChannelInv, QueueTyped, Tasks,
         WorkersTyped, FilesTyped
    <2>2. AnswersWholeInv' /\ VerifiedIsWhole' /\ NoDamagedRead'
      BY <1>19 DEF PopTask, Taken, WorkerTo, Foremost, callVars, verifVars,
         fileVars, FilesInv, AnswersWholeInv, VerifiedIsWhole,
         NoDamagedRead, Whole
    <2>. QED
      BY <2>1, <2>2 DEF FilesInv
  <1>20. ASSUME NEW w \in Workers, RenameTmp(w) PROVE FilesInv'
    <2>0. job[w] \in Tasks /\ Oid(w) \in Oids
      BY <1>0, <1>20, HydratorAssumption DEF RenameTmp, WorkersTyped, Oid
    <2>1. \A v \in Workers : job[v] # NoTask /\ Oid(v) = Oid(w) => v = w
      BY <2>0, HydratorAssumption DEF OneFetchPerBlob
    <2>2. /\ wpc[w] = "rename"
          /\ tmp[Oid(w)] = "good"
          /\ cache' = [cache EXCEPT ![Oid(w)] = "good"]
          /\ wpc' = [wpc EXCEPT ![w] = "mark"]
          /\ UNCHANGED <<pc, outcome, vresult, result, verif, verified, job, held,
                         wres, clean>>
      BY <1>20 DEF RenameTmp, WorkerTo, FilesInv, WorkerFilesInv, callVars, verifVars
    <2>3. fd' = fd
      <3>1. \A v \in Workers : Fetching(v, Oid(w)) => fd[v] = "none"
        BY <2>1, <2>2 DEF FilesInv, WorkerFilesInv, Fetching, Oid
      <3>2. fd' = FdAfterRename(Oid(w))
        BY <1>20 DEF RenameTmp
      <3>3. \A v \in Workers : FdAfterRename(Oid(w))[v] = fd[v]
        BY <3>1 DEF FdAfterRename
      <3>. QED
        BY <1>0, <3>2, <3>3 DEF FilesTyped, FdAfterRename
    <2>4. WorkerFilesInv'
      <3>. SUFFICES ASSUME NEW v \in Workers
                    PROVE  /\ IF wpc'[v] = "copy" THEN fd'[v] = "tmp" /\ clean'[v]
                              ELSE fd'[v] = "none"
                           /\ wpc'[v] = "rename" => tmp'[Oid(v)'] = "good"
                           /\ wpc'[v] = "mark" => Whole(Oid(v))'
                           /\ wpc'[v] = "notify" /\ wres'[v] = "ok" => Whole(Oid(v))'
                           /\ \A c \in held'[v] : OidOf[c] = Oid(v)'
        BY DEF WorkerFilesInv
      <3>1. Oid(v)' = Oid(v)
        BY <2>2 DEF Oid
      <3>2. CASE v = w
        BY <1>0, <2>0, <2>2, <2>3, <3>1, <3>2
           DEF FilesInv, WorkerFilesInv, Whole, WorkersTyped, FilesTyped
      <3>3. CASE v # w
        <4>1. wpc'[v] = wpc[v]
          BY <1>0, <2>2, <3>3 DEF WorkersTyped
        <4>2. wpc[v] \in {"rename", "mark", "notify"} =>
                 job[v] # NoTask /\ Oid(v) \in Oids /\ Oid(v) # Oid(w)
          BY <1>0, <2>1, <3>3, HydratorAssumption DEF WorkersTyped, Oid
        <4>3. tmp' = [tmp EXCEPT ![Oid(w)] = "absent"]
          BY <1>20 DEF RenameTmp
        <4>. QED
          BY <1>0, <2>0, <2>2, <2>3, <3>1, <4>1, <4>2, <4>3
             DEF FilesInv, WorkerFilesInv, Whole, WorkersTyped, FilesTyped
      <3>. QED
        BY <3>2, <3>3
    <2>5. \A o \in Oids : Whole(o) => cache'[o] \in {"good", "absent"}
      BY <1>0, <2>0, <2>2 DEF Whole, FilesTyped
    <2>6. AnswersWholeInv'
      BY <2>2, <2>5, HydratorAssumption DEF FilesInv, AnswersWholeInv, Whole, Tasks
    <2>7. VerifiedIsWhole' /\ NoDamagedRead'
      BY <1>0, <2>2, <2>5
         DEF FilesInv, VerifiedIsWhole, NoDamagedRead, Whole, VerificationTyped
    <2>. QED
      BY <2>4, <2>6, <2>7 DEF FilesInv
  <1>21. ASSUME NEW w \in Workers, MarkVerified(w) PROVE FilesInv'
    <2>0. job[w] \in Tasks /\ Oid(w) \in Oids
      BY <1>0, <1>21, HydratorAssumption DEF MarkVerified, WorkersTyped, Oid
    <2>1. /\ wpc[w] = "mark"
          /\ wpc' = [wpc EXCEPT ![w] = "notify"]
          /\ wres' = [wres EXCEPT ![w] = "ok"]
          /\ verified' = verified \cup {Oid(w)}
          /\ UNCHANGED <<pc, outcome, vresult, result, verif, job, held,
                         fd, clean, tmp, cache>>
      BY <1>21 DEF MarkVerified, WorkerTo, callVars, verifVars, fileVars
    <2>2. WorkerFilesInv'
      BY <1>0, <2>0, <2>1 DEF FilesInv, WorkerFilesInv, Whole, Oid, WorkersTyped
    <2>3. AnswersWholeInv'
      BY <2>1 DEF FilesInv, AnswersWholeInv, Whole
    <2>4. VerifiedIsWhole' /\ NoDamagedRead'
      BY <2>1 DEF FilesInv, WorkerFilesInv, VerifiedIsWhole, NoDamagedRead, Whole
    <2>. QED
      BY <2>2, <2>3, <2>4 DEF FilesInv
  <1>22. ASSUME NEW w \in Workers, Notify(w) PROVE FilesInv'
    <2>1. job[w] \in Tasks /\ Oid(w) \in Oids
      BY <1>0, <1>22, HydratorAssumption DEF Notify, WorkersTyped, Oid
    <2>2. WorkerFilesInv'
      BY <1>0, <1>22, <2>1 DEF Notify, Sent, WorkerTo, verifVars, queueVars,
         fileVars, FilesInv, WorkerFilesInv, Whole, Oid, OneFetchPerBlob,
         WorkersTyped
    <2>3. AnswersWholeInv'
      BY <1>0, <1>22, <2>1 DEF Notify, Sent, WorkerTo, verifVars, queueVars,
         fileVars, FilesInv, AnswersWholeInv, Whole, WorkerFilesInv,
         CallsTyped
    <2>4. VerifiedIsWhole' /\ NoDamagedRead'
      BY <1>22 DEF Notify, Sent, WorkerTo, verifVars, queueVars, fileVars,
         FilesInv, VerifiedIsWhole, NoDamagedRead
    <2>. QED
      BY <2>2, <2>3, <2>4 DEF FilesInv
  <1>23. ASSUME NEW w \in Workers, Resignal(w) PROVE FilesInv'
    <2>1. WorkerFilesInv'
      BY <1>0, <1>23 DEF Resignal, WorkerTo, callVars, verifVars, queueVars,
         fileVars, FilesInv, WorkerFilesInv, Whole, Oid, OneFetchPerBlob,
         WorkersTyped
    <2>2. AnswersWholeInv' /\ VerifiedIsWhole' /\ NoDamagedRead'
      BY <1>23 DEF Resignal, WorkerTo, callVars, verifVars, queueVars,
         fileVars, FilesInv, AnswersWholeInv, VerifiedIsWhole,
         NoDamagedRead, Whole
    <2>. QED
      BY <2>1, <2>2 DEF FilesInv
  <1>24. ASSUME NEW w \in Workers, FetchRefused(w) PROVE FilesInv'
    <2>1. WorkerFilesInv'
      BY <1>0, <1>24 DEF FetchRefused, WorkerTo, callVars, verifVars,
         queueVars, fileVars, FilesInv, WorkerFilesInv, Whole, Oid,
         OneFetchPerBlob, WorkersTyped
    <2>2. AnswersWholeInv' /\ VerifiedIsWhole' /\ NoDamagedRead'
      BY <1>24 DEF FetchRefused, WorkerTo, callVars, verifVars, queueVars,
         fileVars, FilesInv, AnswersWholeInv, VerifiedIsWhole,
         NoDamagedRead, Whole
    <2>. QED
      BY <2>1, <2>2 DEF FilesInv
  <1>25. ASSUME NEW w \in Workers, RequestFails(w) PROVE FilesInv'
    <2>1. WorkerFilesInv'
      BY <1>0, <1>25 DEF RequestFails, RetryOrFail, WorkerTo, callVars,
         verifVars, queueVars, fileVars, FilesInv, WorkerFilesInv, Whole,
         Oid, OneFetchPerBlob, WorkersTyped
    <2>2. AnswersWholeInv' /\ VerifiedIsWhole' /\ NoDamagedRead'
      BY <1>25 DEF RequestFails, RetryOrFail, WorkerTo, callVars, verifVars,
         queueVars, fileVars, FilesInv, AnswersWholeInv, VerifiedIsWhole,
         NoDamagedRead, Whole
    <2>. QED
      BY <2>1, <2>2 DEF FilesInv
  <1>26. ASSUME NEW w \in Workers, CreateTmp(w) PROVE FilesInv'
    <2>1. job[w] \in Tasks /\ Oid(w) \in Oids
      BY <1>0, <1>26, HydratorAssumption DEF CreateTmp, WorkersTyped, Oid
    <2>2. WorkerFilesInv'
      BY <1>0, <1>26, <2>1 DEF CreateTmp, WorkerTo, Oid, Fetching, callVars,
         verifVars, queueVars, FilesInv, WorkerFilesInv, Whole,
         OneFetchPerBlob, WorkersTyped, FilesTyped
    <2>3. AnswersWholeInv' /\ VerifiedIsWhole' /\ NoDamagedRead'
      BY <1>26 DEF CreateTmp, WorkerTo, Oid, Fetching, callVars, verifVars,
         queueVars, FilesInv, AnswersWholeInv, VerifiedIsWhole,
         NoDamagedRead, Whole
    <2>. QED
      BY <2>2, <2>3 DEF FilesInv
  <1>27. ASSUME NEW w \in Workers, CopyBlob(w) PROVE FilesInv'
    <2>0. job[w] \in Tasks /\ Oid(w) \in Oids
      BY <1>0, <1>27, HydratorAssumption DEF CopyBlob, WorkersTyped, Oid
    <2>1. \A v \in Workers : job[v] # NoTask /\ Oid(v) = Oid(w) => v = w
      BY <2>0, HydratorAssumption DEF OneFetchPerBlob
    <2>2. /\ wpc[w] = "copy"
          /\ wpc' = [wpc EXCEPT ![w] = "rename"]
          /\ tmp' = [tmp EXCEPT ![Oid(w)] = "good"]
          /\ fd' = [fd EXCEPT ![w] = "none"]
          /\ UNCHANGED <<pc, outcome, vresult, result, verif, verified, job, held,
                         wres, cache>>
      BY <1>27 DEF CopyBlob, WorkerTo, Filled, FilesInv, WorkerFilesInv, callVars, verifVars
    <2>3. WorkerFilesInv'
      <3>. SUFFICES ASSUME NEW v \in Workers
                    PROVE  /\ IF wpc'[v] = "copy" THEN fd'[v] = "tmp" /\ clean'[v]
                              ELSE fd'[v] = "none"
                           /\ wpc'[v] = "rename" => tmp'[Oid(v)'] = "good"
                           /\ wpc'[v] = "mark" => Whole(Oid(v))'
                           /\ wpc'[v] = "notify" /\ wres'[v] = "ok" => Whole(Oid(v))'
                           /\ \A c \in held'[v] : OidOf[c] = Oid(v)'
        BY DEF WorkerFilesInv
      <3>1. Oid(v)' = Oid(v) /\ clean'[v] = (clean[v] \/ v = w)
        BY <1>0, <1>27, <2>2 DEF Oid, CopyBlob, FilesTyped
      <3>2. CASE v = w
        BY <1>0, <2>0, <2>2, <3>1, <3>2
           DEF FilesInv, WorkerFilesInv, Whole, WorkersTyped, FilesTyped
      <3>3. CASE v # w
        <4>1. wpc'[v] = wpc[v] /\ fd'[v] = fd[v]
          BY <1>0, <2>2, <3>3 DEF WorkersTyped, FilesTyped
        <4>2. wpc[v] = "rename" => job[v] # NoTask /\ Oid(v) \in Oids /\ Oid(v) # Oid(w)
          BY <1>0, <2>1, <3>3, HydratorAssumption DEF WorkersTyped, Oid
        <4>. QED
          BY <1>0, <2>0, <2>2, <3>1, <4>1, <4>2
             DEF FilesInv, WorkerFilesInv, Whole, FilesTyped
      <3>. QED
        BY <3>2, <3>3
    <2>4. AnswersWholeInv'
      BY <2>2 DEF FilesInv, AnswersWholeInv, Whole
    <2>5. VerifiedIsWhole' /\ NoDamagedRead'
      BY <2>2 DEF FilesInv, VerifiedIsWhole, NoDamagedRead
    <2>. QED
      BY <2>3, <2>4, <2>5 DEF FilesInv
  <1>28. ASSUME NEW w \in Workers, FetchFails(w) PROVE FilesInv'
    <2>1. job[w] \in Tasks /\ Oid(w) \in Oids
      BY <1>0, <1>28, HydratorAssumption DEF FetchFails, WorkersTyped, Oid
    <2>2. WorkerFilesInv'
      <3>. SUFFICES ASSUME NEW v \in Workers
                    PROVE  /\ IF wpc'[v] = "copy" THEN fd'[v] = "tmp" /\ clean'[v]
                              ELSE fd'[v] = "none"
                           /\ wpc'[v] = "rename" => tmp'[Oid(v)'] = "good"
                           /\ wpc'[v] = "mark" => Whole(Oid(v))'
                           /\ wpc'[v] = "notify" /\ wres'[v] = "ok" => Whole(Oid(v))'
                           /\ \A c \in held'[v] : OidOf[c] = Oid(v)'
        BY DEF WorkerFilesInv
      <3>1. /\ UNCHANGED <<job, held, cache>>
            /\ tmp' = [tmp EXCEPT ![Oid(w)] = "absent"]
            /\ clean' = [clean EXCEPT ![w] = TRUE]
            /\ fd' = [FdAfterUnlinkTmp(Oid(w)) EXCEPT ![w] = "none"]
            /\ wpc' \in {[wpc EXCEPT ![w] = "fetch"], [wpc EXCEPT ![w] = "notify"]}
            /\ wres' \in {wres, [wres EXCEPT ![w] = "error"]}
            /\ wpc'[w] = "notify" => wres'[w] = "error"
        BY <1>0, <1>28 DEF FetchFails, RetryOrFail, WorkerTo, WorkersTyped
      <3>2. Oid(v)' = Oid(v)
        BY <3>1 DEF Oid
      <3>3. CASE v = w
        BY <1>0, <2>1, <3>1, <3>2, <3>3
           DEF FdAfterUnlinkTmp, FilesInv, WorkerFilesInv, Whole, WorkersTyped, FilesTyped
      <3>4. CASE v # w
        <4>1. wpc'[v] = wpc[v] /\ wres'[v] = wres[v] /\ clean'[v] = clean[v]
          BY <1>0, <3>1, <3>4 DEF WorkersTyped, FilesTyped
        <4>2. wpc[v] \in {"copy", "rename"} => job[v] # NoTask /\ Oid(v) # Oid(w)
          BY <1>0, <2>1, <3>4, HydratorAssumption DEF WorkersTyped, OneFetchPerBlob
        <4>3. fd'[v] = fd[v]
          BY <3>1, <3>4, <4>2 DEF FdAfterUnlinkTmp, Fetching, Oid, FilesInv, WorkerFilesInv
        <4>4. tmp[Oid(v)] = "good" /\ wpc[v] = "rename" => tmp'[Oid(v)] = "good"
          BY <1>0, <2>1, <3>1, <4>2 DEF FilesTyped
        <4>. QED
          BY <3>1, <3>2, <4>1, <4>3, <4>4 DEF FilesInv, WorkerFilesInv, Whole
      <3>. QED
        BY <3>3, <3>4
    <2>3. AnswersWholeInv' /\ VerifiedIsWhole' /\ NoDamagedRead'
      BY <1>28 DEF FetchFails, RetryOrFail, FdAfterUnlinkTmp, Oid, WorkerTo,
         callVars, verifVars, queueVars, FilesInv, AnswersWholeInv,
         VerifiedIsWhole, NoDamagedRead, Whole
    <2>. QED
      BY <2>2, <2>3 DEF FilesInv
  <1>29. CASE CloseAll
    <2>1. AnswersWholeInv'
      BY <1>0, <1>29, HydratorAssumption DEF CloseAll, Closed, workerVars,
         fileVars, FilesInv, AnswersWholeInv, Whole, Tasks, CallsTyped
    <2>2. WorkerFilesInv' /\ VerifiedIsWhole' /\ NoDamagedRead'
      BY <1>29 DEF CloseAll, Closed, workerVars, fileVars, FilesInv,
         WorkerFilesInv, VerifiedIsWhole, NoDamagedRead, Whole, Oid
    <2>. QED
      BY <2>1, <2>2 DEF FilesInv
  <1>30. ASSUME NEW p \in Prefetches, Enqueue(p) \/ SignalPrefetch(p)
         PROVE  FilesInv'
    <2>1. UNCHANGED <<pc, outcome, vresult, result, verif, verified, wpc, job, held,
                      wres, fd, clean, tmp, cache>>
      BY <1>30 DEF Enqueue, SignalPrefetch, callVars, fileVars, queueVars,
         verifVars, workerVars
    <2>. QED
      BY <2>1 DEF FilesInv, WorkerFilesInv, AnswersWholeInv, Whole,
         VerifiedIsWhole, NoDamagedRead, OneFetchPerBlob, Oid, Tasks,
         Contents
  <1>31. ASSUME CloseStopCh \/ UNCHANGED vars
         PROVE  FilesInv'
    <2>1. UNCHANGED <<pc, outcome, vresult, result, verif, verified, wpc, job, held,
                      wres, fd, clean, tmp, cache>>
      BY <1>31 DEF CloseStopCh, callVars, fileVars, queueVars, vars,
         verifVars, workerVars
    <2>. QED
      BY <2>1 DEF FilesInv, WorkerFilesInv, AnswersWholeInv, Whole,
         VerifiedIsWhole, NoDamagedRead, OneFetchPerBlob, Oid, Tasks,
         Contents
  <1>. QED
    BY <1>1, <1>2, <1>3, <1>4, <1>5, <1>6, <1>7, <1>8, <1>9, <1>10, <1>11,
       <1>12, <1>13, <1>14, <1>15, <1>16, <1>17, <1>18, <1>19, <1>20, <1>21,
       <1>22, <1>23, <1>24, <1>25, <1>26, <1>27, <1>28, <1>29, <1>30, <1>31
       DEF Next, CallStep, CancelCall, VerifierStep, WorkerStep, GitAnswers

(* With the other invariants, the inductive invariant of the cache files.   *)
LEMMA FilesInvariant == Spec /\ []OneFetchPerBlob => []FilesInv
  <1>1. Init => FilesInv
    BY HydratorAssumption
       DEF Init, FilesInv, WorkerFilesInv, AnswersWholeInv, VerifiedIsWhole, NoDamagedRead
  <1>. QED
    BY <1>1, FilesStep, TypeCorrect, ChannelInvariant, VerificationInvariant, PTL DEF Spec

(* A hydrator never treats a damaged file as verified ...                   *)
THEOREM VerifiesWhole == Spec /\ []OneFetchPerBlob => []VerifiedIsWhole
  <1>1. FilesInv => VerifiedIsWhole
    BY DEF FilesInv
  <1>. QED
    BY <1>1, FilesInvariant, PTL

(* ... and never lets a caller read one, whatever the cache directory held  *)
(* when the process started, while no two workers fetch one blob at a time. *)
THEOREM ServesWhole == Spec /\ []OneFetchPerBlob => []NoDamagedRead
  <1>1. FilesInv => NoDamagedRead
    BY DEF FilesInv
  <1>. QED
    BY <1>1, FilesInvariant, PTL

(* From such a state a step changes a cache file only by removing it or by  *)
(* installing the whole blob (FetchInstallsWhole).                          *)
LEMMA InstallStep ==
  TypeOK /\ FilesInv /\ [Next]_vars =>
    \A o \in Oids : cache'[o] \in {cache[o], "absent", "good"}
  <1>. SUFFICES ASSUME TypeOK, FilesInv, [Next]_vars,
                       NEW o \in Oids
                PROVE  cache'[o] \in {cache[o], "absent", "good"}
    OBVIOUS
  <1>0. FilesTyped
    BY DEF TypeOK
  <1>1. ASSUME NEW c \in Calls, DiscardFile(c)
        PROVE  cache'[o] \in {cache[o], "absent", "good"}
    BY <1>0, <1>1 DEF DiscardFile, FilesTyped
  <1>2. ASSUME NEW w \in Workers, RenameTmp(w)
        PROVE  cache'[o] \in {cache[o], "absent", "good"}
    BY <1>0, <1>2 DEF RenameTmp, FilesInv, WorkerFilesInv, FilesTyped
  <1>3. ASSUME NEW w \in Workers, CopyBlob(w)
        PROVE  cache'[o] \in {cache[o], "absent", "good"}
    <2>1. fd[w] = "tmp"
      BY <1>3 DEF CopyBlob, FilesInv, WorkerFilesInv
    <2>. QED
      BY <1>3, <2>1 DEF CopyBlob
  <1>4. ASSUME UNCHANGED cache
        PROVE  cache'[o] \in {cache[o], "absent", "good"}
    BY <1>4
  <1>5. ASSUME NEW c \in Calls,
               StartCall(c) \/ CallStep(c) \/ CancelCall(c) \/ VerifierStep(c),
               ~ DiscardFile(c)
        PROVE  UNCHANGED cache
    BY <1>5 DEF CallStep, CancelCall, VerifierStep, StartCall, StatCache,
       ClearVerified, VerifyBlobOnce, VerificationAnswered,
       VerificationCancelled, Enlist, SignalWork, ReadPastCache, CallFails, Answered,
       Cancelled, OpenCache, HashFile, FinishVerification, fileVars
  <1>6. ASSUME NEW p \in Prefetches, Enqueue(p) \/ SignalPrefetch(p)
        PROVE  UNCHANGED cache
    BY <1>6 DEF Enqueue, SignalPrefetch, fileVars
  <1>7. ASSUME NEW w \in Workers, WorkerStep(w) \/ GitAnswers(w),
               ~ RenameTmp(w), ~ CopyBlob(w)
        PROVE  UNCHANGED cache
    BY <1>7 DEF WorkerStep, GitAnswers, Wake, WorkerExit, QueueDrained,
       PopTask, MarkVerified, Notify, Resignal, FetchRefused, RequestFails,
       CreateTmp, FetchFails, fileVars
  <1>8. ASSUME CloseStopCh \/ CloseAll \/ UNCHANGED vars
        PROVE  UNCHANGED cache
    BY <1>8 DEF CloseStopCh, CloseAll, vars, fileVars
  <1>. QED
    BY <1>1, <1>2, <1>3, <1>4, <1>5, <1>6, <1>7, <1>8 DEF Next

(* "Temp file, then atomic rename" is what a reader sees of the cache       *)
(* directory, while no two workers fetch one blob at a time (fetchToFile).  *)
THEOREM InstallsWhole == Spec /\ []OneFetchPerBlob => FetchInstallsWhole
  <1>1. TypeOK /\ FilesInv /\ [Next]_vars =>
          [\A o \in Oids : cache'[o] \in {cache[o], "absent", "good"}]_vars
    BY InstallStep
  <1>. QED
    BY <1>1, TypeCorrect, FilesInvariant, PTL DEF Spec, FetchInstallsWhole

-----------------------------------------------------------------------------
(* Tasks: when no two workers fetch one blob.                               *)

(* A task that was not pushed yet is nowhere, and a pushed one is queued or *)
(* with one worker.                                                         *)
TaskInv ==
    /\ \A c \in Calls :
          pc[c] \in {"idle", "stat", "discard", "unmark", "gate", "verify", "miss"} =>
             c \notin queue /\ \A w \in Workers : job[w] # c
    /\ \A p \in Prefetches :
          ppc[p] = "idle" => p \notin queue /\ \A w \in Workers : job[w] # p
    /\ \A w \in Workers : job[w] \notin queue
    /\ \A v, w \in Workers : job[v] = job[w] /\ job[w] # NoTask => v = w

(* The steps that push, pop or finish a task, and all others.               *)
LEMMA TaskStep == TypeOK /\ TaskInv /\ [Next]_vars => TaskInv'
  <1>. SUFFICES ASSUME TypeOK, TaskInv, [Next]_vars PROVE TaskInv'
    OBVIOUS
  <1>0. CallsTyped /\ QueueTyped /\ WorkersTyped
    BY DEF TypeOK
  <1>1. ASSUME NEW c \in Calls, Enlist(c) PROVE TaskInv'
    BY <1>0, <1>1, HydratorAssumption
       DEF Enlist, GoTo, workerVars, TaskInv, CallsTyped, QueueTyped, WorkersTyped, Tasks
  <1>2. ASSUME NEW p \in Prefetches, Enqueue(p) PROVE TaskInv'
    BY <1>0, <1>2, HydratorAssumption
       DEF Enqueue, callVars, workerVars, TaskInv, QueueTyped, WorkersTyped, Tasks
  <1>3. ASSUME NEW w \in Workers, PopTask(w) PROVE TaskInv'
    <2>1. PICK t \in queue : queue' = queue \ {t} /\ job' = [job EXCEPT ![w] = t]
      BY <1>3 DEF PopTask, Foremost
    <2>2. UNCHANGED <<pc, ppc>> /\ job[w] = NoTask
      BY <1>0, <1>3 DEF PopTask, callVars, WorkersTyped
    <2>. QED
      BY <1>0, <2>1, <2>2, HydratorAssumption
         DEF TaskInv, QueueTyped, WorkersTyped, Tasks
  <1>4. ASSUME NEW w \in Workers, Notify(w) PROVE TaskInv'
    BY <1>0, <1>4, HydratorAssumption
       DEF Notify, queueVars, TaskInv, QueueTyped, WorkersTyped, Tasks
  <1>5. ASSUME UNCHANGED <<queue, job>>,
               \A c \in Calls : pc'[c] # pc[c] =>
                  pc[c] \in {"idle", "stat", "discard", "unmark", "gate", "verify", "miss"}
                  \/ pc'[c] \in {"await", "open", "done"},
               \A p \in Prefetches : ppc'[p] # ppc[p] => ppc'[p] # "idle"
        PROVE  TaskInv'
    BY <1>5 DEF TaskInv
  <1>6. ASSUME NEW c \in Calls,
               StartCall(c) \/ CallStep(c) \/ CancelCall(c) \/ VerifierStep(c),
               ~ Enlist(c)
        PROVE  TaskInv'
    <2>1. UNCHANGED <<queue, job, ppc>>
      BY <1>6 DEF CallStep, CancelCall, VerifierStep, StartCall, StatCache,
         DiscardFile, ClearVerified, VerifyBlobOnce, VerificationAnswered,
         VerificationCancelled, SignalWork, ReadPastCache, CallFails, Answered,
         Cancelled, OpenCache, HashFile, FinishVerification, queueVars, workerVars
    <2>2. \A d \in Calls : pc'[d] # pc[d] =>
             pc[d] \in {"idle", "stat", "discard", "unmark", "gate", "verify", "miss"}
             \/ pc'[d] \in {"await", "open", "done"}
      BY <1>0, <1>6 DEF CallStep, CancelCall, VerifierStep, StartCall, StatCache,
         DiscardFile, ClearVerified, VerifyBlobOnce, VerificationAnswered,
         VerificationCancelled, SignalWork, ReadPastCache, CallFails, Answered,
         Cancelled, OpenCache, HashFile, FinishVerification, GoTo, Return,
         callVars, CallsTyped
    <2>. QED
      BY <1>5, <2>1, <2>2
  <1>7. ASSUME NEW p \in Prefetches, SignalPrefetch(p) PROVE TaskInv'
    BY <1>0, <1>5, <1>7 DEF SignalPrefetch, callVars, queueVars, workerVars, QueueTyped
  <1>8. ASSUME NEW w \in Workers, WorkerStep(w) \/ GitAnswers(w),
               ~ PopTask(w), ~ Notify(w)
        PROVE  TaskInv'
    <2>1. UNCHANGED <<pc, ppc, queue, job>>
      BY <1>8 DEF WorkerStep, GitAnswers, Wake, WorkerExit, QueueDrained,
         RenameTmp, MarkVerified, Resignal, FetchRefused, RequestFails,
         CreateTmp, CopyBlob, FetchFails, callVars, queueVars
    <2>. QED
      BY <1>5, <2>1
  <1>9. ASSUME CloseStopCh \/ CloseAll \/ UNCHANGED vars PROVE TaskInv'
    <2>1. UNCHANGED <<pc, ppc, queue, job>>
      BY <1>9 DEF CloseStopCh, CloseAll, vars, callVars, queueVars, workerVars
    <2>. QED
      BY <1>5, <2>1
  <1>. QED
    BY <1>1, <1>2, <1>3, <1>4, <1>6, <1>7, <1>8, <1>9 DEF Next, CallStep

LEMMA TaskInvariant == Spec => []TaskInv
  <1>1. Init => TaskInv
    BY HydratorAssumption DEF Init, TaskInv, Tasks
  <1>. QED
    BY <1>1, TypeCorrect, TaskStep, PTL DEF Spec

(* A task is fetched by one worker, once.  So the condition of the theorems *)
(* on files is met by one worker, and by many when no blob has two tasks.   *)
THEOREM FetchesApart ==
  ASSUME \/ \A v, w \in Workers : v = w
         \/ \A t, u \in Tasks : OidOf[t] = OidOf[u] => t = u
  PROVE  Spec => []OneFetchPerBlob
  <1>1. TypeOK /\ TaskInv => OneFetchPerBlob
    BY DEF TypeOK, WorkersTyped, TaskInv, OneFetchPerBlob, Oid
  <1>. QED
    BY <1>1, TypeCorrect, TaskInvariant, PTL

-----------------------------------------------------------------------------
(* Answers.                                                                 *)

(* What was sent on a call's channel is all that ever is: no second answer, *)
(* which would be a send on a closed channel, overtakes the first; the call *)
(* itself takes the answer of a verification.                               *)
AnswersStay ==
    [][\A c \in Calls :
          /\ result[c] # "none" => result'[c] = result[c]
          /\ vresult[c] # "none" =>
                vresult'[c] = vresult[c] \/ VerificationAnswered(c)]_vars

LEMMA AnswersStayStep ==
  TypeOK /\ ChannelInv /\ VerificationInv /\ [Next]_vars =>
    \A c \in Calls :
       /\ result[c] # "none" => result'[c] = result[c]
       /\ vresult[c] # "none" => vresult'[c] = vresult[c] \/ VerificationAnswered(c)
  <1>. SUFFICES ASSUME TypeOK, ChannelInv, VerificationInv, [Next]_vars, NEW c \in Calls
                PROVE  /\ result[c] # "none" => result'[c] = result[c]
                       /\ vresult[c] # "none" =>
                             vresult'[c] = vresult[c] \/ VerificationAnswered(c)
    OBVIOUS
  <1>0. CallsTyped /\ OidOf[c] \in Oids
    BY HydratorAssumption DEF TypeOK, Tasks
  <1>1. ASSUME NEW w \in Workers, Notify(w)
        PROVE  (result[c] # "none" => result'[c] = result[c]) /\ UNCHANGED vresult
    BY <1>0, <1>1 DEF Notify, Sent, ChannelInv, ChannelHeldOnce
  <1>2. ASSUME CloseAll
        PROVE  /\ result[c] # "none" => result'[c] = result[c]
               /\ vresult[c] # "none" => vresult'[c] = vresult[c]
    BY <1>0, <1>2 DEF CloseAll, Closed, ChannelInv, ChannelHeldOnce, VerificationInv,
       VerificationRuns
  <1>3. ASSUME NEW d \in Calls, FinishVerification(d)
        PROVE  /\ UNCHANGED result
               /\ vresult[c] # "none" => vresult'[c] = vresult[c]
    <2>1. OidOf[d] \in Oids
      BY HydratorAssumption DEF Tasks
    <2>. QED
      BY <1>0, <1>3, <2>1 DEF FinishVerification, VerificationInv, VerificationRuns
  <1>4. ASSUME NEW d \in Calls, VerificationAnswered(d)
        PROVE  /\ UNCHANGED result
               /\ vresult'[c] = vresult[c] \/ VerificationAnswered(c)
    BY <1>0, <1>4 DEF VerificationAnswered, CallsTyped
  <1>5. ASSUME NEW d \in Calls,
               StartCall(d) \/ CallStep(d) \/ CancelCall(d) \/ VerifierStep(d),
               ~ FinishVerification(d), ~ VerificationAnswered(d)
        PROVE  UNCHANGED <<result, vresult>>
    BY <1>5 DEF CallStep, CancelCall, VerifierStep, StartCall, StatCache,
       DiscardFile, ClearVerified, VerifyBlobOnce, VerificationCancelled, Enlist,
       SignalWork, ReadPastCache, CallFails, Answered, Cancelled, OpenCache, HashFile, callVars
  <1>6. ASSUME NEW p \in Prefetches, Enqueue(p) \/ SignalPrefetch(p)
        PROVE  UNCHANGED <<result, vresult>>
    BY <1>6 DEF Enqueue, SignalPrefetch, callVars
  <1>7. ASSUME NEW w \in Workers, WorkerStep(w) \/ GitAnswers(w), ~ Notify(w)
        PROVE  UNCHANGED <<result, vresult>>
    BY <1>7 DEF WorkerStep, GitAnswers, Wake, WorkerExit, QueueDrained, PopTask,
       RenameTmp, MarkVerified, Resignal, FetchRefused, RequestFails,
       CreateTmp, CopyBlob, FetchFails, callVars
  <1>8. ASSUME CloseStopCh \/ UNCHANGED vars
        PROVE  UNCHANGED <<result, vresult>>
    BY <1>8 DEF CloseStopCh, vars, callVars
  <1>. QED
    BY <1>1, <1>2, <1>3, <1>4, <1>5, <1>6, <1>7, <1>8 DEF Next, VerifierStep, CallStep

(* Workers, verifications and Stop never answer a call twice.               *)
THEOREM CallsAnsweredOnce == Spec => AnswersStay
  <1>1. TypeOK /\ ChannelInv /\ VerificationInv /\ [Next]_vars =>
          [\A c \in Calls :
             /\ result[c] # "none" => result'[c] = result[c]
             /\ vresult[c] # "none" =>
                   vresult'[c] = vresult[c] \/ VerificationAnswered(c)]_vars
    BY AnswersStayStep
  <1>. QED
    BY <1>1, TypeCorrect, ChannelInvariant, VerificationInvariant, PTL
       DEF Spec, AnswersStay

=============================================================================
