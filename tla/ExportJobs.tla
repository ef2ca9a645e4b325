------------------------------ MODULE ExportJobs ------------------------------
(***************************************************************************)
(* The export pipeline: the HTTP handlers of ExportJobsController and the  *)
(* two asset handlers that delete (AssetsController), the BullMQ queue     *)
(* they share with the worker, the worker's attempts, and the three stores *)
(* they all write without a common transaction: the ExportJob rows, the    *)
(* Asset rows and the objects in MinIO (or on the worker's disk).          *)
(*                                                                         *)
(* Every prisma.withTenant call is one action, every call on the queue or  *)
(* the object store is another: between two of them any other process may  *)
(* run.  A handler's local variables live in req[p], an attempt's in       *)
(* slot[s].  Role checks and audit records do not touch these stores and   *)
(* are left out; so are errorMessage, titles and the layout of the PDF.    *)
(***************************************************************************)
EXTENDS Naturals, FiniteSets

CONSTANTS
  Jobs,       \* ids of ExportJob rows (each is created at most once)
  Assets,     \* ids of Asset rows: a fresh id is one nothing refers to
  Clients,    \* requests the API is handling at the same time
  Slots,      \* attempts the workers can run at the same time
  None,       \* SQL null, "no lock", "no job"
  Ops,        \* the requests clients make
  Faults,     \* what may go wrong
  MaxStalls   \* BullMQ's maxStalledCount

AllOps == {"create", "cancel", "retry", "cleanup", "removeAsset", "cleanupAssets"}

(***************************************************************************)
(* "queue"  a queue call fails, its effect applied or not;                 *)
(* "api"    an API process dies or a statement of a handler fails;         *)
(* "db"     a statement of an attempt fails;                               *)
(* "crash"  a worker process dies in an attempt;                           *)
(* "lock"   a live attempt loses its lock (a blocked event loop does not   *)
(*          renew it in time) and goes on without it;                      *)
(* "event"  the 'failed' event is lost (its process dies, its write fails).*)
(***************************************************************************)
FaultKinds == {"queue", "api", "db", "crash", "lock", "event"}

ASSUME OpsAssumption == Ops \subseteq AllOps
ASSUME FaultsAssumption == Faults \subseteq FaultKinds
ASSUME NoneAssumption == None \notin Jobs \cup Assets \cup Slots
ASSUME MaxStallsAssumption == MaxStalls \in Nat

VARIABLES
  status,       \* ExportJob.status, "absent" before and "deleted" after the row
  result,       \* ExportJob.resultAssetId
  aged,         \* rows whose updatedAt is before the cut-offs of a cleanup
  asset,        \* id of the Asset row with the storage key of the job's PDF
  objects,      \* jobs whose PDF is in the object store
  queue,        \* state of the BullMQ job with the row's id
  lock,         \* attempt that holds the BullMQ lock of the job
  stalls,       \* BullMQ's stalled counter of the job
  failedEvents, \* jobs whose 'failed' event no handler has served
  slot,         \* the worker's attempts
  req,          \* the API's requests
  overlap,      \* history: when two requests about the job were under way at once
  claimed       \* history: jobs whose PDF was deleted, or about to be, while being made

store == <<asset, objects>>
bull  == <<queue, lock, stalls, failedEvents>>
table == <<status, result, aged>>
past  == <<overlap, claimed>>
vars  == <<table, store, bull, slot, req, past>>

Statuses == {"absent", "pending", "running", "succeeded", "failed", "canceled", "deleted"}
Terminal == {"succeeded", "failed", "canceled"}
Unsettled == {"pending", "running"}

SlotPcs == {"idle", "read", "markRunning", "render", "createAsset", "link", "complete", "fail"}

ReqPcs == {"idle", "enqueue", "enqueueFailed", "cancelRemove", "cancelWrite",
           "retryReset", "retryRemove", "cleanupRemove", "cleanupMark",
           "cleanupExpire", "cleanupFind", "cleanupObjects", "cleanupAssets",
           "cleanupJobs", "removeCheck", "removeObject", "removeRow",
           "assetObjects", "assetRows"}

IdleSlot == [pc |-> "idle", job |-> None, asset |-> None]

(***************************************************************************)
(* job: the row or storage key a request is about; seen: the status it     *)
(* read; jobs: the rows a cleanup selected; todo: those its loop still has *)
(* to visit; victims: the assets to delete, each with its storage key.     *)
(***************************************************************************)
IdleReq == [pc |-> "idle", job |-> None, seen |-> None,
            jobs |-> {}, todo |-> {}, victims |-> {}]

Init ==
  /\ status = [j \in Jobs |-> "absent"]
  /\ result = [j \in Jobs |-> None]
  /\ aged = {}
  /\ asset = [j \in Jobs |-> None]
  /\ objects = {}
  /\ queue = [j \in Jobs |-> "none"]
  /\ lock = [j \in Jobs |-> None]
  /\ stalls = [j \in Jobs |-> 0]
  /\ failedEvents = {}
  /\ slot = [s \in Slots |-> IdleSlot]
  /\ req = [p \in Clients |-> IdleReq]
  /\ overlap = [j \in Jobs |-> "never"]
  /\ claimed = {}

Exists(j) == status[j] \notin {"absent", "deleted"}

(* One row is written: Prisma's @updatedAt makes it young again. *)
WriteStatus(j, st) ==
  /\ status' = [status EXCEPT ![j] = st]
  /\ aged' = aged \ {j}

FreshAsset(a) ==
  /\ \A j \in Jobs : asset[j] # a /\ result[j] # a
  /\ \A s \in Slots : slot[s].asset # a
  /\ \A p \in Clients : \A v \in req[p].victims : v[2] # a

-------------------------------------------------------------------------------
(***************************************************************************)
(* Two histories, for the properties only.                                 *)
(***************************************************************************)
CleanupPcs == {"cleanupRemove", "cleanupMark", "cleanupExpire", "cleanupFind",
               "cleanupObjects", "cleanupAssets", "cleanupJobs"}

JobPcs == {"enqueue", "enqueueFailed", "cancelRemove", "cancelWrite", "retryReset", "retryRemove"}

(* Request p may still change the row or the queue job of j.                *)
About(p, j) ==
  \/ req[p].pc \in JobPcs /\ req[p].job = j
  \/ req[p].pc \in CleanupPcs /\ j \in req[p].jobs \cup aged

(* Request p begins, about the jobs js: "now" while requests about a job     *)
(* have overlapped, "past" once one has begun alone again.                  *)
Meet(p, js) ==
  overlap' = [j \in Jobs |->
    IF j \notin js THEN overlap[j]
    ELSE IF \E q \in Clients \ {p} : About(q, j) THEN "now"
    ELSE IF overlap[j] = "now" THEN "past" ELSE overlap[j]]

(* An attempt is making the PDF of j: it has it stored and linked next.     *)
Making(j) == \E s \in Slots : slot[s].job = j /\ slot[s].pc \in {"render", "createAsset", "link"}

(* Request p has the asset of j in hand, to delete it.                      *)
InHand(p, j) == \E v \in req[p].victims : v[1] = j

Claim(js) == claimed' = claimed \cup js

-------------------------------------------------------------------------------
(***************************************************************************)
(* BullMQ, as the code uses it.                                            *)
(***************************************************************************)

(* queue.add with a jobId: a job of that id already there makes it a no-op. *)
QueueAdd(j) ==
  /\ queue' = [queue EXCEPT ![j] = IF @ = "none" THEN "wait" ELSE @]
  /\ stalls' = [stalls EXCEPT ![j] = IF queue[j] = "none" THEN 0 ELSE @]
  /\ UNCHANGED <<lock, failedEvents>>

Locked(j) == lock[j] # None

(* job.remove() of a job no attempt has locked; it throws on a locked one. *)
QueueRemove(j) ==
  /\ ~Locked(j)
  /\ queue' = [queue EXCEPT ![j] = "none"]
  /\ UNCHANGED <<lock, stalls, failedEvents>>

(* A worker takes a waiting job and locks it. *)
Fetch(s, j) ==
  /\ slot[s].pc = "idle"
  /\ queue[j] = "wait"
  /\ queue' = [queue EXCEPT ![j] = "active"]
  /\ lock' = [lock EXCEPT ![j] = s]
  /\ slot' = [slot EXCEPT ![s] = [IdleSlot EXCEPT !.pc = "read", !.job = j]]
  /\ UNCHANGED <<table, store, stalls, failedEvents, req, past>>

(* The stalled-job check: an active job without a lock waits again ...     *)
StallRequeue(j) ==
  /\ queue[j] = "active" /\ ~Locked(j) /\ stalls[j] < MaxStalls
  /\ queue' = [queue EXCEPT ![j] = "wait"]
  /\ stalls' = [stalls EXCEPT ![j] = @ + 1]
  /\ UNCHANGED <<table, store, lock, failedEvents, slot, req, past>>

(* ... or fails once it has stalled too often. *)
StallFail(j) ==
  /\ queue[j] = "active" /\ ~Locked(j) /\ stalls[j] >= MaxStalls
  /\ queue' = [queue EXCEPT ![j] = "failed"]
  /\ failedEvents' = failedEvents \cup {j}
  /\ UNCHANGED <<table, store, lock, stalls, slot, req, past>>

(* The process of an attempt dies; its lock expires. *)
Crash(s) ==
  /\ "crash" \in Faults
  /\ slot[s].pc # "idle"
  /\ lock' = [j \in Jobs |-> IF lock[j] = s THEN None ELSE lock[j]]
  /\ slot' = [slot EXCEPT ![s] = IdleSlot]
  /\ UNCHANGED <<table, store, queue, stalls, failedEvents, req, past>>

(* The lock expires under a live attempt. *)
LoseLock(s) ==
  /\ "lock" \in Faults
  /\ \E j \in Jobs : lock[j] = s /\ lock' = [lock EXCEPT ![j] = None]
  /\ UNCHANGED <<table, store, queue, stalls, failedEvents, slot, req, past>>

-------------------------------------------------------------------------------
(***************************************************************************)
(* The worker: one attempt, transaction by transaction.                    *)
(***************************************************************************)
Goto(s, pc) == slot' = [slot EXCEPT ![s].pc = pc]

(* Mutant: only canceled jobs are skipped. *)
ReadRowSkippingCanceledOnly(s) ==
  /\ slot[s].pc = "read"
  /\ LET j == slot[s].job IN
       \/ ~Exists(j) /\ Goto(s, "fail")
       \/ status[j] = "canceled" /\ Goto(s, "complete")
       \/ Exists(j) /\ status[j] # "canceled" /\ Goto(s, "markRunning")
  /\ UNCHANGED <<table, store, bull, req, past>>

ReadRow(s) ==
  /\ slot[s].pc = "read"
  /\ LET j == slot[s].job IN
       \/ ~Exists(j) /\ Goto(s, "fail")
       \/ status[j] \in {"succeeded", "canceled"} /\ Goto(s, "complete")
       \/ status[j] \in {"pending", "running", "failed"} /\ Goto(s, "markRunning")
  /\ UNCHANGED <<table, store, bull, req, past>>

(* update where id: throws when the row is gone. *)
MarkRunning(s) ==
  /\ slot[s].pc = "markRunning"
  /\ LET j == slot[s].job IN
       \/ ~Exists(j) /\ Goto(s, "fail") /\ UNCHANGED <<table, claimed>>
       \/ /\ Exists(j) /\ WriteStatus(j, "running") /\ UNCHANGED result
          /\ Goto(s, "render")
          /\ Claim({i \in {j} : \E p \in Clients : InHand(p, i)})
  /\ UNCHANGED <<store, bull, req, overlap>>

(* Mutant: the attempt goes on when the PDF could not be stored. *)
RenderIgnoringStoreErrors(s) ==
  /\ slot[s].pc = "render"
  /\ Goto(s, "createAsset")
  /\ objects' = objects \cup {slot[s].job} \/ UNCHANGED objects
  /\ UNCHANGED <<table, asset, bull, req, past>>

(* The PDF is stored under the key the job's id gives. *)
StorePdf(j) == objects' = objects \cup {j}

(* Reads the document, renders and stores it.  Any of these may throw: the  *)
(* document was deleted, the store is down or answers too late.            *)
RenderAndStore(s) ==
  /\ slot[s].pc = "render"
  /\ \/ Goto(s, "fail") /\ (StorePdf(slot[s].job) \/ UNCHANGED objects)
     \/ Goto(s, "createAsset") /\ StorePdf(slot[s].job)
  /\ UNCHANGED <<table, asset, bull, req, past>>

(* Mutant: storage keys are not unique, the newer row shadows the older. *)
CreateAssetNotUnique(s) ==
  /\ slot[s].pc = "createAsset"
  /\ \E a \in Assets :
       /\ FreshAsset(a)
       /\ asset' = [asset EXCEPT ![slot[s].job] = a]
       /\ slot' = [slot EXCEPT ![s].pc = "link", ![s].asset = a]
  /\ UNCHANGED <<table, objects, bull, req, past>>

(* asset.create: (tenantId, storageKey) is unique. *)
CreateAsset(s) ==
  /\ slot[s].pc = "createAsset"
  /\ LET j == slot[s].job IN
       \/ asset[j] # None /\ Goto(s, "fail") /\ UNCHANGED asset
       \/ /\ asset[j] = None
          /\ \E a \in Assets :
               /\ FreshAsset(a)
               /\ asset' = [asset EXCEPT ![j] = a]
               /\ slot' = [slot EXCEPT ![s].pc = "link", ![s].asset = a]
  /\ UNCHANGED <<table, objects, bull, req, past>>

(* Mutant: the result is left for a later update. *)
LinkWithoutResult(s) ==
  /\ slot[s].pc = "link"
  /\ Exists(slot[s].job) /\ WriteStatus(slot[s].job, "succeeded")
  /\ Goto(s, "complete")
  /\ UNCHANGED <<result, store, bull, req, past>>

(* The row succeeds with its asset. *)
Link(s) ==
  /\ slot[s].pc = "link"
  /\ LET j == slot[s].job IN
       \/ ~Exists(j) /\ Goto(s, "fail") /\ UNCHANGED table
       \/ /\ Exists(j) /\ WriteStatus(j, "succeeded")
          /\ result' = [result EXCEPT ![j] = slot[s].asset]
          /\ Goto(s, "complete")
  /\ UNCHANGED <<store, bull, req, past>>

(* A statement of the attempt fails: the processor throws. *)
AttemptError(s) ==
  /\ "db" \in Faults
  /\ slot[s].pc \in {"read", "markRunning", "createAsset", "link"}
  /\ Goto(s, "fail")
  /\ UNCHANGED <<table, store, bull, req, past>>

(* BullMQ records how the attempt ended, if it still holds the lock. *)
FinishAttempt(s) ==
  /\ slot[s].pc \in {"complete", "fail"}
  /\ LET j == slot[s].job
         end == IF slot[s].pc = "complete" THEN "completed" ELSE "failed" IN
       \/ lock[j] # s /\ UNCHANGED bull
       \/ /\ lock[j] = s
          /\ queue' = [queue EXCEPT ![j] = end]
          /\ lock' = [lock EXCEPT ![j] = None]
          /\ failedEvents' = IF end = "failed" THEN failedEvents \cup {j} ELSE failedEvents
          /\ UNCHANGED stalls
  /\ slot' = [slot EXCEPT ![s] = IdleSlot]
  /\ UNCHANGED <<table, store, req, past>>

(* Mutant: the handler only logs. *)
HandleFailedByLogging(j) ==
  /\ j \in failedEvents
  /\ failedEvents' = failedEvents \ {j}
  /\ UNCHANGED <<table, store, queue, lock, stalls, slot, req, past>>

(* worker.on('failed'): marks the row failed whatever it says by now. *)
HandleFailed(j) ==
  /\ j \in failedEvents
  /\ failedEvents' = failedEvents \ {j}
  /\ \/ ~Exists(j) /\ UNCHANGED table
     \/ Exists(j) /\ WriteStatus(j, "failed") /\ UNCHANGED result
  /\ UNCHANGED <<store, queue, lock, stalls, slot, req, past>>

LoseFailedEvent(j) ==
  /\ "event" \in Faults
  /\ j \in failedEvents
  /\ failedEvents' = failedEvents \ {j}
  /\ UNCHANGED <<table, store, queue, lock, stalls, slot, req, past>>

-------------------------------------------------------------------------------
(***************************************************************************)
(* The API: create, cancel and retry.                                      *)
(***************************************************************************)
Reply(p) == req' = [req EXCEPT ![p] = IdleReq]

Proceed(p, pc) == req' = [req EXCEPT ![p].pc = pc]

(* The request reads a row and goes on with what it read. *)
Begin(p, op, pc, j) ==
  /\ op \in Ops
  /\ req[p].pc = "idle"
  /\ req' = [req EXCEPT ![p] = [IdleReq EXCEPT !.pc = pc, !.job = j, !.seen = status[j]]]
  /\ Meet(p, {j}) /\ UNCHANGED claimed

Create(p, j) ==
  /\ status[j] = "absent"
  /\ Begin(p, "create", "enqueue", j)
  /\ WriteStatus(j, "pending")
  /\ UNCHANGED <<result, store, bull, slot>>

(* Mutant: no jobId is passed, so a job already queued is queued again. *)
EnqueueWithoutJobId(p) ==
  /\ req[p].pc = "enqueue"
  /\ queue' = [queue EXCEPT ![req[p].job] = "wait"]
  /\ UNCHANGED <<lock, stalls, failedEvents>>
  /\ Reply(p)
  /\ UNCHANGED <<table, store, slot, past>>

Enqueue(p) ==
  /\ req[p].pc = "enqueue"
  /\ QueueAdd(req[p].job)
  /\ Reply(p)
  /\ UNCHANGED <<table, store, slot, past>>

(* queue.add fails; the job may have been added all the same. *)
EnqueueFails(p) ==
  /\ "queue" \in Faults
  /\ req[p].pc = "enqueue"
  /\ Proceed(p, "enqueueFailed")
  /\ QueueAdd(req[p].job) \/ UNCHANGED bull
  /\ UNCHANGED <<table, store, slot, past>>

RecordEnqueueFailure(p) ==
  /\ req[p].pc = "enqueueFailed"
  /\ \/ ~Exists(req[p].job) /\ UNCHANGED table
     \/ Exists(req[p].job) /\ WriteStatus(req[p].job, "failed") /\ UNCHANGED result
  /\ Reply(p)
  /\ UNCHANGED <<store, bull, slot, past>>

Cancel(p, j) ==
  /\ status[j] = "pending"
  /\ Begin(p, "cancel", "cancelRemove", j)
  /\ UNCHANGED <<table, store, bull, slot>>

(* getJob and remove: a locked job makes remove throw, the request fails. *)
RemoveQueued(p, next) ==
  LET j == req[p].job IN
    \/ QueueRemove(j) /\ Proceed(p, next)
    \/ Locked(j) /\ Reply(p) /\ UNCHANGED bull

(* Mutant: as in cleanup, the error of a locked job is swallowed. *)
CancelRemoveSwallowing(p) ==
  /\ req[p].pc = "cancelRemove"
  /\ QueueRemove(req[p].job) \/ (Locked(req[p].job) /\ UNCHANGED bull)
  /\ Proceed(p, "cancelWrite")
  /\ UNCHANGED <<table, store, slot, past>>

CancelRemove(p) ==
  /\ req[p].pc = "cancelRemove"
  /\ RemoveQueued(p, "cancelWrite")
  /\ UNCHANGED <<table, store, slot, past>>

CancelWrite(p) ==
  /\ req[p].pc = "cancelWrite"
  /\ \/ ~Exists(req[p].job) /\ UNCHANGED table
     \/ Exists(req[p].job) /\ WriteStatus(req[p].job, "canceled") /\ UNCHANGED result
  /\ Reply(p)
  /\ UNCHANGED <<store, bull, slot, past>>

Retry(p, j) ==
  /\ status[j] \in {"failed", "canceled"}
  /\ Begin(p, "retry", "retryReset", j)
  /\ UNCHANGED <<table, store, bull, slot>>

RetryReset(p) ==
  /\ req[p].pc = "retryReset"
  /\ LET j == req[p].job IN
       \/ ~Exists(j) /\ Reply(p) /\ UNCHANGED table
       \/ /\ Exists(j) /\ WriteStatus(j, "pending")
          /\ result' = [result EXCEPT ![j] = None]
          /\ Proceed(p, "retryRemove")
  /\ UNCHANGED <<store, bull, slot, past>>

(* Mutant: the finished queue job is left in place, so add is a no-op. *)
RetryRemoveSkipped(p) ==
  /\ req[p].pc = "retryRemove"
  /\ Proceed(p, "enqueue")
  /\ UNCHANGED <<table, store, bull, slot, past>>

RetryRemove(p) ==
  /\ req[p].pc = "retryRemove"
  /\ RemoveQueued(p, "enqueue")
  /\ UNCHANGED <<table, store, slot, past>>

(* The queue cannot be opened or read: the request ends with an error. *)
QueueUnavailable(p) ==
  /\ "queue" \in Faults
  /\ req[p].pc \in {"cancelRemove", "retryRemove", "cleanupRemove"}
  /\ Reply(p)
  /\ UNCHANGED <<table, store, bull, slot, past>>

-------------------------------------------------------------------------------
(***************************************************************************)
(* The API: cleanup of export jobs.                                        *)
(***************************************************************************)
CleanupRunning == \E p \in Clients : req[p].pc \in CleanupPcs

(***************************************************************************)
(* The cut-offs are fixed when the request starts: any set of rows may be  *)
(* older (staleHours and retainHours are the caller's, 0 included).  aged  *)
(* belongs to the one cleanup that runs at a time.                         *)
(***************************************************************************)
Cleanup(p) ==
  /\ "cleanup" \in Ops
  /\ req[p].pc = "idle" /\ ~CleanupRunning
  /\ \E old \in SUBSET {j \in Jobs : Exists(j)} :
       LET stale == {j \in old : status[j] \in Unsettled} IN
         /\ aged' = old
         /\ req' = [req EXCEPT ![p] = [IdleReq EXCEPT !.pc = "cleanupRemove",
                                                      !.jobs = stale, !.todo = stale]]
         /\ Meet(p, old)
  /\ UNCHANGED <<status, result, store, bull, slot, claimed>>

(* One round of the loop; here the error of a locked job is swallowed. *)
CleanupRemove(p) ==
  /\ req[p].pc = "cleanupRemove"
  /\ \E j \in req[p].todo :
       /\ QueueRemove(j) \/ (Locked(j) /\ UNCHANGED bull)
       /\ req' = [req EXCEPT ![p].todo = @ \ {j}]
  /\ UNCHANGED <<table, store, slot, past>>

(* updateMany by id: the rows' status is not looked at again. *)
CleanupMark(p) ==
  /\ req[p].pc = "cleanupRemove" /\ req[p].todo = {}
  /\ LET marked == {j \in req[p].jobs : Exists(j)} IN
       /\ status' = [j \in Jobs |-> IF j \in marked THEN "failed" ELSE status[j]]
       /\ aged' = aged \ marked
  /\ Proceed(p, "cleanupExpire")
  /\ UNCHANGED <<result, store, bull, slot, past>>

(* Mutant: jobs without a result are not filtered out. *)
CleanupExpireUnfiltered(p) ==
  /\ req[p].pc = "cleanupExpire"
  /\ LET expired == {j \in aged : status[j] \in Terminal} IN
       req' = [req EXCEPT ![p].pc = "cleanupFind", ![p].jobs = expired,
                 ![p].victims = {<<j, result[j]>> : j \in expired}]
  /\ UNCHANGED <<table, store, bull, slot, past>>

CleanupExpire(p) ==
  /\ req[p].pc = "cleanupExpire"
  /\ LET expired == {j \in aged : status[j] \in Terminal} IN
       req' = [req EXCEPT ![p].pc = "cleanupFind", ![p].jobs = expired,
                 ![p].victims = {<<j, result[j]>> : j \in {i \in expired : result[i] # None}}]
  /\ Claim({j \in aged : status[j] \in Terminal /\ result[j] # None})
  /\ UNCHANGED <<table, store, bull, slot, overlap>>

CleanupFind(p) ==
  /\ req[p].pc = "cleanupFind"
  /\ LET found == {v \in req[p].victims : asset[v[1]] = v[2]} IN
       req' = [req EXCEPT ![p].pc = "cleanupObjects", ![p].victims = found,
                          ![p].todo = {v[1] : v \in found}]
  /\ UNCHANGED <<table, store, bull, slot, past>>

(* The object of one asset goes; an error of the store is swallowed. *)
DeleteObject(p, pc) ==
  /\ req[p].pc = pc
  /\ \E j \in req[p].todo :
       /\ objects' = objects \ {j} \/ UNCHANGED objects
       /\ req' = [req EXCEPT ![p].todo = @ \ {j}]
  /\ UNCHANGED <<table, asset, bull, slot, past>>

(* asset.deleteMany: the ids that still have a row. *)
DropAssets(victims) ==
  asset' = [j \in Jobs |-> IF <<j, asset[j]>> \in victims THEN None ELSE asset[j]]

CleanupObjects(p) == DeleteObject(p, "cleanupObjects")

CleanupAssets(p) ==
  /\ req[p].pc = "cleanupObjects" /\ req[p].todo = {}
  /\ DropAssets(req[p].victims)
  /\ Proceed(p, "cleanupJobs")
  /\ UNCHANGED <<table, objects, bull, slot, past>>

(* exportJob.deleteMany by id: again without looking at the status. *)
CleanupJobs(p) ==
  /\ req[p].pc = "cleanupJobs"
  /\ LET gone == {j \in req[p].jobs : Exists(j)} IN
       /\ status' = [j \in Jobs |-> IF j \in gone THEN "deleted" ELSE status[j]]
       /\ result' = [j \in Jobs |-> IF j \in gone THEN None ELSE result[j]]
       /\ aged' = aged \ gone
  /\ Reply(p)
  /\ UNCHANGED <<store, bull, slot, past>>

-------------------------------------------------------------------------------
(***************************************************************************)
(* The API: DELETE /assets/:id and POST /assets/cleanup, on the assets     *)
(* exports create (no question or layout element refers to them).          *)
(***************************************************************************)
Referenced(a) == \E j \in Jobs : result[j] = a

RemoveAsset(p, j) ==
  /\ "removeAsset" \in Ops
  /\ req[p].pc = "idle"
  /\ asset[j] # None
  /\ req' = [req EXCEPT ![p] = [IdleReq EXCEPT !.pc = "removeCheck", !.job = j,
                                               !.victims = {<<j, asset[j]>>}]]
  /\ Claim({i \in {j} : Making(i)})
  /\ UNCHANGED <<table, store, bull, slot, overlap>>

RemoveAssetCheck(p) ==
  /\ req[p].pc = "removeCheck"
  /\ LET used == \E v \in req[p].victims : Referenced(v[2]) IN
       \/ used /\ Reply(p)
       \/ ~used /\ Proceed(p, "removeObject")
  /\ UNCHANGED <<table, store, bull, slot, past>>

(* removeObject throws, removes the object, or finds nothing to remove: it is *)
(* asked for a local file's path when the worker fell back to its disk.     *)
RemoveAssetObject(p) ==
  /\ req[p].pc = "removeObject"
  /\ \/ objects' = objects \ {req[p].job} /\ Proceed(p, "removeRow")
     \/ UNCHANGED objects /\ (Reply(p) \/ Proceed(p, "removeRow"))
  /\ UNCHANGED <<table, asset, bull, slot, past>>

RemoveAssetRow(p) ==
  /\ req[p].pc = "removeRow"
  /\ DropAssets(req[p].victims)
  /\ Reply(p)
  /\ UNCHANGED <<table, objects, bull, slot, past>>

(* The scan is one transaction: assets older than the cut-off (any set: 0   *)
(* hours is allowed) that no row refers to.                                *)
CleanAssets(p) ==
  /\ "cleanupAssets" \in Ops
  /\ req[p].pc = "idle"
  /\ \E orphans \in SUBSET {j \in Jobs : asset[j] # None /\ ~Referenced(asset[j])} :
       /\ orphans # {}
       /\ req' = [req EXCEPT ![p] = [IdleReq EXCEPT !.pc = "assetObjects", !.todo = orphans,
                                       !.victims = {<<j, asset[j]>> : j \in orphans}]]
       /\ Claim({j \in orphans : Making(j)})
  /\ UNCHANGED <<table, store, bull, slot, overlap>>

CleanAssetObjects(p) == DeleteObject(p, "assetObjects")

CleanAssetRows(p) ==
  /\ req[p].pc = "assetObjects" /\ req[p].todo = {}
  /\ DropAssets(req[p].victims)
  /\ Reply(p)
  /\ UNCHANGED <<table, objects, bull, slot, past>>

(* The API process dies, or a statement throws, between two steps. *)
RequestDies(p) ==
  /\ "api" \in Faults
  /\ req[p].pc # "idle"
  /\ Reply(p)
  /\ UNCHANGED <<table, store, bull, slot, past>>

-------------------------------------------------------------------------------
Start(p) ==
  \/ \E j \in Jobs : Create(p, j) \/ Cancel(p, j) \/ Retry(p, j) \/ RemoveAsset(p, j)
  \/ Cleanup(p) \/ CleanAssets(p)

Continue(p) ==
  \/ Enqueue(p) \/ EnqueueFails(p) \/ RecordEnqueueFailure(p)
  \/ CancelRemove(p) \/ CancelWrite(p)
  \/ RetryReset(p) \/ RetryRemove(p) \/ QueueUnavailable(p)
  \/ CleanupRemove(p) \/ CleanupMark(p) \/ CleanupExpire(p) \/ CleanupFind(p)
  \/ CleanupObjects(p) \/ CleanupAssets(p) \/ CleanupJobs(p)
  \/ RemoveAssetCheck(p) \/ RemoveAssetObject(p) \/ RemoveAssetRow(p)
  \/ CleanAssetObjects(p) \/ CleanAssetRows(p)

Attempt(s) ==
  \/ ReadRow(s) \/ MarkRunning(s) \/ RenderAndStore(s) \/ CreateAsset(s)
  \/ Link(s) \/ FinishAttempt(s)

Next ==
  \/ \E p \in Clients : Start(p) \/ Continue(p) \/ RequestDies(p)
  \/ \E s \in Slots : Attempt(s) \/ AttemptError(s) \/ Crash(s) \/ LoseLock(s)
  \/ \E s \in Slots, j \in Jobs : Fetch(s, j)
  \/ \E j \in Jobs : StallRequeue(j) \/ StallFail(j) \/ HandleFailed(j) \/ LoseFailedEvent(j)

Spec == Init /\ [][Next]_vars

(***************************************************************************)
(* What runs keeps running: a handler that has started, an attempt, the    *)
(* event loop that serves 'failed', the worker's fetch loop and its        *)
(* periodic stalled-job check.  Nobody is obliged to send a request.       *)
(***************************************************************************)
Fairness ==
  /\ \A p \in Clients : WF_vars(Continue(p))
  /\ \A s \in Slots : WF_vars(Attempt(s))
  /\ \A j \in Jobs :
       /\ SF_vars(\E s \in Slots : Fetch(s, j))
       /\ WF_vars(StallRequeue(j) \/ StallFail(j))
       /\ WF_vars(HandleFailed(j))

FairSpec == Spec /\ Fairness

-------------------------------------------------------------------------------
(***************************************************************************)
(* Properties.                                                             *)
(***************************************************************************)

TableOK ==
  /\ status \in [Jobs -> Statuses]
  /\ result \in [Jobs -> Assets \cup {None}]
  /\ aged \in SUBSET Jobs

StoreOK ==
  /\ asset \in [Jobs -> Assets \cup {None}]
  /\ objects \in SUBSET Jobs

QueueOK ==
  /\ queue \in [Jobs -> {"none", "wait", "active", "completed", "failed"}]
  /\ lock \in [Jobs -> Slots \cup {None}]
  /\ stalls \in [Jobs -> Nat]
  /\ failedEvents \in SUBSET Jobs

SlotRecord == [pc : SlotPcs, job : Jobs \cup {None}, asset : Assets \cup {None}]

ReqRecord == [pc : ReqPcs, job : Jobs \cup {None}, seen : Statuses \cup {None},
              jobs : SUBSET Jobs, todo : SUBSET Jobs, victims : SUBSET (Jobs \X Assets)]

SlotOK ==
  /\ slot \in [Slots -> SlotRecord]
  /\ \A s \in Slots : slot[s].pc # "idle" => slot[s].job \in Jobs
  /\ \A s \in Slots : slot[s].pc = "link" => slot[s].asset \in Assets

ReqOK == req \in [Clients -> ReqRecord]

(* Every variable has its type; an attempt in progress has a job, and one   *)
(* about to link has an asset.                                             *)
PastOK ==
  /\ overlap \in [Jobs -> {"never", "now", "past"}]
  /\ claimed \in SUBSET Jobs

TypeOK == TableOK /\ StoreOK /\ QueueOK /\ SlotOK /\ ReqOK /\ PastOK

(* The asset an attempt is about to link is the one asset of its key:       *)
(* however many attempts of a job overlap, one of them gets this far -      *)
(* unless a deletion had the job's asset in hand while it was being made.   *)
AttemptOwnsAsset ==
  \A s \in Slots :
     slot[s].pc = "link" /\ slot[s].job \notin claimed => asset[slot[s].job] = slot[s].asset

(* What getResult needs to serve a succeeded job. *)
Servable(j) == result[j] # None /\ asset[j] = result[j] /\ j \in objects

(* A succeeded job can be downloaded (getResult): its asset row and the     *)
(* object under its key are both there, unless a cleanup selected the job   *)
(* or a deletion of its asset and an attempt that makes it ran side by side.*)
SucceededDownloadable ==
  \A j \in Jobs \ claimed : status[j] = "succeeded" => Servable(j)

(* Unless a live attempt loses its lock, no job is ever in two attempts:    *)
(* not by retrying twice, nor by removing or re-adding it while it runs,    *)
(* nor by re-running it after a crash.                                     *)
SingleAttempt ==
  \A s, t \in Slots :
     slot[s].pc # "idle" /\ slot[t].pc # "idle" /\ slot[s].job = slot[t].job => s = t

(* The worker never starts over on a job that has succeeded, however often  *)
(* the job is queued again.                                                *)
SuccessNotRerun ==
  [][\A j \in Jobs : status[j] = "succeeded" => status'[j] # "running"]_status

(* Unless another request about the job is or was under way at the same     *)
(* time, a job that becomes canceled is not in any attempt (remove refuses   *)
(* locked jobs), so nothing of it runs on behind the cancel.                *)
CancelStopsWork ==
  [][\A j \in Jobs : status[j] # "canceled" /\ status'[j] = "canceled" /\ overlap[j] # "now" =>
       \A s \in Slots : slot[s].job # j]_vars

(* A row that says pending or running has something that will settle it: a  *)
(* queue entry, an attempt, an unserved failure, a request about to queue   *)
(* it - as long as no two requests about that job have overlapped.         *)
Backed(j) ==
  \/ queue[j] \in {"wait", "active"}
  \/ \E s \in Slots : slot[s].job = j
  \/ j \in failedEvents
  \/ \E p \in Clients : req[p].job = j /\ req[p].pc \in {"enqueue", "enqueueFailed", "retryRemove"}

ActiveRowIsBacked ==
  \A j \in Jobs : status[j] \in Unsettled /\ overlap[j] = "never" => Backed(j)

(* A pending or running job is eventually neither. *)
EventuallySettled ==
  \A j \in Jobs : status[j] \in Unsettled ~> status[j] \notin Unsettled

(* The pipeline implements the lifecycle the API promises, settling every   *)
(* job it accepted, as long as requests about jobs do not overlap (one      *)
(* client), nobody cancels or cleans up and no worker dies.                 *)
Lifecycle == INSTANCE ExportJobLifecycle WITH
  phase <- status,
  ready <- {j \in Jobs : Servable(j)}

ImplementsLifecycle == Lifecycle!FairSpec
===============================================================================
