--------------------------- MODULE ExportJobs_proofs ---------------------------
(***************************************************************************)
(* Theorems about ExportJobs, for any number of jobs, requests and attempts *)
(* (and for every choice of Ops and Faults unless one is assumed away).    *)
(***************************************************************************)
EXTENDS ExportJobs, TLAPS

-------------------------------------------------------------------------------
(* Type correctness.  First what the helpers do to the variable they write. *)

LEMMA GotoType ==
  ASSUME SlotOK, NEW s \in Slots, NEW pc \in SlotPcs \ {"link"}, slot[s].pc # "idle", Goto(s, pc)
  PROVE  SlotOK'
<1>1. slot[s] \in SlotRecord
  BY DEF SlotOK
<1>2. [slot[s] EXCEPT !.pc = pc] \in SlotRecord
  BY <1>1 DEF SlotRecord
<1>3. slot' = [slot EXCEPT ![s] = [slot[s] EXCEPT !.pc = pc]]
  BY DEF Goto, SlotOK
<1> QED BY <1>1, <1>2, <1>3 DEF SlotOK, SlotRecord

LEMMA ReplyType ==
  ASSUME ReqOK, NEW p \in Clients, Reply(p) PROVE ReqOK'
<1>1. IdleReq \in ReqRecord
  BY DEF IdleReq, ReqRecord, ReqPcs
<1> QED BY <1>1 DEF ReqOK, Reply

LEMMA ProceedType ==
  ASSUME ReqOK, NEW p \in Clients, NEW pc \in ReqPcs, Proceed(p, pc) PROVE ReqOK'
<1>1. [req[p] EXCEPT !.pc = pc] \in ReqRecord
  BY DEF ReqOK, ReqRecord
<1>2. req' = [req EXCEPT ![p] = [req[p] EXCEPT !.pc = pc]]
  BY DEF Proceed, ReqOK
<1> QED BY <1>1, <1>2 DEF ReqOK

LEMMA WriteType ==
  ASSUME TableOK, NEW j, NEW st \in Statuses, WriteStatus(j, st)
  PROVE  status' \in [Jobs -> Statuses] /\ aged' \in SUBSET Jobs
BY DEF TableOK, WriteStatus

LEMMA BeginType ==
  ASSUME ReqOK, TableOK, NEW p \in Clients, NEW op, NEW pc \in ReqPcs, NEW j \in Jobs,
         Begin(p, op, pc, j)
  PROVE  ReqOK'
<1>1. [IdleReq EXCEPT !.pc = pc, !.job = j, !.seen = status[j]] \in ReqRecord
  BY DEF TableOK, IdleReq, ReqRecord
<1> QED BY <1>1 DEF ReqOK, Begin

LEMMA QueueAddType ==
  ASSUME QueueOK, NEW j, QueueAdd(j) PROVE QueueOK'
BY DEF QueueOK, QueueAdd

LEMMA QueueRemoveType ==
  ASSUME QueueOK, NEW j, QueueRemove(j) PROVE QueueOK'
BY DEF QueueOK, QueueRemove

LEMMA DropAssetsType ==
  ASSUME StoreOK, NEW v, DropAssets(v), UNCHANGED objects PROVE StoreOK'
BY DEF StoreOK, DropAssets

LEMMA SameType ==
  /\ TableOK /\ UNCHANGED table => TableOK'
  /\ StoreOK /\ UNCHANGED store => StoreOK'
  /\ QueueOK /\ UNCHANGED bull => QueueOK'
  /\ SlotOK /\ UNCHANGED slot => SlotOK'
  /\ ReqOK /\ UNCHANGED req => ReqOK'
BY DEF TableOK, StoreOK, QueueOK, SlotOK, ReqOK, table, store, bull

(* TypeOK but for the history. *)
Types == TableOK /\ StoreOK /\ QueueOK /\ SlotOK /\ ReqOK

LEMMA InitTypes == Init => Types
BY DEF Init, Types, TableOK, StoreOK, QueueOK, SlotOK, ReqOK, SlotRecord, ReqRecord,
       Statuses, SlotPcs, ReqPcs, IdleSlot, IdleReq

-------------------------------------------------------------------------------
(* The worker and its queue. *)

LEMMA AttemptType ==
  ASSUME Types, NEW s \in Slots,
         Attempt(s) \/ AttemptError(s) \/ Crash(s) \/ LoseLock(s)
  PROVE  Types'
<1> USE SameType DEF Types
<1>0. {"fail", "complete", "markRunning", "render", "createAsset"} \subseteq SlotPcs \ {"link"}
  BY DEF SlotPcs
<1>1. CASE ReadRow(s)
  BY <1>0, <1>1, GotoType DEF ReadRow
<1>2. CASE MarkRunning(s)
  <2>1. SlotOK'
    BY <1>0, <1>2, GotoType DEF MarkRunning
  <2>2. TableOK'
    BY <1>2, WriteType DEF MarkRunning, TableOK, Statuses, table
  <2> QED BY <1>2, <2>1, <2>2 DEF MarkRunning
<1>3. CASE RenderAndStore(s)
  <2>1. SlotOK'
    BY <1>0, <1>3, GotoType DEF RenderAndStore, StorePdf
  <2>2. StoreOK'
    BY <1>3 DEF RenderAndStore, StorePdf, StoreOK, SlotOK
  <2> QED BY <1>3, <2>1, <2>2 DEF RenderAndStore, StorePdf
<1>4. CASE CreateAsset(s)
  <2>1. CASE Goto(s, "fail") /\ UNCHANGED asset
    BY <1>0, <1>4, <2>1, GotoType DEF CreateAsset, store
  <2>2. CASE \E a \in Assets : /\ asset' = [asset EXCEPT ![slot[s].job] = a]
                               /\ slot' = [slot EXCEPT ![s].pc = "link", ![s].asset = a]
    <3>1. PICK a \in Assets : /\ asset' = [asset EXCEPT ![slot[s].job] = a]
                              /\ slot' = [slot EXCEPT ![s].pc = "link", ![s].asset = a]
      BY <2>2
    <3>2. [slot[s] EXCEPT !.pc = "link", !.asset = a] \in SlotRecord
      BY DEF SlotOK, SlotRecord, SlotPcs
    <3>3. slot' = [slot EXCEPT ![s] = [slot[s] EXCEPT !.pc = "link", !.asset = a]]
      BY <3>1 DEF SlotOK
    <3>4. SlotOK'
      BY <1>4, <3>2, <3>3 DEF SlotOK, SlotRecord, CreateAsset
    <3>5. StoreOK'
      BY <1>4, <3>1 DEF CreateAsset, StoreOK
    <3> QED BY <1>4, <3>4, <3>5 DEF CreateAsset
  <2> QED BY <1>4, <2>1, <2>2 DEF CreateAsset
<1>5. CASE Link(s)
  <2>1. SlotOK'
    BY <1>0, <1>5, GotoType DEF Link
  <2>2. TableOK'
    <3>1. slot[s].asset \in Assets
      BY <1>5 DEF Link, SlotOK
    <3> QED BY <1>5, <3>1, WriteType DEF Link, TableOK, Statuses, table
  <2> QED BY <1>5, <2>1, <2>2 DEF Link
<1>6. CASE FinishAttempt(s)
  <2>1. SlotOK'
    BY <1>6 DEF FinishAttempt, SlotOK, SlotRecord, IdleSlot, SlotPcs
  <2>2. QueueOK'
    BY <1>6 DEF FinishAttempt, QueueOK, SlotOK, bull
  <2> QED BY <1>6, <2>1, <2>2 DEF FinishAttempt
<1>7. CASE AttemptError(s)
  BY <1>0, <1>7, GotoType DEF AttemptError
<1>8. CASE Crash(s)
  <2>1. SlotOK'
    BY <1>8 DEF Crash, SlotOK, SlotRecord, IdleSlot, SlotPcs
  <2>2. QueueOK'
    BY <1>8 DEF Crash, QueueOK
  <2> QED BY <1>8, <2>1, <2>2 DEF Crash
<1>9. CASE LoseLock(s)
  <2>1. QueueOK'
    BY <1>9 DEF LoseLock, QueueOK
  <2> QED BY <1>9, <2>1 DEF LoseLock
<1> QED BY <1>1, <1>2, <1>3, <1>4, <1>5, <1>6, <1>7, <1>8, <1>9 DEF Attempt

LEMMA QueueType ==
  ASSUME Types, NEW j \in Jobs,
         \/ \E s \in Slots : Fetch(s, j)
         \/ StallRequeue(j) \/ StallFail(j) \/ HandleFailed(j) \/ LoseFailedEvent(j)
  PROVE  Types'
<1> USE SameType DEF Types
<1>1. ASSUME NEW s \in Slots, Fetch(s, j) PROVE Types'
  <2>1. SlotOK'
    BY <1>1 DEF Fetch, SlotOK, SlotRecord, IdleSlot, SlotPcs
  <2>2. QueueOK'
    BY <1>1 DEF Fetch, QueueOK
  <2> QED BY <1>1, <2>1, <2>2 DEF Fetch
<1>2. CASE StallRequeue(j)
  BY <1>2 DEF StallRequeue, QueueOK
<1>3. CASE StallFail(j)
  BY <1>3 DEF StallFail, QueueOK
<1>4. CASE HandleFailed(j)
  <2>1. TableOK'
    BY <1>4, WriteType DEF HandleFailed, TableOK, Statuses, table
  <2> QED BY <1>4, <2>1 DEF HandleFailed, QueueOK
<1>5. CASE LoseFailedEvent(j)
  BY <1>5 DEF LoseFailedEvent, QueueOK
<1> QED BY <1>1, <1>2, <1>3, <1>4, <1>5

-------------------------------------------------------------------------------
(* The API's requests. *)

LEMMA StartType ==
  ASSUME Types, NEW p \in Clients, Start(p)
  PROVE  Types'
<1> USE SameType DEF Types
<1>0. {"enqueue", "cancelRemove", "retryReset"} \subseteq ReqPcs
  BY DEF ReqPcs
<1>1. ASSUME NEW j \in Jobs, Create(p, j) PROVE Types'
  <2>1. TableOK'
    BY <1>1, WriteType DEF Create, TableOK, Statuses, table
  <2> QED BY <1>0, <1>1, <2>1, BeginType DEF Create
<1>2. ASSUME NEW j \in Jobs, Cancel(p, j) PROVE Types'
  BY <1>0, <1>2, BeginType DEF Cancel
<1>3. ASSUME NEW j \in Jobs, Retry(p, j) PROVE Types'
  BY <1>0, <1>3, BeginType DEF Retry
<1>4. ASSUME NEW j \in Jobs, RemoveAsset(p, j) PROVE Types'
  <2>1. asset[j] \in Assets
    BY <1>4 DEF RemoveAsset, StoreOK
  <2>2. \A v \in SUBSET (Jobs \X Assets) :
          [IdleReq EXCEPT !.pc = "removeCheck", !.job = j, !.victims = v] \in ReqRecord
    BY DEF IdleReq, ReqRecord, ReqPcs
  <2>3. {<<j, asset[j]>>} \in SUBSET (Jobs \X Assets)
    BY <2>1
  <2>4. [IdleReq EXCEPT !.pc = "removeCheck", !.job = j, !.victims = {<<j, asset[j]>>}] \in ReqRecord
    BY <2>2, <2>3
  <2>5. ReqOK'
    BY <1>4, <2>4 DEF RemoveAsset, ReqOK
  <2> QED BY <1>4, <2>5 DEF RemoveAsset
<1>5. CASE Cleanup(p)
  <2>1. PICK old \in SUBSET {j \in Jobs : Exists(j)} :
          LET stale == {j \in old : status[j] \in Unsettled} IN
            /\ aged' = old
            /\ req' = [req EXCEPT ![p] = [IdleReq EXCEPT !.pc = "cleanupRemove",
                                                         !.jobs = stale, !.todo = stale]]
    BY <1>5 DEF Cleanup
  <2>2. \A stale \in SUBSET Jobs :
          [IdleReq EXCEPT !.pc = "cleanupRemove", !.jobs = stale, !.todo = stale] \in ReqRecord
    BY DEF IdleReq, ReqRecord, ReqPcs
  <2>3. ReqOK'
    BY <2>1, <2>2 DEF ReqOK
  <2>4. TableOK'
    BY <1>5, <2>1 DEF Cleanup, TableOK
  <2> QED BY <1>5, <2>3, <2>4 DEF Cleanup
<1>6. CASE CleanAssets(p)
  <2>1. PICK orphans \in SUBSET {j \in Jobs : asset[j] # None /\ ~Referenced(asset[j])} :
          req' = [req EXCEPT ![p] = [IdleReq EXCEPT !.pc = "assetObjects", !.todo = orphans,
                                       !.victims = {<<j, asset[j]>> : j \in orphans}]]
    BY <1>6 DEF CleanAssets
  <2>2. {<<j, asset[j]>> : j \in orphans} \in SUBSET (Jobs \X Assets) /\ orphans \in SUBSET Jobs
    BY DEF StoreOK
  <2>3. \A t \in SUBSET Jobs, v \in SUBSET (Jobs \X Assets) :
          [IdleReq EXCEPT !.pc = "assetObjects", !.todo = t, !.victims = v] \in ReqRecord
    BY DEF IdleReq, ReqRecord, ReqPcs
  <2>4. ReqOK'
    BY <2>1, <2>2, <2>3 DEF ReqOK
  <2> QED BY <1>6, <2>4 DEF CleanAssets
<1> QED BY <1>1, <1>2, <1>3, <1>4, <1>5, <1>6 DEF Start

(* What the two queries of a cleanup store in the request. *)
LEMMA SelectType ==
  ASSUME NEW r \in ReqRecord, NEW pc \in ReqPcs,
         NEW js \in SUBSET Jobs, NEW vs \in SUBSET (Jobs \X Assets)
  PROVE  /\ [r EXCEPT !.pc = pc, !.jobs = js, !.victims = vs] \in ReqRecord
         /\ [r EXCEPT !.pc = pc, !.victims = vs, !.todo = js] \in ReqRecord
BY DEF ReqRecord

(* A loop over storage keys visits one. *)
LEMMA TodoType ==
  ASSUME ReqOK, NEW p \in Clients, NEW j, req' = [req EXCEPT ![p].todo = @ \ {j}]
  PROVE  ReqOK'
<1>1. [req[p] EXCEPT !.todo = req[p].todo \ {j}] \in ReqRecord
  BY DEF ReqOK, ReqRecord
<1>2. req' = [req EXCEPT ![p] = [req[p] EXCEPT !.todo = req[p].todo \ {j}]]
  BY DEF ReqOK
<1> QED BY <1>1, <1>2 DEF ReqOK

LEMMA RemoveQueuedType ==
  ASSUME QueueOK, ReqOK, NEW p \in Clients, NEW pc \in ReqPcs, RemoveQueued(p, pc)
  PROVE  QueueOK' /\ ReqOK'
BY SameType, QueueRemoveType, ProceedType, ReplyType DEF RemoveQueued

LEMMA DeleteObjectType ==
  ASSUME StoreOK, ReqOK, NEW p \in Clients, NEW pc, DeleteObject(p, pc)
  PROVE  StoreOK' /\ ReqOK'
<1>1. ReqOK'
  BY TodoType DEF DeleteObject
<1>2. StoreOK'
  BY DEF DeleteObject, StoreOK
<1> QED BY <1>1, <1>2

LEMMA ContinueType ==
  ASSUME Types, NEW p \in Clients, Continue(p) \/ RequestDies(p)
  PROVE  Types'
<1> USE SameType DEF Types
<1>0. ReqPcs = {"idle", "enqueue", "enqueueFailed", "cancelRemove", "cancelWrite",
           "retryReset", "retryRemove", "cleanupRemove", "cleanupMark",
           "cleanupExpire", "cleanupFind", "cleanupObjects", "cleanupAssets",
           "cleanupJobs", "removeCheck", "removeObject", "removeRow",
           "assetObjects", "assetRows"}
  BY DEF ReqPcs
<1>1. CASE Enqueue(p) \/ EnqueueFails(p)
  BY <1>0, <1>1, QueueAddType, ReplyType, ProceedType DEF Enqueue, EnqueueFails
<1>2. CASE RecordEnqueueFailure(p)
  <2>1. TableOK'
    BY <1>2, WriteType DEF RecordEnqueueFailure, TableOK, Statuses, table
  <2> QED BY <1>2, <2>1, ReplyType DEF RecordEnqueueFailure
<1>3. CASE CancelRemove(p)
  BY <1>0, <1>3, RemoveQueuedType DEF CancelRemove
<1>4. CASE CancelWrite(p)
  <2>1. TableOK'
    BY <1>4, WriteType DEF CancelWrite, TableOK, Statuses, table
  <2> QED BY <1>4, <2>1, ReplyType DEF CancelWrite
<1>5. CASE RetryReset(p)
  <2>1. TableOK'
    BY <1>5, WriteType DEF RetryReset, TableOK, Statuses, table
  <2> QED BY <1>0, <1>5, <2>1, ReplyType, ProceedType DEF RetryReset
<1>6. CASE RetryRemove(p)
  BY <1>0, <1>6, RemoveQueuedType DEF RetryRemove
<1>7. CASE QueueUnavailable(p) \/ RequestDies(p)
  BY <1>7, ReplyType DEF QueueUnavailable, RequestDies
<1>8. CASE CleanupRemove(p)
  BY <1>8, TodoType, QueueRemoveType DEF CleanupRemove
<1>9. CASE CleanupMark(p)
  <2>1. TableOK'
    BY <1>9 DEF CleanupMark, TableOK, Statuses
  <2> QED BY <1>0, <1>9, <2>1, ProceedType DEF CleanupMark
<1>10. CASE CleanupExpire(p)
  <2> DEFINE expired == {j \in aged : status[j] \in Terminal}
             wanted == {<<j, result[j]>> : j \in {i \in expired : result[i] # None}}
  <2>1. expired \in SUBSET Jobs /\ wanted \in SUBSET (Jobs \X Assets)
    BY DEF TableOK
  <2> HIDE DEF expired, wanted
  <2>2. [req[p] EXCEPT !.pc = "cleanupFind", !.jobs = expired, !.victims = wanted] \in ReqRecord
    BY <1>0, <2>1, SelectType DEF ReqOK
  <2>3. req' = [req EXCEPT ![p] =
                  [req[p] EXCEPT !.pc = "cleanupFind", !.jobs = expired, !.victims = wanted]]
    BY <1>10 DEF CleanupExpire, ReqOK, expired, wanted
  <2>4. ReqOK'
    BY <2>2, <2>3 DEF ReqOK
  <2> QED BY <1>10, <2>4 DEF CleanupExpire
<1>11. CASE CleanupFind(p)
  <2> DEFINE found == {v \in req[p].victims : asset[v[1]] = v[2]}
             keys == {v[1] : v \in found}
  <2>1. found \in SUBSET (Jobs \X Assets) /\ keys \in SUBSET Jobs
    BY DEF ReqOK, ReqRecord
  <2> HIDE DEF found, keys
  <2>2. [req[p] EXCEPT !.pc = "cleanupObjects", !.victims = found, !.todo = keys] \in ReqRecord
    BY <1>0, <2>1, SelectType DEF ReqOK
  <2>3. req' = [req EXCEPT ![p] =
                  [req[p] EXCEPT !.pc = "cleanupObjects", !.victims = found, !.todo = keys]]
    BY <1>11 DEF CleanupFind, ReqOK, found, keys
  <2>4. ReqOK'
    BY <2>2, <2>3 DEF ReqOK
  <2> QED BY <1>11, <2>4 DEF CleanupFind
<1>12. CASE CleanupObjects(p) \/ CleanAssetObjects(p)
  <2>1. PICK pc : DeleteObject(p, pc)
    BY <1>12 DEF CleanupObjects, CleanAssetObjects
  <2> QED BY <2>1, DeleteObjectType DEF DeleteObject
<1>13. CASE CleanupAssets(p)
  BY <1>0, <1>13, DropAssetsType, ProceedType DEF CleanupAssets
<1>14. CASE CleanupJobs(p)
  <2>1. TableOK'
    BY <1>14 DEF CleanupJobs, TableOK, Statuses
  <2> QED BY <1>14, <2>1, ReplyType DEF CleanupJobs
<1>15. CASE RemoveAssetCheck(p)
  BY <1>0, <1>15, ReplyType, ProceedType DEF RemoveAssetCheck
<1>16. CASE RemoveAssetObject(p)
  <2>1. StoreOK'
    BY <1>16 DEF RemoveAssetObject, StoreOK
  <2> QED BY <1>0, <1>16, <2>1, ReplyType, ProceedType DEF RemoveAssetObject
<1>17. CASE RemoveAssetRow(p) \/ CleanAssetRows(p)
  BY <1>17, DropAssetsType, ReplyType DEF RemoveAssetRow, CleanAssetRows
<1> QED BY <1>1, <1>2, <1>3, <1>4, <1>5, <1>6, <1>7, <1>8, <1>9, <1>10, <1>11, <1>12,
           <1>13, <1>14, <1>15, <1>16, <1>17 DEF Continue

LEMMA StepTypes == Types /\ [Next]_vars => Types'
<1> SUFFICES ASSUME Types, [Next]_vars PROVE Types'
  OBVIOUS
<1>1. CASE Next
  BY <1>1, AttemptType, QueueType, StartType, ContinueType DEF Next
<1>2. CASE UNCHANGED vars
  BY <1>2, SameType DEF Types, vars
<1> QED BY <1>1, <1>2

(* The histories, whoever begins and whatever is selected.                  *)
LEMMA PastType == Types /\ PastOK /\ [Next]_vars => PastOK'
<1> SUFFICES ASSUME Types, PastOK, [Next]_vars PROVE PastOK'
  OBVIOUS
<1>0. ASSUME NEW js, NEW p, Meet(p, js) PROVE overlap' \in [Jobs -> {"never", "now", "past"}]
  BY <1>0 DEF PastOK, Meet
<1>1. ASSUME NEW js \in SUBSET Jobs, Claim(js) PROVE claimed' \in SUBSET Jobs
  BY <1>1 DEF PastOK, Claim
<1>2. ASSUME NEW p \in Clients, Start(p) PROVE PastOK'
  <2>1. ASSUME NEW j \in Jobs, Create(p, j) \/ Cancel(p, j) \/ Retry(p, j) PROVE PastOK'
    BY <1>0, <2>1 DEF Create, Cancel, Retry, Begin, PastOK
  <2>2. ASSUME NEW j \in Jobs, RemoveAsset(p, j) PROVE PastOK'
    BY <1>1, <2>2 DEF RemoveAsset, PastOK
  <2>3. CASE Cleanup(p)
    BY <1>0, <2>3 DEF Cleanup, PastOK
  <2>4. CASE CleanAssets(p)
    <3>1. PICK orphans \in SUBSET Jobs : Claim({j \in orphans : Making(j)})
      BY <2>4 DEF CleanAssets
    <3>2. {j \in orphans : Making(j)} \in SUBSET Jobs
      OBVIOUS
    <3> QED BY <1>1, <2>4, <3>1, <3>2 DEF CleanAssets, PastOK
  <2> QED BY <1>2, <2>1, <2>2, <2>3, <2>4 DEF Start
<1>3. ASSUME NEW p \in Clients, Continue(p) \/ RequestDies(p) PROVE PastOK'
  <2>1. CASE CleanupExpire(p)
    <3>1. {j \in aged : status[j] \in Terminal /\ result[j] # None} \in SUBSET Jobs
      BY DEF Types, TableOK
    <3> QED BY <1>1, <2>1, <3>1 DEF CleanupExpire, PastOK
  <2>2. CASE ~CleanupExpire(p)
    <3>1. UNCHANGED past
      BY <1>3, <2>2 DEF Continue, Enqueue, EnqueueFails, RecordEnqueueFailure, CancelRemove, CancelWrite, RetryReset,
         RetryRemove, QueueUnavailable, CleanupRemove, CleanupMark, CleanupFind, CleanupObjects,
         CleanupAssets, CleanupJobs, RemoveAssetCheck, RemoveAssetObject, RemoveAssetRow, CleanAssetObjects,
         CleanAssetRows, DeleteObject, RequestDies
    <3> QED BY <3>1 DEF past, PastOK
  <2> QED BY <2>1, <2>2
<1>4. ASSUME NEW s \in Slots, Attempt(s) \/ AttemptError(s) \/ Crash(s) \/ LoseLock(s) PROVE PastOK'
  <2>1. CASE MarkRunning(s)
    <3>1. slot[s].job \in Jobs
      BY <2>1 DEF MarkRunning, Types, SlotOK
    <3> QED BY <1>1, <2>1, <3>1 DEF MarkRunning, PastOK
  <2>2. CASE ~MarkRunning(s)
    <3>1. UNCHANGED past
      BY <1>4, <2>2 DEF Attempt, ReadRow, RenderAndStore, CreateAsset, Link, FinishAttempt, AttemptError,
         Crash, LoseLock
    <3> QED BY <3>1 DEF past, PastOK
  <2> QED BY <2>1, <2>2
<1>5. ASSUME NEW j \in Jobs, StallRequeue(j) \/ StallFail(j) \/ HandleFailed(j) \/ LoseFailedEvent(j)
      PROVE  PastOK'
  BY <1>5 DEF StallRequeue, StallFail, HandleFailed, LoseFailedEvent, past, PastOK
<1>6. ASSUME NEW s \in Slots, NEW j \in Jobs, Fetch(s, j) PROVE PastOK'
  BY <1>6 DEF Fetch, past, PastOK
<1>7. CASE UNCHANGED vars
  BY <1>7 DEF vars, past, PastOK
<1> QED BY <1>2, <1>3, <1>4, <1>5, <1>6, <1>7 DEF Next

LEMMA InitType == Init => TypeOK
BY InitTypes DEF Init, Types, TypeOK, PastOK

LEMMA StepType == TypeOK /\ [Next]_vars => TypeOK'
BY StepTypes, PastType DEF Types, TypeOK

(* Every variable keeps its type, whatever is requested and whatever fails. *)
THEOREM TypeCorrect == Spec => []TypeOK
BY InitType, StepType, PTL DEF Spec

-------------------------------------------------------------------------------
(* One attempt per job. *)

(* Why SingleAttempt and SuccessNotRerun hold, in inductive form: an attempt *)
(* holds the lock of its job, a locked job is active (so it is neither       *)
(* fetched again nor removed), and what an attempt read of its row before    *)
(* marking it running still is not "succeeded".                             *)
AttemptsInv ==
  /\ \A s \in Slots : slot[s].pc # "idle" => lock[slot[s].job] = s
  /\ \A j \in Jobs : Locked(j) => queue[j] = "active"
  /\ \A s \in Slots : slot[s].pc = "markRunning" => status[slot[s].job] # "succeeded"

(* What a request can do to the queue and to the rows' status. *)
LEMMA RequestFrame ==
  ASSUME TypeOK, NEW p \in Clients, Start(p) \/ Continue(p) \/ RequestDies(p)
  PROVE  /\ UNCHANGED slot
         /\ UNCHANGED bull \/ \E j : QueueAdd(j) \/ QueueRemove(j)
         /\ \A j \in Jobs : status'[j] = "succeeded" => status[j] = "succeeded"
         /\ \A j \in Jobs : status'[j] = "running" => status[j] = "running"
<1> USE DEF TypeOK, TableOK, WriteStatus, table, store
<1>1. CASE Start(p)
  BY <1>1 DEF Start, Create, Cancel, Retry, RemoveAsset, Cleanup, CleanAssets
<1>2. CASE Enqueue(p) \/ EnqueueFails(p) \/ RecordEnqueueFailure(p)
  BY <1>2 DEF Enqueue, EnqueueFails, RecordEnqueueFailure
<1>3. CASE CancelRemove(p) \/ CancelWrite(p) \/ RetryReset(p) \/ RetryRemove(p)
  BY <1>3 DEF CancelRemove, CancelWrite, RetryReset, RetryRemove, RemoveQueued
<1>4. CASE QueueUnavailable(p) \/ RequestDies(p)
  BY <1>4 DEF QueueUnavailable, RequestDies
<1>5. CASE CleanupRemove(p) \/ CleanupMark(p) \/ CleanupExpire(p) \/ CleanupFind(p)
  BY <1>5 DEF CleanupRemove, CleanupMark, CleanupExpire, CleanupFind
<1>6. CASE CleanupObjects(p) \/ CleanupAssets(p) \/ CleanupJobs(p)
  BY <1>6 DEF CleanupObjects, CleanupAssets, CleanupJobs, DeleteObject
<1>7. CASE \/ RemoveAssetCheck(p) \/ RemoveAssetObject(p) \/ RemoveAssetRow(p)
           \/ CleanAssetObjects(p) \/ CleanAssetRows(p)
  BY <1>7 DEF RemoveAssetCheck, RemoveAssetObject, RemoveAssetRow, CleanAssetObjects,
              CleanAssetRows, DeleteObject
<1> QED BY <1>1, <1>2, <1>3, <1>4, <1>5, <1>6, <1>7 DEF Continue

LEMMA AttemptsFromInit == Init => AttemptsInv
BY DEF Init, AttemptsInv, IdleSlot, Locked

LEMMA ExclusiveAttempts == TypeOK /\ AttemptsInv => SingleAttempt
BY DEF AttemptsInv, SingleAttempt

LEMMA AttemptsRequest ==
  ASSUME TypeOK, AttemptsInv, NEW p \in Clients, Start(p) \/ Continue(p) \/ RequestDies(p)
  PROVE  AttemptsInv'
<1>1. PICK j : UNCHANGED bull \/ QueueAdd(j) \/ QueueRemove(j)
  BY RequestFrame
<1>2. UNCHANGED lock
  BY <1>1 DEF bull, QueueAdd, QueueRemove
<1>3. \A i \in Jobs : Locked(i) => queue'[i] = queue[i]
  BY <1>1 DEF AttemptsInv, TypeOK, QueueOK, bull, QueueAdd, QueueRemove, Locked
<1> QED BY <1>2, <1>3, RequestFrame DEF AttemptsInv, TypeOK, SlotOK, Locked

LEMMA AttemptsQueue ==
  ASSUME TypeOK, AttemptsInv, NEW j \in Jobs,
         \/ \E s \in Slots : Fetch(s, j)
         \/ StallRequeue(j) \/ StallFail(j) \/ HandleFailed(j) \/ LoseFailedEvent(j)
  PROVE  AttemptsInv'
<1> USE DEF TypeOK, QueueOK, SlotOK, TableOK
<1>1. ASSUME NEW s \in Slots, Fetch(s, j) PROVE AttemptsInv'
  <2>1. lock[j] = None
    BY <1>1 DEF Fetch, AttemptsInv, Locked
  <2>2. /\ lock' = [lock EXCEPT ![j] = s] /\ queue' = [queue EXCEPT ![j] = "active"]
        /\ UNCHANGED status
        /\ slot' = [slot EXCEPT ![s] = [IdleSlot EXCEPT !.pc = "read", !.job = j]]
    BY <1>1 DEF Fetch, table
  <2>3. slot'[s].pc = "read" /\ slot'[s].job = j
    BY <2>2 DEF IdleSlot
  <2>4. \A t \in Slots \ {s} : slot'[t] = slot[t] /\ (slot[t].pc # "idle" => slot[t].job # j)
    BY <2>1, <2>2, NoneAssumption DEF AttemptsInv
  <2> QED BY <2>2, <2>3, <2>4 DEF AttemptsInv, Locked
<1>2. CASE StallRequeue(j) \/ StallFail(j)
  BY <1>2 DEF StallRequeue, StallFail, AttemptsInv, Locked, table
<1>3. CASE HandleFailed(j)
  BY <1>3 DEF HandleFailed, AttemptsInv, Locked, table, WriteStatus
<1>4. CASE LoseFailedEvent(j)
  BY <1>4 DEF LoseFailedEvent, AttemptsInv, Locked, table
<1> QED BY <1>1, <1>2, <1>3, <1>4

LEMMA GotoFrame ==
  ASSUME SlotOK, NEW s \in Slots, NEW pc, Goto(s, pc)
  PROVE  /\ slot'[s].pc = pc /\ slot'[s].job = slot[s].job
         /\ \A t \in Slots \ {s} : slot'[t] = slot[t]
BY DEF SlotOK, SlotRecord, Goto

(* A step that stays inside the attempt. *)
LEMMA AttemptFrame ==
  ASSUME TypeOK, NEW s \in Slots,
         \/ ReadRow(s) \/ MarkRunning(s) \/ RenderAndStore(s)
         \/ CreateAsset(s) \/ Link(s) \/ AttemptError(s)
  PROVE  /\ slot[s].pc # "idle" /\ UNCHANGED bull
         /\ slot'[s].job = slot[s].job
         /\ \A t \in Slots \ {s} : slot'[t] = slot[t]
         /\ slot'[s].pc = "markRunning" => status'[slot[s].job] # "succeeded"
         /\ \A i \in Jobs \ {slot[s].job} : status'[i] = status[i]
<1> USE GotoFrame DEF TypeOK, TableOK, table
<1>1. CASE ReadRow(s)
  BY <1>1 DEF ReadRow
<1>2. CASE MarkRunning(s)
  BY <1>2 DEF MarkRunning, WriteStatus
<1>3. CASE RenderAndStore(s)
  BY <1>3 DEF RenderAndStore, StorePdf
<1>4. CASE CreateAsset(s)
  <2>1. CASE Goto(s, "fail")
    BY <1>4, <2>1 DEF CreateAsset
  <2>2. CASE \E a \in Assets : slot' = [slot EXCEPT ![s].pc = "link", ![s].asset = a]
    <3>1. slot'[s].pc = "link" /\ slot'[s].job = slot[s].job /\ \A t \in Slots \ {s} : slot'[t] = slot[t]
      BY <2>2 DEF SlotOK, SlotRecord
    <3> QED BY <1>4, <3>1 DEF CreateAsset
  <2> QED BY <1>4, <2>1, <2>2 DEF CreateAsset
<1>5. CASE Link(s)
  BY <1>5 DEF Link, WriteStatus
<1>6. CASE AttemptError(s)
  BY <1>6 DEF AttemptError
<1> QED BY <1>1, <1>2, <1>3, <1>4, <1>5, <1>6

(* The attempts' own steps: a step of s leaves the attempts of other jobs    *)
(* alone, and there is no other attempt of its own.                         *)
LEMMA AttemptsAttempt ==
  ASSUME TypeOK, AttemptsInv, "lock" \notin Faults, NEW s \in Slots,
         Attempt(s) \/ AttemptError(s) \/ Crash(s) \/ LoseLock(s)
  PROVE  AttemptsInv'
<1> USE DEF TypeOK, QueueOK, SlotOK, TableOK
<1> DEFINE j == slot[s].job
<1>1. \A t \in Slots \ {s} : slot[t].pc # "idle" /\ slot[s].pc # "idle" => slot[t].job # j
  BY ExclusiveAttempts DEF SingleAttempt
<1>2. CASE \/ ReadRow(s) \/ MarkRunning(s) \/ RenderAndStore(s)
           \/ CreateAsset(s) \/ Link(s) \/ AttemptError(s)
  BY <1>1, <1>2, AttemptFrame DEF AttemptsInv, Locked, bull
<1>3. CASE FinishAttempt(s)
  <2>1. slot' = [slot EXCEPT ![s] = IdleSlot] /\ UNCHANGED status /\ j \in Jobs /\ lock[j] = s
    BY <1>3 DEF FinishAttempt, table, AttemptsInv
  <2>2. /\ lock' = [lock EXCEPT ![j] = None]
        /\ \A i \in Jobs \ {j} : queue'[i] = queue[i]
    BY <1>3, <2>1 DEF FinishAttempt
  <2> QED BY <1>1, <1>3, <2>1, <2>2 DEF FinishAttempt, AttemptsInv, Locked, IdleSlot
<1>4. CASE Crash(s)
  BY <1>4 DEF Crash, AttemptsInv, Locked, IdleSlot, table
<1>5. CASE LoseLock(s)
  BY <1>5 DEF LoseLock
<1> QED BY <1>2, <1>3, <1>4, <1>5 DEF Attempt

LEMMA AttemptsStep ==
  ASSUME "lock" \notin Faults
  PROVE  TypeOK /\ AttemptsInv /\ [Next]_vars => AttemptsInv'
<1> SUFFICES ASSUME TypeOK, AttemptsInv, [Next]_vars PROVE AttemptsInv'
  OBVIOUS
<1>1. CASE Next
  BY <1>1, AttemptsRequest, AttemptsQueue, AttemptsAttempt DEF Next
<1>2. CASE UNCHANGED vars
  BY <1>2 DEF AttemptsInv, Locked, vars, table, bull
<1> QED BY <1>1, <1>2

LEMMA AttemptsCorrect ==
  ASSUME "lock" \notin Faults PROVE Spec => []AttemptsInv
BY AttemptsFromInit, AttemptsStep, TypeCorrect, PTL DEF Spec

(* Unless a live attempt can lose its lock, a job is never in two attempts,  *)
(* whatever is requested, queued twice, removed, cleaned up or crashes.      *)
THEOREM AttemptsAreExclusive ==
  ASSUME "lock" \notin Faults PROVE Spec => []SingleAttempt
BY AttemptsCorrect, TypeCorrect, ExclusiveAttempts, PTL

(* And the worker never starts over on a succeeded job. *)
THEOREM SuccessIsNotRerun ==
  ASSUME "lock" \notin Faults PROVE Spec => SuccessNotRerun
<1>1. ASSUME TypeOK, AttemptsInv, [Next]_vars, NEW j \in Jobs,
             status[j] = "succeeded", status'[j] = "running"
      PROVE  FALSE
  <2> USE <1>1 DEF TypeOK, TableOK, SlotOK
  <2>1. ASSUME NEW p \in Clients, Start(p) \/ Continue(p) \/ RequestDies(p) PROVE FALSE
    BY <2>1, RequestFrame DEF TypeOK
  <2>2. ASSUME NEW s \in Slots, MarkRunning(s) PROVE FALSE
    BY <2>2 DEF MarkRunning, WriteStatus, AttemptsInv, table
  <2>3. ASSUME NEW s \in Slots, Link(s) PROVE FALSE
    BY <2>3 DEF Link, WriteStatus, table
  <2>4. ASSUME NEW i \in Jobs, HandleFailed(i) PROVE FALSE
    BY <2>4 DEF HandleFailed, WriteStatus, table
  <2>5. CASE UNCHANGED status
    BY <2>5
  <2> QED
    BY <2>1, <2>2, <2>3, <2>4, <2>5 DEF Next, vars, table, Attempt, ReadRow, RenderAndStore, StorePdf,
       CreateAsset, FinishAttempt, AttemptError, Crash, LoseLock, Fetch, StallRequeue,
       StallFail, LoseFailedEvent
<1>2. TypeOK /\ AttemptsInv /\ [Next]_vars =>
        [\A j \in Jobs : status[j] = "succeeded" => status'[j] # "running"]_status
  BY <1>1
<1> QED BY <1>2, AttemptsCorrect, TypeCorrect, PTL DEF Spec, SuccessNotRerun

-------------------------------------------------------------------------------
(* What has succeeded can be downloaded, whatever is deleted meanwhile.     *)

(* What is known of an asset a request has in hand: nobody is making it      *)
(* unless it is claimed, and once the request has decided to delete it, no   *)
(* job has succeeded with it.                                               *)
HandsOff(p) ==
  \A v \in req[p].victims : v[1] \notin claimed =>
    /\ ~Making(v[1])
    /\ req[p].pc \notin {"cleanupFind", "cleanupObjects", "cleanupAssets"}
    /\ req[p].pc \in {"removeObject", "removeRow", "assetObjects"} => status[v[1]] # "succeeded"
    /\ req[p].pc = "removeCheck" /\ status[v[1]] = "succeeded" => result[v[1]] = v[2]

(* The keys a deletion loops over are those of the assets it has in hand.   *)
Keys(p) ==
  /\ req[p].pc \in {"cleanupObjects", "assetObjects"} => \A j \in req[p].todo : InHand(p, j)
  /\ req[p].pc \in {"removeCheck", "removeObject", "removeRow"} =>
       InHand(p, req[p].job) /\ \A v \in req[p].victims : v[1] = req[p].job

(* In inductive form: the PDF is stored before its asset is created, the     *)
(* asset an attempt will link is the one of its key, and a deletion keeps    *)
(* off what is being made or has succeeded.                                 *)
DeliveryInv ==
  /\ AttemptOwnsAsset
  /\ SucceededDownloadable
  /\ \A s \in Slots : slot[s].pc \in {"createAsset", "link"} /\ slot[s].job \notin claimed =>
       slot[s].job \in objects
  /\ \A p \in Clients : HandsOff(p) /\ Keys(p)

LEMMA DeliveryInit == Init => DeliveryInv
BY DEF Init, DeliveryInv, AttemptOwnsAsset, SucceededDownloadable, Servable, HandsOff, Keys, IdleSlot, IdleReq

(* A request step adds claims and takes rows out of "succeeded", no more.   *)
LEMMA DeliveryFrame ==
  ASSUME TypeOK, NEW p \in Clients, Start(p) \/ Continue(p) \/ RequestDies(p)
  PROVE  /\ claimed \subseteq claimed'
         /\ \A q \in Clients \ {p} : req'[q] = req[q]
         /\ \A j \in Jobs : status'[j] = "succeeded" => status[j] = "succeeded" /\ result'[j] = result[j]
<1> USE DEF TypeOK, TableOK, ReqOK, WriteStatus, table, past, Reply, Proceed, Begin, Claim
<1>1. CASE Start(p)
  BY <1>1 DEF Start, Create, Cancel, Retry, RemoveAsset, Cleanup, CleanAssets
<1>2. CASE Enqueue(p) \/ EnqueueFails(p) \/ RecordEnqueueFailure(p)
  BY <1>2 DEF Enqueue, EnqueueFails, RecordEnqueueFailure
<1>3. CASE CancelRemove(p) \/ CancelWrite(p) \/ RetryReset(p) \/ RetryRemove(p)
  BY <1>3 DEF CancelRemove, CancelWrite, RetryReset, RetryRemove, RemoveQueued
<1>4. CASE QueueUnavailable(p) \/ RequestDies(p)
  BY <1>4 DEF QueueUnavailable, RequestDies
<1>5. CASE CleanupRemove(p) \/ CleanupMark(p) \/ CleanupExpire(p) \/ CleanupFind(p)
  BY <1>5 DEF CleanupRemove, CleanupMark, CleanupExpire, CleanupFind
<1>6. CASE CleanupObjects(p) \/ CleanupAssets(p) \/ CleanupJobs(p)
  BY <1>6 DEF CleanupObjects, CleanupAssets, CleanupJobs, DeleteObject
<1>7. CASE \/ RemoveAssetCheck(p) \/ RemoveAssetObject(p) \/ RemoveAssetRow(p)
           \/ CleanAssetObjects(p) \/ CleanAssetRows(p)
  BY <1>7 DEF RemoveAssetCheck, RemoveAssetObject, RemoveAssetRow, CleanAssetObjects,
              CleanAssetRows, DeleteObject
<1> QED BY <1>1, <1>2, <1>3, <1>4, <1>5, <1>6, <1>7 DEF Continue

(* A request that has nothing in hand, or less than before and decided        *)
(* nothing new, keeps its part.                                             *)
LEMMA EmptyHands ==
  ASSUME NEW p \in Clients, req'[p].victims = {}, req'[p].todo = {} \/ req'[p].pc \notin {"cleanupObjects", "assetObjects"},
         req'[p].pc \notin {"removeCheck", "removeObject", "removeRow"}
  PROVE  HandsOff(p)' /\ Keys(p)'
BY DEF HandsOff, Keys

(* A request that starts to delete: it claims what is being made.           *)
LEMMA HandsStart ==
  ASSUME TypeOK, DeliveryInv, NEW p \in Clients, Start(p)
  PROVE  HandsOff(p)' /\ Keys(p)'
<1> USE DEF TypeOK, ReqOK
<1>1. ASSUME NEW j \in Jobs, Create(p, j) \/ Cancel(p, j) \/ Retry(p, j) PROVE HandsOff(p)' /\ Keys(p)'
  <2>1. PICK pc \in {"enqueue", "cancelRemove", "retryReset"} :
          req' = [req EXCEPT ![p] = [IdleReq EXCEPT !.pc = pc, !.job = j, !.seen = status[j]]]
    BY <1>1 DEF Create, Cancel, Retry, Begin
  <2>2. req'[p].pc = pc /\ req'[p].victims = {}
    BY <2>1 DEF IdleReq
  <2> QED BY <2>2, EmptyHands
<1>2. ASSUME NEW j \in Jobs, RemoveAsset(p, j) PROVE HandsOff(p)' /\ Keys(p)'
  <2>1. /\ req'[p].pc = "removeCheck" /\ req'[p].job = j /\ req'[p].victims = {<<j, asset[j]>>}
        /\ UNCHANGED <<status, result, slot>> /\ (Making(j) => j \in claimed') /\ claimed \subseteq claimed'
    BY <1>2 DEF RemoveAsset, IdleReq, table, Claim
  <2>2. j \notin claimed' => ~Making(j)' /\ (status'[j] = "succeeded" => result'[j] = asset[j])
    BY <2>1 DEF DeliveryInv, SucceededDownloadable, Servable, Making
  <2> QED BY <2>1, <2>2 DEF HandsOff, Keys, InHand
<1>3. CASE Cleanup(p)
  <2>1. req'[p].pc = "cleanupRemove" /\ req'[p].victims = {}
    BY <1>3 DEF Cleanup, IdleReq
  <2> QED BY <2>1, EmptyHands
<1>4. CASE CleanAssets(p)
  <2>1. PICK orphans \in SUBSET {j \in Jobs : asset[j] # None /\ ~Referenced(asset[j])} :
          /\ req' = [req EXCEPT ![p] = [IdleReq EXCEPT !.pc = "assetObjects", !.todo = orphans,
                                       !.victims = {<<j, asset[j]>> : j \in orphans}]]
          /\ Claim({j \in orphans : Making(j)})
    BY <1>4 DEF CleanAssets
  <2>2. /\ req'[p].pc = "assetObjects" /\ req'[p].todo = orphans
        /\ req'[p].victims = {<<j, asset[j]>> : j \in orphans}
    BY <2>1 DEF IdleReq
  <2>3. UNCHANGED <<status, result, slot>>
    BY <1>4 DEF CleanAssets, table
  <2>4. \A j \in orphans : j \notin claimed' => ~Making(j)' /\ status'[j] # "succeeded"
    <3>1. SUFFICES ASSUME NEW j \in orphans, j \notin claimed' PROVE ~Making(j)' /\ status'[j] # "succeeded"
      OBVIOUS
    <3>2. j \in Jobs /\ asset[j] # None /\ result[j] # asset[j] /\ j \notin claimed /\ ~Making(j)
      BY <2>1, <3>1 DEF Referenced, Claim
    <3> QED BY <2>3, <3>2 DEF DeliveryInv, SucceededDownloadable, Servable, Making
  <2>5. HandsOff(p)'
    BY <2>2, <2>4 DEF HandsOff
  <2>6. \A j \in req'[p].todo : \E v \in req'[p].victims : v[1] = j
    <3>1. SUFFICES ASSUME NEW j \in orphans PROVE \E v \in req'[p].victims : v[1] = j
      BY <2>2
    <3>2. <<j, asset[j]>> \in req'[p].victims /\ <<j, asset[j]>>[1] = j
      BY <2>2
    <3> QED BY <3>2
  <2>7. Keys(p)'
    BY <2>2, <2>6 DEF Keys, InHand
  <2> QED BY <2>5, <2>7
<1> QED BY <1>1, <1>2, <1>3, <1>4 DEF Start

(* Steps of a request that has begun: it drops what it has in hand, or goes   *)
(* on with it; what a cleanup selects is claimed, and the check of a removal *)
(* finds out whether a job has succeeded with the asset.                    *)
LEMMA HandsJob ==
  ASSUME TypeOK, DeliveryInv, NEW p \in Clients,
         \/ Enqueue(p) \/ EnqueueFails(p) \/ RecordEnqueueFailure(p) \/ CancelRemove(p) \/ CancelWrite(p)
         \/ RetryReset(p) \/ RetryRemove(p) \/ QueueUnavailable(p) \/ RequestDies(p)
         \/ RemoveAssetRow(p) \/ CleanAssetRows(p) \/ CleanupJobs(p)
  PROVE  HandsOff(p)' /\ Keys(p)'
<1>1. CASE Reply(p)
  <2>1. req'[p] = IdleReq
    BY <1>1 DEF Reply, TypeOK, ReqOK
  <2> QED BY <2>1, EmptyHands DEF IdleReq
<1>2. CASE \E pc \in JobPcs : Proceed(p, pc) /\ req[p].pc \in JobPcs /\ UNCHANGED <<slot, claimed>>
  <2>1. PICK pc \in JobPcs : Proceed(p, pc) /\ req[p].pc \in JobPcs /\ UNCHANGED <<slot, claimed>>
    BY <1>2
  <2>2. req'[p].pc = pc /\ req'[p].victims = req[p].victims
    BY <2>1 DEF Proceed, TypeOK, ReqOK, ReqRecord
  <2> QED BY <2>1, <2>2 DEF DeliveryInv, HandsOff, Keys, Making, JobPcs
<1> QED BY <1>1, <1>2 DEF Enqueue, EnqueueFails, RecordEnqueueFailure, CancelRemove, CancelWrite, RetryReset,
     RetryRemove, RemoveQueued, QueueUnavailable, RequestDies, RemoveAssetRow, CleanAssetRows, CleanupJobs,
     JobPcs, past

(* A loop that visits one key less has no less in hand.                     *)
LEMMA HandsLoop ==
  ASSUME TypeOK, NEW p \in Clients, HandsOff(p), Keys(p), NEW j, req' = [req EXCEPT ![p].todo = @ \ {j}],
         UNCHANGED <<status, result, slot, claimed>>
  PROVE  HandsOff(p)' /\ Keys(p)'
<1>1. /\ req'[p].pc = req[p].pc /\ req'[p].job = req[p].job /\ req'[p].victims = req[p].victims
      /\ req'[p].todo \subseteq req[p].todo
  BY DEF TypeOK, ReqOK, ReqRecord
<1> QED BY <1>1 DEF HandsOff, Keys, InHand, Making

LEMMA HandsCleanup ==
  ASSUME TypeOK, DeliveryInv, NEW p \in Clients,
         \/ CleanupRemove(p) \/ CleanupMark(p) \/ CleanupExpire(p) \/ CleanupFind(p)
         \/ CleanupObjects(p) \/ CleanupAssets(p) \/ CleanAssetObjects(p)
  PROVE  HandsOff(p)' /\ Keys(p)'
<1> USE DEF TypeOK, ReqOK
<1>0. HandsOff(p) /\ Keys(p)
  BY DEF DeliveryInv
<1>1. CASE CleanupRemove(p) \/ CleanupObjects(p) \/ CleanAssetObjects(p)
  <2>1. PICK j : req' = [req EXCEPT ![p].todo = @ \ {j}]
    BY <1>1 DEF CleanupRemove, CleanupObjects, CleanAssetObjects, DeleteObject
  <2>2. UNCHANGED <<status, result, slot, claimed>>
    BY <1>1 DEF CleanupRemove, CleanupObjects, CleanAssetObjects, DeleteObject, table, past
  <2> QED BY <1>0, <2>1, <2>2, HandsLoop
<1>2. CASE CleanupMark(p) \/ CleanupAssets(p)
  <2>1. PICK pc \in {"cleanupExpire", "cleanupJobs"} : Proceed(p, pc)
    BY <1>2 DEF CleanupMark, CleanupAssets
  <2>2. req'[p].pc = pc /\ req'[p].victims = req[p].victims
    BY <2>1 DEF Proceed, ReqRecord
  <2>3. UNCHANGED <<slot, claimed>>
    BY <1>2 DEF CleanupMark, CleanupAssets, past
  <2> QED BY <1>0, <2>1, <2>2, <2>3 DEF HandsOff, Keys, Making
<1>3. CASE CleanupExpire(p)
  <2> DEFINE chosen == {j \in aged : status[j] \in Terminal /\ result[j] # None}
  <2>1. req'[p].pc = "cleanupFind" /\ claimed' = claimed \cup chosen
    BY <1>3 DEF CleanupExpire, ReqRecord, Claim
  <2>2. \A v \in req'[p].victims : v[1] \in chosen
    <3> DEFINE expired == {j \in aged : status[j] \in Terminal}
               wanted == {<<j, result[j]>> : j \in {i \in expired : result[i] # None}}
    <3>1. \A v \in wanted : v[1] \in chosen
      OBVIOUS
    <3>2. req' = [req EXCEPT ![p].pc = "cleanupFind", ![p].jobs = expired, ![p].victims = wanted]
      BY <1>3 DEF CleanupExpire
    <3> HIDE DEF expired, wanted, chosen
    <3>3. req'[p].victims = wanted
      BY <3>2 DEF ReqRecord
    <3> QED BY <3>1, <3>3
  <2> QED BY <2>1, <2>2 DEF HandsOff, Keys
<1>4. CASE CleanupFind(p)
  <2>1. /\ req'[p].pc = "cleanupObjects" /\ req'[p].victims \subseteq req[p].victims
        /\ \A j \in req'[p].todo : \E v \in req'[p].victims : v[1] = j
    BY <1>4 DEF CleanupFind, ReqRecord
  <2>2. UNCHANGED claimed /\ req[p].pc = "cleanupFind"
    BY <1>4 DEF CleanupFind, past
  <2> QED BY <1>0, <2>1, <2>2 DEF HandsOff, Keys, InHand
<1> QED BY <1>1, <1>2, <1>3, <1>4

LEMMA HandsRemove ==
  ASSUME TypeOK, DeliveryInv, NEW p \in Clients, RemoveAssetCheck(p) \/ RemoveAssetObject(p)
  PROVE  HandsOff(p)' /\ Keys(p)'
<1> USE DEF TypeOK, ReqOK
<1>0. HandsOff(p) /\ Keys(p)
  BY DEF DeliveryInv
<1>1. CASE Reply(p)
  <2>1. req'[p] = IdleReq
    BY <1>1 DEF Reply
  <2> QED BY <2>1, EmptyHands DEF IdleReq
<1>2. CASE ~Reply(p)
  <2>1. PICK pc \in {"removeObject", "removeRow"} : Proceed(p, pc)
    BY <1>2 DEF RemoveAssetCheck, RemoveAssetObject
  <2>2. req'[p].pc = pc /\ req'[p].victims = req[p].victims /\ req'[p].job = req[p].job
    BY <2>1 DEF Proceed, ReqRecord
  <2>3. UNCHANGED <<slot, claimed, status, result>>
    BY DEF RemoveAssetCheck, RemoveAssetObject, past, table
  <2>4. \A v \in req[p].victims : v[1] \notin claimed => status[v[1]] # "succeeded"
    <3>1. CASE RemoveAssetCheck(p)
      <4>1. \A v \in req[p].victims : ~Referenced(v[2]) /\ v[1] \in Jobs
        BY <1>2, <3>1 DEF RemoveAssetCheck, ReqRecord
      <4> QED BY <1>0, <3>1, <4>1 DEF RemoveAssetCheck, Referenced, HandsOff
    <3>2. CASE RemoveAssetObject(p)
      BY <1>0, <3>2 DEF RemoveAssetObject, HandsOff
    <3> QED BY <3>1, <3>2
  <2>5. req[p].pc \in {"removeCheck", "removeObject"}
    BY DEF RemoveAssetCheck, RemoveAssetObject
  <2>6. HandsOff(p)'
    BY <1>0, <2>2, <2>3, <2>4, <2>1 DEF HandsOff, Making
  <2>7. Keys(p)'
    BY <1>0, <2>2, <2>5, <2>1 DEF Keys, InHand
  <2> QED BY <2>6, <2>7
<1> QED BY <1>1, <1>2

LEMMA HandsContinue ==
  ASSUME TypeOK, DeliveryInv, NEW p \in Clients, Start(p) \/ Continue(p) \/ RequestDies(p)
  PROVE  HandsOff(p)' /\ Keys(p)'
BY HandsStart, HandsJob, HandsCleanup, HandsRemove DEF Continue

(* Of what is being made or has succeeded only the claimed is deleted.      *)
LEMMA OnlyHeldIsLost ==
  ASSUME TypeOK, DeliveryInv, NEW p \in Clients, Start(p) \/ Continue(p) \/ RequestDies(p),
         NEW j \in Jobs, j \notin claimed, Making(j) \/ status[j] = "succeeded"
  PROVE  asset'[j] = asset[j] /\ (j \in objects => j \in objects')
<1> USE DEF TypeOK, StoreOK
<1>0. HandsOff(p) /\ Keys(p)
  BY DEF DeliveryInv
<1>1. CASE UNCHANGED store
  BY <1>1 DEF store
<1>2. CASE CleanupAssets(p) \/ RemoveAssetRow(p) \/ CleanAssetRows(p)
  <2>1. \A v \in req[p].victims : v[1] # j
    BY <1>0, <1>2 DEF HandsOff, CleanupAssets, RemoveAssetRow, CleanAssetRows
  <2>2. DropAssets(req[p].victims) /\ UNCHANGED objects
    BY <1>2 DEF CleanupAssets, RemoveAssetRow, CleanAssetRows
  <2>3. <<j, asset[j]>> \notin req[p].victims
    <3>1. <<j, asset[j]>>[1] = j
      OBVIOUS
    <3> QED BY <2>1, <3>1
  <2> QED BY <2>2, <2>3 DEF DropAssets
<1>3. CASE CleanupObjects(p) \/ CleanAssetObjects(p)
  <2>1. PICK i \in req[p].todo : objects' = objects \ {i} \/ UNCHANGED objects
    BY <1>3 DEF CleanupObjects, CleanAssetObjects, DeleteObject
  <2>2. UNCHANGED asset /\ req[p].pc \in {"cleanupObjects", "assetObjects"}
    BY <1>3 DEF CleanupObjects, CleanAssetObjects, DeleteObject
  <2>3. i # j
    BY <1>0, <2>2 DEF HandsOff, Keys, InHand
  <2> QED BY <2>1, <2>2, <2>3
<1>4. CASE RemoveAssetObject(p)
  <2>1. req[p].job # j
    BY <1>0, <1>4 DEF HandsOff, Keys, InHand, RemoveAssetObject
  <2> QED BY <1>4, <2>1 DEF RemoveAssetObject
<1>5. CASE Start(p)
  BY <1>1, <1>5 DEF Start, Create, Cancel, Retry, RemoveAsset, Cleanup, CleanAssets
<1>6. CASE Continue(p) \/ RequestDies(p)
  BY <1>1, <1>2, <1>3, <1>4, <1>6 DEF Continue, Enqueue, EnqueueFails, RecordEnqueueFailure, CancelRemove, CancelWrite,
     RetryReset, RetryRemove, QueueUnavailable, CleanupRemove, CleanupMark, CleanupExpire, CleanupFind,
     CleanupJobs, RemoveAssetCheck, RequestDies
<1> QED BY <1>5, <1>6

LEMMA DeliveryRequest ==
  ASSUME TypeOK, DeliveryInv, NEW p \in Clients, Start(p) \/ Continue(p) \/ RequestDies(p)
  PROVE  DeliveryInv'
<1>1. /\ claimed \subseteq claimed' /\ UNCHANGED slot
      /\ \A q \in Clients \ {p} : req'[q] = req[q]
      /\ \A j \in Jobs : status'[j] = "succeeded" => status[j] = "succeeded" /\ result'[j] = result[j]
  BY DeliveryFrame, RequestFrame
<1>2. ASSUME NEW q \in Clients PROVE HandsOff(q)' /\ Keys(q)'
  <2>1. CASE q = p
    BY <2>1, HandsContinue
  <2>2. CASE q # p
    <3>1. req'[q] = req[q] /\ HandsOff(q) /\ Keys(q) /\ \A v \in req[q].victims : v[1] \in Jobs
      BY <1>1, <2>2 DEF DeliveryInv, TypeOK, ReqOK, ReqRecord
    <3> QED BY <1>1, <3>1 DEF HandsOff, Keys, InHand, Making
  <2> QED BY <2>1, <2>2
<1>3. \A j \in Jobs \ claimed' : Making(j) \/ status[j] = "succeeded" =>
        asset'[j] = asset[j] /\ (j \in objects => j \in objects')
  BY <1>1, OnlyHeldIsLost
<1>4. SucceededDownloadable'
  BY <1>1, <1>3 DEF DeliveryInv, SucceededDownloadable, Servable
<1>5. \A s \in Slots : slot[s].pc \in {"createAsset", "link"} => slot[s].job \in Jobs /\ Making(slot[s].job)
  BY DEF TypeOK, SlotOK, Making
<1>6. AttemptOwnsAsset'
  BY <1>1, <1>3, <1>5 DEF DeliveryInv, AttemptOwnsAsset
<1>7. \A s \in Slots : slot'[s].pc \in {"createAsset", "link"} /\ slot'[s].job \notin claimed' =>
        slot'[s].job \in objects'
  BY <1>1, <1>3, <1>5 DEF DeliveryInv
<1> QED BY <1>2, <1>4, <1>6, <1>7 DEF DeliveryInv

LEMMA DeliveryQueue ==
  ASSUME TypeOK, DeliveryInv, NEW j \in Jobs,
         \/ \E s \in Slots : Fetch(s, j)
         \/ StallRequeue(j) \/ StallFail(j) \/ HandleFailed(j) \/ LoseFailedEvent(j)
  PROVE  DeliveryInv'
<1> USE DEF TypeOK, TableOK
<1>1. /\ UNCHANGED <<result, store, claimed, req>>
      /\ \A i \in Jobs : status'[i] = "succeeded" => status[i] = "succeeded"
  BY DEF Fetch, StallRequeue, StallFail, HandleFailed, LoseFailedEvent, WriteStatus, table, past
<1>2. \A s \in Slots : slot'[s].pc \in {"render", "createAsset", "link"} => slot'[s] = slot[s]
  <2>1. ASSUME NEW s \in Slots, Fetch(s, j)
        PROVE  slot'[s].pc = "read" /\ \A t \in Slots \ {s} : slot'[t] = slot[t]
    <3>1. slot' = [slot EXCEPT ![s] = [IdleSlot EXCEPT !.pc = "read", !.job = j]]
      BY <2>1 DEF Fetch
    <3> QED BY <3>1 DEF SlotOK, IdleSlot
  <2>2. CASE StallRequeue(j) \/ StallFail(j) \/ HandleFailed(j) \/ LoseFailedEvent(j)
    BY <2>2 DEF StallRequeue, StallFail, HandleFailed, LoseFailedEvent
  <2> QED BY <2>1, <2>2
<1>3. \A i \in Jobs : Making(i)' => Making(i)
  BY <1>2 DEF Making
<1>4. ASSUME NEW q \in Clients PROVE HandsOff(q)' /\ Keys(q)'
  <2>1. req'[q] = req[q] /\ HandsOff(q) /\ Keys(q) /\ \A v \in req[q].victims : v[1] \in Jobs
    BY <1>1 DEF DeliveryInv, ReqOK, ReqRecord
  <2> QED BY <1>1, <1>3, <2>1 DEF HandsOff, Keys, InHand
<1>5. AttemptOwnsAsset' /\ SucceededDownloadable'
  BY <1>1, <1>2 DEF DeliveryInv, AttemptOwnsAsset, SucceededDownloadable, Servable, store
<1> QED BY <1>1, <1>2, <1>4, <1>5 DEF DeliveryInv, store

(* An attempt's steps leave the requests alone; what it newly makes and a     *)
(* request has in hand is claimed.                                          *)
LEMMA HandsAttempt ==
  ASSUME TypeOK, DeliveryInv, NEW s \in Slots, NEW p \in Clients,
         Attempt(s) \/ AttemptError(s) \/ Crash(s) \/ LoseLock(s)
  PROVE  HandsOff(p)' /\ Keys(p)'
<1> USE GotoFrame DEF TypeOK, TableOK, SlotOK
<1>0. HandsOff(p) /\ Keys(p) /\ \A v \in req[p].victims : v[1] \in Jobs
  BY DEF DeliveryInv, ReqOK, ReqRecord
<1>1. UNCHANGED req /\ claimed \subseteq claimed'
  BY DEF Attempt, ReadRow, MarkRunning, RenderAndStore, CreateAsset, Link, FinishAttempt, AttemptError,
     Crash, LoseLock, past, Claim
<1>2. \A t \in Slots \ {s} : slot'[t] = slot[t]
  <2>1. CASE FinishAttempt(s) \/ Crash(s) \/ LoseLock(s)
    BY <2>1 DEF FinishAttempt, Crash, LoseLock
  <2>2. CASE ~(FinishAttempt(s) \/ Crash(s) \/ LoseLock(s))
    BY <2>2, AttemptFrame DEF Attempt
  <2> QED BY <2>1, <2>2
<1>3. ASSUME NEW v \in req[p].victims, v[1] \notin claimed'
      PROVE  /\ ~Making(v[1])'
             /\ status'[v[1]] = "succeeded" => status[v[1]] = "succeeded" /\ result'[v[1]] = result[v[1]]
  <2>1. ~Making(v[1]) /\ v[1] \in Jobs
    BY <1>0, <1>1, <1>3 DEF HandsOff
  <2>2. CASE MarkRunning(s)
    <3>1. slot[s].job = v[1] => slot'[s].pc = "fail"
      BY <1>3, <2>2 DEF MarkRunning, Claim, InHand
    <3>2. slot'[s].job = slot[s].job
      BY <2>2 DEF MarkRunning
    <3> QED BY <1>2, <2>1, <2>2, <3>1, <3>2 DEF MarkRunning, WriteStatus, Making, table
  <2>3. CASE ReadRow(s) \/ AttemptError(s)
    <3>1. slot'[s].pc \notin {"render", "createAsset", "link"}
      BY <2>3 DEF ReadRow, AttemptError
    <3> QED BY <1>2, <2>1, <2>3, <3>1 DEF ReadRow, AttemptError, Making, table
  <2>4. CASE RenderAndStore(s) \/ CreateAsset(s) \/ Link(s)
    <3>1. slot'[s].job = slot[s].job
      BY <2>4, AttemptFrame
    <3>2. slot[s].job # v[1]
      BY <2>1, <2>4 DEF RenderAndStore, CreateAsset, Link, Making
    <3>3. status'[v[1]] = status[v[1]] /\ result'[v[1]] = result[v[1]]
      BY <2>1, <2>4, <3>2 DEF RenderAndStore, CreateAsset, Link, WriteStatus, table
    <3> QED BY <1>2, <2>1, <3>1, <3>2, <3>3 DEF Making
  <2>5. CASE FinishAttempt(s) \/ Crash(s)
    <3>1. slot'[s].pc = "idle"
      BY <2>5 DEF FinishAttempt, Crash, IdleSlot
    <3> QED BY <1>2, <2>1, <2>5, <3>1 DEF FinishAttempt, Crash, Making, table
  <2>6. CASE LoseLock(s)
    BY <2>1, <2>6 DEF LoseLock, Making, table
  <2> QED BY <2>2, <2>3, <2>4, <2>5, <2>6 DEF Attempt
<1>4. HandsOff(p)'
  BY <1>0, <1>1, <1>3 DEF HandsOff
<1>5. Keys(p)'
  BY <1>0, <1>1 DEF Keys, InHand
<1> QED BY <1>4, <1>5

LEMMA DeliveryAttempt ==
  ASSUME TypeOK, DeliveryInv, NEW s \in Slots,
         Attempt(s) \/ AttemptError(s) \/ Crash(s) \/ LoseLock(s)
  PROVE  DeliveryInv'
<1> DEFINE Stored == \A t \in Slots : slot[t].pc \in {"createAsset", "link"} /\ slot[t].job \notin claimed =>
                       slot[t].job \in objects
<1>0. \A p \in Clients : HandsOff(p)' /\ Keys(p)'
  BY HandsAttempt
<1> SUFFICES AttemptOwnsAsset' /\ SucceededDownloadable' /\ Stored'
  BY <1>0 DEF DeliveryInv
<1> USE GotoFrame DEF TypeOK, TableOK, StoreOK, AttemptOwnsAsset,
                      SucceededDownloadable, Servable, store, table
<1>9. AttemptOwnsAsset /\ SucceededDownloadable /\ Stored
  BY DEF DeliveryInv
<1> DEFINE j == slot[s].job
<1>1. CASE ReadRow(s)
  BY <1>1, <1>9 DEF ReadRow, past
<1>2. CASE MarkRunning(s)
  BY <1>2, <1>9 DEF MarkRunning, WriteStatus, Claim
<1>3. CASE RenderAndStore(s)
  BY <1>3, <1>9 DEF RenderAndStore, StorePdf, past
<1>4. CASE CreateAsset(s)
  <2>1. CASE Goto(s, "fail") /\ UNCHANGED asset
    BY <1>4, <1>9, <2>1 DEF CreateAsset, past
  <2>2. CASE \E a \in Assets : /\ asset[j] = None
                               /\ asset' = [asset EXCEPT ![j] = a]
                               /\ slot' = [slot EXCEPT ![s].pc = "link", ![s].asset = a]
    <3>1. PICK a \in Assets : /\ asset[j] = None
                              /\ asset' = [asset EXCEPT ![j] = a]
                              /\ slot' = [slot EXCEPT ![s].pc = "link", ![s].asset = a]
      BY <2>2
    <3>2. /\ slot'[s].pc = "link" /\ slot'[s].job = j /\ slot'[s].asset = a
          /\ \A t \in Slots \ {s} : slot'[t] = slot[t]
      BY <3>1 DEF SlotOK, SlotRecord
    <3>3. j \in Jobs /\ slot[s].pc = "createAsset" /\ UNCHANGED <<status, result, objects, claimed>>
      BY <1>4 DEF CreateAsset, SlotOK, past
    <3>4. \A t \in Slots \ {s} : slot[t].pc = "link" /\ slot[t].job \notin claimed => slot[t].job # j
      BY <1>9, <3>1, NoneAssumption DEF SlotOK
    <3>5. j \notin claimed => status[j] # "succeeded"
      BY <1>9, <3>1, <3>3
    <3>6. AttemptOwnsAsset'
      BY <1>9, <3>1, <3>2, <3>3, <3>4 DEF SlotOK
    <3>7. SucceededDownloadable'
      BY <1>9, <3>1, <3>3, <3>5
    <3> QED BY <1>9, <3>2, <3>3, <3>6, <3>7
  <2> QED BY <1>4, <2>1, <2>2 DEF CreateAsset
<1>5. CASE Link(s)
  BY <1>5, <1>9, NoneAssumption DEF Link, WriteStatus, SlotOK, past
<1>6. CASE FinishAttempt(s) \/ Crash(s)
  <2>1. slot'[s].pc = "idle" /\ \A t \in Slots \ {s} : slot'[t] = slot[t]
    BY <1>6 DEF FinishAttempt, Crash, IdleSlot, SlotOK
  <2> QED BY <1>6, <1>9, <2>1 DEF FinishAttempt, Crash, past
<1>7. CASE AttemptError(s)
  BY <1>7, <1>9 DEF AttemptError, past
<1>8. CASE LoseLock(s)
  BY <1>8, <1>9 DEF LoseLock, past
<1> QED BY <1>1, <1>2, <1>3, <1>4, <1>5, <1>6, <1>7, <1>8 DEF Attempt

LEMMA DeliveryStep == TypeOK /\ DeliveryInv /\ [Next]_vars => DeliveryInv'
<1> SUFFICES ASSUME TypeOK, DeliveryInv, [Next]_vars PROVE DeliveryInv'
  OBVIOUS
<1>1. CASE Next
  BY <1>1, DeliveryRequest, DeliveryQueue, DeliveryAttempt DEF Next
<1>2. CASE UNCHANGED vars
  BY <1>2 DEF DeliveryInv, AttemptOwnsAsset, SucceededDownloadable, Servable, HandsOff, Keys, InHand, Making,
     vars, table, store, past
<1> QED BY <1>1, <1>2

(* Whatever crashes, stalls, loses its lock, is lost, retried or deleted, a   *)
(* succeeded job's asset row and object are there, unless a cleanup selected *)
(* the job or a deletion and an attempt had its asset in hand together.      *)
THEOREM DeliveredIsDownloadable == Spec => []SucceededDownloadable
<1>1. DeliveryInv => SucceededDownloadable
  BY DEF DeliveryInv
<1> QED BY <1>1, DeliveryInit, DeliveryStep, TypeCorrect, PTL DEF Spec

(* ... and an attempt that is about to link has the one asset of its key,    *)
(* however many attempts of the job overlap.                                *)
THEOREM AttemptsOwnAssets == Spec => []AttemptOwnsAsset
<1>1. DeliveryInv => AttemptOwnsAsset
  BY DEF DeliveryInv
<1> QED BY <1>1, DeliveryInit, DeliveryStep, TypeCorrect, PTL DEF Spec

PipelineOps == {"create", "cancel", "retry"}

(* Where no request deletes, none has anything in hand and nothing is        *)
(* claimed.                                                                *)
Untouched == claimed = {} /\ \A p \in Clients : req[p].pc \in JobPcs \cup {"idle"} /\ req[p].victims = {}

LEMMA UntouchedStep ==
  ASSUME Ops \subseteq PipelineOps
  PROVE  TypeOK /\ Untouched /\ [Next]_vars => Untouched'
<1> SUFFICES ASSUME TypeOK, Untouched, [Next]_vars PROVE Untouched'
  OBVIOUS
<1> USE DEF TypeOK, ReqOK, Untouched
<1>1. ASSUME NEW p \in Clients, Start(p) PROVE Untouched'
  <2>1. PICK j \in Jobs : Create(p, j) \/ Cancel(p, j) \/ Retry(p, j)
    BY <1>1 DEF Start, RemoveAsset, Cleanup, CleanAssets, PipelineOps
  <2>2. PICK pc \in JobPcs :
          req' = [req EXCEPT ![p] = [IdleReq EXCEPT !.pc = pc, !.job = j, !.seen = status[j]]]
    BY <2>1 DEF Create, Cancel, Retry, Begin, JobPcs
  <2>3. req'[p].pc = pc /\ req'[p].victims = {} /\ \A q \in Clients \ {p} : req'[q] = req[q]
    BY <2>2 DEF IdleReq
  <2>4. UNCHANGED claimed
    BY <2>1 DEF Create, Cancel, Retry, Begin
  <2> QED BY <2>3, <2>4
<1>2. ASSUME NEW p \in Clients, Continue(p) \/ RequestDies(p) PROVE Untouched'
  <2>1. UNCHANGED claimed /\ (Reply(p) \/ \E pc \in JobPcs : Proceed(p, pc))
    BY <1>2 DEF Continue, Enqueue, EnqueueFails, RecordEnqueueFailure, CancelRemove, CancelWrite, RetryReset,
       RetryRemove, RemoveQueued, QueueUnavailable, CleanupRemove, CleanupMark, CleanupExpire, CleanupFind,
       CleanupObjects, CleanupAssets, CleanupJobs, RemoveAssetCheck, RemoveAssetObject, RemoveAssetRow,
       CleanAssetObjects, CleanAssetRows, DeleteObject, RequestDies, JobPcs, past
  <2>2. CASE Reply(p)
    BY <2>1, <2>2 DEF Reply, IdleReq
  <2>3. ASSUME NEW pc \in JobPcs, Proceed(p, pc) PROVE Untouched'
    <3>1. req'[p].pc = pc /\ req'[p].victims = req[p].victims /\ \A q \in Clients \ {p} : req'[q] = req[q]
      BY <2>3 DEF Proceed, ReqRecord
    <3> QED BY <2>1, <3>1
  <2> QED BY <2>1, <2>2, <2>3
<1>3. ASSUME NEW s \in Slots, Attempt(s) \/ AttemptError(s) \/ Crash(s) \/ LoseLock(s) PROVE Untouched'
  BY <1>3 DEF Attempt, ReadRow, MarkRunning, RenderAndStore, CreateAsset, Link, FinishAttempt, AttemptError,
     Crash, LoseLock, past, Claim, InHand
<1>4. ASSUME NEW j \in Jobs, StallRequeue(j) \/ StallFail(j) \/ HandleFailed(j) \/ LoseFailedEvent(j)
      PROVE  Untouched'
  BY <1>4 DEF StallRequeue, StallFail, HandleFailed, LoseFailedEvent, past
<1>5. ASSUME NEW s \in Slots, NEW j \in Jobs, Fetch(s, j) PROVE Untouched'
  BY <1>5 DEF Fetch, past
<1>6. CASE UNCHANGED vars
  BY <1>6 DEF vars, past
<1> QED BY <1>1, <1>2, <1>3, <1>4, <1>5, <1>6 DEF Next

LEMMA UntouchedInit == Init => Untouched
BY DEF Init, Untouched, IdleReq

(* So where no request deletes, every job that has succeeded can be          *)
(* downloaded.                                                              *)
THEOREM DeliveryWithoutDeletion ==
  ASSUME Ops \subseteq PipelineOps PROVE Spec => [](\A j \in Jobs : status[j] = "succeeded" => Servable(j))
<1>1. Untouched /\ SucceededDownloadable => \A j \in Jobs : status[j] = "succeeded" => Servable(j)
  BY DEF Untouched, SucceededDownloadable
<1>2. Spec => []Untouched
  BY UntouchedInit, UntouchedStep, TypeCorrect, PTL DEF Spec
<1> QED BY <1>1, <1>2, DeliveredIsDownloadable, PTL

-------------------------------------------------------------------------------
(* Requests about one job: the history misses no overlap.                   *)

Alone == \A j \in Jobs : \A p, q \in Clients : p # q /\ About(p, j) /\ About(q, j) => overlap[j] = "now"

(* A request that begins meets those under way about its jobs.              *)
LEMMA StartFrame ==
  ASSUME TypeOK, NEW p \in Clients, Start(p)
  PROVE  /\ req[p].pc = "idle" /\ \A q \in Clients \ {p} : req'[q] = req[q]
         /\ \A q \in Clients \ {p}, j \in Jobs : About(q, j)' => About(q, j)
         /\ \A j \in Jobs : overlap'[j] = "never" => overlap[j] = "never"
         /\ \A q \in Clients \ {p}, j \in Jobs : About(p, j)' /\ About(q, j) => overlap'[j] = "now"
         /\ \A j \in Jobs : overlap[j] = "now" /\ (\E q \in Clients \ {p} : About(q, j)) => overlap'[j] = "now"
<1> DEFINE Goal(js) ==
      /\ req[p].pc = "idle" /\ \A q \in Clients \ {p} : req'[q] = req[q]
      /\ \A q \in Clients \ {p}, j \in Jobs : About(q, j)' => About(q, j)
      /\ \A j \in Jobs : About(p, j)' => j \in js
      /\ \/ Meet(p, js)
         \/ js = {} /\ UNCHANGED overlap
<1> USE DEF TypeOK, ReqOK, TableOK
<1>1. \E js : Goal(js)
  <2>1. ASSUME NEW j \in Jobs, Create(p, j) \/ Cancel(p, j) \/ Retry(p, j) PROVE Goal({j})
    <3>1. PICK pc \in {"enqueue", "cancelRemove", "retryReset"} :
            /\ req[p].pc = "idle" /\ Meet(p, {j})
            /\ req' = [req EXCEPT ![p] = [IdleReq EXCEPT !.pc = pc, !.job = j, !.seen = status[j]]]
      BY <2>1 DEF Create, Cancel, Retry, Begin
    <3>2. req'[p].pc = pc /\ req'[p].job = j /\ \A q \in Clients \ {p} : req'[q] = req[q]
      BY <3>1 DEF IdleReq
    <3>3. aged' \subseteq aged
      BY <2>1 DEF Create, Cancel, Retry, WriteStatus, table
    <3>4. \A i \in Jobs : About(p, i)' => i \in {j}
      BY <3>2 DEF About, CleanupPcs
    <3> QED BY <3>1, <3>2, <3>3, <3>4 DEF About
  <2>2. ASSUME NEW j \in Jobs, RemoveAsset(p, j) PROVE Goal({})
    <3>1. req[p].pc = "idle" /\ req'[p].pc = "removeCheck" /\ UNCHANGED <<aged, overlap>>
      BY <2>2 DEF RemoveAsset, IdleReq, table
    <3>2. \A q \in Clients \ {p} : req'[q] = req[q]
      BY <2>2 DEF RemoveAsset
    <3>3. \A i \in Jobs : ~About(p, i)'
      BY <3>1 DEF About, CleanupPcs, JobPcs
    <3> QED BY <3>1, <3>2, <3>3 DEF About
  <2>3. ASSUME Cleanup(p) PROVE \E js : Goal(js)
    <3>1. PICK old \in SUBSET {j \in Jobs : Exists(j)} :
            LET stale == {j \in old : status[j] \in Unsettled} IN
              /\ aged' = old
              /\ req' = [req EXCEPT ![p] = [IdleReq EXCEPT !.pc = "cleanupRemove",
                                                           !.jobs = stale, !.todo = stale]]
              /\ Meet(p, old)
      BY <2>3 DEF Cleanup
    <3>2. req[p].pc = "idle" /\ \A q \in Clients : req[q].pc \notin CleanupPcs
      BY <2>3 DEF Cleanup, CleanupRunning
    <3>3. /\ req'[p].pc = "cleanupRemove" /\ req'[p].jobs \subseteq old /\ aged' = old
          /\ \A q \in Clients \ {p} : req'[q] = req[q]
      BY <3>1 DEF IdleReq
    <3>4. \A q \in Clients \ {p}, j \in Jobs : About(q, j)' => About(q, j)
      BY <3>2, <3>3 DEF About
    <3>5. \A j \in Jobs : About(p, j)' => j \in old
      BY <3>3 DEF About, JobPcs
    <3>6. Goal(old)
      BY <3>1, <3>2, <3>3, <3>4, <3>5
    <3> QED BY <3>6
  <2>4. ASSUME CleanAssets(p) PROVE Goal({})
    <3>1. req[p].pc = "idle" /\ req'[p].pc = "assetObjects" /\ UNCHANGED <<aged, overlap>>
      BY <2>4 DEF CleanAssets, IdleReq, table
    <3>2. \A q \in Clients \ {p} : req'[q] = req[q]
      BY <2>4 DEF CleanAssets
    <3>3. \A i \in Jobs : ~About(p, i)'
      BY <3>1 DEF About, CleanupPcs, JobPcs
    <3> QED BY <3>1, <3>2, <3>3 DEF About
  <2> HIDE DEF Goal
  <2> QED BY <2>1, <2>2, <2>3, <2>4 DEF Start
<1>2. PICK js : Goal(js)
  BY <1>1
<1>3. CASE Meet(p, js)
  <2>1. \A j \in Jobs :
          overlap'[j] = IF j \notin js THEN overlap[j]
                        ELSE IF \E q \in Clients \ {p} : About(q, j) THEN "now"
                        ELSE IF overlap[j] = "now" THEN "past" ELSE overlap[j]
    BY <1>3 DEF Meet
  <2> QED BY <1>2, <2>1
<1>4. CASE js = {} /\ UNCHANGED overlap
  BY <1>2, <1>4
<1> QED BY <1>2, <1>3, <1>4

(* A request under way turns to no other job.                               *)
LEMMA ContinueFrame ==
  ASSUME TypeOK, NEW p \in Clients, Continue(p) \/ RequestDies(p)
  PROVE  /\ req[p].pc # "idle" /\ UNCHANGED overlap /\ \A q \in Clients \ {p} : req'[q] = req[q]
         /\ \A q \in Clients, j \in Jobs : About(q, j)' => About(q, j)
<1> USE DEF TypeOK, ReqOK
<1> DEFINE Turn ==
      /\ \A q \in Clients \ {p} : req'[q] = req[q]
      /\ \/ req'[p].pc \notin JobPcs \cup CleanupPcs
         \/ req'[p].pc \in JobPcs /\ req[p].pc \in JobPcs /\ req'[p].job = req[p].job
         \/ req'[p].pc \in CleanupPcs /\ req[p].pc \in CleanupPcs /\ req'[p].jobs \subseteq req[p].jobs \cup aged
         \/ req'[p].pc = req[p].pc /\ req'[p].job = req[p].job /\ req'[p].jobs = req[p].jobs
<1>1. UNCHANGED overlap /\ req[p].pc # "idle"
  BY DEF Continue, Enqueue, EnqueueFails, RecordEnqueueFailure, CancelRemove, CancelWrite, RetryReset,
     RetryRemove, QueueUnavailable, CleanupRemove, CleanupMark, CleanupExpire, CleanupFind, CleanupObjects,
     CleanupAssets, CleanupJobs, RemoveAssetCheck, RemoveAssetObject, RemoveAssetRow, CleanAssetObjects,
     CleanAssetRows, DeleteObject, RequestDies, past
<1>2. aged' \subseteq aged
  BY DEF Continue, Enqueue, EnqueueFails, RecordEnqueueFailure, CancelRemove, CancelWrite, RetryReset,
     RetryRemove, QueueUnavailable, CleanupRemove, CleanupMark, CleanupExpire, CleanupFind, CleanupObjects,
     CleanupAssets, CleanupJobs, RemoveAssetCheck, RemoveAssetObject, RemoveAssetRow, CleanAssetObjects,
     CleanAssetRows, DeleteObject, RequestDies, WriteStatus, table
<1>3. \/ Reply(p)
      \/ \E pc \in JobPcs : req[p].pc \in JobPcs /\ Proceed(p, pc)
      \/ \E pc \in ReqPcs \ JobPcs : req[p].pc \notin JobPcs /\ (pc \in CleanupPcs => req[p].pc \in CleanupPcs) /\ Proceed(p, pc)
      \/ \E j : req' = [req EXCEPT ![p].todo = @ \ {j}]
      \/ CleanupExpire(p) \/ CleanupFind(p)
  BY DEF Continue, Enqueue, EnqueueFails, RecordEnqueueFailure, CancelRemove, CancelWrite, RetryReset,
     RetryRemove, RemoveQueued, QueueUnavailable, CleanupRemove, CleanupMark, CleanupObjects,
     CleanupAssets, CleanupJobs, RemoveAssetCheck, RemoveAssetObject, RemoveAssetRow, CleanAssetObjects,
     CleanAssetRows, DeleteObject, RequestDies, JobPcs, CleanupPcs, ReqPcs
<1>4. Turn
  <2>1. CASE Reply(p)
    BY <2>1 DEF Reply, IdleReq, JobPcs, CleanupPcs
  <2>2. ASSUME NEW pc \in JobPcs, req[p].pc \in JobPcs, Proceed(p, pc) PROVE Turn
    BY <2>2 DEF Proceed, ReqRecord
  <2>3. ASSUME NEW pc \in ReqPcs \ JobPcs, pc \in CleanupPcs => req[p].pc \in CleanupPcs, Proceed(p, pc) PROVE Turn
    BY <2>3 DEF Proceed, ReqRecord
  <2>4. ASSUME NEW j, req' = [req EXCEPT ![p].todo = @ \ {j}] PROVE Turn
    BY <2>4 DEF ReqRecord
  <2>5. CASE CleanupExpire(p)
    <3> DEFINE expired == {j \in aged : status[j] \in Terminal}
               wanted == {<<j, result[j]>> : j \in {i \in expired : result[i] # None}}
    <3>1. req' = [req EXCEPT ![p].pc = "cleanupFind", ![p].jobs = expired, ![p].victims = wanted]
      BY <2>5 DEF CleanupExpire
    <3>2. expired \subseteq aged
      OBVIOUS
    <3>3. req[p].pc = "cleanupExpire"
      BY <2>5 DEF CleanupExpire
    <3> HIDE DEF expired, wanted
    <3>4. req'[p].pc = "cleanupFind" /\ req'[p].jobs = expired /\ \A q \in Clients \ {p} : req'[q] = req[q]
      BY <3>1 DEF ReqRecord
    <3> QED BY <3>2, <3>3, <3>4 DEF CleanupPcs
  <2>6. CASE CleanupFind(p)
    <3>1. PICK found : req' = [req EXCEPT ![p].pc = "cleanupObjects", ![p].victims = found,
                                          ![p].todo = {v[1] : v \in found}]
      BY <2>6 DEF CleanupFind
    <3>2. req'[p].pc = "cleanupObjects" /\ req'[p].jobs = req[p].jobs /\ \A q \in Clients \ {p} : req'[q] = req[q]
      BY <3>1 DEF ReqRecord
    <3>3. req[p].pc = "cleanupFind"
      BY <2>6 DEF CleanupFind
    <3> QED BY <3>2, <3>3 DEF CleanupPcs
  <2> HIDE DEF Turn
  <2> QED BY <1>3, <2>1, <2>2, <2>3, <2>4, <2>5, <2>6
<1>5. ASSUME NEW q \in Clients, NEW j \in Jobs, About(q, j)' PROVE About(q, j)
  <2>0. JobPcs \cap CleanupPcs = {}
    BY DEF JobPcs, CleanupPcs
  <2>1. CASE q = p
    BY <1>2, <1>4, <1>5, <2>0, <2>1 DEF About
  <2>2. CASE q # p
    BY <1>2, <1>4, <1>5, <2>2 DEF About
  <2> QED BY <2>1, <2>2
<1> QED BY <1>1, <1>4, <1>5

(* What the worker does is about no request.                                *)
LEMMA WorkerApart ==
  ASSUME TypeOK, Next, ~(\E p \in Clients : Start(p) \/ Continue(p) \/ RequestDies(p))
  PROVE  UNCHANGED <<req, overlap>> /\ aged' \subseteq aged
<1> USE DEF WriteStatus, table, past
<1>1. ASSUME NEW s \in Slots, Attempt(s) \/ AttemptError(s) \/ Crash(s) \/ LoseLock(s)
      PROVE  UNCHANGED <<req, overlap>> /\ aged' \subseteq aged
  BY <1>1 DEF Attempt, ReadRow, MarkRunning, RenderAndStore, CreateAsset, Link, FinishAttempt, AttemptError,
     Crash, LoseLock
<1>2. ASSUME NEW s \in Slots, NEW j \in Jobs, Fetch(s, j) PROVE UNCHANGED <<req, overlap>> /\ aged' \subseteq aged
  BY <1>2 DEF Fetch
<1>3. ASSUME NEW j \in Jobs, StallRequeue(j) \/ StallFail(j) \/ HandleFailed(j) \/ LoseFailedEvent(j)
      PROVE  UNCHANGED <<req, overlap>> /\ aged' \subseteq aged
  BY <1>3 DEF StallRequeue, StallFail, HandleFailed, LoseFailedEvent
<1> QED BY <1>1, <1>2, <1>3 DEF Next

LEMMA AloneInit == Init => Alone
BY DEF Init, Alone, About, IdleReq, JobPcs, CleanupPcs

LEMMA AloneStep == TypeOK /\ Alone /\ [Next]_vars => Alone'
<1> SUFFICES ASSUME TypeOK, Alone, [Next]_vars,
                    NEW j \in Jobs, NEW q \in Clients, NEW r \in Clients, q # r, About(q, j)', About(r, j)'
             PROVE  overlap'[j] = "now"
  BY DEF Alone
<1>1. ASSUME NEW p \in Clients, Start(p) PROVE overlap'[j] = "now"
  <2>1. CASE p = q \/ p = r
    BY <1>1, <2>1, StartFrame
  <2>2. CASE p # q /\ p # r
    <3>1. About(q, j) /\ About(r, j) /\ overlap[j] = "now"
      BY <1>1, <2>2, StartFrame DEF Alone
    <3> QED BY <1>1, <2>2, <3>1, StartFrame
  <2> QED BY <2>1, <2>2
<1>2. ASSUME NEW p \in Clients, Continue(p) \/ RequestDies(p) PROVE overlap'[j] = "now"
  BY <1>2, ContinueFrame DEF Alone
<1>3. CASE UNCHANGED <<req, overlap>> /\ aged' \subseteq aged
  BY <1>3 DEF Alone, About
<1>4. CASE UNCHANGED vars
  BY <1>3, <1>4 DEF vars, table, past
<1> QED BY <1>1, <1>2, <1>3, <1>4, WorkerApart

-------------------------------------------------------------------------------
(* A pending or running row has something that will settle it, as long as    *)
(* requests only create and retry, those about its job one at a time, and no *)
(* handler is cut short.                                                    *)

(* What row and queue say of a job between requests: a failed row has been   *)
(* through the 'failed' handler, so its queue job is at rest.               *)
Tidy(j) ==
  /\ status[j] \in {"absent", "pending", "running", "succeeded", "failed"}
  /\ status[j] = "absent" => queue[j] = "none"
  /\ status[j] = "failed" => queue[j] = "failed" /\ j \notin failedEvents
  /\ j \in failedEvents => queue[j] = "failed"
  /\ status[j] \in Unsettled =>
       \/ queue[j] \in {"wait", "active"}
       \/ j \in failedEvents
       \/ \E p \in Clients : req[p].pc \in {"retryRemove", "enqueue"} /\ req[p].job = j

(* What a retry or create knows of its job: the queue is not working on it.  *)
Awaited(p) ==
  /\ req[p].pc = "retryReset" => status[req[p].job] = "failed"
  /\ req[p].pc = "retryRemove" =>
       status[req[p].job] = "pending" /\ queue[req[p].job] = "failed" /\ req[p].job \notin failedEvents
  /\ req[p].pc = "enqueue" => status[req[p].job] = "pending" /\ queue[req[p].job] = "none"

Waiting(p) ==
  /\ req[p].pc \in {"idle", "retryReset", "retryRemove", "enqueue"}
  /\ req[p].pc # "idle" => req[p].job \in Jobs

(* Requests about this job have not overlapped.                             *)
Orderly(j) == overlap[j] = "never"

(* And an attempt that ends well leaves a succeeded row.                    *)
BackedInv ==
  /\ Alone
  /\ \A p \in Clients : Waiting(p)
  /\ \A j \in Jobs : Orderly(j) => Tidy(j)
  /\ \A p \in Clients : req[p].pc # "idle" /\ Orderly(req[p].job) => Awaited(p)
  /\ \A s \in Slots : slot[s].pc = "complete" /\ Orderly(slot[s].job) => status[slot[s].job] = "succeeded"

Undisturbed == Faults \subseteq {"db", "crash"} /\ Ops \subseteq {"create", "retry"}

LEMMA BackedInit == Init => BackedInv
<1> SUFFICES ASSUME Init PROVE BackedInv
  OBVIOUS
<1>1. \A j \in Jobs : status[j] = "absent" /\ queue[j] = "none" /\ j \notin failedEvents
  BY DEF Init
<1>2. \A j \in Jobs : Tidy(j)
  BY <1>1 DEF Tidy, Unsettled
<1>3. (\A p \in Clients : req[p].pc = "idle") /\ \A s \in Slots : slot[s].pc = "idle"
  BY DEF Init, IdleReq, IdleSlot
<1> QED BY <1>2, <1>3, AloneInit DEF BackedInv, Waiting

(* A step about job j leaves what is known of the others as it is.           *)
Elsewhere(j) ==
  \A i \in Jobs \ {j} : /\ status'[i] = status[i] /\ queue'[i] = queue[i] /\ overlap'[i] = overlap[i]
                       /\ (i \in failedEvents' <=> i \in failedEvents)

(* A request that is alone with its job disturbs no other.                  *)
Sole(p, j) ==
  /\ Orderly(j) /\ Tidy(j)'
  /\ req'[p].pc # "idle" => Awaited(p)'
  /\ \A q \in Clients \ {p} : req[q].pc # "idle" => req[q].job # j
  /\ status'[j] = status[j] \/ \A s \in Slots : slot[s].pc # "idle" => slot[s].job # j

LEMMA BackedMove ==
  ASSUME TypeOK, BackedInv, Alone', NEW p \in Clients, NEW j \in Jobs, UNCHANGED slot,
         \A q \in Clients \ {p} : req'[q] = req[q],
         req[p].pc # "idle" => req[p].job = j,
         req'[p].pc # "idle" => req'[p].job = j,
         Waiting(p)', Elsewhere(j), overlap'[j] = "never" => Sole(p, j)
  PROVE  BackedInv'
<1>1. \A q \in Clients : Waiting(q)'
  BY DEF BackedInv, Waiting
<1>2. ASSUME NEW i \in Jobs, overlap'[i] = "never" PROVE Tidy(i)'
  <2>1. CASE i = j
    BY <1>2, <2>1 DEF Sole
  <2>2. CASE i # j
    <3>0. /\ status'[i] = status[i] /\ queue'[i] = queue[i] /\ overlap'[i] = overlap[i]
          /\ (i \in failedEvents' <=> i \in failedEvents)
      BY <2>2 DEF Elsewhere
    <3>1. Tidy(i)
      BY <1>2, <3>0 DEF BackedInv, Orderly
    <3>2. \A q \in Clients : req[q].pc \in {"retryRemove", "enqueue"} /\ req[q].job = i => req'[q] = req[q]
      BY <2>2
    <3>3. /\ status[i] \in {"absent", "pending", "running", "succeeded", "failed"}
          /\ status[i] = "absent" => queue[i] = "none"
          /\ status[i] = "failed" => queue[i] = "failed" /\ i \notin failedEvents
          /\ i \in failedEvents => queue[i] = "failed"
      BY <3>1 DEF Tidy
    <3>4. ASSUME status[i] \in Unsettled
          PROVE  \/ queue[i] \in {"wait", "active"}
                 \/ i \in failedEvents
                 \/ \E q \in Clients : req'[q].pc \in {"retryRemove", "enqueue"} /\ req'[q].job = i
      BY <3>1, <3>2, <3>4 DEF Tidy
    <3> QED BY <3>0, <3>3, <3>4 DEF Tidy
  <2> QED BY <2>1, <2>2
<1>3. ASSUME NEW q \in Clients, req'[q].pc # "idle", overlap'[req'[q].job] = "never" PROVE Awaited(q)'
  <2>1. CASE q = p
    BY <1>3, <2>1 DEF Sole
  <2>2. CASE q # p
    <3>1. req'[q] = req[q] /\ req[q].job \in Jobs
      BY <1>3, <2>2 DEF BackedInv, Waiting
    <3>2. PICK i \in Jobs : i = req[q].job
      BY <3>1
    <3>3. i # j
      BY <1>3, <2>2, <3>1, <3>2 DEF Sole
    <3>4. /\ status'[i] = status[i] /\ queue'[i] = queue[i] /\ overlap'[i] = overlap[i]
          /\ (i \in failedEvents' <=> i \in failedEvents)
      BY <3>3 DEF Elsewhere
    <3>5. Awaited(q)
      BY <1>3, <3>1, <3>2, <3>4 DEF BackedInv, Orderly
    <3> QED BY <3>1, <3>2, <3>4, <3>5 DEF Awaited
  <2> QED BY <2>1, <2>2
<1>4. ASSUME NEW s \in Slots, slot[s].pc = "complete", overlap'[slot[s].job] = "never"
      PROVE  status'[slot[s].job] = "succeeded"
  <2>1. PICK i \in Jobs : i = slot[s].job
    BY <1>4 DEF TypeOK, SlotOK
  <2>2. CASE i = j
    BY <1>4, <2>1, <2>2 DEF Sole, BackedInv
  <2>3. CASE i # j
    <3>1. status'[i] = status[i] /\ overlap'[i] = overlap[i]
      BY <2>3 DEF Elsewhere
    <3> QED BY <1>4, <2>1, <3>1 DEF BackedInv, Orderly
  <2> QED BY <2>2, <2>3
<1> QED BY <1>1, <1>2, <1>3, <1>4 DEF BackedInv, Orderly

(* A request works on a job that is not in any attempt.                     *)
LEMMA BackedRequest ==
  ASSUME Undisturbed, TypeOK, AttemptsInv, BackedInv, NEW p \in Clients,
         Start(p) \/ Continue(p) \/ RequestDies(p)
  PROVE  BackedInv'
<1> USE DEF TypeOK, TableOK, QueueOK, SlotOK, ReqOK, Undisturbed
<1>1. Alone' /\ \A q \in Clients \ {p} : req'[q] = req[q]
  <2>1. [Next]_vars
    BY DEF Next
  <2> QED BY <2>1, AloneStep, StartFrame, ContinueFrame DEF BackedInv
<1>2. \A s \in Slots : slot[s].pc # "idle" => queue[slot[s].job] = "active"
  BY NoneAssumption DEF AttemptsInv, Locked
<1>3. \A q \in Clients, j \in Jobs : req[q].pc # "idle" /\ req[q].job = j => About(q, j)
  BY DEF BackedInv, Waiting, About, JobPcs
<1>4. ASSUME NEW j \in Jobs, Create(p, j) \/ Retry(p, j) PROVE BackedInv'
  <2> DEFINE pc == IF Create(p, j) THEN "enqueue" ELSE "retryReset"
  <2>1. req[p].pc = "idle" /\ req'[p].pc = pc /\ req'[p].job = j /\ UNCHANGED <<queue, failedEvents, slot>>
    <3>1. /\ req[p].pc = "idle" /\ UNCHANGED <<queue, failedEvents, slot>>
          /\ req' = [req EXCEPT ![p] = [IdleReq EXCEPT !.pc = pc, !.job = j, !.seen = status[j]]]
      BY <1>4 DEF Create, Retry, Begin, bull
    <3> HIDE DEF pc
    <3> QED BY <3>1 DEF IdleReq
  <2>2. Elsewhere(j)
    <3>1. \A i \in Jobs \ {j} : status'[i] = status[i] /\ overlap'[i] = overlap[i]
      BY <1>4 DEF Create, Retry, Begin, Meet, WriteStatus, table
    <3> QED BY <2>1, <3>1 DEF Elsewhere
  <2>3. Waiting(p)'
    BY <2>1 DEF Waiting
  <2>4. ASSUME overlap'[j] = "never" PROVE Sole(p, j)
    <3>1. About(p, j)' /\ Start(p)
      BY <1>4, <2>1 DEF About, JobPcs, Start
    <3>2. Orderly(j) /\ \A q \in Clients \ {p} : ~About(q, j)
      BY <2>4, <3>1, StartFrame DEF Orderly
    <3>3. Tidy(j)
      BY <3>2 DEF BackedInv
    <3>4. \A q \in Clients : req[q].pc # "idle" => req[q].job # j
      BY <1>3, <2>1, <3>2
    <3>5. CASE Create(p, j)
      <4>1. status[j] = "absent" /\ status'[j] = "pending"
        BY <3>5 DEF Create, WriteStatus
      <4>2. Tidy(j)' /\ Awaited(p)'
        BY <2>1, <3>3, <3>5, <4>1 DEF Tidy, Awaited, Unsettled
      <4>3. \A s \in Slots : slot[s].pc # "idle" => slot[s].job # j
        BY <1>2, <3>3, <4>1 DEF Tidy
      <4> QED BY <3>2, <3>4, <4>2, <4>3 DEF Sole
    <3>6. CASE Retry(p, j) /\ ~Create(p, j)
      <4>1. status[j] = "failed" /\ UNCHANGED status
        BY <3>3, <3>6 DEF Retry, Tidy, table
      <4>2. Tidy(j)' /\ Awaited(p)'
        BY <2>1, <3>3, <3>6, <4>1 DEF Tidy, Awaited, Unsettled
      <4> QED BY <3>2, <3>4, <4>1, <4>2 DEF Sole
    <3> QED BY <1>4, <3>5, <3>6
  <2> HIDE DEF pc
  <2>5. UNCHANGED slot
    BY <2>1
  <2> QED BY <1>1, <2>1, <2>2, <2>3, <2>4, <2>5, BackedMove
<1>5. ASSUME RetryReset(p) \/ RetryRemove(p) \/ Enqueue(p) PROVE BackedInv'
  <2>0. Waiting(p) /\ req[p].pc # "idle"
    BY <1>5 DEF BackedInv, RetryReset, RetryRemove, Enqueue
  <2>1. PICK j \in Jobs : j = req[p].job
    BY <2>0 DEF Waiting
  <2>2. /\ UNCHANGED <<slot, overlap, failedEvents>>
        /\ \A i \in Jobs \ {j} : status'[i] = status[i] /\ queue'[i] = queue[i]
    BY <1>5, <2>1 DEF RetryReset, RetryRemove, RemoveQueued, QueueRemove, Enqueue, QueueAdd, WriteStatus, bull, table, past
  <2>3. \/ req'[p].pc = "idle"
        \/ req'[p].pc \in {"retryRemove", "enqueue"} /\ req'[p].job = j
    <3>1. CASE Reply(p)
      BY <3>1 DEF Reply, IdleReq
    <3>2. CASE Proceed(p, "retryRemove") \/ Proceed(p, "enqueue")
      BY <2>1, <3>2 DEF Proceed, ReqRecord
    <3> QED BY <1>5, <3>1, <3>2 DEF RetryReset, RetryRemove, RemoveQueued, Enqueue
  <2>4. Waiting(p)'
    BY <2>1, <2>3 DEF Waiting
  <2>5. ASSUME overlap'[j] = "never" PROVE Sole(p, j)
    <3>1. Orderly(j)
      BY <2>2, <2>5 DEF Orderly
    <3>2. Tidy(j) /\ Awaited(p)
      BY <2>0, <2>1, <3>1 DEF BackedInv
    <3>3. \A q \in Clients \ {p} : req[q].pc # "idle" => req[q].job # j
      BY <1>3, <2>0, <2>1, <3>1 DEF BackedInv, Alone, Orderly
    <3>4. CASE RetryReset(p)
      <4>1. status[j] = "failed" /\ queue[j] = "failed" /\ j \notin failedEvents
        BY <2>1, <3>2, <3>4 DEF RetryReset, Awaited, Tidy
      <4>2. status' = [status EXCEPT ![j] = "pending"] /\ UNCHANGED queue /\ req'[p].pc = "retryRemove" /\ req'[p].job = j
        BY <2>1, <3>4, <4>1 DEF RetryReset, Exists, WriteStatus, Proceed, bull, ReqRecord
      <4>3. Tidy(j)' /\ Awaited(p)'
        BY <2>1, <2>2, <4>1, <4>2 DEF Tidy, Awaited, Unsettled
      <4> QED BY <1>2, <3>1, <3>3, <4>1, <4>3 DEF Sole
    <3>5. CASE RetryRemove(p)
      <4>1. status[j] = "pending" /\ queue[j] = "failed" /\ j \notin failedEvents
        BY <2>1, <3>2, <3>5 DEF RetryRemove, Awaited
      <4>2. queue' = [queue EXCEPT ![j] = "none"] /\ UNCHANGED status /\ req'[p].pc = "enqueue" /\ req'[p].job = j
        BY <2>1, <3>5, <4>1 DEF RetryRemove, RemoveQueued, QueueRemove, Proceed, AttemptsInv, table, ReqRecord
      <4>3. Tidy(j)' /\ Awaited(p)'
        BY <2>1, <2>2, <4>1, <4>2 DEF Tidy, Awaited, Unsettled
      <4> QED BY <3>1, <3>3, <4>2, <4>3 DEF Sole
    <3>6. CASE Enqueue(p)
      <4>1. status[j] = "pending" /\ queue[j] = "none"
        BY <2>1, <3>2, <3>6 DEF Enqueue, Awaited
      <4>2. queue' = [queue EXCEPT ![j] = "wait"] /\ UNCHANGED status /\ req'[p].pc = "idle"
        BY <2>1, <3>6, <4>1 DEF Enqueue, QueueAdd, Reply, IdleReq, table
      <4>3. queue'[j] = "wait" /\ status'[j] = "pending" /\ j \notin failedEvents'
        BY <2>1, <2>2, <3>2, <4>1, <4>2 DEF Tidy
      <4>4. Tidy(j)'
        BY <4>3 DEF Tidy
      <4> QED BY <3>1, <3>3, <4>2, <4>4 DEF Sole
    <3> QED BY <1>5, <3>4, <3>5, <3>6
  <2>6. req'[p].pc # "idle" => req'[p].job = j
    BY <2>3
  <2>7. Elsewhere(j)
    BY <2>2 DEF Elsewhere
  <2>8. req[p].pc # "idle" => req[p].job = j
    BY <2>1
  <2>9. UNCHANGED slot
    BY <2>2
  <2> QED BY <1>1, <2>4, <2>5, <2>6, <2>7, <2>8, <2>9, BackedMove
<1>6. req[p].pc \in {"idle", "retryReset", "retryRemove", "enqueue"}
  BY DEF BackedInv, Waiting
<1>7. CASE Start(p)
  BY <1>4, <1>7 DEF Start, Cancel, Begin, RemoveAsset, Cleanup, CleanAssets
<1>8. CASE Continue(p) \/ RequestDies(p)
  BY <1>5, <1>6, <1>8 DEF Continue, RequestDies, EnqueueFails, RecordEnqueueFailure,
     CancelRemove, CancelWrite, QueueUnavailable, CleanupRemove, CleanupMark, CleanupExpire,
     CleanupFind, CleanupObjects, CleanupAssets, CleanupJobs, DeleteObject, RemoveAssetCheck,
     RemoveAssetObject, RemoveAssetRow, CleanAssetObjects, CleanAssetRows
<1> QED BY <1>7, <1>8

(* A step of the worker on one job disturbs no other either.                *)
KeepsTidy(j) == Tidy(j) => Tidy(j)' /\ \A p \in Clients : req[p].job = j /\ Awaited(p) => Awaited(p)'

EndsWell(s) == slot[s].pc = "complete" /\ Orderly(slot[s].job) => status[slot[s].job] = "succeeded"

LEMMA BackedWork ==
  ASSUME TypeOK, BackedInv, Alone', NEW j \in Jobs, UNCHANGED <<req, overlap>>, Elsewhere(j),
         overlap[j] = "never" => KeepsTidy(j), \A s \in Slots : EndsWell(s)'
  PROVE  BackedInv'
<1>1. \A q \in Clients : Waiting(q)'
  BY DEF BackedInv, Waiting
<1>2. ASSUME NEW i \in Jobs, overlap'[i] = "never" PROVE Tidy(i)'
  <2>1. Tidy(i)
    BY <1>2 DEF BackedInv, Orderly
  <2>2. CASE i = j
    BY <1>2, <2>1, <2>2 DEF KeepsTidy
  <2>3. CASE i # j
    <3>1. status'[i] = status[i] /\ queue'[i] = queue[i] /\ (i \in failedEvents' <=> i \in failedEvents)
      BY <2>3 DEF Elsewhere
    <3> QED BY <2>1, <3>1 DEF Tidy
  <2> QED BY <2>2, <2>3
<1>3. ASSUME NEW q \in Clients, req'[q].pc # "idle", overlap'[req'[q].job] = "never" PROVE Awaited(q)'
  <2>1. PICK i \in Jobs : i = req[q].job
    BY <1>3 DEF BackedInv, Waiting
  <2>2. Awaited(q) /\ Tidy(i)
    BY <1>3, <2>1 DEF BackedInv, Orderly
  <2>3. CASE i = j
    BY <1>3, <2>1, <2>2, <2>3 DEF KeepsTidy
  <2>4. CASE i # j
    <3>1. status'[i] = status[i] /\ queue'[i] = queue[i] /\ (i \in failedEvents' <=> i \in failedEvents)
      BY <2>4 DEF Elsewhere
    <3> QED BY <2>1, <2>2, <3>1 DEF Awaited
  <2> QED BY <2>3, <2>4
<1> QED BY <1>1, <1>2, <1>3 DEF BackedInv, Orderly, EndsWell

(* An attempt that is over its work and left alone ends as well as before.  *)
LEMMA StillComplete ==
  ASSUME BackedInv, UNCHANGED overlap, NEW s \in Slots, slot'[s] = slot[s],
         slot[s].pc = "complete", overlap'[slot'[s].job] = "never"
  PROVE  status[slot[s].job] = "succeeded"
BY DEF BackedInv, Orderly

LEMMA BackedQueue ==
  ASSUME Undisturbed, TypeOK, AttemptsInv, BackedInv, NEW j \in Jobs,
         \/ \E s \in Slots : Fetch(s, j)
         \/ StallRequeue(j) \/ StallFail(j) \/ HandleFailed(j) \/ LoseFailedEvent(j)
  PROVE  BackedInv'
<1> USE DEF TypeOK, TableOK, QueueOK, SlotOK, Undisturbed
<1>1. UNCHANGED <<req, overlap>> /\ Alone'
  <2>1. UNCHANGED <<req, overlap>>
    BY DEF Fetch, StallRequeue, StallFail, HandleFailed, LoseFailedEvent, past
  <2> QED BY <2>1, AloneStep DEF BackedInv, Next
<1>2. \A s \in Slots : slot[s].pc # "idle" => queue[slot[s].job] = "active"
  BY NoneAssumption DEF AttemptsInv, Locked
<1>3. ASSUME NEW s \in Slots, Fetch(s, j) PROVE BackedInv'
  <2>1. /\ queue[j] = "wait" /\ queue' = [queue EXCEPT ![j] = "active"]
        /\ slot'[s].pc = "read" /\ \A t \in Slots \ {s} : slot'[t] = slot[t]
        /\ UNCHANGED <<status, failedEvents>>
    BY <1>3 DEF Fetch, IdleSlot, table
  <2>2. Tidy(j) => Tidy(j)'
    BY <1>1, <2>1 DEF Tidy
  <2>3. KeepsTidy(j)
    BY <1>1, <2>1, <2>2 DEF Awaited, KeepsTidy
  <2>4. \A t \in Slots : EndsWell(t)'
    BY <1>1, <2>1, StillComplete DEF EndsWell, Orderly
  <2>5. Elsewhere(j)
    BY <1>1, <2>1 DEF Elsewhere
  <2> QED BY <1>1, <2>3, <2>4, <2>5, BackedWork
<1>4. ASSUME \/ StallRequeue(j) \/ StallFail(j) \/ HandleFailed(j) PROVE BackedInv'
  <2>1. Elsewhere(j) /\ UNCHANGED slot
    BY <1>1, <1>4 DEF Elsewhere, StallRequeue, StallFail, HandleFailed, WriteStatus, table
  <2>2. \/ /\ queue[j] = "active" /\ UNCHANGED status
           /\ \/ queue'[j] = "wait" /\ UNCHANGED failedEvents
              \/ queue'[j] = "failed" /\ j \in failedEvents'
        \/ /\ j \in failedEvents /\ j \notin failedEvents' /\ UNCHANGED queue
           /\ \/ ~Exists(j) /\ UNCHANGED status
              \/ Exists(j) /\ status'[j] = "failed"
    BY <1>4 DEF StallRequeue, StallFail, HandleFailed, WriteStatus, table
  <2>3. Tidy(j) => Tidy(j)'
    BY <1>1, <2>2 DEF Tidy, Exists, Unsettled
  <2>4. KeepsTidy(j)
    <3>1. ASSUME Tidy(j), NEW p \in Clients, req[p].job = j, Awaited(p) PROVE Awaited(p)'
      BY <1>1, <2>2, <3>1 DEF Awaited, Tidy, Exists
    <3> QED BY <2>3, <3>1 DEF KeepsTidy
  <2>5. ASSUME NEW t \in Slots PROVE EndsWell(t)'
    <3>1. SUFFICES ASSUME slot[t].pc = "complete", overlap[slot[t].job] = "never"
                   PROVE  status'[slot[t].job] = "succeeded"
      BY <1>1, <2>1 DEF EndsWell, Orderly
    <3>2. PICK i \in Jobs : i = slot[t].job
      BY <3>1
    <3>3. status[i] = "succeeded" /\ queue[i] = "active"
      BY <1>1, <1>2, <2>1, <3>1, <3>2, StillComplete
    <3>4. CASE i = j
      <4>1. Tidy(j)
        BY <1>1, <3>1, <3>2, <3>4 DEF BackedInv, Orderly
      <4> QED BY <2>2, <3>2, <3>3, <3>4, <4>1 DEF Tidy
    <3>5. CASE i # j
      BY <2>1, <3>2, <3>3, <3>5 DEF Elsewhere
    <3> QED BY <3>4, <3>5
  <2> QED BY <1>1, <2>1, <2>4, <2>5, BackedWork
<1>5. CASE LoseFailedEvent(j)
  BY <1>5 DEF LoseFailedEvent
<1> QED BY <1>3, <1>4, <1>5

LEMMA BackedAttempt ==
  ASSUME Undisturbed, TypeOK, AttemptsInv, BackedInv, NEW s \in Slots,
         Attempt(s) \/ AttemptError(s) \/ Crash(s) \/ LoseLock(s)
  PROVE  BackedInv'
<1> USE GotoFrame DEF TypeOK, TableOK, QueueOK, SlotOK, Undisturbed
<1>0. UNCHANGED <<req, overlap>> /\ Alone'
  <2>1. UNCHANGED <<req, overlap>>
    BY DEF Attempt, ReadRow, MarkRunning, RenderAndStore, CreateAsset, Link, FinishAttempt, AttemptError,
       Crash, LoseLock, past
  <2> QED BY <2>1, AloneStep DEF BackedInv, Next
<1>1. \A t \in Slots \ {s} : slot[t].pc # "idle" /\ slot[s].pc # "idle" => slot[t].job # slot[s].job
  BY ExclusiveAttempts DEF SingleAttempt
<1>2. slot[s].pc # "idle" => slot[s].job \in Jobs /\ queue[slot[s].job] = "active"
  BY NoneAssumption DEF AttemptsInv, Locked
<1>3. ASSUME \/ ReadRow(s) \/ MarkRunning(s) \/ RenderAndStore(s)
             \/ CreateAsset(s) \/ Link(s) \/ AttemptError(s)
      PROVE  BackedInv'
  <2>0. /\ slot[s].pc # "idle" /\ UNCHANGED bull /\ slot'[s].job = slot[s].job
        /\ \A t \in Slots \ {s} : slot'[t] = slot[t]
        /\ \A i \in Jobs \ {slot[s].job} : status'[i] = status[i]
    BY <1>3, AttemptFrame
  <2>1. PICK j \in Jobs : j = slot[s].job
    BY <1>2, <2>0
  <2>2. status'[j] \in {status[j], "running", "succeeded"} /\ (status[j] = "absent" => status'[j] = "absent")
    BY <1>3, <2>1 DEF ReadRow, MarkRunning, RenderAndStore, StorePdf, CreateAsset, Link, AttemptError,
       WriteStatus, Exists, table
  <2>3. queue[j] = "active" /\ UNCHANGED <<queue, failedEvents>>
    BY <1>2, <2>0, <2>1 DEF bull
  <2>4. ASSUME slot'[s].pc = "complete", overlap[j] = "never" PROVE status'[j] = "succeeded"
    <3>1. CASE ReadRow(s)
      <4>1. status[j] \in {"succeeded", "canceled"} /\ UNCHANGED status
        BY <2>1, <2>4, <3>1 DEF ReadRow, table
      <4>2. status[j] # "canceled"
        BY <2>4 DEF BackedInv, Tidy, Orderly
      <4> QED BY <4>1, <4>2
    <3>2. CASE MarkRunning(s) \/ RenderAndStore(s) \/ AttemptError(s)
      BY <2>4, <3>2 DEF MarkRunning, RenderAndStore, AttemptError
    <3>3. CASE CreateAsset(s)
      <4>1. slot'[s].pc \in {"fail", "link"}
        BY <3>3 DEF CreateAsset, SlotRecord
      <4> QED BY <2>4, <4>1
    <3>4. CASE Link(s)
      BY <2>1, <2>4, <3>4 DEF Link, WriteStatus
    <3> QED BY <1>3, <3>1, <3>2, <3>3, <3>4
  <2>5. KeepsTidy(j)
    <3>1. Tidy(j) => Tidy(j)'
      BY <1>0, <2>2, <2>3 DEF Tidy, Unsettled
    <3>2. ASSUME NEW p \in Clients, Tidy(j), req[p].job = j, Awaited(p) PROVE Awaited(p)'
      BY <1>0, <2>3, <3>2 DEF Awaited, Tidy
    <3> QED BY <3>1, <3>2 DEF KeepsTidy
  <2>6. EndsWell(s)'
    BY <1>0, <2>0, <2>1, <2>4 DEF EndsWell, Orderly
  <2>7. ASSUME NEW t \in Slots \ {s} PROVE EndsWell(t)'
    <3>1. SUFFICES ASSUME slot[t].pc = "complete", overlap[slot[t].job] = "never"
                   PROVE  status'[slot[t].job] = "succeeded"
      BY <1>0, <2>0 DEF EndsWell, Orderly
    <3>2. slot[t].job \in Jobs /\ slot[t].job # slot[s].job /\ status[slot[t].job] = "succeeded"
      BY <1>0, <1>1, <2>0, <3>1, StillComplete
    <3> QED BY <2>0, <3>2
  <2>8. Elsewhere(j)
    BY <1>0, <2>0, <2>1, <2>3 DEF Elsewhere
  <2> QED BY <1>0, <2>5, <2>6, <2>7, <2>8, BackedWork
<1>4. ASSUME FinishAttempt(s) PROVE BackedInv'
  <2>0. slot[s].pc # "idle"
    BY <1>4 DEF FinishAttempt
  <2>1. PICK j \in Jobs : j = slot[s].job
    BY <1>2, <2>0
  <2>2. slot' = [slot EXCEPT ![s] = IdleSlot] /\ UNCHANGED status /\ lock[j] = s /\ queue[j] = "active"
    BY <1>2, <1>4, <2>0, <2>1 DEF FinishAttempt, AttemptsInv, table
  <2>3. \/ /\ slot[s].pc = "complete" /\ queue' = [queue EXCEPT ![j] = "completed"]
           /\ UNCHANGED failedEvents
        \/ queue' = [queue EXCEPT ![j] = "failed"] /\ failedEvents' = failedEvents \cup {j}
    BY <1>4, <2>1, <2>2 DEF FinishAttempt
  <2>4. slot[s].pc = "complete" /\ overlap[j] = "never" => status[j] = "succeeded"
    BY <2>1 DEF BackedInv, Orderly
  <2>5. Elsewhere(j)
    BY <1>0, <2>2, <2>3 DEF Elsewhere
  <2>6. ASSUME NEW t \in Slots PROVE EndsWell(t)'
    <3>1. t = s => slot'[t].pc = "idle"
      BY <2>2 DEF IdleSlot
    <3>2. t # s => slot'[t] = slot[t]
      BY <2>2
    <3> QED BY <1>0, <2>2, <3>1, <3>2, StillComplete DEF EndsWell, Orderly
  <2>7. ASSUME overlap[j] = "never" PROVE KeepsTidy(j)
    <3>1. \/ status[j] = "succeeded" /\ queue'[j] = "completed" /\ UNCHANGED failedEvents
          \/ queue'[j] = "failed" /\ j \in failedEvents'
      BY <2>2, <2>3, <2>4, <2>7
    <3>2. Tidy(j) => Tidy(j)'
      BY <1>0, <2>2, <3>1 DEF Tidy, Unsettled
    <3>3. ASSUME NEW p \in Clients, Tidy(j), req[p].job = j, Awaited(p) PROVE Awaited(p)'
      BY <1>0, <2>2, <3>3 DEF Awaited, Tidy
    <3> QED BY <3>2, <3>3 DEF KeepsTidy
  <2> QED BY <1>0, <2>5, <2>6, <2>7, BackedWork
<1>5. ASSUME Crash(s) PROVE BackedInv'
  <2>1. UNCHANGED <<status, queue, failedEvents>> /\ \A t \in Slots : slot'[t] = slot[t] \/ slot'[t].pc = "idle"
    BY <1>5 DEF Crash, IdleSlot, table
  <2>2. PICK j \in Jobs : j = slot[s].job
    BY <1>5 DEF Crash
  <2>3. KeepsTidy(j)
    <3>1. Tidy(j) => Tidy(j)'
      BY <1>0, <2>1 DEF Tidy
    <3>2. ASSUME NEW p \in Clients, Awaited(p) PROVE Awaited(p)'
      BY <1>0, <2>1, <3>2 DEF Awaited
    <3> QED BY <3>1, <3>2 DEF KeepsTidy
  <2>4. \A t \in Slots : EndsWell(t)'
    BY <1>0, <2>1, StillComplete DEF EndsWell, Orderly
  <2>5. Elsewhere(j)
    BY <1>0, <2>1 DEF Elsewhere
  <2> QED BY <1>0, <2>3, <2>4, <2>5, BackedWork
<1>6. CASE LoseLock(s)
  BY <1>6 DEF LoseLock
<1> QED BY <1>3, <1>4, <1>5, <1>6 DEF Attempt

LEMMA BackedStep ==
  ASSUME Undisturbed
  PROVE  TypeOK /\ AttemptsInv /\ BackedInv /\ [Next]_vars => BackedInv'
<1> SUFFICES ASSUME TypeOK, AttemptsInv, BackedInv, [Next]_vars PROVE BackedInv'
  OBVIOUS
<1>1. CASE Next
  BY <1>1, BackedRequest, BackedQueue, BackedAttempt DEF Next
<1>2. CASE UNCHANGED vars
  <2>1. UNCHANGED <<status, queue, failedEvents, req, overlap, slot>> /\ Alone'
    BY <1>2, AloneStep DEF BackedInv, vars, table, bull, past
  <2>2. \A j \in Jobs : Tidy(j)' = Tidy(j)
    BY <2>1 DEF Tidy
  <2>3. \A p \in Clients : Awaited(p)' = Awaited(p) /\ Waiting(p)' = Waiting(p)
    BY <2>1 DEF Awaited, Waiting
  <2>4. \A j : Orderly(j)' = Orderly(j)
    BY <2>1 DEF Orderly
  <2> QED BY <2>1, <2>2, <2>3, <2>4 DEF BackedInv
<1> QED BY <1>1, <1>2

(* Whatever statements of attempts fail and however often workers die, a     *)
(* pending or running job is queued, in an attempt, about to be marked       *)
(* failed or about to be queued: for any number of requests at a time, as    *)
(* long as those about the same job do not overlap.                         *)
THEOREM RowsAreBacked ==
  ASSUME Undisturbed PROVE Spec => []ActiveRowIsBacked
<1>1. BackedInv => ActiveRowIsBacked
  <2>1. ASSUME BackedInv, NEW j \in Jobs, status[j] \in Unsettled, overlap[j] = "never" PROVE Backed(j)
    <3>1. Tidy(j)
      BY <2>1 DEF BackedInv, Orderly
    <3> QED BY <2>1, <3>1 DEF Tidy, Backed
  <2> QED BY <2>1 DEF ActiveRowIsBacked
<1>2. "lock" \notin Faults
  BY DEF Undisturbed
<1> QED BY <1>1, <1>2, BackedInit, BackedStep, AttemptsCorrect, TypeCorrect, PTL DEF Spec

-------------------------------------------------------------------------------
(***************************************************************************)
(* That a cancel stops the work on its job, for any number of jobs, slots   *)
(* and clients, from TypeOK, AttemptsInv and Alone.                         *)
(***************************************************************************)

(* No attempt that is over names a job.                                     *)
AtRest == \A s \in Slots : slot[s].pc = "idle" => slot[s].job = None

(* A job that the one request about it is going to mark as canceled has      *)
(* left the queue, and nobody else could have put it back.                  *)
CancelInv ==
  /\ AtRest
  /\ Alone
  /\ \A p \in Clients, j \in Jobs :
       req[p].pc = "cancelWrite" /\ req[p].job = j /\ overlap[j] # "now" => queue[j] = "none"

LEMMA CancelInit == Init => CancelInv
<1>1. Init => AtRest
  BY DEF Init, AtRest, IdleSlot
<1>2. Init => \A p \in Clients : req[p].pc = "idle"
  BY DEF Init, IdleReq
<1> QED BY <1>1, <1>2, AloneInit DEF CancelInv

LEMMA RestStep == ASSUME TypeOK, AtRest, Next PROVE AtRest'
<1> USE GotoFrame DEF TypeOK, SlotOK, AtRest
<1>1. ASSUME NEW p \in Clients, Start(p) \/ Continue(p) \/ RequestDies(p) PROVE AtRest'
  BY <1>1, RequestFrame
<1>2. ASSUME NEW s \in Slots,
             \/ ReadRow(s) \/ MarkRunning(s) \/ RenderAndStore(s)
             \/ CreateAsset(s) \/ Link(s) \/ AttemptError(s)
      PROVE  AtRest'
  <2>1. slot'[s].pc # "idle"
    BY <1>2 DEF ReadRow, MarkRunning, RenderAndStore, CreateAsset, Link, AttemptError, SlotRecord
  <2> QED BY <1>2, <2>1, AttemptFrame
<1>3. ASSUME NEW s \in Slots, FinishAttempt(s) \/ Crash(s) \/ LoseLock(s) PROVE AtRest'
  BY <1>3 DEF FinishAttempt, Crash, LoseLock, IdleSlot
<1>4. ASSUME NEW s \in Slots, NEW j \in Jobs, Fetch(s, j) PROVE AtRest'
  BY <1>4 DEF Fetch, IdleSlot
<1>5. ASSUME NEW j \in Jobs, StallRequeue(j) \/ StallFail(j) \/ HandleFailed(j) \/ LoseFailedEvent(j)
      PROVE  AtRest'
  BY <1>5 DEF StallRequeue, StallFail, HandleFailed, LoseFailedEvent
<1> QED BY <1>1, <1>2, <1>3, <1>4, <1>5 DEF Next, Attempt

(* What a request's step says of a cancel about to be written.              *)
LEMMA WriteFrame ==
  ASSUME TypeOK, NEW p \in Clients, Start(p) \/ Continue(p) \/ RequestDies(p)
  PROVE  /\ \A q \in Clients \ {p} : req'[q] = req[q]
         /\ \A j \in Jobs : req'[p].pc = "cancelWrite" /\ req'[p].job = j => queue'[j] = "none"
         /\ \A j \in Jobs : status[j] # "canceled" /\ status'[j] = "canceled" =>
              req[p].pc = "cancelWrite" /\ req[p].job = j /\ UNCHANGED slot
<1> USE DEF TypeOK, TableOK, QueueOK, ReqOK, ReqRecord, WriteStatus, table, store, bull, Reply, Proceed, IdleReq
<1>1. CASE Start(p)
  <2>1. UNCHANGED queue /\ \A j \in Jobs : status'[j] = "canceled" => status[j] = "canceled"
    BY <1>1 DEF Start, Create, Cancel, Retry, RemoveAsset, Cleanup, CleanAssets
  <2>2. req[p].pc = "idle" /\ req'[p].pc # "cancelWrite" /\ \A q \in Clients \ {p} : req'[q] = req[q]
    <3>1. ASSUME NEW j \in Jobs, NEW op, NEW pc, pc # "cancelWrite", Begin(p, op, pc, j)
          PROVE  req[p].pc = "idle" /\ req'[p].pc # "cancelWrite" /\ \A q \in Clients \ {p} : req'[q] = req[q]
      <4> DEFINE r == [IdleReq EXCEPT !.pc = pc, !.job = j, !.seen = status[j]]
      <4>1. r.pc = pc
        OBVIOUS
      <4>2. req[p].pc = "idle" /\ req' = [req EXCEPT ![p] = r]
        BY <3>1 DEF Begin
      <4> HIDE DEF r
      <4> QED BY <3>1, <4>1, <4>2
    <3>2. ASSUME NEW j \in Jobs, RemoveAsset(p, j)
          PROVE  req[p].pc = "idle" /\ req'[p].pc # "cancelWrite" /\ \A q \in Clients \ {p} : req'[q] = req[q]
      BY <3>2 DEF RemoveAsset
    <3>3. CASE Cleanup(p)
      BY <3>3 DEF Cleanup
    <3>4. CASE CleanAssets(p)
      BY <3>4 DEF CleanAssets
    <3> QED BY <1>1, <3>1, <3>2, <3>3, <3>4 DEF Start, Create, Cancel, Retry
  <2> QED BY <2>1, <2>2
<1>2. CASE Enqueue(p) \/ EnqueueFails(p) \/ RecordEnqueueFailure(p)
  BY <1>2 DEF Enqueue, EnqueueFails, RecordEnqueueFailure
<1>3. CASE CancelRemove(p)
  BY <1>3 DEF CancelRemove, RemoveQueued, QueueRemove
<1>4. CASE CancelWrite(p)
  BY <1>4 DEF CancelWrite
<1>5. CASE RetryReset(p) \/ RetryRemove(p)
  BY <1>5 DEF RetryReset, RetryRemove, RemoveQueued
<1>6. CASE QueueUnavailable(p) \/ RequestDies(p)
  BY <1>6 DEF QueueUnavailable, RequestDies
<1>7. CASE CleanupRemove(p) \/ CleanupMark(p) \/ CleanupExpire(p) \/ CleanupFind(p)
  <2>1. CASE CleanupRemove(p) \/ CleanupMark(p)
    BY <1>7, <2>1 DEF CleanupRemove, CleanupMark
  <2>2. CASE CleanupExpire(p)
    BY <2>2, ZenonT(60) DEF CleanupExpire
  <2>3. CASE CleanupFind(p)
    BY <2>3, ZenonT(60) DEF CleanupFind
  <2> QED BY <1>7, <2>1, <2>2, <2>3
<1>8. CASE CleanupObjects(p) \/ CleanupAssets(p) \/ CleanupJobs(p)
  BY <1>8 DEF CleanupObjects, CleanupAssets, CleanupJobs, DeleteObject
<1>9. CASE \/ RemoveAssetCheck(p) \/ RemoveAssetObject(p) \/ RemoveAssetRow(p)
           \/ CleanAssetObjects(p) \/ CleanAssetRows(p)
  BY <1>9 DEF RemoveAssetCheck, RemoveAssetObject, RemoveAssetRow, CleanAssetObjects,
              CleanAssetRows, DeleteObject
<1> QED BY <1>1, <1>2, <1>3, <1>4, <1>5, <1>6, <1>7, <1>8, <1>9 DEF Continue

(* A request puts no other job in the queue than the one it is about.       *)
LEMMA OthersStayOut ==
  ASSUME TypeOK, NEW p \in Clients, Start(p) \/ Continue(p) \/ RequestDies(p), NEW j \in Jobs, ~About(p, j)
  PROVE  queue'[j] \in {queue[j], "none"}
<1> USE DEF TypeOK, QueueOK, bull
<1>1. CASE Enqueue(p) \/ EnqueueFails(p)
  <2>1. req[p].job # j /\ (UNCHANGED bull \/ QueueAdd(req[p].job))
    BY <1>1 DEF Enqueue, EnqueueFails, About, JobPcs
  <2> QED BY <2>1 DEF QueueAdd
<1>2. CASE CancelRemove(p) \/ RetryRemove(p) \/ CleanupRemove(p)
  <2>1. UNCHANGED bull \/ \E i : QueueRemove(i)
    BY <1>2 DEF CancelRemove, RetryRemove, RemoveQueued, CleanupRemove
  <2> QED BY <2>1 DEF QueueRemove
<1>3. CASE UNCHANGED queue
  BY <1>3
<1> QED BY <1>1, <1>2, <1>3 DEF Start, Create, Cancel, Retry, RemoveAsset, Cleanup, CleanAssets, Continue,
     RecordEnqueueFailure, CancelWrite, RetryReset, QueueUnavailable, CleanupMark, CleanupExpire, CleanupFind,
     CleanupObjects, CleanupAssets, CleanupJobs, DeleteObject, RemoveAssetCheck, RemoveAssetObject,
     RemoveAssetRow, CleanAssetObjects, CleanAssetRows, RequestDies

(* The worker writes other states, and takes nothing that is not queued.    *)
LEMMA WorkerFrame ==
  ASSUME TypeOK, AttemptsInv, Next, ~(\E p \in Clients : Start(p) \/ Continue(p) \/ RequestDies(p))
  PROVE  /\ UNCHANGED <<req, overlap>>
         /\ \A j \in Jobs : queue[j] = "none" => queue'[j] = "none"
         /\ \A j \in Jobs : status'[j] = "canceled" => status[j] = "canceled"
<1> USE DEF TypeOK, TableOK, QueueOK, SlotOK, WriteStatus, table, store, bull, past, AttemptsInv, Locked
<1>1. ASSUME NEW s \in Slots, Attempt(s) \/ AttemptError(s) \/ Crash(s) \/ LoseLock(s)
      PROVE  /\ UNCHANGED <<req, overlap>>
             /\ \A j \in Jobs : queue[j] = "none" => queue'[j] = "none"
             /\ \A j \in Jobs : status'[j] = "canceled" => status[j] = "canceled"
  BY <1>1, NoneAssumption DEF Attempt, ReadRow, MarkRunning, RenderAndStore, CreateAsset, Link, FinishAttempt, AttemptError,
     Crash, LoseLock
<1>2. ASSUME NEW s \in Slots, NEW j \in Jobs, Fetch(s, j)
      PROVE  /\ UNCHANGED <<req, overlap, status>>
             /\ \A i \in Jobs : queue[i] = "none" => queue'[i] = "none"
  BY <1>2 DEF Fetch
<1>3. ASSUME NEW j \in Jobs, StallRequeue(j) \/ StallFail(j) \/ HandleFailed(j) \/ LoseFailedEvent(j)
      PROVE  /\ UNCHANGED <<req, overlap>>
             /\ \A i \in Jobs : queue[i] = "none" => queue'[i] = "none"
             /\ \A i \in Jobs : status'[i] = "canceled" => status[i] = "canceled"
  BY <1>3 DEF StallRequeue, StallFail, HandleFailed, LoseFailedEvent
<1> QED BY <1>1, <1>2, <1>3 DEF Next

LEMMA CancelStep ==
  TypeOK /\ AttemptsInv /\ CancelInv /\ [Next]_vars => CancelInv'
<1> SUFFICES ASSUME TypeOK, AttemptsInv, CancelInv, [Next]_vars
             PROVE  CancelInv'
  OBVIOUS
<1>1. CASE UNCHANGED vars
  <2>1. UNCHANGED <<slot, req, queue, overlap, aged>>
    BY <1>1 DEF vars, bull, past, table
  <2>2. AtRest' /\ Alone'
    BY <1>1, <2>1, AloneStep DEF CancelInv, AtRest
  <2> QED BY <2>1, <2>2 DEF CancelInv
<1>2. CASE Next
  <2>1. AtRest' /\ Alone'
    BY <1>2, RestStep, AloneStep DEF CancelInv
  <2>2. ASSUME NEW q \in Clients, NEW j \in Jobs, req'[q].pc = "cancelWrite", req'[q].job = j, overlap'[j] # "now"
        PROVE  queue'[j] = "none"
    <3>1. ASSUME NEW p \in Clients, Start(p) \/ Continue(p) \/ RequestDies(p) PROVE queue'[j] = "none"
      <4>1. CASE p = q
        BY <2>2, <3>1, <4>1, WriteFrame
      <4>2. CASE p # q
        <5>1. req'[q] = req[q] /\ About(q, j)
          BY <2>2, <3>1, <4>2, WriteFrame DEF About, JobPcs
        <5>2. overlap[j] # "now"
          <6>1. CASE Start(p)
            BY <2>2, <4>2, <5>1, <6>1, StartFrame
          <6>2. CASE Continue(p) \/ RequestDies(p)
            BY <2>2, <6>2, ContinueFrame
          <6> QED BY <3>1, <6>1, <6>2
        <5>3. ~About(p, j) /\ queue[j] = "none"
          BY <2>2, <4>2, <5>1, <5>2 DEF CancelInv, Alone
        <5> QED BY <3>1, <5>3, OthersStayOut
      <4> QED BY <4>1, <4>2
    <3>2. CASE ~(\E p \in Clients : Start(p) \/ Continue(p) \/ RequestDies(p))
      <4>1. req'[q] = req[q] /\ overlap[j] # "now"
        BY <1>2, <2>2, <3>2, WorkerFrame
      <4>2. queue[j] = "none"
        BY <2>2, <4>1 DEF CancelInv
      <4> QED BY <1>2, <3>2, <4>2, WorkerFrame
    <3> QED BY <3>1, <3>2
  <2> QED BY <2>1, <2>2 DEF CancelInv
<1> QED BY <1>1, <1>2

LEMMA CancelCorrect ==
  ASSUME "lock" \notin Faults PROVE Spec => [](TypeOK /\ AttemptsInv /\ CancelInv)
BY CancelInit, CancelStep, TypeCorrect, AttemptsCorrect, PTL DEF Spec

(* As long as no live attempt loses its lock, a job that becomes canceled    *)
(* while no other request about it is or was under way is in no attempt,     *)
(* whatever fails and for any number of jobs, slots and clients.            *)
THEOREM CanceledIsIdle ==
  ASSUME "lock" \notin Faults PROVE Spec => CancelStopsWork
<1>1. ASSUME TypeOK, AttemptsInv, CancelInv, [Next]_vars,
             NEW j \in Jobs, status[j] # "canceled", status'[j] = "canceled", overlap[j] # "now",
             NEW s \in Slots
      PROVE  slot[s].job # j
  <2>1. Next
    BY <1>1 DEF vars, table
  <2>2. PICK p \in Clients : Start(p) \/ Continue(p) \/ RequestDies(p)
    BY <1>1, <2>1, WorkerFrame
  <2>3. req[p].pc = "cancelWrite" /\ req[p].job = j
    BY <1>1, <2>2, WriteFrame
  <2>4. queue[j] = "none"
    BY <1>1, <2>3 DEF CancelInv
  <2>5. slot[s].pc # "idle" => slot[s].job # j
    BY <1>1, <2>4, NoneAssumption DEF AttemptsInv, TypeOK, SlotOK, Locked
  <2> QED BY <1>1, <2>5, NoneAssumption DEF CancelInv, AtRest
<1>2. TypeOK /\ AttemptsInv /\ CancelInv /\ [Next]_vars =>
        [\A j \in Jobs : status[j] # "canceled" /\ status'[j] = "canceled" /\ overlap[j] # "now" =>
           \A s \in Slots : slot[s].job # j]_vars
  BY <1>1
<1> QED BY <1>2, CancelCorrect, PTL DEF Spec, CancelStopsWork

-------------------------------------------------------------------------------
(***************************************************************************)
(* The safety part of ImplementsLifecycle: every step of the pipeline is a  *)
(* step of the lifecycle or leaves what users see as it is, for any number  *)
(* of jobs, attempts and requests at a time, as long as those about one job *)
(* do not overlap, nobody cancels or deletes and no worker dies.           *)
(***************************************************************************)

Faultless == Undisturbed /\ Faults \subseteq {"db"}

NeverMet == \A j \in Jobs : overlap[j] = "never"

OneClient == \A p, q \in Clients : p = q

(* A request that is the only one meets no other.                           *)
THEOREM OneClientNeverMeets ==
  ASSUME OneClient PROVE Spec => []NeverMet
<1>1. Init => NeverMet
  BY DEF Init, NeverMet
<1>2. TypeOK /\ NeverMet /\ [Next]_vars => NeverMet'
  <2> SUFFICES ASSUME TypeOK, NeverMet, [Next]_vars PROVE NeverMet'
    OBVIOUS
  <2>1. ASSUME NEW p \in Clients, Start(p) PROVE NeverMet'
    <3>1. ASSUME NEW js, Meet(p, js) PROVE NeverMet'
      <4>1. \A j \in Jobs : ~\E q \in Clients \ {p} : About(q, j)
        BY DEF OneClient
      <4> HIDE DEF About
      <4> QED BY <3>1, <4>1 DEF Meet, NeverMet
    <3> QED
      BY <2>1, <3>1 DEF Start, Create, Cancel, Retry, Begin, Cleanup, RemoveAsset, CleanAssets, NeverMet
  <2>2. ASSUME NEW p \in Clients, Continue(p) \/ RequestDies(p) PROVE NeverMet'
    BY <2>2, ContinueFrame DEF NeverMet
  <2>3. CASE UNCHANGED overlap
    BY <2>3 DEF NeverMet
  <2> QED BY <2>1, <2>2, <2>3, WorkerApart DEF vars, past
<1> QED BY <1>1, <1>2, TypeCorrect, PTL DEF Spec

(* How far the queue and an attempt are tells what the row says, and the row *)
(* has a result exactly when it has succeeded.                              *)
Phase(s) ==
  /\ slot[s].pc \in {"read", "markRunning"} => status[slot[s].job] = "pending"
  /\ slot[s].pc \in {"render", "createAsset", "link"} => status[slot[s].job] = "running"
  /\ slot[s].pc = "fail" => status[slot[s].job] \in Unsettled

LifecycleInv ==
  /\ \A j \in Jobs : queue[j] = "active" => Locked(j)
  /\ \A j \in Jobs : queue[j] = "wait" => status[j] = "pending"
  /\ \A j \in failedEvents : status[j] \in Unsettled
  /\ \A j \in Jobs : status[j] # "succeeded" => result[j] = None
  /\ \A s \in Slots : Phase(s)

(* All that is known of a state.                                            *)
Known == TypeOK /\ AttemptsInv /\ DeliveryInv /\ Untouched /\ BackedInv /\ LifecycleInv

(* Of every job, since none has been in two requests at a time.              *)
LEMMA KnownOfAll ==
  ASSUME Known, NeverMet
  PROVE  /\ \A j \in Jobs : Tidy(j)
         /\ \A p \in Clients : Waiting(p) /\ (req[p].pc # "idle" => Awaited(p))
BY DEF Known, NeverMet, BackedInv, Waiting, Orderly

LEMMA LifecycleInit == Init => LifecycleInv /\ Lifecycle!Init
<1>1. Init => LifecycleInv
  BY DEF Init, LifecycleInv, Phase, IdleSlot
<1>2. Init => Lifecycle!Init
  BY DEF Init, Lifecycle!Init, Servable
<1> QED BY <1>1, <1>2

(* What can be served has succeeded and the other way round.                *)
SucceededServes == \A j \in Jobs : Servable(j) <=> status[j] = "succeeded"

LEMMA ServableSucceeded == Known => SucceededServes
BY DEF Known, DeliveryInv, SucceededDownloadable, Untouched, LifecycleInv, Servable, SucceededServes

LEMMA ServableThroughout == Known /\ Known' => SucceededServes /\ SucceededServes'
BY ServableSucceeded, PTL

(* So a step that moves at most one row, along the lifecycle, implements it. *)
LEMMA MoveIsLifecycle ==
  ASSUME Known, Known', NEW j \in Jobs, NEW to, status' = [status EXCEPT ![j] = to],
         \/ status[j] = "absent" /\ to = "pending"
         \/ status[j] = "pending" /\ to = "running"
         \/ status[j] = "running" /\ to = "succeeded"
         \/ status[j] \in {"pending", "running"} /\ to = "failed"
         \/ status[j] = "failed" /\ to = "pending"
  PROVE  Lifecycle!Next
<1> DEFINE ready == {i \in Jobs : Servable(i)}
<1>1. ready = {i \in Jobs : status[i] = "succeeded"} /\ ready' = {i \in Jobs : status'[i] = "succeeded"}
  BY ServableThroughout DEF SucceededServes
<1>2. status \in [Jobs -> Statuses]
  BY DEF Known, TypeOK, TableOK
<1>3. to # "succeeded" => ready' = ready
  BY <1>1, <1>2
<1>4. to = "succeeded" => ready' = ready \cup {j}
  BY <1>1, <1>2
<1> HIDE DEF ready
<1> QED
  BY <1>3, <1>4 DEF Lifecycle!Next, Lifecycle!Submit, Lifecycle!Run, Lifecycle!Deliver, Lifecycle!Fail,
     Lifecycle!Resubmit, Lifecycle!Move, ready

LEMMA StillIsLifecycle ==
  ASSUME Known, Known', UNCHANGED status PROVE UNCHANGED Lifecycle!vars
<1>1. {i \in Jobs : Servable(i)}' = {i \in Jobs : Servable(i)}
  BY ServableThroughout DEF SucceededServes
<1> QED BY <1>1 DEF Lifecycle!vars

-------------------------------------------------------------------------------
(* Each step keeps LifecycleInv, and moves at most one row, along the         *)
(* lifecycle.                                                               *)

Moves(j, to) ==
  /\ status' = [status EXCEPT ![j] = to]
  /\ \/ status[j] = "absent" /\ to = "pending"
     \/ status[j] = "pending" /\ to = "running"
     \/ status[j] = "running" /\ to = "succeeded"
     \/ status[j] \in {"pending", "running"} /\ to = "failed"
     \/ status[j] = "failed" /\ to = "pending"

Mapped == UNCHANGED status \/ \E j \in Jobs, to \in Statuses : Moves(j, to)

LEMMA LifecycleRequest ==
  ASSUME Faultless, Known, NeverMet, NEW p \in Clients, Start(p) \/ Continue(p) \/ RequestDies(p)
  PROVE  LifecycleInv' /\ Mapped
<1> USE DEF Known, TypeOK, TableOK, QueueOK, SlotOK, ReqOK, ReqRecord, Faultless, Undisturbed, table, bull
<1>1. \A s \in Slots : slot[s].pc # "idle" => queue[slot[s].job] = "active"
  BY NoneAssumption DEF AttemptsInv, Locked
<1>2. ASSUME NEW j \in Jobs, Create(p, j) PROVE LifecycleInv' /\ Mapped
  <2>1. /\ status[j] = "absent" /\ status' = [status EXCEPT ![j] = "pending"]
        /\ queue[j] = "none" /\ UNCHANGED <<queue, lock, failedEvents, slot, result>>
    BY <1>2, KnownOfAll DEF Create, WriteStatus, Tidy
  <2>2. Mapped
    BY <2>1 DEF Mapped, Moves, Statuses
  <2> QED BY <1>1, <2>1, <2>2 DEF LifecycleInv, Phase, Locked, Unsettled
<1>3. ASSUME NEW j \in Jobs, Retry(p, j) PROVE LifecycleInv' /\ Mapped
  BY <1>3 DEF Retry, LifecycleInv, Phase, Locked, Mapped
<1>4. CASE RetryReset(p)
  <2> DEFINE j == req[p].job
  <2>1. j \in Jobs /\ status[j] = "failed" /\ queue[j] = "failed" /\ j \notin failedEvents
    BY <1>4, KnownOfAll DEF RetryReset, Waiting, Awaited, Tidy
  <2>2. /\ status' = [status EXCEPT ![j] = "pending"] /\ UNCHANGED <<queue, lock, failedEvents, slot>>
        /\ result' = [result EXCEPT ![j] = None]
    BY <1>4, <2>1 DEF RetryReset, Exists, WriteStatus
  <2>3. Mapped
    BY <2>1, <2>2 DEF Mapped, Moves, Statuses
  <2> QED BY <1>1, <2>1, <2>2, <2>3 DEF LifecycleInv, Phase, Locked, Unsettled
<1>5. CASE RetryRemove(p)
  <2>1. UNCHANGED <<status, lock, failedEvents, slot, result>>
    BY <1>5 DEF RetryRemove, RemoveQueued, QueueRemove
  <2>2. queue' = queue \/ queue' = [queue EXCEPT ![req[p].job] = "none"]
    BY <1>5 DEF RetryRemove, RemoveQueued, QueueRemove
  <2> QED BY <2>1, <2>2 DEF LifecycleInv, Phase, Locked, Mapped
<1>6. CASE Enqueue(p)
  <2> DEFINE j == req[p].job
  <2>1. j \in Jobs /\ status[j] = "pending"
    BY <1>6, KnownOfAll DEF Enqueue, Waiting, Awaited
  <2>2. /\ UNCHANGED <<status, lock, failedEvents, slot, result>>
        /\ \A i \in Jobs : queue'[i] = queue[i] \/ (i = j /\ queue'[i] = "wait")
    BY <1>6, <2>1 DEF Enqueue, QueueAdd
  <2> QED BY <2>1, <2>2 DEF LifecycleInv, Phase, Locked, Mapped
<1>7. req[p].pc \in {"idle", "retryReset", "retryRemove", "enqueue"}
  BY KnownOfAll DEF Waiting
<1>8. CASE Start(p)
  BY <1>2, <1>3, <1>8 DEF Start, Cancel, Begin, RemoveAsset, Cleanup, CleanAssets
<1>9. CASE Continue(p) \/ RequestDies(p)
  BY <1>4, <1>5, <1>6, <1>7, <1>9 DEF Continue, RequestDies, EnqueueFails, RecordEnqueueFailure,
     CancelRemove, CancelWrite, QueueUnavailable, CleanupRemove, CleanupMark, CleanupExpire,
     CleanupFind, CleanupObjects, CleanupAssets, CleanupJobs, DeleteObject, RemoveAssetCheck,
     RemoveAssetObject, RemoveAssetRow, CleanAssetObjects, CleanAssetRows
<1> QED BY <1>8, <1>9

LEMMA LifecycleQueue ==
  ASSUME Faultless, Known, NeverMet, NEW j \in Jobs,
         \/ \E s \in Slots : Fetch(s, j)
         \/ StallRequeue(j) \/ StallFail(j) \/ HandleFailed(j) \/ LoseFailedEvent(j)
  PROVE  LifecycleInv' /\ Mapped
<1> USE DEF Known, TypeOK, TableOK, QueueOK, SlotOK, Faultless, Undisturbed, table, bull, LifecycleInv, Locked, Unsettled
<1>1. ASSUME NEW s \in Slots, Fetch(s, j) PROVE LifecycleInv' /\ Mapped
  <2>1. /\ queue[j] = "wait" /\ queue' = [queue EXCEPT ![j] = "active"] /\ lock' = [lock EXCEPT ![j] = s]
        /\ slot'[s].pc = "read" /\ slot'[s].job = j /\ \A t \in Slots \ {s} : slot'[t] = slot[t]
        /\ UNCHANGED <<status, failedEvents, result>>
    BY <1>1 DEF Fetch, IdleSlot
  <2> QED BY <2>1, NoneAssumption DEF Phase, Mapped
<1>2. CASE StallRequeue(j) \/ StallFail(j)
  BY <1>2 DEF StallRequeue, StallFail
<1>3. CASE HandleFailed(j)
  <2>1. /\ queue[j] = "failed" /\ status[j] \in Unsettled /\ failedEvents' = failedEvents \ {j}
        /\ status' = [status EXCEPT ![j] = "failed"] /\ UNCHANGED <<queue, lock, slot, result>>
    BY <1>3, KnownOfAll DEF HandleFailed, WriteStatus, Exists, Tidy
  <2>2. \A s \in Slots : slot[s].pc # "idle" => slot[s].job # j
    BY <2>1, NoneAssumption DEF AttemptsInv
  <2>3. Mapped
    BY <2>1 DEF Mapped, Moves, Statuses
  <2> QED BY <2>1, <2>2, <2>3 DEF Phase
<1>4. CASE LoseFailedEvent(j)
  BY <1>4 DEF LoseFailedEvent
<1> QED BY <1>1, <1>2, <1>3, <1>4

LEMMA LifecycleAttempt ==
  ASSUME Faultless, Known, NeverMet, NEW s \in Slots,
         Attempt(s) \/ AttemptError(s) \/ Crash(s) \/ LoseLock(s)
  PROVE  LifecycleInv' /\ Mapped
<1> USE GotoFrame DEF Known, TypeOK, TableOK, QueueOK, SlotOK, Faultless, Undisturbed, table, bull
<1> DEFINE j == slot[s].job
<1>1. \A t \in Slots \ {s} : slot[t].pc # "idle" /\ slot[s].pc # "idle" => slot[t].job # j
  BY ExclusiveAttempts DEF SingleAttempt
<1>2. slot[s].pc # "idle" => j \in Jobs /\ queue[j] = "active"
  BY NoneAssumption DEF AttemptsInv, Locked
<1>3. CASE \/ ReadRow(s) \/ MarkRunning(s) \/ RenderAndStore(s)
           \/ CreateAsset(s) \/ Link(s) \/ AttemptError(s)
  <2>1. UNCHANGED <<queue, lock, failedEvents>>
    BY <1>3 DEF ReadRow, MarkRunning, RenderAndStore, CreateAsset, Link, AttemptError
  <2>2. Phase(s)' /\ Mapped /\ (status'[j] = status[j] \/ status'[j] \in {"running", "succeeded"})
    <3>1. CASE ReadRow(s)
      BY <1>2, <3>1 DEF ReadRow, LifecycleInv, Phase, Exists, Unsettled, Mapped
    <3>2. CASE MarkRunning(s)
      BY <1>2, <3>2 DEF MarkRunning, WriteStatus, LifecycleInv, Phase, Exists, Unsettled, Mapped, Moves, Statuses
    <3>3. CASE RenderAndStore(s)
      BY <1>2, <3>3 DEF RenderAndStore, LifecycleInv, Phase, Unsettled, Mapped
    <3>4. CASE CreateAsset(s)
      <4>1. slot'[s].pc \in {"fail", "link"} /\ UNCHANGED status
        BY <3>4 DEF CreateAsset, SlotRecord
      <4> QED BY <1>2, <1>3, <3>4, <4>1, AttemptFrame, ZenonT(60) DEF CreateAsset, LifecycleInv, Phase, Unsettled, Mapped
    <3>5. CASE Link(s)
      BY <1>2, <3>5 DEF Link, WriteStatus, LifecycleInv, Phase, Exists, Unsettled, Mapped, Moves, Statuses
    <3>6. CASE AttemptError(s)
      BY <1>2, <3>6 DEF AttemptError, LifecycleInv, Phase, Unsettled, Mapped
    <3> QED BY <1>3, <3>1, <3>2, <3>3, <3>4, <3>5, <3>6
  <2>3. \A t \in Slots : Phase(t)'
    BY <1>1, <1>2, <1>3, <2>2, AttemptFrame DEF LifecycleInv, Phase
  <2>4. \A i \in Jobs : status'[i] # "succeeded" => result'[i] = None
    <3>1. CASE UNCHANGED <<status, result>>
      BY <3>1 DEF LifecycleInv
    <3>2. CASE MarkRunning(s)
      BY <1>2, <3>2 DEF MarkRunning, WriteStatus, LifecycleInv, Phase
    <3>3. CASE Link(s)
      BY <1>2, <3>3 DEF Link, WriteStatus, LifecycleInv
    <3> QED BY <1>3, <3>1, <3>2, <3>3 DEF ReadRow, RenderAndStore, CreateAsset, AttemptError
  <2>5. \A i \in failedEvents : status'[i] \in Unsettled
    BY <1>2, <1>3, AttemptFrame, KnownOfAll DEF LifecycleInv, Tidy
  <2>6. \A i \in Jobs : queue[i] = "wait" => status'[i] = "pending"
    BY <1>2, <1>3, AttemptFrame DEF LifecycleInv
  <2> QED BY <2>1, <2>2, <2>3, <2>4, <2>5, <2>6 DEF LifecycleInv, Locked
<1>4. CASE FinishAttempt(s)
  <2>1. slot' = [slot EXCEPT ![s] = IdleSlot] /\ UNCHANGED <<status, result>> /\ lock[j] = s
    BY <1>4 DEF FinishAttempt, AttemptsInv
  <2>2. /\ lock' = [lock EXCEPT ![j] = None]
        /\ \/ queue' = [queue EXCEPT ![j] = "completed"] /\ UNCHANGED failedEvents
           \/ /\ slot[s].pc = "fail" /\ queue' = [queue EXCEPT ![j] = "failed"]
              /\ failedEvents' = failedEvents \cup {j}
    BY <1>4, <2>1 DEF FinishAttempt
  <2> QED BY <1>2, <1>4, <2>1, <2>2 DEF FinishAttempt, LifecycleInv, Phase, Locked, IdleSlot, Mapped
<1>5. CASE Crash(s) \/ LoseLock(s)
  BY <1>5 DEF Crash, LoseLock
<1> QED BY <1>3, <1>4, <1>5 DEF Attempt

LEMMA LifecycleStep ==
  ASSUME Faultless
  PROVE  Known /\ NeverMet /\ [Next]_vars => LifecycleInv' /\ Mapped
<1> SUFFICES ASSUME Known, NeverMet, [Next]_vars PROVE LifecycleInv' /\ Mapped
  OBVIOUS
<1>1. CASE Next
  BY <1>1, LifecycleRequest, LifecycleQueue, LifecycleAttempt DEF Next
<1>2. CASE UNCHANGED vars
  BY <1>2 DEF Known, LifecycleInv, Phase, Locked, Mapped, vars, table, bull
<1> QED BY <1>1, <1>2

LEMMA KnownCorrect ==
  ASSUME Faultless PROVE Spec /\ []NeverMet => []Known
<1>1. "lock" \notin Faults /\ Ops \subseteq PipelineOps /\ Undisturbed
  BY DEF Faultless, Undisturbed, PipelineOps
<1>2. Known /\ NeverMet /\ [Next]_vars => Known'
  BY <1>1, StepType, AttemptsStep, DeliveryStep, UntouchedStep, BackedStep, LifecycleStep DEF Known
<1>3. Init => Known
  BY InitType, AttemptsFromInit, DeliveryInit, UntouchedInit, BackedInit, LifecycleInit DEF Known
<1> QED BY <1>2, <1>3, PTL DEF Spec

(* The pipeline implements the lifecycle the API promises of a job: one       *)
(* status after the other, a result that can be served exactly while it has  *)
(* succeeded, and nothing after that but what a client submits again - in     *)
(* every behaviour in which no job is in two requests at a time, those of    *)
(* one client (OneClientNeverMeets) among them.                             *)
THEOREM PipelineImplementsLifecycle ==
  ASSUME Faultless PROVE Spec /\ []NeverMet => Lifecycle!Spec
<1>1. Init => Lifecycle!Init
  BY LifecycleInit
<1>2. Known /\ Known' /\ NeverMet /\ [Next]_vars => [Lifecycle!Next]_(Lifecycle!vars)
  <2> SUFFICES ASSUME Known, Known', NeverMet, [Next]_vars PROVE [Lifecycle!Next]_(Lifecycle!vars)
    OBVIOUS
  <2>1. CASE UNCHANGED status
    BY <2>1, StillIsLifecycle
  <2>2. ASSUME NEW j \in Jobs, NEW to \in Statuses, Moves(j, to) PROVE Lifecycle!Next
    BY <2>2, MoveIsLifecycle DEF Moves
  <2> QED BY <2>1, <2>2, LifecycleStep DEF Mapped
<1> QED BY <1>1, <1>2, KnownCorrect, PTL DEF Spec, Lifecycle!Spec
===============================================================================
