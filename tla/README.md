# ShiTi: a TLA+ model of the backend

ShiTi is a multi-tenant question bank: a NestJS API and an export worker over
Postgres (through Prisma), Redis (BullMQ queues and rate limits) and MinIO.
The modules here model the parts of it where several processes write the same
state without a common transaction; TLC checks them on small instances and
TLAPS proves what matters most for every instance.

Source paths below are relative to the repository's root.

## 1. The system

| Part | State it keeps | Operations | What is hard about it |
|---|---|---|---|
| Export pipeline: `apps/api/export-jobs`, `src/domain/export-jobs`, BullMQ | `ExportJob` rows, queue jobs and locks, the PDF, its `Asset` row | create, cancel, retry, cleanup, one attempt, the `failed` handler | four stores and no transaction across them; attempts overlap requests; crashes, stalled jobs, lost locks |
| Tenant members: `apps/api/tenant-members`, `src/tenant` | `TenantMember` rows (role, status) | join or invite, change role, change status, resend, remove | every guard is read in one transaction and the write is another |
| Documents and layout elements: `apps/api/documents`, `apps/api/layout-elements` | `Document`, `DocumentItem.orderIndex`, `LayoutElement` | add, bulk add, reorder, remove, delete in use | order indexes computed from what a transaction reads at READ COMMITTED; row locks taken in different orders |
| Questions: `apps/api/questions` | question rows, blocks, taggings, taxonomy links | writes of blocks, replace-all of tags and taxonomy, delete | replace-all by two requests; references validated before the write |
| Import and filtered list: `src/domain/questions`, `GET /questions` | all of an import's rows in one transaction | import, list | transactions that ask the pool for more connections; tags upserted in any order |
| Assets: `apps/api/assets`, `src/domain/assets` | `Asset` rows, objects in MinIO, a cached "bucket is ready" promise | upload, remove, cleanup, reference checks | two stores; scan and delete are apart; roll-back of a failed upload |
| Taxonomy: `apps/api/stages`, `question-tags`, ... | stages, grades, textbooks, chapters, subjects, tags | create, delete (tags), list | deleting a tag others are linking |
| Admin console: `public/admin/app.js` | one `state` object, panes, forms, a polled export | one handler per click | handlers interleave at every `await`; forms outlive the selection they were filled for |
| Rate limit: `src/common/rate-limit` | Redis counters, process-local buckets | hit | INCR and PEXPIRE are two commands; fallback in mid-call |
| Tenants, authentication, row-level security | tenants, users, policies | create, register, resolve | check-then-insert |
| Audit log, health, metrics, bootstrap | rows and counters for display | record, list | the record is a transaction of its own |
| Flutter client, public site, scripts, agent team | view state | call the API | no core logic |

The API and the worker are separate processes, each possibly in several copies.
They meet only in the stores. `PrismaService.withTenant` wraps one or a few
statements in a Postgres transaction at its default level (READ COMMITTED);
between two calls of it anything can happen, and most handlers make several.
That is why an action of a model is one `withTenant` call, one call on the queue
or one call on the object store, never a whole handler; where two transactions
can meet on the same rows (`Documents`, `QuestionLinks`, `QuestionImport`) it is
one statement.

| Module | Models | Checked by | Theorems in |
|---|---|---|---|
| `ExportJobs`, `ExportJobLifecycle` | export pipeline | `ExportOverlap`, `ExportAttempts`, `ExportRecovery`, `ExportLifecycle` | `ExportJobs_proofs` |
| `TenantMembers` | members of a tenant | `MemberOwners`, `MemberRaces`, `MemberDemotion` | `TenantMembers_proofs` |
| `Documents`, `DocumentOrder` | documents, their items, layout elements in use | `Documents` | `Documents_proofs` |
| `QuestionLinks` | tags and taxonomy of a question | `QuestionLinks` | `QuestionLinks_proofs` |
| `AssetReferences` | uploads, blocks that refer to them, deletion | `AssetReferences` | `AssetReferences_proofs` |
| `QuestionImport` | imports and lists on the connection pool | `QuestionImport` | `QuestionImport_proofs` |
| `AdminConsole` | the operator's page | `AdminConsole` | `AdminConsole_proofs` |

`FiniteFacts` holds the lemmas on finite sets, numbers and lists that several proofs
need. The prover cannot use induction theorems, so what would be an induction is there the choice
of a minimal counterexample: among the numbers up to which a value can be carried on
(`Iterated`), the requests from which one can follow who waits for whom (`WaitingCircle`).

An `MC` module adds the symmetry sets and constant definitions TLC needs;
`MCTenantMembers` also has `OwnedSpec`, the specification from a tenant with two owners
that `MemberDemotion` starts from. In every module `Start`, `Continue`, `Next` and `Proceed` only put
actions together and have no lines of their own in the program. `CHECK_DEADLOCK FALSE` everywhere: nobody has to send a request,
click or add another job, so each of these systems may rest.

## 2. The export pipeline

### Modules

* `ExportJobs` is the pipeline itself.
* `ExportJobLifecycle` is what the API promises of one job: submitted, running,
  then succeeded with a downloadable result or failed; only a failed job is
  submitted again. `ExportJobs!Lifecycle` instantiates it with `phase <- status`
  and `ready <-` the jobs whose result `getResult` could serve.
* `MCExportJobs` adds the symmetry sets for TLC.
* `ExportJobs_proofs` holds the theorems: about every overlap, about cancels, about what
  stands behind an active row, and the refinement.

### State

| Variable | In the program |
|---|---|
| `status`, `result` | `ExportJob.status`, `resultAssetId`; `"absent"` and `"deleted"` are a row not yet, or no longer, there |
| `aged` | which rows have `updatedAt` before the cut-offs of the running cleanup; a write removes its row (`@updatedAt`) |
| `asset` | for each job the id of the `Asset` row with its storage key; a function, because `(tenantId, storageKey)` is unique |
| `objects` | jobs whose PDF exists in MinIO or on the worker's disk |
| `queue`, `lock`, `stalls`, `failedEvents` | BullMQ: state of the job with the row's id, who holds its lock, its stalled counter, `failed` events not yet handled |
| `slot[s]` | one attempt: where it is, its job, the asset it created |
| `req[p]` | one HTTP request: where it is, and its local variables |
| `overlap[j]` | history: whether two requests about job `j` are (`"now"`), were (`"past"`) or `"never"` have been under way at once |
| `claimed` | history: jobs a cleanup has selected with their result, and jobs whose asset was in the hands of a deletion while an attempt was making it |

### Actions

Worker: `Fetch`, `ReadRow`, `MarkRunning`, `RenderAndStore`, `CreateAsset`, `Link`,
`FinishAttempt` are the processor of `export-jobs.worker.ts` statement by
statement; every statement may find the row gone or throw (`AttemptError`).
`HandleFailed` is `worker.on('failed')`. API: `Create`, `Enqueue` /
`EnqueueFails` / `RecordEnqueueFailure`; `Cancel`, `CancelRemove`,
`CancelWrite`; `Retry`, `RetryReset`, `RetryRemove`, then `Enqueue` again; the
`Cleanup…` actions; `RemoveAsset…` and `CleanAsset…` for the two handlers of the
assets controller that delete. `QueueUnavailable` is a queue that cannot be
opened or read, `RequestDies` an API process that dies or a statement of a
handler that throws. BullMQ itself is modelled from how it is used: `add` with a
job id that exists is a no-op, `remove` throws on a locked job, an active job
whose lock expired is queued again `MaxStalls` times and then failed.

`Faults` switches each kind of failure on or off, `Ops` the requests clients
send; both are constants, so one module serves every run and the theorems name
the faults they exclude.

### What is abstracted

* Rendering is one step that stores the PDF or fails; its content is not modelled.
* `getJob` followed by `remove` is one step: BullMQ's `remove` decides on the
  lock atomically in Redis and a job that vanishes in between is removed either way.
* An attempt's crash and the expiry of its lock are one step (`Crash`); a lock that
  expires under a live attempt is `LoseLock`. Two attempts of one process that
  die together are two `Crash` steps.
* A storage key is a function of the job id: worker processes that differ in
  whether they could reach MinIO at start-up, and so write different keys for one
  job, are not modelled.
* `aged` serves one cleanup of export jobs at a time (`CleanupRunning`); a second
  concurrent cleanup would need cut-offs of its own.
* The scans of `AssetsController.remove` and `cleanup` read assets first and
  references after, at READ COMMITTED. They are one step, taken at the moment the
  references are read; an asset deleted between the two reads is an asset deleted
  before the loop that deletes objects, which the model has.
* Role checks, audit records and messages are left out: they touch none of these stores.

### Runs

All runs use three asset ids, two slots (the worker's `concurrency: 2`) and
`MaxStalls = 1` (BullMQ's default). Jobs do not share any state but the slots,
so one job is enough wherever a property speaks about one job; the liveness runs
have two, which compete for slots.

| Run | Bounds | What it shows |
|---|---|---|
| `ExportOverlap` | 1 job, 1 request at a time, all operations, every fault | `AttemptOwnsAsset`, `SucceededDownloadable`: overlapping attempts (crashes, lost locks) cannot leave a succeeded job without its result, because the unique key lets one of them through, and no deletion takes the result of a job that is not `claimed` |
| `ExportAttempts` | 1 job, 2 requests, create, cancel, retry and cleanup, every fault but `"lock"` | `TypeOK`; `SingleAttempt` and `SuccessNotRerun` whatever overlaps; `CancelStopsWork` for a cancel that overlaps no other request about its job |
| `ExportRecovery` | 2 jobs, 1 request, `"db"` and `"crash"`, fairness | `ActiveRowIsBacked`, `EventuallySettled` |
| `ExportLifecycle` | 2 jobs, 1 request, `"db"`, fairness | `ImplementsLifecycle` |

Three asset ids suffice: `FreshAsset` needs one that no row, attempt or request
refers to, and with one or two jobs at most two are in use where creation is enabled.
The properties say themselves which jobs they leave out, one job at a time: `overlap`
and `claimed` are histories for them alone. In `ExportOverlap` one request at a time is
enough for a deletion to meet the two attempts; that nothing more comes of two requests with
deletions and lost locks is what `DeliveredIsDownloadable` proves.
Where an operation or a fault is missing from a passing run, the property is
false with it, and that is said where it matters: with `"lock"` a job can be in two
attempts; with two requests about its job a cancel may write behind a worker that has
started; with `"api"` a create that dies before `queue.add` leaves a pending row
that nothing backs; with `"event"` a row stays running when the `failed` handler
cannot write. A cleanup is what repairs the last two.

The code and what is said of it disagree in three places which the model has and
no passing property hides; each is a behaviour of `ExportJobs` with the
operations and faults named:

* README.md:297 says control endpoints answer 503 "instead of partially mutating
  job state"; `retry` resets the row (`export-jobs.controller.ts:285`) before it
  opens the queue, so with `"queue"` a failed job becomes a pending one that is
  not queued. `ActiveRowIsBacked` leaves that fault out.
* `export-jobs.worker.spec.ts:61` "skips canceled jobs without moving them back
  through running/succeeded": the status is read (`export-jobs.worker.ts:334`) and
  written in the next transaction without looking again, so a cancel between the two is
  overwritten. That takes a cancel beside a create whose `queue.add` is late.
* README.md:294 offers "retry for failed/canceled jobs"; an attempt that failed between
  `asset.create` and the link (`export-jobs.worker.ts:357`) leaves an asset whose
  unique key makes every retry fail.

Three more races can be read off the same model and have no run of their own:
a cancel writes `canceled` over a job that completed after the cancel had read
it (controller, lines 226 and 250); a cleanup fails or deletes rows by ids it
selected earlier, whatever they say by then (lines 344 and 397); an asset
cleanup deletes an asset that the worker links to its job after the scan
(`assets.controller.ts`, line 278), which is what `claimed` leaves out. A fourth needs a `failed` event that is
served late: it fails a row an attempt has just completed, and a retry sent
before that attempt gives up its lock resets the row and cannot queue it.

### Fairness

`FairSpec` assumes what keeps running by itself: a handler that was entered is
continued by the event loop, so is an attempt; the stalled-job check is periodic;
the `failed` handler is called (weak fairness each). A worker that keeps
fetching gets every waiting job in turn (BullMQ's list is FIFO), although other
jobs may take the free slot in between: strong fairness of `Fetch` for each job. No client
has to send anything, and nothing has to fail.

### Proofs

`ExportJobs_proofs` is checked by TLAPS, for any sets of jobs, assets, requests and slots:

* `TypeCorrect`: `Spec => []TypeOK`. `TypeOK` is inductive because it says that an attempt
  in progress has a job and one that links has an asset.
* `AttemptsAreExclusive`: without `"lock"`, `[]SingleAttempt`. `SingleAttempt` alone is not
  inductive: a second attempt starts at `Fetch`, which says nothing of the first.
  `AttemptsInv` ties the two: an attempt in progress holds the lock of its
  job, and a locked job is active in the queue. `Fetch` takes a waiting job, so nobody holds
  its lock, so nobody attempts it.
* `SuccessIsNotRerun`: without `"lock"`, `SuccessNotRerun`, from the same invariant: an
  attempt about to mark its row running read it unsucceeded, and only attempts
  make a row succeed.
* `DeliveredIsDownloadable` and `AttemptsOwnAssets`: `[]SucceededDownloadable` and
  `[]AttemptOwnsAsset`, with every operation and every fault. `DeliveryInv`
  adds that the PDF is stored before the asset is created, and what a deletion may have in
  hand (`HandsOff`): nothing of a job that is being made, and nothing a succeeded job
  refers to, unless the job is `claimed`. `DeliveryWithoutDeletion`: where no request deletes, nothing is
  claimed (`Untouched`) and every succeeded job can be downloaded.
* `RowsAreBacked`: `[]ActiveRowIsBacked` under `Undisturbed` (requests create and
  retry; statements fail and workers die), for any number of requests at a time. `BackedInv`
  says of a job no two requests have met about where, for each status, the queue may be (`Tidy`), what
  the request between row and queue relies on (`Awaited`), and that an attempt ends
  well only on a succeeded row. `Alone`, proved with every operation and fault, says that
  `overlap` misses nothing: two requests about a job mean `"now"`.
* `CanceledIsIdle`: without `"lock"`, `CancelStopsWork`, for any number of requests.
  `CancelInv`: a job whose cancel is about to be written has left the queue, and by `Alone` nobody
  else is there to put it back (`OthersStayOut`).
* `PipelineImplementsLifecycle`: `Spec /\ []NeverMet => Lifecycle!Spec` under `Faultless` (`Undisturbed`, no
  crash), that is the safety part of `ImplementsLifecycle` for every behaviour in which no job
  is in two requests at a time; `OneClientNeverMeets` has those of one client, as in the run, among
  them. `LifecycleInv` ties the row to the queue and to how far the attempt is; with it each step
  moves at most one row, along the lifecycle (`MoveIsLifecycle`).

The assumptions are those of the module (`NoneAssumption` and the like), which every run evaluates.
`EventuallySettled` and the liveness part of `ImplementsLifecycle` are checked by TLC
only: liveness is out of the prover's reach.

## 3. The members of a tenant

### Module, state and actions

`TenantMembers` is `TenantMembersController` with `tenant-guards.ts`, for one
tenant. `row[u]`, `role[u]` and `status[u]` are the `TenantMember` row of user
`u` (`(tenantId, userId)` is unique); ids matter because a member who is
removed and joins again has a new row, and the handlers find rows by id.
`req[p]` is a request: where it is, what it asks for, and what it has read. `stale` is
history: the requests that another has overtaken.

| Handler | Actions |
|---|---|
| `POST /tenant-members` | `Join` (counts members), `JoinRead` (own membership, guard); with a user name `JoinNamed`, `JoinAuthorize`; then `UpsertRead`, `UpsertUpdate` or `UpsertInsert`, and `JoinFallback` when the upsert throws |
| `PATCH :id/role` | `UpdateRole` (requireTenantRole), `FindForRole`, `CountOwners` if an owner is demoted, `WriteRole` |
| `PATCH :id/status` | `UpdateStatus`, `FindForStatus`, `CountOwners`, `WriteStatus` |
| `POST :id/resend-invite` | `ResendInvite`, `FindForResend`, `WriteInvited` |
| `DELETE :id` | `Remove`, `FindForRemove`, `CountOwners`, `DeleteRow` |

The upsert includes the user, so Prisma does not turn it into one `INSERT ... ON
CONFLICT`: it selects, then inserts or updates. A write by id to a row that is
gone throws. Requests that the first guard refuses change nothing and are left
out, as are user lookup, audit records and `updatedAt`.

`Ops` splits joins by who is joined: `"join"` and `"invite"` someone who is not
active in the tenant, `"rejoin"` someone who is.

### Properties and runs

| Run | Bounds | What it shows |
|---|---|---|
| `MemberOwners` | 2 users, 2 requests at a time, all operations but `"remove"` | `TypeOK`; `NoRequestFails`: concurrent joins of one user converge (TODO.md:116, "handled idempotently again after a race-safe membership fallback") and rows found by id are there when written; `OwnersComeFromOwners`: from `Orphaned`, a tenant without active owner and without a request that may still make one, no request leads back |
| `MemberRaces` | 2 users, 2 requests at a time, all operations but `"rejoin"` | `LastOwnerGoesStale`: the last active owner goes only by a request in `stale`, whose actor's or target's row the other request has written since it began |
| `MemberDemotion` | a tenant that two users own, 2 requests, only `"role"` | expected violation of `AnOwnerRemains`: the owners demote each other at once, each counts two (`CountOwners`) and writes |

Two users are enough for the races (each is one user against another, or a user
against itself). Ids: one per user where nobody is removed, two more otherwise.
`LastOwnerGoesStale` is the exact extent of what `MemberDemotion` shows: the count
of owners protects nothing against a second request (it is the same before both
writes), the guards against acting on oneself do. With them every request that takes
an owner away leaves the owner who sent it, and only another request that writes that
owner's row meanwhile can undo this; its mutant lets owners step down after the count,
and two owners who do so at once are gone although neither touched the other.
`OwnersComeFromOwners` says why losing the last owner matters: it cannot be
repaired from inside. `MayCrown` lists the requests that still can make an
owner; one of them is a status update that was checked while its target was a
plain member and is written after the target became an owner.

Three more effects are in the model without a run: an owner's second join without a
role makes the owner a member (`tenant-members.controller.ts:94`; README.md:158 has
owners never demote themselves), which is why `"rejoin"` is apart; an invitation that is resent
while its addressee joins turns the active member back into an invited one
(line 268), and the guard of the last owner also refuses to demote or remove a
disabled owner when there is one active owner (line 157).

### Proofs

`TenantMembers_proofs`, for any users, row ids and requests:

* `TypeCorrect`. `TypeOK` is not inductive: `WriteRole` writes what the request
  holds, so `TypeInv` adds `Shape`, what a request holds where it is (a join
  has a role and a status, a request past its lookup has an id, a role update is an owner's).
* `JoinsConverge`: without `"remove"`, `[]NoRequestFails`. The invariant is that a row a
  request has found is still the user's row, and that a join in its fallback has one to find.
* `LastOwnerIsRaced`: `LastOwnerGoesStale` with every operation and any number of
  overlapping requests. `CheckedInv`: what a request that is not in `stale` has checked
  still holds when it writes (`Checked`: its actor is still the active owner or admin it
  was seen to be, and is not the one it demotes, disables or removes). That a write by
  one request leaves it so for another is `CheckedOthers`. The count of owners is
  not used.
* `SequentialOwner`: if requests do not overlap (`OneRequest`), none is overtaken, and
  without `"rejoin"` `AnOwnerRemains`.
* `OwnersAreAppointed`: `OwnersComeFromOwners` with every operation and any number of
  overlapping requests.

## 4. Documents and the order of their items

### Module, state and actions

`Documents` is `DocumentsController`, with the deletion of what items refer to.
Each handler is one `withTenant` transaction (a bulk add: one per item), and two
of them meet on the same rows, so every statement that writes is an action.

| Variable | In the program |
|---|---|
| `documents`, `layouts` | the `Document` and `LayoutElement` rows there are |
| `item[i]` | a `DocumentItem` row: its document, what it refers to, `orderIndex` |
| `req[p]` | a request; `todo` is what its transaction has still to write, `done` what it has written and locked |
| `overlapped` | history: the documents that two requests under way at once have named |
| `sparse` | history: the documents that a reorder has numbered otherwise than by handing the items' own numbers round, and no removal has numbered since |
| `crossed` | history: the layout elements that were deleted between an add's lookup and its insert, or inserted between a deletion's check and its `DELETE` |

| Handler | Actions |
|---|---|
| `POST /documents` | `CreateDocument` |
| `POST :id/items`, `.../bulk` | `AddItems`, then per item `AddFind` (document, reference, kind), `AddLast` (the last `orderIndex`), `AddCreate` |
| `PATCH :id/items/reorder` | `Reorder`, `ReorderFind`, one `Apply` per row in the order of the request, `Commit` |
| `DELETE :id/items/:itemId` | `RemoveItem`, `RemoveFind`, `Apply` of the delete, `Scan` (the rest in order), one `Apply` per row, `Commit` |
| `DELETE /documents/:id` | `RemoveDocument`, `DropDocument`, one `Apply` per cascaded row, `Commit` |
| `POST`, `DELETE /layout-elements` | `CreateLayout`; `RemoveLayout`, `LayoutCheck`, `LayoutDelete` |

Postgres is modelled from how it is used: a statement sees what is committed
when it runs, a row that is written is locked until its transaction ends
(`WaitsFor`), an `UPDATE` or `DELETE` by id of a row that is gone fails, an `INSERT`
waits for a pending delete of its document, and `Deadlock` aborts a transaction of a circle.
`ReorderDocumentItemsDto` asks for a list of ids and numbers that is not empty, and nothing else: a
reorder may name some of the items, in any order, those of other documents
(refused by `ReorderFind`), and give them any numbers, equal and negative ones included. A number that is no
integer makes the `UPDATE` fail, as `StatementFails` does.
`updatedAt`, scores, names and statistics are left out, as is renaming a
document, which touches nothing else. A question may or may not be there
when it is looked up: nothing that happens to documents depends on it later.

### Properties and run

Run `Documents`: a paper and a handout, 3 items, 1 question, 1 layout element, 2
requests at a time, bulks of up to `MaxBulk = 2`, failing statements (`"db"`). Three items are the fewest
that a reorder and a removal can lock in two orders, two documents the fewest
that an item could be mistaken between; `MaxIndex = 0` still lets a bulk make
three items of one document, up to index 2, and bounds what repeated adds and removals
can climb to. Reorders name up to `MaxNamed = 2` items, of any documents, with numbers of `Indexes = {0, 1}`:
that is enough to swap two, to name one alone, to give two the same place or one a place that is taken. With
`MaxSparse = 0` no reorder begins while a document has been left with other numbers than its own; it can be added to, removed from and
deleted then. With `MaxOverlaps = 0` nothing begins once a document is in `overlapped`: the requests under way
finish, in every order. Other numbers, second reorders and requests behind an overlap are covered by the theorems, which have no such bounds.

* `OnlyWhatWasAsked`: whatever overlaps, a request changes items of the document
  it names only, an item never changes what it refers to, and goes only when it or its document is deleted.
* `NobodyIsStuck`: while a request is under way, one of them can go on. It needs `Deadlock`:
  two reorders, or one and a removal, do lock each other out, and one of them is refused. It is stated over `Ready`, which
  says that a request waits for nobody or is in a circle.
* `Dense`: `orderIndex` counts a document's items from 0, whatever overlaps about other documents or about what its items refer to,
  until two requests about it overlap or a reorder hands out other numbers than those its items had. Neither has
  to keep it: two adds read the same last index (`documents.controller.ts:433`),
  a removal renumbers without what was added meanwhile, and a reorder writes what it is sent (line 223). A removal numbers
  all that remain, so it mends what a reorder did.
* `LayoutsKept`: an item refers to a layout element that is gone only if the two were `crossed`
  (`layout-elements.controller.ts:128` checks before it deletes, `addDocumentItemInternal` looks it up before it inserts), whatever else overlaps; a paper never refers to one at all.
* `ImplementsOrder`: until two requests about it overlap, each document is what `DocumentOrder`
  describes, whatever numbers it has: items in an order in which some may share a place. Add puts an item behind all others, a reorder may
  arrange them in any way, a remove puts what is left one behind the other and respects the order there was. `Content` and `Before` are
  the refinement mapping: the items, and which has a lower index than which; nothing, as if the
  document were discarded, from an overlap on. A bulk add is as many
  `Add` steps as there are items, also when one of them fails.

### Proofs

`Documents_proofs`, for any finite sets of documents' items and requests and any bounds; the
other assumptions keep papers among documents and the ids of different tables apart.

* `TypeCorrect` (with the foreign key: a row belongs to a document there is) and `AskedOnly`,
  whatever overlaps. Both come from `Inv`: `Shape` is what a
  request holds where it is, `Aim` says that what a transaction has written or is to write is in its
  document or gone, and that a deletion misses no item, which an `AddCreate` between
  its steps could break if the foreign key did not make it wait; `Exclusive` that no
  two transactions have written one row.
* `SomeoneIsReady`: `[]NobodyIsStuck`. If all wait, then each for another, and requests are
  finitely many: some of them form a circle (`WaitingCircle`), which Postgres breaks.
* `IndexesAreDense` and `LayoutElementsStay`. `Dense` says nothing of a transaction half done, so `Known`
  adds what a request has found out of its document and layout element (`Exact`): that its new index is the
  next one (`AtTheEnd`), that its layout element is there, or unused, or `crossed`, and that the writes of a removal, those done and those to do,
  number what its document is left with from 0 (`Plan`).
  What is known of a document holds as long as nobody else names it: `Met` says that a document two requests under way name is
  in `overlapped`, so what another commits is about other rows (`SameRows`) and leaves it true
  (`KeptExact`); every action is then one use of `AloneStep`. A reorder that permutes its items' numbers keeps them without gaps
  (`PermutedGapless`). That a paper refers to no
  layout element needs no condition (`RefsFit`).
* `DocumentsAreLists`: `DocumentOrder`'s specification, the initial state and every step, and with it
  `ImplementsOrder`, its form for TLC. Numbers put items in an order, whatever numbers they are (`NumbersOrder`),
  which is all a reorder has to show; an insert goes behind the rest (`AtTheEnd`), and the plan of a removal
  ascends (`Ascends`), so it respects the order there was; a request names one document, so its beginning discards one at most (`BeginStep`).

## 5. The tags and taxonomy of a question

`QuestionLinks` is `setTags` and `setTaxonomy` of `QuestionsController`, with the deletion
of a tag or of the question, again statement by statement. `links` are the
committed rows of the link tables; a request has the rows it has deleted (`erased`) and
inserted (`added`) and not committed. `Find` reads the question and the tags;
`Clear` starts a `deleteMany`, `Erase` deletes one row, waiting for whoever has deleted it;
`Insert` is one row of a `createMany` with `skipDuplicates`, waiting for whoever has
written a row with its key or is deleting what it refers to; `Commit` makes all of it visible and
takes the rows it deleted from the `deleteMany`s that wait for them. `Drop` deletes a tag or
question and cascades. Stages and grades are linked as textbooks are and share `Books`.

Run `QuestionLinks`: 2 tags, 2 textbooks, 1 chapter, 2 requests, `"db"`. Two tags are what
two requests need to insert in opposite orders, two textbooks what a chapter needs to have a wrong one.

* `LinksChangeAsAsked`: whatever overlaps, a link appears only through a request that asks for
  it and goes only through one that does not: a tag both requests want is
  not lost between the delete of one and the insert of the other.
* `NobodyIsStuck`: as in section 4; two replacements that insert the same tags in different orders need `Deadlock`.
* `ReplacesAll`: until requests overlap, what remains is what was asked for, or what was there.
  With overlap it can be the union of both.
* `ChaptersFit`: until requests overlap, chapters belong to the question's textbooks. The check at
  `questions.controller.ts:803` looks at one request; two at once leave the chapters
  of one with the textbooks of the other.

`QuestionLinks_proofs`, for any finite sets of tags, textbooks, chapters and requests:

* `ChangeAsAsked`: `LinksChangeAsAsked`, whatever overlaps. `Inv` says of each request that what it
  inserted it was asked for, and that what it deleted and is asked for it has inserted
  again or has still to.
* `TypeCorrect`: `TypeOK`, which has that links refer to what is there. `Refs`
  says why: a deletion that has started has, or has still to erase, every link to what it
  deletes, and nobody inserts another as long as it runs.
* `ReplacementsAreWhole` and `ChaptersOfTextbooks`: `ReplacesAll` and `ChaptersFit`, from `Known`, which adds
  what a request on its own has done (`Exact`): of the tables it has swept, what it has
  erased and is to erase are the links there were; what it has inserted and is to insert
  is what it wants, and that is checked to fit.
* `SomeoneIsReady`: `NobodyIsStuck`, as in section 4.

## 6. Assets and what refers to them

`AssetReferences` is `AssetsController` and the writers of blocks: the PUTs of a question's content,
explanation and answers, and layout elements. References are JSON and no foreign key binds them, so `DELETE` and
cleanup read every table that may hold one; these are so many statements, sent together at READ COMMITTED, each with its own
snapshot. `Read` is one of them, in any order, and what others store or delete in between is seen by those to come only.

| Handler | Actions |
|---|---|
| PUTs of blocks | `PutBlocks`, `ValidateReferences` (one transaction), `WriteBlocks` (the next) |
| `POST /assets/upload` | `Upload`, `UploadBucket`, `CreateAsset`, `Presign`, `RollBack` if signing fails; `PutObject` is the client's upload, at any time |
| `DELETE /assets/:id` | `RemoveAsset`, `RemoveFind`, `RemoveCheck` once per table, `RemoveBucket`, `RemoveObject`, `RemoveRow` |
| `POST /assets/cleanup` | `CleanAssets`, `CleanScan` once per table, that of the assets included, `CleanBucket`, `CleanObjects` (errors ignored), `CleanRows` |
| questions and layout elements come and go | `RemoveQuestion`, `CreateQuestion`, `RemoveLayout` |

`EnsureBucket` is the promise that the first call caches; `Age` is time passing `staleHours`;
`StatementFails` is a statement or an audit record that throws, that of a roll-back included, whose failure is swallowed (line 354);
`Restart` ends the process with all it was doing and forgets the promise. How long a
URL is good is left out. Export jobs are references too; their deletion handlers are in
`ExportJobs` (section 2).

Run `AssetReferences`: 2 assets, 1 part of a question, 1 layout element, 2 requests, `"store"`, `"db"` and
`"restart"`. Handlers act on assets one by one or on a set, so two assets show a set that is neither empty nor all;
one part and one layout element are the two ways in which a holder goes away, and two tables to read, between which a reference can move.

* `YoungAssetsStay`: whatever overlaps, a cleanup deletes only what was stale when it scanned.
* `ObjectsGoFirst`: whatever overlaps, fails or restarts, `DELETE` comes to the row only when the object is gone.
  `late` has the one exception: a request whose object a client uploads between the two.
* `UploadsAreWhole`: an asset without a URL belongs to an upload under way, unless a restart or a failing statement cut that one
  short (`"cut"`): a roll-back whose `delete` fails leaves the row, and the client gets the error of the URL only.
* `NoDanglingReference`: whatever overlaps, fails or restarts, blocks refer to assets there are, but for
  `"contested"` ones. An asset becomes that in two ways: its row goes by a request that had read those blocks before the asset was stored in them
  (`missed`), be it moved there from a table that was read later; or its row goes while another request, having validated it, is about to store it.
  Both leave a reference to what is gone in the program too (`asset-reference-validation.ts:34`, `assets.controller.ts:119` and `:201`);
  in this model, in which a part is written in one transaction and everything else is as listed above, nothing else does.

`history[a]` is read by the properties only and begins anew when an id is given again, so no
asset is excused for what became of another; nor does `missed` decide what a request does.

All of these, and `TypeOK`, are theorems of `AssetReferences_proofs` for any sets: `TypeCorrect` (with
`Shapes`), `YoungStay` (`FoundOld`: what a cleanup holds is not young once it has read the assets; an id is not used again while
a request names it), `ObjectBeforeRow`, `UploadsWhole`, and `ReferencesHold`. Its invariant `RefInv` says of every
request what it has checked and what may have become of it: what one is about to refer to has its row
(`StoringHolds`), what one is about to delete is not in the blocks it has read, unless it missed that (`SeenFree`), and what blocks refer to has its row
(`BlocksHold`), unless contested. `RowsGo`, `BlocksWritten`, `TableRead` and `AssetMade` are the steps that could break one of the three;
all others are `QuietStep`.

What the code does and its messages do not say: a bucket check that fails once is kept
(`assets.controller.ts:390`), so uploads, removals and cleanups fail until the process
is started again although the answer calls them "temporarily unavailable"; a cleanup
whose object deletions fail deletes the rows all the same (line 274) and
nothing knows of the objects any more.

## 7. Imports on the connection pool

`QuestionImport` is `QuestionsImportService` and the filtered `GET /questions`. Both
hold the connection of a transaction while they look up taxonomy through
`this.prisma`, on a second one (`looking`). `FreeConnections` counts both. An import writes each item's
question and upserts its tags (`WriteQuestion`, `UpsertTag`, `ItemDone`), all in one
transaction; an upsert waits for a transaction that has upserted the same tag. `NextItem` and `LookedUp`
may refuse the import (a difficulty out of range, a name that is not there; the lookups of one item come one after the other and are one here), `GiveUp` is a failed statement or a
timeout of Prisma's, `Deadlock` Postgres.

Run `QuestionImport`: 2 tags, imports of one or two items that name them in either order with and
without lookups, 3 requests on a pool of 3. Three holders of a connection are enough to take the pool, and
two to wait for each other's tags with a connection left; with more connections than requests nobody could wait.
`MaxStored = 0` ends the import of further batches once one is in, which bounds `questions`.

* `ImportIsAtomic`: an import leaves all of its questions or none; a dry run or a list leaves nothing.
* `TagsAreThere`: the tags of every question are there, also when the import that created them first has been rolled back.
* `StallTakesThePool`: when all requests wait short of a timeout, open transactions hold the
  whole pool: with fewer such requests than connections, tags in whatever order never make all of them wait.
  "Wait" is `~Ready`: for a connection, or for a tag that another has upserted and not in a circle.
* `EveryRequestAnswered`: every request ends. Fairness: `WF(Work(p) \/ GiveUp(p))` for each request. Prisma's
  timers (`maxWait`, `timeout`, the pool's) go off by themselves; it is they that end the stall.

`QuestionImport_proofs`: `TypeCorrect`, `TagsThere`, `ImportAtomic` and `OnlyThePoolStalls`, for any tags, batches, pool and
finite number of requests. `Local` says that what a request has created and has left to do make up a batch
(`FirstMoves` is the lemma on sequences), and that the tags of what it created are upserted or
still to be; `Stored` is `TagsAreThere`; `Frugal` that no more connections are
used than there are. `OnlyThePoolStalls` proves `StallTakesThePool` from it: with a connection left, requests that all wait do so for
one another's tags, so some form a circle (`WaitingCircle`) and Postgres aborts one of those.
`FewRequestsNeverStall` is what an operator asks: with fewer requests at once than connections, somebody is always ready.
Liveness is only model-checked.

## 8. The operator's console

`AdminConsole` is `public/admin/app.js`: one page whose handlers interleave at every `await`.

| Variable | In the program |
|---|---|
| `state` | the object of that name: tenant, question, document and export that are selected |
| `shown` | what the deck, the question form, its marked tags and taxonomy, the document and the export pane are about |
| `handler[h]` | a running handler: groups of calls still to be made, requests it has sent, rounds of its poll |
| `home`, `gone` | the server: rows by tenant, documents that have been deleted |
| `torn` | history: what overlapping handlers, failures or a blank tenant code may have torn apart |

Every click is an action that runs to its first `await` (`JoinTenant`, `SelectQuestion`, `SaveQuestion`,
`MoveItem`, `ExportSelected`, ...); `Answer`, `PollAnswer` and `StayPut` run from an answer to the next
`await`, `Wake` is the timer of the poll, `Fail` a refused or lost request, which ends its
handler but not the rest of its `Promise.all`; `Init` and `ReloadPage` start from `localStorage`, where tenant and selections are kept apart.
`Sync` is what a login or the selection of a layout element does besides: it stores and shows the tenant that is in `state`. The tenant's
field may be blank (`None`): a tenant is created or joined under that code all the same and refused, and reads return at once, which empties the panes they are for.
A refresh asks for the state of the server first and looks at the tenant after. The server deals with a request when it is
sent, and a list carries what there was then; answers come later in any order. A request records what it names (`id`) and where
what it carries comes from (`from`): the form, the list that was read, the confirmation.

Run `AdminConsole`: 2 tenants, 3 questions and 2 documents (one of each still to be created), 2 exports, 2 handlers,
`MaxPolls = 2`, `MaxClicks = 2`. The page starts from whatever an earlier visit left in
`localStorage`, with a tenant or without, so that things are selected before the first
click; two clicks then are enough to select something else and save, or to join
another tenant in between, two handlers for any pair to overlap (the first refresh included); a poll that goes round once and stops shows both ends of its loop.

* `ShownIsSelected`: what the panes show is what is selected, whenever nothing that touches it is under
  way or has been torn; one undisturbed refresh under a tenant makes whole what was torn.
* `SentGoesHome`: a form is saved to the question it was filled from, an order goes to the document it
  was read of, a deletion to the document that was confirmed, unless overlapping handlers,
  a failure or a blank tenant code have come between.

`torn` is computed from what handlers may touch, never from what is shown, so neither property is true by its definition. What
it lets pass is what the code does, and the properties would not catch it: a late answer or a failed load leaves a form
beside another selection (`app.js:771`, `app.js:1181`), and the next save writes
it there; reading the taxonomy again unmarks the tags of the question in the
form, with no race at all (`app.js:259`), and saving the tags then erases them; a refused join leaves
requests going to a tenant the deck does not show (`app.js:1048`), where
README.md:123 has the deck keep the current one visible; and under a blank tenant code a read of the detail empties the form of a question that stays
selected (`app.js:771`), so that the next save sends an empty form to it.

`AdminConsole_proofs`, for any tenants, rows, handlers, clicks and rounds of a poll; `None` is apart from the rest
(`NoneAssumption`): `TypeCorrect`, `ShownAsSelected` and `GoesHome`, the three invariants of the run. They come from one
`Inv`, which has to speak of what handlers are going to do:

* `Shaped`: what is left of a handler's script is the end of one of the scripts clicks start
  (`Planned`), and a request names something of its call's kind (`Named`).
* `Under`: under a blank tenant code, as long as a refresh has its lists still before it (which it will not send), what is selected is shown
  or torn.
* `Kept`, for each kind that is not torn: what is shown is what is selected or some handler is about
  to show it; at most one handler touches it; a call that will set the two
  apart is followed by one that shows (`Ordered`); requests name what is selected (`Fits`). `ShownIsSelected` is the case
  in which no handler is there.
* `Sent`: what a request carries comes from what it names, or its kind is torn.

Every step is a click that starts a script, an answer after which it goes on (`GoOn`), or a failure. `GoOnDoes` says once what
going on does: it skips the calls that are silent without a tenant or a selection, stops at the first group that is not and sends it.
`OthersKept` carries `KeptIn` over to the kinds the handler does not touch, `MineKept` is for those only it touches.

## 9. What is only model-checked

Of the properties of passing runs, these are not theorems: `EventuallySettled`,
`EveryRequestAnswered` and the liveness part of `ImplementsLifecycle`: liveness is out of
the prover's reach. All others
are theorems under the assumptions named with them; where a theorem excludes a
fault or an operation the run does so too. The only fairness assumed anywhere is that of
`ExportJobs!FairSpec` and `QuestionImport!Spec`.

## 10. Not modelled

* Audit records: a transaction after the mutation, read for display.
* Rate limiter: a counter per key for the authentication routes; no other state depends on it.
* Tenants and authentication: single rows checked and then inserted under a unique key.
* Row-level security: enforced by Postgres; `withTenant` is here only the boundary of a transaction.
* Taxonomy other than tags: stages, grades, textbooks, chapters and subjects are only created, and given in `QuestionLinks`.
* Renaming a document, and basics, source and answers of a question as far as they are text: single updates of one row.
* Health, metrics, logs and bootstrap; rendering of PDFs; the text of forms and blocks.
* In the console: the token, layout elements, assets and audit lists, which keep no state others depend on.
* Public site, agent team, Flutter client, scripts: display, fixed messages and tools run by hand.

## 11. What is left

1. `ExportJobs` and `AssetReferences` in one composition: each has the deletions of the other's
   assets on its own side only.
2. Worker processes that disagree on where the PDF is stored.
3. The optimistic list updates of the Flutter client, as `AdminConsole` has those of the console.
