---------------------------- MODULE AssetReferences ----------------------------
(***************************************************************************)
(* Uploaded assets and the blocks that refer to them: uploads, deletion    *)
(* and cleanup of assets (AssetsController), and the handlers that store   *)
(* blocks, which are the PUTs of a question's content, explanation, choice *)
(* answer and solution answer and the writes of layout elements.           *)
(*                                                                         *)
(* A handler is a chain of withTenant transactions and calls of the object *)
(* store; every one of them is an action, and so is every statement of a   *)
(* transaction that looks for references: at READ COMMITTED each sees what *)
(* others have committed by then.  References are JSON: no foreign key     *)
(* binds them.  A row of blocks that refers to nothing is not told from no *)
(* row.                                                                    *)
(***************************************************************************)
EXTENDS Naturals

CONSTANTS
  Assets,   \* ids of assets
  Parts,    \* rows of a question that hold blocks
  Layouts,  \* layout elements
  Clients,  \* requests the API is handling at the same time
  None,     \* no request, no asset
  Faults    \* what fails: "store" (the object store), "db" (a statement), "restart" (the API)

ASSUME NoneAssumption ==
  None \notin Assets \cup Parts \cup Layouts \cup {"put", "remove", "cleanup", "upload"}

ASSUME HoldersAssumption == Parts \cap Layouts = {} /\ Assets \cap (Parts \cup Layouts) = {}

VARIABLES
  asset,     \* Asset rows: none, young, or older than staleHours
  urls,      \* assets a presigned URL has been given for
  stored,    \* assets whose object is in the store
  blocks,    \* assets the blocks of a part or layout element refer to
  question,  \* the question exists
  bucket,    \* bucketReady: not asked for, resolved, rejected
  req,       \* the API's requests
  history,   \* what has become of an asset since it was made (below)
  late       \* history: requests whose object was PUT after they removed it

table == <<asset, urls, stored, blocks, question>>
past == <<history, late>>
vars == <<table, bucket, req, past>>

Holders == Parts \cup Layouts
Rows == {a \in Assets : asset[a] # "none"}

(* The tables that hold blocks, one for each kind of part, and what one of   *)
(* them does not refer to.                                                 *)
Tables == {{h} : h \in Parts} \cup {Layouts}
Free(T) == {a \in Assets : \A h \in T : a \notin blocks[h]}
Referenced(a) == \E h \in Holders : a \in blocks[h]

Ops == {"put", "remove", "cleanup", "upload"}
ReqPcs == {"idle", "validate", "write", "find", "check", "bucket", "object", "row",
           "scan", "objects", "rows", "create", "presign", "rollback"}

(***************************************************************************)
(* holder, refs: blocks to store and the assets they refer to; asset: the  *)
(* one to remove or uploaded; found: what it deletes unless it comes upon a *)
(* reference (an upload: its own asset, should it get no URL); unread: the  *)
(* tables it still has to read (Assets: that of the asset rows); missed     *)
(* (history): those of found that were stored into blocks it had read.      *)
(***************************************************************************)
IdleReq == [pc |-> "idle", op |-> None, holder |-> None, refs |-> {}, asset |-> None,
            found |-> {}, unread |-> {}, missed |-> {}]

Busy(p) == req[p].pc # "idle"

Init ==
  /\ asset = [a \in Assets |-> "none"]
  /\ urls = {}
  /\ stored = {}
  /\ blocks = [h \in Holders |-> {}]
  /\ question = TRUE
  /\ bucket = "unknown"
  /\ req = [p \in Clients |-> IdleReq]
  /\ history = [a \in Assets |-> {}]
  /\ late = {}

Reply(p) == req' = [req EXCEPT ![p] = IdleReq]

Proceed(p, pc) == req' = [req EXCEPT ![p].pc = pc]

Begin(p, r) ==
  /\ ~Busy(p)
  /\ req' = [req EXCEPT ![p] = r]
  /\ UNCHANGED <<table, bucket, past>>

(* past is read by the properties only.  A request is Storing what it has   *)
(* found to be there.  An asset is "contested" when its row goes while it is *)
(* about to be stored, or by a request that missed that it was stored; and   *)
(* "cut" when a restart or a failing statement ends its upload half-way.     *)
(***************************************************************************)
Mark(as, what) == history' = [a \in Assets |-> history[a] \cup (IF a \in as THEN {what} ELSE {})]

Storing(p) == IF req[p].pc = "write" THEN req[p].refs ELSE {}
AllStoring == UNION {Storing(p) : p \in Clients}
Contest(p) == Mark(req[p].found \cap Rows \cap (AllStoring \cup req[p].missed), "contested")

Half(p) == IF req[p].pc \in {"presign", "rollback"} THEN {req[p].asset} ELSE {}

-------------------------------------------------------------------------------
(***************************************************************************)
(* Blocks: validateAssetReferences in a transaction of its own, then the    *)
(* write.                                                                  *)
(***************************************************************************)
PutBlocks(p, h, refs) ==
  Begin(p, [IdleReq EXCEPT !.pc = "validate", !.op = "put", !.holder = h, !.refs = refs])

(* Mutant: one reference that is valid is enough. *)
ValidateSome(p) ==
  /\ req[p].pc = "validate"
  /\ IF req[p].refs = {} \/ req[p].refs \cap Rows # {} THEN Proceed(p, "write") ELSE Reply(p)
  /\ UNCHANGED <<table, bucket, past>>

ValidateReferences(p) ==
  /\ req[p].pc = "validate"
  /\ IF req[p].refs \subseteq Rows THEN Proceed(p, "write") ELSE Reply(p)
  /\ UNCHANGED <<table, bucket, past>>

(* Its answer, once the blocks of h refer to refs: those who have read h    *)
(* before do not see it.                                                   *)
Seen(q, h) == \A T \in req[q].unread : h \notin T
ReplyStored(p, h, refs) ==
  req' = [q \in Clients |->
            IF q = p THEN IdleReq
            ELSE IF Seen(q, h) THEN [req[q] EXCEPT !.missed = @ \cup (refs \cap req[q].found)]
            ELSE req[q]]

(* Mutant: nobody asks whether the question is still there. *)
WriteBlocksUnchecked(p) ==
  /\ req[p].pc = "write"
  /\ blocks' = [blocks EXCEPT ![req[p].holder] = req[p].refs]
  /\ ReplyStored(p, req[p].holder, req[p].refs)
  /\ UNCHANGED <<asset, urls, stored, question, bucket, past>>

(* A part is stored only while its question is there.                       *)
WriteBlocks(p) ==
  /\ req[p].pc = "write"
  /\ \/ /\ question \/ req[p].holder \in Layouts
        /\ blocks' = [blocks EXCEPT ![req[p].holder] = req[p].refs]
        /\ ReplyStored(p, req[p].holder, req[p].refs)
     \/ ~question /\ req[p].holder \notin Layouts /\ UNCHANGED blocks /\ Reply(p)
  /\ UNCHANGED <<asset, urls, stored, question, bucket, past>>

(* DELETE /questions/:id takes its parts along; POST /questions makes        *)
(* another.                                                                *)
RemoveQuestion ==
  /\ question
  /\ question' = FALSE
  /\ blocks' = [h \in Holders |-> IF h \in Parts THEN {} ELSE blocks[h]]
  /\ UNCHANGED <<asset, urls, stored, bucket, req, past>>

CreateQuestion ==
  /\ ~question
  /\ \A p \in Clients : req[p].holder \notin Parts
  /\ question' = TRUE
  /\ UNCHANGED <<asset, urls, stored, blocks, bucket, req, past>>

RemoveLayout(l) ==
  /\ blocks[l] # {}
  /\ blocks' = [blocks EXCEPT ![l] = {}]
  /\ UNCHANGED <<asset, urls, stored, question, bucket, req, past>>

-------------------------------------------------------------------------------
(***************************************************************************)
(* ensureBucket keeps the promise of its first call, also a rejected one,   *)
(* for as long as the process lives.                                       *)
(***************************************************************************)
EnsureBucket(p, next) ==
  /\ req[p].pc = "bucket"
  /\ \/ bucket = "rejected" /\ Reply(p) /\ UNCHANGED bucket
     \/ bucket = "resolved" /\ Proceed(p, next) /\ UNCHANGED bucket
     \/ bucket = "unknown" /\ bucket' = "resolved" /\ Proceed(p, next)
     \/ bucket = "unknown" /\ "store" \in Faults /\ bucket' = "rejected" /\ Reply(p)
  /\ UNCHANGED <<table, past>>

(***************************************************************************)
(* DELETE /assets/:id: the reads, the object, the row.                      *)
(***************************************************************************)
RemoveAsset(p, a) == Begin(p, [IdleReq EXCEPT !.pc = "find", !.op = "remove", !.asset = a])

RemoveFind(p) ==
  /\ req[p].pc = "find"
  /\ \/ req[p].asset \notin Rows /\ Reply(p)
     \/ /\ req[p].asset \in Rows
        /\ req' = [req EXCEPT ![p].pc = "check", ![p].found = {req[p].asset}, ![p].unread = Tables]
  /\ UNCHANGED <<table, bucket, past>>

(* One statement of the Promise.all has read T and left these assets.  With  *)
(* none left the others do not matter.                                     *)
Read(p, T, left) ==
  IF left = {} THEN Reply(p)
  ELSE req' = [req EXCEPT ![p].pc = IF req[p].unread = {T} THEN "bucket" ELSE @, ![p].unread = @ \ {T},
                          ![p].found = left, ![p].missed = @ \cap left]

RemoveCheck(p) ==
  /\ req[p].pc = "check"
  /\ \E T \in req[p].unread : Read(p, T, req[p].found \cap Free(T))
  /\ UNCHANGED <<table, bucket, past>>

RemoveBucket(p) == req[p].op = "remove" /\ EnsureBucket(p, "object")

(* Mutant: a failure of the store is ignored, as cleanup does. *)
RemoveObjectQuietly(p) ==
  /\ req[p].pc = "object"
  /\ stored' = stored \ {req[p].asset} \/ ("store" \in Faults /\ UNCHANGED stored)
  /\ Proceed(p, "row")
  /\ UNCHANGED <<asset, urls, blocks, question, bucket, past>>

RemoveObject(p) ==
  /\ req[p].pc = "object"
  /\ \/ stored' = stored \ {req[p].asset} /\ Proceed(p, "row")
     \/ "store" \in Faults /\ UNCHANGED stored /\ Reply(p)
  /\ UNCHANGED <<asset, urls, blocks, question, bucket, past>>

(* It throws when the row is gone.                                          *)
RemoveRow(p) ==
  /\ req[p].pc = "row"
  /\ asset' = [asset EXCEPT ![req[p].asset] = "none"]
  /\ Contest(p)
  /\ late' = late \ {p}
  /\ Reply(p)
  /\ UNCHANGED <<urls, stored, blocks, question, bucket>>

(***************************************************************************)
(* POST /assets/cleanup: what is stale and unreferenced, its objects one by *)
(* one with errors ignored, its rows.                                      *)
(***************************************************************************)
CleanAssets(p) ==
  Begin(p, [IdleReq EXCEPT !.pc = "scan", !.op = "cleanup", !.found = Assets, !.unread = Tables \cup {Assets}])

(* Mutant: the age is not looked at. *)
CleanScanOfAnyAge(p) ==
  /\ req[p].pc = "scan"
  /\ \E T \in req[p].unread : Read(p, T, req[p].found \cap (IF T = Assets THEN Rows ELSE Free(T)))
  /\ UNCHANGED <<table, bucket, past>>

CleanScan(p) ==
  /\ req[p].pc = "scan"
  /\ LET stale == {a \in Assets : asset[a] = "stale"} IN
       \E T \in req[p].unread : Read(p, T, req[p].found \cap (IF T = Assets THEN stale ELSE Free(T)))
  /\ UNCHANGED <<table, bucket, past>>

CleanBucket(p) == req[p].op = "cleanup" /\ EnsureBucket(p, "objects")

CleanObjects(p) ==
  /\ req[p].pc = "objects"
  /\ \E kept \in SUBSET (req[p].found \cap stored) :
       /\ kept # {} => "store" \in Faults
       /\ stored' = (stored \ req[p].found) \cup kept
  /\ Proceed(p, "rows")
  /\ UNCHANGED <<asset, urls, blocks, question, bucket, past>>

CleanRows(p) ==
  /\ req[p].pc = "rows"
  /\ asset' = [a \in Assets |-> IF a \in req[p].found THEN "none" ELSE asset[a]]
  /\ Contest(p)
  /\ Reply(p)
  /\ UNCHANGED <<urls, stored, blocks, question, bucket, late>>

-------------------------------------------------------------------------------
(***************************************************************************)
(* POST /assets/upload: the row, then a presigned URL; a failure to get one *)
(* takes the row back.  The client PUTs the object whenever it likes and    *)
(* whatever has become of the row: how long a URL is good is left out.     *)
(***************************************************************************)
Fresh(a) ==
  /\ asset[a] = "none" /\ a \notin urls /\ ~Referenced(a)
  /\ \A p \in Clients : /\ req[p].asset # a /\ a \notin req[p].refs \cup req[p].missed
                        /\ a \in req[p].found => Assets \in req[p].unread

Upload(p) == Begin(p, [IdleReq EXCEPT !.pc = "bucket", !.op = "upload"])

UploadBucket(p) == req[p].op = "upload" /\ EnsureBucket(p, "create")

(* An id that is given again in the model is another asset's.               *)
CreateAsset(p) ==
  /\ req[p].pc = "create"
  /\ \E a \in Assets :
       /\ Fresh(a)
       /\ asset' = [asset EXCEPT ![a] = "young"]
       /\ req' = [req EXCEPT ![p].pc = "presign", ![p].asset = a, ![p].found = {a}]
       /\ history' = [history EXCEPT ![a] = {}]
  /\ UNCHANGED <<urls, stored, blocks, question, bucket, late>>

(* Mutant: the row stays when there is no URL for it. *)
PresignOrFail(p) ==
  /\ req[p].pc = "presign"
  /\ urls' = urls \cup {req[p].asset} \/ ("store" \in Faults /\ UNCHANGED urls)
  /\ Reply(p)
  /\ UNCHANGED <<asset, stored, blocks, question, bucket, past>>

Presign(p) ==
  /\ req[p].pc = "presign"
  /\ \/ urls' = urls \cup {req[p].asset} /\ Reply(p)
     \/ "store" \in Faults /\ UNCHANGED urls /\ Proceed(p, "rollback")
  /\ UNCHANGED <<asset, stored, blocks, question, bucket, past>>

RollBack(p) ==
  /\ req[p].pc = "rollback"
  /\ asset' = [asset EXCEPT ![req[p].asset] = "none"]
  /\ Contest(p)
  /\ Reply(p)
  /\ UNCHANGED <<urls, stored, blocks, question, bucket, late>>

PutObject(a) ==
  /\ a \in urls
  /\ stored' = stored \cup {a}
  /\ late' = late \cup {p \in Clients : req[p].pc = "row" /\ req[p].asset = a}
  /\ UNCHANGED <<asset, urls, blocks, question, bucket, req, history>>

Age(a) ==
  /\ asset[a] = "young"
  /\ asset' = [asset EXCEPT ![a] = "stale"]
  /\ UNCHANGED <<urls, stored, blocks, question, bucket, req, past>>

(* A statement, or an audit record before the answer, fails: the handler     *)
(* throws.  That of a rollback is ignored: its handler throws anyway.        *)
StatementFails(p) ==
  /\ "db" \in Faults
  /\ req[p].pc \notin {"idle", "bucket", "object", "objects"}
  /\ Mark(Half(p), "cut")
  /\ late' = late \ {p}
  /\ Reply(p)
  /\ UNCHANGED <<table, bucket>>

(* The API process ends and starts again; what its requests had still to do *)
(* is not done.                                                            *)
Restart ==
  /\ "restart" \in Faults
  /\ bucket' = "unknown"
  /\ req' = [p \in Clients |-> IdleReq]
  /\ Mark(UNION {Half(p) : p \in Clients}, "cut")
  /\ late' = {}
  /\ UNCHANGED table

-------------------------------------------------------------------------------
Start(p) ==
  \/ \E h \in Holders, refs \in SUBSET Assets : PutBlocks(p, h, refs)
  \/ \E a \in Assets : RemoveAsset(p, a)
  \/ CleanAssets(p)
  \/ Upload(p)

Continue(p) ==
  \/ ValidateReferences(p) \/ WriteBlocks(p)
  \/ RemoveFind(p) \/ RemoveCheck(p) \/ RemoveBucket(p) \/ RemoveObject(p) \/ RemoveRow(p)
  \/ CleanScan(p) \/ CleanBucket(p) \/ CleanObjects(p) \/ CleanRows(p)
  \/ UploadBucket(p) \/ CreateAsset(p) \/ Presign(p) \/ RollBack(p)

Next ==
  \/ \E p \in Clients : Start(p) \/ Continue(p) \/ StatementFails(p)
  \/ \E a \in Assets : PutObject(a) \/ Age(a)
  \/ \E l \in Layouts : RemoveLayout(l)
  \/ RemoveQuestion \/ CreateQuestion \/ Restart

Spec == Init /\ [][Next]_vars

-------------------------------------------------------------------------------
(***************************************************************************)
(* Properties.                                                             *)
(***************************************************************************)

ReqRecord == [pc : ReqPcs, op : Ops \cup {None}, holder : Holders \cup {None}, refs : SUBSET Assets,
              asset : Assets \cup {None}, found : SUBSET Assets,
              unread : SUBSET (Tables \cup {Assets}), missed : SUBSET Assets]

(* Every variable has its type, and only a question that is there has        *)
(* blocks.                                                                 *)
TypeOK ==
  /\ asset \in [Assets -> {"none", "young", "stale"}]
  /\ urls \subseteq Assets
  /\ stored \subseteq Assets
  /\ blocks \in [Holders -> SUBSET Assets]
  /\ question \in BOOLEAN /\ (~question => \A h \in Parts : blocks[h] = {})
  /\ bucket \in {"unknown", "resolved", "rejected"}
  /\ req \in [Clients -> ReqRecord]
  /\ history \in [Assets -> SUBSET {"contested", "cut"}]
  /\ late \subseteq Clients

(* Whatever overlaps, fails or restarts, blocks refer to assets there are   *)
(* (README, "preserving anything still referenced"), but for those that one  *)
(* request stored in blocks after another, which was removing them, had read *)
(* those blocks, or removed while another, having found them, was storing.   *)
NoDanglingReference ==
  \A h \in Holders : \A a \in blocks[h] \ Rows : "contested" \in history[a]

(* An asset row without a URL belongs to an upload under way, unless a       *)
(* restart or a failing statement has cut that one short (README, "rolls     *)
(* back the just-created row"): the store alone never leaves one behind.     *)
UploadsAreWhole ==
  \A a \in Rows \ urls :
    \/ "cut" \in history[a]
    \/ \E p \in Clients : req[p].op = "upload" /\ req[p].asset = a /\ req[p].pc \in {"presign", "rollback"}

(* Whatever overlaps, an asset that is not stale goes only by a request that *)
(* names it or by the upload that made it, never by a cleanup.              *)
YoungAssetsStay ==
  [][\A a \in Assets : asset[a] = "young" /\ asset'[a] = "none" =>
       \E p \in Clients : req[p].asset = a /\ req[p].pc \in {"row", "rollback"}]_vars

(* Whatever overlaps, fails or restarts, DELETE /assets/:id comes to the row *)
(* only when the object is gone, so that none is left without its row,      *)
(* unless a client PUTs that object between the two.                        *)
ObjectsGoFirst ==
  \A p \in Clients : req[p].pc = "row" /\ req[p].asset \in stored => p \in late
================================================================================
