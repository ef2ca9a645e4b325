------------------------ MODULE AssetReferences_proofs ------------------------
(***************************************************************************)
(* Theorems about AssetReferences, for any assets, holders and requests.   *)
(***************************************************************************)
EXTENDS AssetReferences, TLAPS

-------------------------------------------------------------------------------
(* Type correctness.  It needs to know what a request holds where it is.    *)

PutPcs == {"validate", "write"}
RemovePcs == {"find", "check", "object", "row"}
CleanPcs == {"scan", "objects", "rows"}
UploadPcs == {"create", "presign", "rollback"}
ScanPcs == {"check", "scan"}

Shape(r) ==
  /\ r \in ReqRecord
  /\ r.pc \in PutPcs => r.op = "put" /\ r.holder \in Holders
  /\ r.pc \in RemovePcs => r.op = "remove"
  /\ r.op = "remove" => r.asset \in Assets /\ (r.pc # "find" => r.found = {r.asset})
  /\ r.pc \in CleanPcs => r.op = "cleanup"
  /\ r.pc \in UploadPcs => r.op = "upload"
  /\ r.pc \in {"presign", "rollback"} => r.asset \in Assets /\ r.found = {r.asset}
  /\ r.pc \notin ScanPcs => r.unread = {}

Shapes == \A p \in Clients : Shape(req[p])

TableOK ==
  /\ asset \in [Assets -> {"none", "young", "stale"}]
  /\ urls \subseteq Assets
  /\ stored \subseteq Assets
  /\ blocks \in [Holders -> SUBSET Assets]
  /\ question \in BOOLEAN /\ (~question => \A h \in Parts : blocks[h] = {})

PastOK ==
  /\ history \in [Assets -> SUBSET {"contested", "cut"}]
  /\ late \subseteq Clients

ReqOK == req \in [Clients -> ReqRecord] /\ Shapes

TypeInv == TypeOK /\ Shapes

LEMMA IdleShape == Shape(IdleReq)
BY NoneAssumption DEF Shape, IdleReq, ReqRecord, ReqPcs, Ops, PutPcs, RemovePcs, CleanPcs, UploadPcs

(* A step of a request replaces its record and leaves the others alone. *)
LEMMA ReplacedShape ==
  ASSUME ReqOK, NEW p \in Clients, NEW r, Shape(r), req' = [req EXCEPT ![p] = r]
  PROVE  ReqOK'
BY DEF ReqOK, Shapes, Shape

LEMMA ReplyShape ==
  ASSUME ReqOK, NEW p \in Clients, Reply(p)
  PROVE  ReqOK'
BY IdleShape, ReplacedShape DEF Reply

LEMMA ProceedShape ==
  ASSUME ReqOK, NEW p \in Clients, NEW pc, Proceed(p, pc), req[p].pc \notin ScanPcs,
         \/ req[p].pc \in PutPcs /\ pc \in PutPcs
         \/ req[p].op = "remove" /\ req[p].pc # "find" /\ pc \in {"object", "row"}
         \/ req[p].op = "cleanup" /\ pc \in {"objects", "rows"}
         \/ req[p].op = "upload" /\ pc = "create"
         \/ req[p].pc = "presign" /\ pc = "rollback"
  PROVE  ReqOK'
<1>1. Shape(req[p])
  BY DEF ReqOK, Shapes
<1>2. Shape([req[p] EXCEPT !.pc = pc])
  BY <1>1 DEF Shape, ReqRecord, ReqPcs, PutPcs, RemovePcs, CleanPcs, UploadPcs, ScanPcs
<1>3. req' = [req EXCEPT ![p] = [req[p] EXCEPT !.pc = pc]]
  BY DEF Proceed, ReqOK
<1> QED BY <1>2, <1>3, ReplacedShape

(* What a request keeps and what it knows when it has read a table. *)
LEMMA ReadOn ==
  ASSUME ReqOK, NEW p \in Clients, req[p].pc \in ScanPcs, NEW T, NEW left, Read(p, T, left), ~Reply(p)
  PROVE  /\ left # {} /\ req'[p].found = left /\ req'[p].missed = req[p].missed \cap left
         /\ req'[p].unread = req[p].unread \ {T} /\ req'[p].op = req[p].op /\ req'[p].asset = req[p].asset
         /\ req'[p].pc = IF req[p].unread = {T} THEN "bucket" ELSE req[p].pc
<1> DEFINE pc == IF req[p].unread = {T} THEN "bucket" ELSE req[p].pc
           r == [req[p] EXCEPT !.pc = pc, !.unread = @ \ {T}, !.found = left, !.missed = @ \cap left]
<1>1. req \in [Clients -> ReqRecord] /\ req[p] \in ReqRecord
  BY DEF ReqOK
<1>2. left # {} /\ req' = [req EXCEPT ![p] = r]
  BY <1>1 DEF Read
<1>3. req'[p] = r
  BY <1>1, <1>2
<1>4. /\ r.found = left /\ r.missed = req[p].missed \cap left /\ r.unread = req[p].unread \ {T}
      /\ r.op = req[p].op /\ r.asset = req[p].asset /\ r.pc = pc
  BY <1>1 DEF ReqRecord
<1> QED BY <1>2, <1>3, <1>4

LEMMA ReadShape ==
  ASSUME ReqOK, NEW p \in Clients, req[p].pc \in ScanPcs, NEW T \in req[p].unread,
         NEW left \in SUBSET req[p].found, Read(p, T, left)
  PROVE  ReqOK'
<1> DEFINE pc == IF req[p].unread = {T} THEN "bucket" ELSE req[p].pc
           r == [req[p] EXCEPT !.pc = pc, !.unread = @ \ {T}, !.found = left, !.missed = @ \cap left]
<1>1. CASE left = {}
  BY <1>1, ReplyShape DEF Read
<1>2. CASE left # {}
  <2>1. req' = [req EXCEPT ![p] = r]
    BY <1>2 DEF Read, ReqOK
  <2>2. Shape(req[p]) /\ req[p] \in ReqRecord
    BY DEF ReqOK, Shapes
  <2>3. r \in ReqRecord
    BY <2>2 DEF ReqRecord, ReqPcs
  <2>4. /\ r.pc = pc /\ r.op = req[p].op /\ r.asset = req[p].asset /\ r.found = left
        /\ r.unread = req[p].unread \ {T}
    BY <2>2 DEF ReqRecord
  <2>5. pc \in {"bucket", "check", "scan"} /\ (pc = "bucket" => r.unread = {}) /\ (pc # "bucket" => pc = req[p].pc)
    BY <2>4 DEF ScanPcs
  <2> HIDE DEF r, pc
  <2>6. req[p].op = "remove" => left = {req[p].asset}
    BY <1>2, <2>2 DEF Shape, ScanPcs
  <2>7. Shape(r)
    BY <2>2, <2>3, <2>4, <2>5, <2>6 DEF Shape, PutPcs, RemovePcs, CleanPcs, UploadPcs, ScanPcs
  <2> QED BY <2>1, <2>7, ReplacedShape
<1> QED BY <1>1, <1>2

(* What a write of blocks does to the other requests. *)
LEMMA Told ==
  ASSUME ReqOK, NEW p \in Clients, NEW h, NEW refs, ReplyStored(p, h, refs)
  PROVE  /\ ReqOK'
         /\ req'[p] = IdleReq
         /\ \A q \in Clients \ {p} :
              /\ req'[q] = [req[q] EXCEPT !.missed = req'[q].missed]
              /\ req[q].missed \subseteq req'[q].missed
              /\ Seen(q, h) => refs \cap req[q].found \subseteq req'[q].missed
<1>1. req'[p] = IdleReq /\ Shape(req'[p])
  BY IdleShape DEF ReplyStored
<1>2. ASSUME NEW q \in Clients \ {p}
      PROVE  /\ req'[q] = [req[q] EXCEPT !.missed = req'[q].missed]
             /\ req[q].missed \subseteq req'[q].missed
             /\ Seen(q, h) => refs \cap req[q].found \subseteq req'[q].missed
             /\ Shape(req'[q])
  <2>1. req[q] \in ReqRecord /\ Shape(req[q])
    BY DEF ReqOK, Shapes
  <2>2. CASE Seen(q, h)
    <3> DEFINE m == req[q].missed \cup (refs \cap req[q].found)
    <3>1. req'[q] = [req[q] EXCEPT !.missed = m] /\ m \in SUBSET Assets
      BY <2>1, <2>2 DEF ReplyStored, ReqRecord
    <3> HIDE DEF m
    <3>2. req'[q].missed = m /\ req'[q] \in ReqRecord
      BY <2>1, <3>1 DEF ReqRecord
    <3>3. Shape(req'[q])
      BY <2>1, <3>1, <3>2 DEF Shape, ReqRecord
    <3> QED BY <3>1, <3>2, <3>3 DEF m
  <2>3. CASE ~Seen(q, h)
    <3>1. req'[q] = req[q]
      BY <2>3 DEF ReplyStored
    <3>2. req[q] = [req[q] EXCEPT !.missed = req[q].missed]
      BY <2>1 DEF ReqRecord
    <3> QED BY <2>1, <2>3, <3>1, <3>2
  <2> QED BY <2>2, <2>3
<1>3. req' = [q \in Clients |-> req'[q]]
  BY DEF ReplyStored
<1>4. \A q \in Clients : Shape(req'[q])
  BY <1>1, <1>2
<1>5. req' \in [Clients -> ReqRecord]
  BY <1>3, <1>4 DEF Shape
<1>6. ReqOK'
  BY <1>4, <1>5 DEF ReqOK, Shapes, Shape
<1> QED BY <1>1, <1>2, <1>6

LEMMA InitType == Init => TypeInv
BY IdleShape DEF Init, TypeInv, TypeOK, Shapes, Shape

LEMMA MarkedPast ==
  ASSUME PastOK, NEW as, NEW what \in {"contested", "cut"}, Mark(as, what)
  PROVE  history' \in [Assets -> SUBSET {"contested", "cut"}]
BY DEF PastOK, Mark

LEMMA PastContinue ==
  ASSUME TypeInv, NEW p \in Clients, Continue(p)
  PROVE  PastOK'
<1>1. PastOK
  BY DEF TypeInv, TypeOK, PastOK
<1>2. CASE RemoveRow(p) \/ CleanRows(p) \/ RollBack(p)
  <2>1. \E as : Mark(as, "contested")
    BY <1>2 DEF RemoveRow, CleanRows, RollBack, Contest
  <2>2. history' \in [Assets -> SUBSET {"contested", "cut"}]
    BY <1>1, <2>1, MarkedPast DEF PastOK
  <2>3. late' \subseteq Clients
    BY <1>1, <1>2 DEF RemoveRow, CleanRows, RollBack, PastOK
  <2> QED BY <2>2, <2>3 DEF PastOK
<1>3. CASE CreateAsset(p)
  BY <1>1, <1>3 DEF CreateAsset, PastOK
<1>4. CASE UNCHANGED past
  BY <1>1, <1>4 DEF past, PastOK
<1> QED BY <1>2, <1>3, <1>4 DEF Continue, ValidateReferences, WriteBlocks, RemoveFind, RemoveCheck, RemoveBucket,
   RemoveObject, CleanScan, CleanBucket, CleanObjects, UploadBucket, Presign, EnsureBucket

LEMMA TypeParts == TypeInv <=> TableOK /\ ReqOK /\ bucket \in {"unknown", "resolved", "rejected"}
                              /\ PastOK
BY DEF TypeInv, TypeOK, TableOK, ReqOK, PastOK

LEMMA TypeFromParts ==
  ASSUME TableOK', ReqOK', bucket' \in {"unknown", "resolved", "rejected"},
         PastOK'
  PROVE  TypeInv'
BY DEF TypeInv, TypeOK, TableOK, ReqOK, PastOK

LEMMA StartType ==
  ASSUME TypeInv, NEW p \in Clients, Start(p)
  PROVE  TypeInv'
<1>1. ReqOK /\ TableOK
  BY TypeParts
<1>2. \E r : Shape(r) /\ Begin(p, r)
  <2>1. ASSUME NEW h \in Holders, NEW refs \in SUBSET Assets, PutBlocks(p, h, refs) PROVE \E r : Shape(r) /\ Begin(p, r)
    <3>1. Shape([IdleReq EXCEPT !.pc = "validate", !.op = "put", !.holder = h, !.refs = refs])
      BY NoneAssumption DEF Shape, IdleReq, ReqRecord, ReqPcs, Ops, PutPcs, RemovePcs, CleanPcs, UploadPcs
    <3> QED BY <2>1, <3>1 DEF PutBlocks
  <2>2. ASSUME NEW a \in Assets, RemoveAsset(p, a) PROVE \E r : Shape(r) /\ Begin(p, r)
    <3>1. Shape([IdleReq EXCEPT !.pc = "find", !.op = "remove", !.asset = a])
      BY NoneAssumption DEF Shape, IdleReq, ReqRecord, ReqPcs, Ops, PutPcs, RemovePcs, CleanPcs, UploadPcs
    <3> QED BY <2>2, <3>1 DEF RemoveAsset
  <2>3. CASE CleanAssets(p)
    <3>1. Shape([IdleReq EXCEPT !.pc = "scan", !.op = "cleanup", !.found = Assets, !.unread = Tables \cup {Assets}])
      BY NoneAssumption DEF Shape, IdleReq, ReqRecord, ReqPcs, Ops, PutPcs, RemovePcs, CleanPcs, UploadPcs, ScanPcs
    <3> QED BY <2>3, <3>1 DEF CleanAssets
  <2>4. CASE Upload(p)
    <3>1. Shape([IdleReq EXCEPT !.pc = "bucket", !.op = "upload"])
      BY NoneAssumption DEF Shape, IdleReq, ReqRecord, ReqPcs, Ops, PutPcs, RemovePcs, CleanPcs, UploadPcs
    <3> QED BY <2>4, <3>1 DEF Upload
  <2> QED BY <2>1, <2>2, <2>3, <2>4 DEF Start
<1>3. ReqOK'
  BY <1>1, <1>2, ReplacedShape DEF Begin
<1>4. TableOK' /\ bucket' \in {"unknown", "resolved", "rejected"}
  BY <1>1, <1>2, TypeParts DEF Begin, TableOK, table
<1>5. PastOK'
  BY <1>2, TypeParts DEF Begin, past, PastOK
<1> QED BY <1>3, <1>4, <1>5, TypeFromParts

LEMMA EnsureType ==
  ASSUME TypeInv, NEW p \in Clients, NEW next, EnsureBucket(p, next),
         \/ req[p].op = "remove" /\ next = "object"
         \/ req[p].op = "cleanup" /\ next = "objects"
         \/ req[p].op = "upload" /\ next = "create"
  PROVE  TypeInv'
<1>1. ReqOK /\ TableOK
  BY TypeParts
<1>2. req[p].pc = "bucket" /\ "bucket" \notin ScanPcs
  BY DEF EnsureBucket, ScanPcs
<1>3. ReqOK'
  BY <1>1, <1>2, ReplyShape, ProceedShape DEF EnsureBucket
<1>4. TableOK' /\ PastOK'
  BY <1>1, TypeParts DEF EnsureBucket, TableOK, table, past, PastOK
<1>5. bucket' \in {"unknown", "resolved", "rejected"}
  BY TypeParts DEF EnsureBucket
<1> QED BY <1>3, <1>4, <1>5, TypeFromParts

LEMMA ContinueType ==
  ASSUME TypeInv, NEW p \in Clients, Continue(p)
  PROVE  TypeInv'
<1>1. ReqOK /\ TableOK /\ bucket \in {"unknown", "resolved", "rejected"} /\ PastOK
  BY TypeParts
<1>2. Shape(req[p]) /\ req[p] \in ReqRecord
  BY DEF TypeInv, Shapes, Shape
<1> SUFFICES TableOK' /\ ReqOK' /\ bucket' \in {"unknown", "resolved", "rejected"}
  BY PastContinue, TypeFromParts
<1>3. CASE ValidateReferences(p)
  BY <1>1, <1>3, ReplyShape, ProceedShape DEF ValidateReferences, PutPcs, ScanPcs, TableOK, table
<1>4. CASE WriteBlocks(p)
  <2>1. ReqOK'
    BY <1>1, <1>4, ReplyShape, Told DEF WriteBlocks
  <2>2. req[p].holder \in Holders /\ req[p].refs \subseteq Assets
    BY <1>2, <1>4 DEF WriteBlocks, Shape, PutPcs, ReqRecord
  <2>3. blocks' \in [Holders -> SUBSET Assets]
    BY <1>1, <1>4, <2>2 DEF WriteBlocks, TableOK
  <2>4. question' \in BOOLEAN /\ (~question' => \A h \in Parts : blocks'[h] = {})
    <3>1. CASE question
      BY <1>1, <1>4, <3>1 DEF WriteBlocks, TableOK
    <3>2. CASE ~question /\ req[p].holder \in Layouts
      <4>1. blocks' = [blocks EXCEPT ![req[p].holder] = req[p].refs]
        BY <1>4, <3>2 DEF WriteBlocks
      <4> QED BY <1>1, <1>4, <4>1, <2>2, <3>2, HoldersAssumption DEF WriteBlocks, TableOK, Holders
    <3>3. CASE ~question /\ req[p].holder \notin Layouts
      <4>1. blocks' = blocks
        BY <1>4, <3>3 DEF WriteBlocks
      <4> QED BY <1>1, <1>4, <4>1 DEF WriteBlocks, TableOK
    <3> QED BY <3>1, <3>2, <3>3
  <2> QED BY <1>1, <1>4, <2>1, <2>3, <2>4 DEF WriteBlocks, TableOK
<1>5. CASE RemoveFind(p)
  <2>1. CASE Reply(p)
    BY <1>1, <1>5, <2>1, ReplyShape DEF RemoveFind, TableOK, table
  <2>2. CASE req' = [req EXCEPT ![p].pc = "check", ![p].found = {req[p].asset}, ![p].unread = Tables]
    <3> DEFINE r == [req[p] EXCEPT !.pc = "check", !.found = {req[p].asset}, !.unread = Tables]
    <3>1. req' = [req EXCEPT ![p] = r]
      BY <1>1, <2>2 DEF ReqOK
    <3>2. req[p].op = "remove" /\ req[p].asset \in Assets
      BY <1>2, <1>5 DEF RemoveFind, Shape, RemovePcs
    <3>3. Shape(r)
      BY <1>2, <3>2 DEF Shape, ReqRecord, ReqPcs, PutPcs, RemovePcs, CleanPcs, UploadPcs, ScanPcs
    <3> QED BY <1>1, <1>5, <3>1, <3>3, ReplacedShape DEF RemoveFind, TableOK, table
  <2> QED BY <1>5, <2>1, <2>2 DEF RemoveFind
<1>6. CASE RemoveBucket(p) \/ CleanBucket(p) \/ UploadBucket(p)
  <2>1. TypeInv'
    BY <1>6, EnsureType DEF RemoveBucket, CleanBucket, UploadBucket
  <2> QED BY <2>1 DEF TypeInv, TypeOK, TableOK, ReqOK
<1>7. CASE RemoveObject(p)
  BY <1>1, <1>2, <1>7, ReplyShape, ProceedShape DEF RemoveObject, Shape, RemovePcs, ScanPcs, TableOK
<1>8. CASE RemoveRow(p)
  BY <1>1, <1>8, ReplyShape DEF RemoveRow, TableOK
<1>9. CASE RemoveCheck(p) \/ CleanScan(p)
  <2>1. \E T \in req[p].unread, left \in SUBSET req[p].found : Read(p, T, left)
    BY <1>9 DEF RemoveCheck, CleanScan
  <2>2. ReqOK'
    BY <1>1, <1>9, <2>1, ReadShape DEF RemoveCheck, CleanScan, ScanPcs
  <2> QED BY <1>1, <1>9, <2>2 DEF RemoveCheck, CleanScan, TableOK, table
<1>10. CASE CleanObjects(p)
  <2>1. stored' \subseteq Assets
    BY <1>1, <1>10 DEF CleanObjects, TableOK
  <2> QED BY <1>1, <1>2, <1>10, <2>1, ProceedShape DEF CleanObjects, Shape, CleanPcs, ScanPcs, TableOK
<1>11. CASE CleanRows(p)
  BY <1>1, <1>11, ReplyShape DEF CleanRows, TableOK
<1>12. CASE CreateAsset(p)
  <2>1. PICK a \in Assets : /\ asset' = [asset EXCEPT ![a] = "young"]
                            /\ req' = [req EXCEPT ![p].pc = "presign", ![p].asset = a, ![p].found = {a}]
    BY <1>12 DEF CreateAsset
  <2>2. req[p].op = "upload" /\ req[p].unread = {}
    BY <1>2, <1>12 DEF CreateAsset, Shape, UploadPcs, ScanPcs
  <2>3. Shape([req[p] EXCEPT !.pc = "presign", !.asset = a, !.found = {a}])
    BY <1>2, <2>2 DEF Shape, ReqRecord, ReqPcs, PutPcs, RemovePcs, CleanPcs, UploadPcs, ScanPcs
  <2>4. req' = [req EXCEPT ![p] = [req[p] EXCEPT !.pc = "presign", !.asset = a, !.found = {a}]]
    BY <1>1, <2>1 DEF ReqOK
  <2>5. ReqOK'
    BY <1>1, <2>3, <2>4, ReplacedShape
  <2> QED BY <1>1, <1>12, <2>1, <2>5 DEF CreateAsset, TableOK
<1>13. CASE Presign(p)
  <2>1. req[p].asset \in Assets
    BY <1>2, <1>13 DEF Presign, Shape
  <2> QED BY <1>1, <1>13, <2>1, ReplyShape, ProceedShape DEF Presign, ScanPcs, TableOK
<1>14. CASE RollBack(p)
  BY <1>1, <1>14, ReplyShape DEF RollBack, TableOK
<1> QED BY <1>3, <1>4, <1>5, <1>6, <1>7, <1>8, <1>9, <1>10, <1>11, <1>12, <1>13, <1>14 DEF Continue

LEMMA NextType ==
  ASSUME TypeInv, [Next]_vars
  PROVE  TypeInv'
<1>1. ReqOK /\ TableOK /\ bucket \in {"unknown", "resolved", "rejected"} /\ PastOK
  BY TypeParts
<1>2. ASSUME NEW a \in Assets, PutObject(a) PROVE TypeInv'
  <2>1. TableOK'
    BY <1>1, <1>2 DEF PutObject, TableOK
  <2>2. PastOK'
    BY <1>1, <1>2 DEF PutObject, PastOK
  <2> QED BY <1>1, <1>2, <2>1, <2>2, TypeFromParts DEF PutObject, ReqOK, Shapes
<1>7. ASSUME NEW a \in Assets, Age(a) PROVE TypeInv'
  <2>1. TableOK'
    BY <1>1, <1>7 DEF Age, TableOK
  <2> QED BY <1>1, <1>7, <2>1, TypeFromParts DEF Age, ReqOK, Shapes, past, PastOK
<1>8. ASSUME NEW p \in Clients, StatementFails(p) PROVE TypeInv'
  <2>1. ReqOK' /\ TableOK'
    BY <1>1, <1>8, ReplyShape DEF StatementFails, TableOK, table
  <2>2. PastOK'
    BY <1>1, <1>8, MarkedPast DEF StatementFails, PastOK
  <2> QED BY <1>1, <1>8, <2>1, <2>2, TypeFromParts DEF StatementFails
<1>3. CASE \E l \in Layouts : RemoveLayout(l)
  BY <1>3 DEF RemoveLayout, TypeInv, TypeOK, Shapes, Holders, past
<1>4. CASE RemoveQuestion \/ CreateQuestion
  BY <1>4 DEF RemoveQuestion, CreateQuestion, TypeInv, TypeOK, Shapes, Holders, past
<1>5. CASE Restart
  <2>1. ReqOK' /\ TableOK'
    BY <1>1, <1>5, IdleShape DEF Restart, ReqOK, Shapes, Shape, TableOK, table
  <2>2. PastOK'
    BY <1>1, <1>5, MarkedPast DEF Restart, PastOK
  <2> QED BY <1>5, <2>1, <2>2, TypeFromParts DEF Restart
<1>6. CASE UNCHANGED vars
  BY <1>6 DEF TypeInv, TypeOK, Shapes, vars, table, past, Shape
<1> QED BY <1>2, <1>3, <1>4, <1>5, <1>6, <1>7, <1>8, StartType, ContinueType DEF Next

(* Every variable keeps its type in every reachable state. *)
THEOREM TypeCorrect == Spec => []TypeOK
<1>1. TypeInv => TypeOK
  BY DEF TypeInv
<1> QED BY <1>1, InitType, NextType, PTL DEF Spec

-------------------------------------------------------------------------------
(* Frames: what a step of a request leaves alone.                           *)

Steps(p) == Start(p) \/ Continue(p) \/ StatementFails(p)

Same(q) == req'[q] = req[q]

(* Only a request that stores blocks tells others. *)
LEMMA OthersSame ==
  ASSUME TypeInv, NEW p \in Clients, Steps(p), ~(WriteBlocks(p) /\ ~Reply(p)), NEW q \in Clients, q # p
  PROVE  Same(q)
<1>1. req \in [Clients -> ReqRecord]
  BY DEF TypeInv, TypeOK
<1>2. CASE Start(p)
  BY <1>1, <1>2 DEF Same, Start, PutBlocks, RemoveAsset, CleanAssets, Upload, Begin
<1>3. ASSUME NEW pc, Reply(p) \/ Proceed(p, pc) PROVE Same(q)
  BY <1>1, <1>3 DEF Same, Reply, Proceed
<1>4. ASSUME NEW next, EnsureBucket(p, next) PROVE Same(q)
  BY <1>3, <1>4 DEF EnsureBucket
<1>5. ASSUME NEW T, NEW left, Read(p, T, left) PROVE Same(q)
  BY <1>1, <1>3, <1>5 DEF Same, Read
<1>6. CASE RemoveCheck(p) \/ CleanScan(p)
  BY <1>5, <1>6 DEF RemoveCheck, CleanScan
<1>7. CASE RemoveFind(p) \/ CreateAsset(p)
  BY <1>1, <1>3, <1>7 DEF Same, RemoveFind, CreateAsset
<1>8. CASE WriteBlocks(p) \/ StatementFails(p)
  BY <1>3, <1>8 DEF WriteBlocks, StatementFails
<1>9. CASE ValidateReferences(p) \/ RemoveObject(p) \/ RemoveRow(p) \/ CleanObjects(p) \/ CleanRows(p)
           \/ Presign(p) \/ RollBack(p)
  BY <1>3, <1>9 DEF ValidateReferences, RemoveObject, RemoveRow, CleanObjects, CleanRows, Presign, RollBack
<1>10. CASE RemoveBucket(p) \/ CleanBucket(p) \/ UploadBucket(p)
  BY <1>4, <1>10 DEF RemoveBucket, CleanBucket, UploadBucket
<1> QED BY <1>2, <1>6, <1>7, <1>8, <1>9, <1>10 DEF Steps, Continue

LEMMA OthersStay ==
  ASSUME TypeInv, NEW p \in Clients, Steps(p), NEW q \in Clients, q # p
  PROVE  /\ req'[q].pc = req[q].pc /\ req'[q].op = req[q].op /\ req'[q].refs = req[q].refs
         /\ req'[q].asset = req[q].asset /\ req'[q].found = req[q].found /\ req'[q].unread = req[q].unread
         /\ req[q].missed \subseteq req'[q].missed
<1>1. CASE Same(q)
  BY <1>1 DEF Same
<1>2. CASE WriteBlocks(p) /\ ~Reply(p)
  <2>1. req'[q] = [req[q] EXCEPT !.missed = req'[q].missed] /\ req[q].missed \subseteq req'[q].missed
    BY <1>2, Told, TypeParts DEF WriteBlocks
  <2>2. req[q] \in ReqRecord
    BY DEF TypeInv, TypeOK
  <2> DEFINE m == req'[q].missed
  <2>3. req'[q] = [req[q] EXCEPT !.missed = m] /\ req[q].missed \subseteq m
    BY <2>1
  <2> HIDE DEF m
  <2> QED BY <2>2, <2>3 DEF ReqRecord
<1> QED BY <1>1, <1>2, OthersSame

LEMMA IdleAfterReply ==
  ASSUME TypeInv, NEW p \in Clients, Reply(p)
  PROVE  req'[p] = IdleReq
BY DEF Reply, TypeInv, TypeOK

LEMMA MovedOn ==
  ASSUME TypeInv, NEW p \in Clients, NEW pc, Proceed(p, pc)
  PROVE  /\ req'[p].pc = pc /\ req'[p].op = req[p].op /\ req'[p].refs = req[p].refs
         /\ req'[p].asset = req[p].asset /\ req'[p].found = req[p].found
         /\ req'[p].unread = req[p].unread /\ req'[p].missed = req[p].missed
<1>1. req'[p] = [req[p] EXCEPT !.pc = pc] /\ req[p] \in ReqRecord
  BY DEF Proceed, TypeInv, TypeOK
<1> QED BY <1>1 DEF ReqRecord

LEMMA Begun ==
  ASSUME TypeInv, NEW p \in Clients, NEW r, Begin(p, r)
  PROVE  req'[p] = r
BY DEF Begin, TypeInv, TypeOK

(* Where a request begins. *)
LEMMA Started ==
  ASSUME TypeInv, NEW p \in Clients, Start(p)
  PROVE  /\ req'[p].pc \in {"validate", "find", "scan", "bucket"}
         /\ req'[p].found = {} \/ req'[p].unread = Tables \cup {Assets}
<1> DEFINE Goal == /\ req'[p].pc \in {"validate", "find", "scan", "bucket"}
                   /\ req'[p].found = {} \/ req'[p].unread = Tables \cup {Assets}
<1>1. ASSUME NEW h, NEW refs, PutBlocks(p, h, refs) PROVE Goal
  BY <1>1, Begun DEF PutBlocks, IdleReq
<1>2. ASSUME NEW a, RemoveAsset(p, a) PROVE Goal
  BY <1>2, Begun DEF RemoveAsset, IdleReq
<1>3. ASSUME CleanAssets(p) PROVE Goal
  BY <1>3, Begun DEF CleanAssets, IdleReq
<1>4. ASSUME Upload(p) PROVE Goal
  BY <1>4, Begun DEF Upload, IdleReq
<1> HIDE DEF Goal
<1>5. Goal
  BY <1>1, <1>2, <1>3, <1>4 DEF Start
<1> QED BY <1>5 DEF Goal

-------------------------------------------------------------------------------
(* The object goes before the row.                                         *)

LEMMA GoFirstStep ==
  ASSUME TypeInv, ObjectsGoFirst, NEW p \in Clients, Steps(p)
  PROVE  ObjectsGoFirst'
<1>1. stored' \subseteq stored /\ late \ {p} \subseteq late'
  BY DEF Steps, Start, PutBlocks, RemoveAsset, CleanAssets, Upload, Begin, table, Continue, ValidateReferences,
     WriteBlocks, RemoveFind, RemoveCheck, RemoveBucket, RemoveObject, RemoveRow, CleanScan, CleanBucket,
     CleanObjects, CleanRows, UploadBucket, CreateAsset, Presign, RollBack, EnsureBucket, StatementFails, past
<1>2. req \in [Clients -> ReqRecord] /\ req[p] \in ReqRecord
  BY DEF TypeInv, TypeOK
<1>3. req'[p].pc = "row" => req'[p].asset \notin stored'
  <2>1. CASE Start(p)
    BY <2>1, Started
  <2>2. CASE Reply(p)
    BY <2>2, IdleAfterReply DEF IdleReq
  <2>3. ASSUME NEW pc, pc # "row", Proceed(p, pc) PROVE req'[p].pc # "row"
    BY <2>3, MovedOn
  <2>4. CASE RemoveObject(p)
    BY <2>2, <2>4, MovedOn DEF RemoveObject
  <2>5. CASE RemoveFind(p) \/ CreateAsset(p)
    <3>1. CASE \E a : req' = [req EXCEPT ![p].pc = "presign", ![p].asset = a, ![p].found = {a}]
      BY <1>2, <3>1 DEF ReqRecord
    <3>2. CASE req' = [req EXCEPT ![p].pc = "check", ![p].found = {req[p].asset}, ![p].unread = Tables]
      BY <1>2, <3>2 DEF ReqRecord
    <3> QED BY <2>2, <2>5, <3>1, <3>2 DEF RemoveFind, CreateAsset
  <2>6. CASE RemoveCheck(p) \/ CleanScan(p)
    <3>1. ReqOK /\ req[p].pc \in ScanPcs /\ \E T, left : Read(p, T, left)
      BY <2>6, TypeParts DEF RemoveCheck, CleanScan, ScanPcs
    <3> QED BY <2>2, <3>1, ReadOn DEF ScanPcs
  <2>7. CASE RemoveBucket(p) \/ CleanBucket(p) \/ UploadBucket(p)
    BY <2>2, <2>3, <2>7 DEF RemoveBucket, CleanBucket, UploadBucket, EnsureBucket
  <2>8. CASE WriteBlocks(p)
    <3>1. req'[p] = IdleReq
      BY <2>8, IdleAfterReply, Told, TypeParts DEF WriteBlocks
    <3> QED BY <3>1 DEF IdleReq
  <2>9. CASE ValidateReferences(p) \/ RemoveRow(p) \/ CleanObjects(p) \/ CleanRows(p) \/ Presign(p) \/ RollBack(p)
             \/ StatementFails(p)
    BY <2>2, <2>3, <2>9 DEF ValidateReferences, RemoveRow, CleanObjects, CleanRows, Presign, RollBack, StatementFails
  <2> QED BY <2>1, <2>4, <2>5, <2>6, <2>7, <2>8, <2>9 DEF Steps, Continue
<1> QED BY <1>1, <1>3, OthersStay DEF ObjectsGoFirst

(* Whatever overlaps, fails or restarts, DELETE /assets/:id comes to the row *)
(* only when the object is gone, unless a client PUT it back meanwhile.     *)
THEOREM ObjectBeforeRow == Spec => []ObjectsGoFirst
<1>1. Init => ObjectsGoFirst
  BY DEF Init, ObjectsGoFirst, IdleReq
<1>2. TypeInv /\ ObjectsGoFirst /\ [Next]_vars => ObjectsGoFirst'
  <2> SUFFICES ASSUME TypeInv, ObjectsGoFirst, [Next]_vars PROVE ObjectsGoFirst'
    OBVIOUS
  <2>1. CASE \E p \in Clients : Steps(p)
    BY <2>1, GoFirstStep
  <2>2. ASSUME NEW a \in Assets, PutObject(a) PROVE ObjectsGoFirst'
    BY <2>2 DEF PutObject, ObjectsGoFirst
  <2>3. CASE Restart
    BY <2>3 DEF Restart, ObjectsGoFirst, IdleReq
  <2>4. CASE UNCHANGED <<stored, late, req>>
    BY <2>4 DEF ObjectsGoFirst
  <2> QED BY <2>1, <2>2, <2>3, <2>4 DEF Next, Steps, vars, table, past, Age, RemoveLayout, RemoveQuestion, CreateQuestion
<1> QED BY <1>1, <1>2, InitType, NextType, PTL DEF Spec

-------------------------------------------------------------------------------
(* Only three steps of a request take rows away, and one adds them.         *)

LEMMA RowsKept ==
  ASSUME NEW p \in Clients, Steps(p), ~(CreateAsset(p) \/ RemoveRow(p) \/ CleanRows(p) \/ RollBack(p))
  PROVE  UNCHANGED asset
BY DEF Steps, Start, PutBlocks, RemoveAsset, CleanAssets, Upload, Begin, table, Continue, ValidateReferences,
   WriteBlocks, RemoveFind, RemoveCheck, RemoveBucket, RemoveObject, CleanScan, CleanBucket, CleanObjects,
   UploadBucket, Presign, EnsureBucket, StatementFails

LEMMA UrlsStay ==
  ASSUME NEW p \in Clients, Steps(p)
  PROVE  urls \subseteq urls'
BY DEF Steps, Start, PutBlocks, RemoveAsset, CleanAssets, Upload, Begin, table, Continue, ValidateReferences,
   WriteBlocks, RemoveFind, RemoveCheck, RemoveBucket, RemoveObject, RemoveRow, CleanScan, CleanBucket,
   CleanObjects, CleanRows, UploadBucket, CreateAsset, Presign, RollBack, EnsureBucket, StatementFails

LEMMA MarksStay ==
  ASSUME TypeInv, NEW as, NEW what, Mark(as, what)
  PROVE  /\ \A a \in Assets : history[a] \subseteq history'[a]
         /\ \A a \in as \cap Assets : what \in history'[a]
BY DEF Mark, TypeInv, TypeOK

(* What is said of an asset is said of it until another has its id.         *)
LEMMA PastStays ==
  ASSUME TypeInv, NEW p \in Clients, Steps(p), NEW a \in Assets, ~Fresh(a)
  PROVE  history[a] \subseteq history'[a]
<1>1. CASE RemoveRow(p) \/ CleanRows(p) \/ RollBack(p) \/ StatementFails(p)
  <2>1. \E as, what : Mark(as, what)
    BY <1>1 DEF RemoveRow, CleanRows, RollBack, StatementFails, Contest
  <2> QED BY <2>1, MarksStay
<1>2. CASE CreateAsset(p)
  BY <1>2 DEF CreateAsset, TypeInv, TypeOK
<1>3. CASE UNCHANGED past
  BY <1>3 DEF past
<1> QED BY <1>1, <1>2, <1>3 DEF Steps, Start, PutBlocks, RemoveAsset, CleanAssets, Upload, Begin, Continue,
   ValidateReferences, WriteBlocks, RemoveFind, RemoveCheck, RemoveBucket, RemoveObject, CleanScan, CleanBucket,
   CleanObjects, UploadBucket, Presign, EnsureBucket

Owns(p, a) == req[p].op = "upload" /\ req[p].asset = a /\ req[p].pc \in {"presign", "rollback"}

LEMMA WholeStep ==
  ASSUME TypeInv, UploadsAreWhole, NEW p \in Clients, Steps(p)
  PROVE  UploadsAreWhole'
<1> SUFFICES ASSUME NEW a \in Rows' \ urls', "cut" \notin history'[a]
             PROVE  \E q \in Clients : Owns(q, a)'
  BY DEF UploadsAreWhole, Owns
<1>1. req \in [Clients -> ReqRecord] /\ req[p] \in ReqRecord /\ Shape(req[p])
      /\ asset \in [Assets -> {"none", "young", "stale"}] /\ a \in Assets /\ a \notin urls
  BY UrlsStay DEF TypeInv, TypeOK, Shapes, Rows
<1>2. CASE a \in Rows
  <2>0. "cut" \notin history[a]
    BY <1>1, <1>2, PastStays DEF Rows, Fresh
  <2>1. PICK q \in Clients : Owns(q, a)
    BY <1>1, <1>2, <2>0 DEF UploadsAreWhole, Owns
  <2>2. CASE q # p
    BY <2>1, <2>2, OthersStay DEF Owns
  <2>3. CASE q = p
    <3>0. ~StatementFails(p)
      <4> SUFFICES ASSUME StatementFails(p) PROVE FALSE
        OBVIOUS
      <4>1. Mark(Half(p), "cut") /\ a \in Half(p)
        BY <2>1, <2>3 DEF StatementFails, Half, Owns
      <4>2. "cut" \in history'[a]
        BY <1>1, <4>1, MarksStay
      <4> QED BY <4>2
    <3>1. Presign(p) \/ RollBack(p)
      BY <2>1, <2>3, <3>0 DEF Owns, Steps, Start, PutBlocks, RemoveAsset, CleanAssets, Upload, Begin, Busy, Continue,
         ValidateReferences, WriteBlocks, RemoveFind, RemoveCheck, RemoveBucket, RemoveObject, RemoveRow,
         CleanScan, CleanBucket, CleanObjects, CleanRows, UploadBucket, CreateAsset, EnsureBucket
    <3>2. ~RollBack(p)
      BY <1>1, <2>1, <2>3 DEF RollBack, Owns, Rows
    <3>3. Proceed(p, "rollback")
      BY <2>1, <2>3, <3>1, <3>2 DEF Presign, Owns
    <3> QED BY <2>1, <2>3, <3>3, MovedOn DEF Owns
  <2> QED BY <2>2, <2>3
<1>3. CASE a \notin Rows
  <2>1. CreateAsset(p)
    BY <1>1, <1>3, RowsKept DEF Rows, RemoveRow, CleanRows, RollBack
  <2>2. PICK b \in Assets : /\ asset' = [asset EXCEPT ![b] = "young"]
                            /\ req' = [req EXCEPT ![p].pc = "presign", ![p].asset = b, ![p].found = {b}]
    BY <2>1 DEF CreateAsset
  <2>3. a = b
    BY <1>1, <1>3, <2>2 DEF Rows
  <2>4. req[p].op = "upload"
    BY <1>1, <2>1 DEF CreateAsset, Shape, UploadPcs
  <2>5. req'[p].op = "upload" /\ req'[p].asset = a /\ req'[p].pc = "presign"
    BY <1>1, <2>2, <2>3, <2>4 DEF ReqRecord
  <2> QED BY <2>5 DEF Owns
<1> QED BY <1>2, <1>3

(* An asset row without a URL belongs to an upload under way, unless a       *)
(* restart or a failing statement has cut one short: the store's failing to  *)
(* sign a URL leaves no row behind.                                        *)
THEOREM UploadsWhole == Spec => []UploadsAreWhole
<1>1. Init => UploadsAreWhole
  BY DEF Init, UploadsAreWhole, Rows
<1>2. TypeInv /\ UploadsAreWhole /\ [Next]_vars => UploadsAreWhole'
  <2> SUFFICES ASSUME TypeInv, UploadsAreWhole, [Next]_vars PROVE UploadsAreWhole'
    OBVIOUS
  <2>1. CASE \E p \in Clients : Steps(p)
    BY <2>1, WholeStep
  <2>2. ASSUME NEW a \in Assets, Age(a) PROVE UploadsAreWhole'
    <3>1. Rows' = Rows
      BY <2>2 DEF Age, Rows, TypeInv, TypeOK
    <3> QED BY <2>2, <3>1 DEF Age, UploadsAreWhole, past
  <2>3. CASE Restart
    <3> DEFINE ended == UNION {Half(p) : p \in Clients}
    <3> SUFFICES ASSUME NEW a \in Rows' \ urls', "cut" \notin history'[a] PROVE FALSE
      BY DEF UploadsAreWhole
    <3>1. a \in Rows \ urls /\ a \in Assets /\ Mark(ended, "cut")
      BY <2>3 DEF Restart, table, Rows
    <3>2. a \notin ended /\ "cut" \notin history[a]
      <4> HIDE DEF ended
      <4> QED BY <3>1, MarksStay
    <3>3. PICK q \in Clients : Owns(q, a)
      BY <3>1, <3>2 DEF UploadsAreWhole, Owns
    <3>4. a \in Half(q)
      BY <3>3 DEF Owns, Half
    <3> QED BY <3>2, <3>4
  <2>4. ASSUME NEW a \in Assets, PutObject(a) PROVE UploadsAreWhole'
    BY <2>4 DEF PutObject, UploadsAreWhole, Rows
  <2>5. CASE UNCHANGED <<asset, urls, history, req>>
    BY <2>5 DEF UploadsAreWhole, Rows
  <2> QED BY <2>1, <2>2, <2>3, <2>4, <2>5 DEF Next, Steps, vars, table, past, RemoveLayout, RemoveQuestion, CreateQuestion
<1> QED BY <1>1, <1>2, InitType, NextType, PTL DEF Spec

-------------------------------------------------------------------------------
(* What a cleanup has found is not young, once it has read the asset rows:   *)
(* an asset ages and is never young again while a request has it.           *)

Old(p) == req[p].op = "cleanup" /\ Assets \notin req[p].unread => \A a \in req[p].found : asset[a] # "young"
FoundOld == \A p \in Clients : Old(p)

LEMMA FoundStep ==
  ASSUME TypeInv, FoundOld, NEW p \in Clients, Steps(p)
  PROVE  FoundOld'
<1>1. req \in [Clients -> ReqRecord] /\ req[p] \in ReqRecord /\ Shape(req[p])
      /\ asset \in [Assets -> {"none", "young", "stale"}]
  BY DEF TypeInv, TypeOK, Shapes
<1>2. CASE CreateAsset(p)
  <2>1. PICK b \in Assets : /\ Fresh(b)
                            /\ asset' = [asset EXCEPT ![b] = "young"]
                            /\ req' = [req EXCEPT ![p].pc = "presign", ![p].asset = b, ![p].found = {b}]
    BY <1>2 DEF CreateAsset
  <2>2. ASSUME NEW q \in Clients, q # p PROVE Old(q)'
    <3>1. req'[q] = req[q]
      BY <1>1, <2>1, <2>2
    <3>2. b \in req[q].found => Assets \in req[q].unread
      BY <2>1 DEF Fresh
    <3>3. req[q].found \subseteq Assets
      BY <1>1 DEF ReqRecord
    <3> QED BY <1>1, <2>1, <3>1, <3>2, <3>3 DEF FoundOld, Old
  <2>3. req'[p].op = "upload"
    BY <1>1, <1>2, <2>1 DEF CreateAsset, Shape, UploadPcs, ReqRecord
  <2> QED BY <2>2, <2>3 DEF FoundOld, Old
<1>3. CASE ~CreateAsset(p)
  <2>1. \A a \in Assets : asset'[a] = "young" => asset[a] = "young"
    BY <1>1, <1>3, RowsKept DEF RemoveRow, CleanRows, RollBack
  <2>2. ASSUME NEW q \in Clients, q # p PROVE Old(q)'
    <3>1. req[q].found \subseteq Assets
      BY <1>1 DEF ReqRecord
    <3> QED BY <2>1, <2>2, <3>1, OthersStay DEF FoundOld, Old
  <2>3. Old(p)'
    <3>1. req[p].found \subseteq Assets
      BY <1>1 DEF ReqRecord
    <3>2. CASE Reply(p) \/ req'[p] = IdleReq
      BY <3>2, IdleAfterReply DEF IdleReq, Old
    <3>3. CASE \E pc : Proceed(p, pc)
      BY <2>1, <3>1, <3>3, MovedOn DEF FoundOld, Old
    <3>4. CASE Start(p)
      BY <3>4, Started DEF Old
    <3>5. CASE RemoveFind(p) \/ RemoveCheck(p)
      <4>1. req[p].op = "remove"
        BY <1>1, <3>5 DEF RemoveFind, RemoveCheck, Shape, RemovePcs
      <4>2. CASE ~Reply(p)
        <5>1. req'[p].op = "remove"
          <6>1. CASE req' = [req EXCEPT ![p].pc = "check", ![p].found = {req[p].asset}, ![p].unread = Tables]
            BY <1>1, <4>1, <6>1 DEF ReqRecord
          <6>2. CASE RemoveCheck(p)
            BY <4>1, <4>2, <6>2, ReadOn, TypeParts DEF RemoveCheck, ScanPcs
          <6> QED BY <3>5, <4>2, <6>1, <6>2 DEF RemoveFind
        <5> QED BY <5>1 DEF Old
      <4> QED BY <3>2, <4>2
    <3>6. CASE CleanScan(p) /\ ~Reply(p)
      <4> DEFINE stale == {a \in Assets : asset[a] = "stale"}
                 left(T) == req[p].found \cap (IF T = Assets THEN stale ELSE Free(T))
      <4>1. PICK T \in req[p].unread : Read(p, T, left(T))
        BY <3>6 DEF CleanScan
      <4>2. /\ req'[p].found = left(T)
            /\ req'[p].unread = req[p].unread \ {T} /\ req'[p].op = req[p].op
        <5> HIDE DEF left
        <5> QED BY <3>6, <4>1, ReadOn, TypeParts DEF CleanScan, ScanPcs
      <4>3. UNCHANGED asset
        BY <3>6 DEF CleanScan, table
      <4>4. CASE T = Assets
        BY <4>2, <4>3, <4>4 DEF Old
      <4>5. CASE T # Assets
        BY <4>2, <4>3, <4>5 DEF FoundOld, Old
      <4> QED BY <4>4, <4>5
    <3>7. CASE WriteBlocks(p)
      BY <3>2, <3>7, Told, TypeParts DEF WriteBlocks
    <3>8. CASE RemoveBucket(p) \/ CleanBucket(p) \/ UploadBucket(p)
      BY <3>2, <3>3, <3>8 DEF RemoveBucket, CleanBucket, UploadBucket, EnsureBucket
    <3>9. CASE ValidateReferences(p) \/ RemoveObject(p) \/ RemoveRow(p) \/ CleanObjects(p) \/ CleanRows(p)
               \/ Presign(p) \/ RollBack(p) \/ StatementFails(p)
      BY <3>2, <3>3, <3>9 DEF ValidateReferences, RemoveObject, RemoveRow, CleanObjects, CleanRows, Presign,
         RollBack, StatementFails
    <3> QED BY <1>3, <3>2, <3>4, <3>5, <3>6, <3>7, <3>8, <3>9 DEF Steps, Continue
  <2> QED BY <2>2, <2>3 DEF FoundOld
<1> QED BY <1>2, <1>3

LEMMA FoundNext ==
  ASSUME TypeInv, FoundOld, [Next]_vars
  PROVE  FoundOld'
<1>1. CASE \E p \in Clients : Steps(p)
  BY <1>1, FoundStep
<1>2. ASSUME NEW a \in Assets, Age(a) PROVE FoundOld'
  <2>1. asset \in [Assets -> {"none", "young", "stale"}]
    BY DEF TypeInv, TypeOK
  <2>2. \A b : asset'[b] = "young" => asset[b] = "young"
    BY <1>2, <2>1 DEF Age
  <2> QED BY <1>2, <2>2 DEF Age, FoundOld, Old
<1>3. CASE Restart
  BY <1>3 DEF Restart, FoundOld, Old, IdleReq
<1>4. CASE UNCHANGED <<asset, req>>
  BY <1>4 DEF FoundOld, Old
<1> QED BY <1>1, <1>2, <1>3, <1>4 DEF Next, Steps, vars, table, PutObject, RemoveLayout, RemoveQuestion, CreateQuestion

(* Whatever overlaps, an asset that is not stale goes only by a request that *)
(* names it or by the upload that made it, never by a cleanup.              *)
THEOREM YoungStay == Spec => YoungAssetsStay
<1>1. Init => FoundOld
  <2>1. IdleReq.found = {}
    BY DEF IdleReq
  <2> QED BY <2>1 DEF Init, FoundOld, Old
<1>2. TypeInv /\ FoundOld /\ [Next]_vars =>
        [\A a \in Assets : asset[a] = "young" /\ asset'[a] = "none" =>
           \E p \in Clients : req[p].asset = a /\ req[p].pc \in {"row", "rollback"}]_vars
  <2> SUFFICES ASSUME TypeInv, FoundOld, Next, NEW a \in Assets, asset[a] = "young", asset'[a] = "none"
               PROVE  \E p \in Clients : req[p].asset = a /\ req[p].pc \in {"row", "rollback"}
    OBVIOUS
  <2>1. asset \in [Assets -> {"none", "young", "stale"}]
    BY DEF TypeInv, TypeOK
  <2>2. ASSUME NEW p \in Clients, Steps(p) PROVE req[p].asset = a /\ req[p].pc \in {"row", "rollback"}
    <3>1. RemoveRow(p) \/ CleanRows(p) \/ RollBack(p)
      BY <2>1, <2>2, RowsKept DEF CreateAsset
    <3>2. ~CleanRows(p)
      <4> SUFFICES ASSUME CleanRows(p) PROVE FALSE
        OBVIOUS
      <4>1. a \in req[p].found /\ req[p].pc = "rows"
        BY <2>1 DEF CleanRows
      <4>2. req[p].op = "cleanup" /\ req[p].unread = {}
        BY <4>1 DEF TypeInv, Shapes, Shape, CleanPcs, ScanPcs
      <4> QED BY <4>1, <4>2 DEF FoundOld, Old
    <3> QED BY <2>1, <3>1, <3>2 DEF RemoveRow, RollBack
  <2>3. \E p \in Clients : Steps(p)
    BY <2>1 DEF Next, Steps, PutObject, Age, RemoveLayout, RemoveQuestion, CreateQuestion, Restart, table
  <2> QED BY <2>2, <2>3
<1> QED BY <1>1, <1>2, InitType, NextType, FoundNext, PTL DEF Spec, YoungAssetsStay

-------------------------------------------------------------------------------
(* References.  An asset that blocks refer to, or that a request is about to *)
(* refer to, has its row unless it is contested; and what a request means to *)
(* delete is not in the blocks it has read, unless it missed that.          *)

Contested(a) == "contested" \in history[a]

BlocksHold == \A h \in Holders : \A a \in blocks[h] \ Rows : Contested(a)
StoringHolds(p) == \A a \in Storing(p) \ Rows : Contested(a)
SeenFree(p) == \A h \in Holders : Seen(p, h) => req[p].found \cap blocks[h] \subseteq req[p].missed

RefInv == BlocksHold /\ \A p \in Clients : StoringHolds(p) /\ SeenFree(p)

LEMMA NothingSeen ==
  ASSUME NEW p, req'[p].unread = Tables \/ req'[p].unread = Tables \cup {Assets}
  PROVE  \A h \in Holders : ~Seen(p, h)'
BY DEF Seen, Tables, Holders

(* A request that is done holds nothing. *)
LEMMA RepliedHolds ==
  ASSUME NEW p, req'[p] = IdleReq
  PROVE  Storing(p)' = {} /\ SeenFree(p)'
BY DEF IdleReq, Storing, SeenFree

(* A step that touches no row, block or past is about its own request only. *)
LEMMA QuietStep ==
  ASSUME TypeInv, RefInv, NEW p \in Clients, Steps(p), ~(WriteBlocks(p) /\ ~Reply(p)),
         UNCHANGED <<asset, blocks, history>>, \A a \in Storing(p)' : a \in Rows, SeenFree(p)'
  PROVE  RefInv'
<1>1. Rows' = Rows /\ (\A a : Contested(a)' <=> Contested(a))
  BY DEF Rows, Contested
<1>2. BlocksHold'
  BY <1>1 DEF RefInv, BlocksHold
<1>3. StoringHolds(p)' /\ SeenFree(p)'
  BY <1>1 DEF StoringHolds
<1>4. ASSUME NEW q \in Clients, q # p PROVE StoringHolds(q)' /\ SeenFree(q)'
  <2>1. req'[q] = req[q]
    BY <1>4, OthersSame DEF Same
  <2> QED BY <1>1, <2>1 DEF RefInv, StoringHolds, SeenFree, Storing, Seen
<1> QED BY <1>2, <1>3, <1>4 DEF RefInv

(* Rows go that their request means to delete: those of them that blocks     *)
(* refer to it has missed, and who was about to refer to the others loses   *)
(* them as contested.                                                      *)
LEMMA RowsGo ==
  ASSUME TypeInv, RefInv, NEW p \in Clients, Steps(p), Reply(p), Contest(p), req[p].unread = {},
         UNCHANGED blocks, \A a \in Rows \ req[p].found : a \in Rows'
  PROVE  RefInv'
<1>1. /\ \A a \in Assets : Contested(a) => Contested(a)'
      /\ \A a \in req[p].found \cap Rows \cap (AllStoring \cup req[p].missed) : Contested(a)'
  BY MarksStay DEF Contested, Contest, Rows
<1>2. BlocksHold'
  <2> SUFFICES ASSUME NEW h \in Holders, NEW a \in blocks[h] \ Rows' PROVE Contested(a)'
    BY DEF BlocksHold
  <2>1. a \in Assets
    BY DEF TypeInv, TypeOK
  <2>2. CASE a \in Rows
    <3>1. a \in req[p].found /\ Seen(p, h)
      BY <2>2 DEF Seen
    <3>2. a \in req[p].missed
      BY <3>1 DEF RefInv, SeenFree
    <3> QED BY <1>1, <2>2, <3>1, <3>2
  <2>3. CASE a \notin Rows
    BY <1>1, <2>1, <2>3 DEF RefInv, BlocksHold
  <2> QED BY <2>2, <2>3
<1>3. StoringHolds(p)' /\ SeenFree(p)'
  BY IdleAfterReply, RepliedHolds DEF StoringHolds
<1>4. ASSUME NEW q \in Clients, q # p PROVE StoringHolds(q)' /\ SeenFree(q)'
  <2>1. req'[q] = req[q] /\ req[q].refs \subseteq Assets
    BY <1>4, OthersSame DEF Same, TypeInv, TypeOK, ReqRecord
  <2>2. ASSUME NEW a \in Storing(q) \ Rows' PROVE Contested(a)'
    <3>1. a \in Assets /\ a \in AllStoring
      BY <2>1, <2>2 DEF AllStoring, Storing
    <3>2. CASE a \in Rows
      BY <1>1, <2>2, <3>1, <3>2
    <3>3. CASE a \notin Rows
      BY <1>1, <2>2, <3>1, <3>3 DEF RefInv, StoringHolds
    <3> QED BY <3>2, <3>3
  <2>3. Storing(q)' = Storing(q)
    BY <2>1 DEF Storing
  <2> QED BY <2>1, <2>2, <2>3 DEF RefInv, StoringHolds, SeenFree, Seen
<1> QED BY <1>2, <1>3, <1>4 DEF RefInv

(* What is written had its row when it was validated or is contested, and    *)
(* who has read those blocks misses it.                                    *)
LEMMA BlocksWritten ==
  ASSUME TypeInv, RefInv, NEW p \in Clients, WriteBlocks(p), ReplyStored(p, req[p].holder, req[p].refs),
         blocks' = [blocks EXCEPT ![req[p].holder] = req[p].refs]
  PROVE  RefInv'
<1>1. Rows' = Rows /\ (\A a : Contested(a)' <=> Contested(a)) /\ req[p].refs = Storing(p) /\ Steps(p)
  BY DEF WriteBlocks, Rows, Contested, past, Storing, Steps, Continue
<1>2. blocks \in [Holders -> SUBSET Assets]
  BY DEF TypeInv, TypeOK
<1>3. BlocksHold'
  BY <1>1, <1>2 DEF RefInv, BlocksHold, StoringHolds
<1>4. StoringHolds(p)' /\ SeenFree(p)'
  BY Told, TypeParts, RepliedHolds DEF StoringHolds
<1>5. ASSUME NEW q \in Clients, q # p PROVE StoringHolds(q)' /\ SeenFree(q)'
  <2>1. /\ req'[q].pc = req[q].pc /\ req'[q].refs = req[q].refs /\ req'[q].found = req[q].found
        /\ req'[q].unread = req[q].unread /\ req[q].missed \subseteq req'[q].missed
    BY <1>1, <1>5, OthersStay
  <2>2. StoringHolds(q)'
    BY <1>1, <2>1 DEF RefInv, StoringHolds, Storing
  <2>3. ASSUME NEW h \in Holders, Seen(q, h)' PROVE req'[q].found \cap blocks'[h] \subseteq req'[q].missed
    <3>1. Seen(q, h)
      BY <2>1, <2>3 DEF Seen
    <3>2. CASE h = req[p].holder
      <4>1. req[p].refs \cap req[q].found \subseteq req'[q].missed
        BY <1>5, <3>1, <3>2, Told, TypeParts
      <4> QED BY <1>2, <2>1, <3>2, <4>1
    <3>3. CASE h # req[p].holder
      <4>1. req[q].found \cap blocks[h] \subseteq req[q].missed
        BY <3>1 DEF RefInv, SeenFree
      <4> QED BY <1>2, <2>1, <3>3, <4>1
    <3> QED BY <3>2, <3>3
  <2> QED BY <2>2, <2>3 DEF SeenFree
<1> QED BY <1>3, <1>4, <1>5 DEF RefInv

(* What is left after a table is read is in none of its blocks. *)
LEMMA TableRead ==
  ASSUME TypeInv, RefInv, NEW p \in Clients, RemoveCheck(p) \/ CleanScan(p)
  PROVE  RefInv'
<1>1. UNCHANGED <<asset, blocks, history>> /\ Steps(p) /\ ~WriteBlocks(p) /\ req[p].pc \in ScanPcs
  BY DEF RemoveCheck, CleanScan, table, past, Steps, Continue, WriteBlocks, ScanPcs
<1>2. CASE Reply(p)
  BY <1>1, <1>2, IdleAfterReply, RepliedHolds, QuietStep
<1>3. CASE ~Reply(p)
  <2>1. PICK T \in req[p].unread, left \in SUBSET req[p].found :
          Read(p, T, left) /\ (T # Assets => left \subseteq Free(T))
    BY DEF RemoveCheck, CleanScan
  <2>2. /\ req'[p].found = left /\ req'[p].missed = req[p].missed \cap left
        /\ req'[p].unread = req[p].unread \ {T} /\ req'[p].pc \in {"bucket", "check", "scan"}
    BY <1>1, <1>3, <2>1, ReadOn, TypeParts DEF ScanPcs
  <2>3. Storing(p)' = {}
    BY <2>2 DEF Storing
  <2>4. ASSUME NEW h \in Holders, Seen(p, h)' PROVE left \cap blocks[h] \subseteq req[p].missed \cap left
    <3>1. CASE h \in T
      <4>1. T # Assets
        BY <3>1, HoldersAssumption DEF Holders
      <4> QED BY <2>1, <3>1, <4>1 DEF Free
    <3>2. CASE h \notin T
      <4>1. Seen(p, h)
        BY <2>2, <2>4, <3>2 DEF Seen
      <4> QED BY <2>1, <4>1 DEF RefInv, SeenFree
    <3> QED BY <3>1, <3>2
  <2>5. SeenFree(p)'
    BY <1>1, <2>2, <2>4 DEF SeenFree
  <2> QED BY <1>1, <2>3, <2>5, QuietStep
<1> QED BY <1>2, <1>3

(* A new asset is referred to by nobody and in nobody's hand but its own.    *)
LEMMA AssetMade ==
  ASSUME TypeInv, RefInv, NEW p \in Clients, CreateAsset(p)
  PROVE  RefInv'
<1>1. PICK b \in Assets : /\ Fresh(b)
                          /\ asset' = [asset EXCEPT ![b] = "young"]
                          /\ req' = [req EXCEPT ![p].pc = "presign", ![p].asset = b, ![p].found = {b}]
                          /\ history' = [history EXCEPT ![b] = {}]
  BY DEF CreateAsset
<1>2. req \in [Clients -> ReqRecord] /\ blocks' = blocks /\ blocks \in [Holders -> SUBSET Assets]
  BY DEF CreateAsset, TypeInv, TypeOK
<1>3. Rows \subseteq Rows' /\ \A a \in Assets \ {b} : Contested(a) => Contested(a)'
  BY <1>1 DEF Rows, Contested, TypeInv, TypeOK
<1>4. (\A h \in Holders : b \notin blocks[h]) /\ \A q \in Clients : b \notin Storing(q)
  BY <1>1 DEF Fresh, Referenced, Storing
<1>5. BlocksHold'
  <2> SUFFICES ASSUME NEW h \in Holders, NEW a \in blocks[h] \ Rows' PROVE Contested(a)'
    BY <1>2 DEF BlocksHold
  <2>1. a \in Assets \ {b} /\ Contested(a)
    BY <1>2, <1>3, <1>4 DEF RefInv, BlocksHold
  <2> QED BY <1>3, <2>1
<1>6. ASSUME NEW q \in Clients, q # p PROVE StoringHolds(q)' /\ SeenFree(q)'
  <2>1. req'[q] = req[q] /\ req[q].refs \subseteq Assets
    BY <1>1, <1>2, <1>6 DEF ReqRecord
  <2>2. ASSUME NEW a \in Storing(q) \ Rows' PROVE Contested(a)'
    <3>1. a \in Assets \ {b}
      BY <1>4, <2>1, <2>2 DEF Storing
    <3> QED BY <1>3, <2>2, <3>1 DEF RefInv, StoringHolds
  <2>3. Storing(q)' = Storing(q)
    BY <2>1 DEF Storing
  <2> QED BY <1>2, <2>1, <2>2, <2>3 DEF RefInv, StoringHolds, SeenFree, Seen
<1>7. req'[p].pc = "presign" /\ req'[p].found = {b}
  BY <1>1, <1>2 DEF ReqRecord
<1>8. StoringHolds(p)' /\ SeenFree(p)'
  BY <1>2, <1>4, <1>7 DEF StoringHolds, Storing, SeenFree
<1> QED BY <1>5, <1>6, <1>8 DEF RefInv

LEMMA RefContinue ==
  ASSUME TypeInv, RefInv, NEW p \in Clients, Continue(p)
  PROVE  RefInv'
<1>1. req \in [Clients -> ReqRecord] /\ req[p] \in ReqRecord /\ Shape(req[p])
      /\ asset \in [Assets -> {"none", "young", "stale"}]
  BY DEF TypeInv, TypeOK, Shapes
<1>2. Steps(p)
  BY DEF Steps
<1>3. ASSUME Reply(p), UNCHANGED <<asset, blocks, history>> PROVE RefInv'
  BY <1>2, <1>3, IdleAfterReply, RepliedHolds, QuietStep
<1>4. ASSUME NEW pc, Proceed(p, pc), UNCHANGED <<asset, blocks, history>>, ~WriteBlocks(p),
             pc = "write" => req[p].refs \subseteq Rows
      PROVE  RefInv'
  <2>1. \A a \in Storing(p)' : a \in Rows
    BY <1>4, MovedOn DEF Storing
  <2>2. SeenFree(p)'
    BY <1>4, MovedOn DEF RefInv, SeenFree, Seen
  <2> QED BY <1>2, <1>4, <2>1, <2>2, QuietStep
<1>5. CASE ValidateReferences(p)
  BY <1>3, <1>4, <1>5 DEF ValidateReferences, WriteBlocks, table, past
<1>6. CASE WriteBlocks(p)
  BY <1>3, <1>6, BlocksWritten DEF WriteBlocks, past
<1>7. CASE RemoveFind(p) /\ ~Reply(p)
  <2>1. req'[p].pc = "check" /\ req'[p].unread = Tables
    BY <1>1, <1>7 DEF RemoveFind, ReqRecord
  <2>2. Storing(p)' = {} /\ SeenFree(p)'
    BY <2>1, NothingSeen DEF Storing, SeenFree
  <2> QED BY <1>2, <1>7, <2>2, QuietStep DEF RemoveFind, WriteBlocks, table, past
<1>8. CASE RemoveBucket(p) \/ CleanBucket(p) \/ UploadBucket(p)
  BY <1>3, <1>4, <1>8 DEF RemoveBucket, CleanBucket, UploadBucket, EnsureBucket, WriteBlocks, table, past
<1>9. CASE RemoveObject(p) \/ CleanObjects(p) \/ Presign(p)
  BY <1>3, <1>4, <1>9 DEF RemoveObject, CleanObjects, Presign, WriteBlocks, past
<1>10. CASE RemoveRow(p) \/ RollBack(p)
  <2>1. req[p].found = {req[p].asset} /\ req[p].unread = {}
    BY <1>1, <1>10 DEF RemoveRow, RollBack, Shape, RemovePcs, ScanPcs
  <2>2. \A a \in Rows \ req[p].found : a \in Rows'
    BY <1>1, <1>10, <2>1 DEF RemoveRow, RollBack, Rows
  <2> QED BY <1>2, <1>10, <2>1, <2>2, RowsGo DEF RemoveRow, RollBack
<1>11. CASE CleanRows(p)
  <2>1. req[p].unread = {}
    BY <1>1, <1>11 DEF CleanRows, Shape, ScanPcs
  <2>2. \A a \in Rows \ req[p].found : a \in Rows'
    BY <1>11 DEF CleanRows, Rows
  <2> QED BY <1>2, <1>11, <2>1, <2>2, RowsGo DEF CleanRows
<1>12. CASE RemoveFind(p) /\ Reply(p)
  BY <1>3, <1>12 DEF RemoveFind, table, past
<1> QED BY <1>5, <1>6, <1>7, <1>8, <1>9, <1>10, <1>11, <1>12, TableRead, AssetMade DEF Continue

LEMMA RefStep ==
  ASSUME TypeInv, RefInv, NEW p \in Clients, Steps(p)
  PROVE  RefInv'
<1>1. CASE Start(p)
  <2>1. UNCHANGED <<asset, blocks, history>> /\ ~WriteBlocks(p)
    BY <1>1 DEF Start, PutBlocks, RemoveAsset, CleanAssets, Upload, Begin, Busy, WriteBlocks, table, past
  <2>2. Storing(p)' = {}
    BY <1>1, Started DEF Storing
  <2>3. SeenFree(p)'
    BY <1>1, Started, NothingSeen DEF SeenFree
  <2> QED BY <2>1, <2>2, <2>3, QuietStep
<1>2. CASE StatementFails(p)
  <2>1. UNCHANGED <<asset, blocks>> /\ req'[p] = IdleReq /\ Mark(Half(p), "cut") /\ Reply(p)
    BY <1>2, IdleAfterReply DEF StatementFails, table
  <2>2. Rows' = Rows /\ \A a \in Assets : Contested(a) => Contested(a)'
    BY <2>1, MarksStay DEF Contested, Rows
  <2>3. BlocksHold'
    BY <2>1, <2>2 DEF RefInv, BlocksHold, TypeInv, TypeOK
  <2>4. ASSUME NEW q \in Clients, q # p PROVE StoringHolds(q)' /\ SeenFree(q)'
    <3>1. req'[q] = req[q] /\ req[q].refs \subseteq Assets
      BY <2>1, <2>4, OthersSame DEF Same, TypeInv, TypeOK, ReqRecord
    <3>2. \A a \in Storing(q) : a \in Assets
      BY <3>1 DEF Storing
    <3> QED BY <2>1, <2>2, <3>1, <3>2 DEF RefInv, StoringHolds, SeenFree, Storing, Seen
  <2> QED BY <2>1, <2>3, <2>4, RepliedHolds DEF RefInv, StoringHolds
<1> QED BY <1>1, <1>2, RefContinue DEF Steps

(* A row that keeps its references, or loses some, breaks nothing.          *)
LEMMA RefTable ==
  ASSUME TypeInv, RefInv, UNCHANGED <<req, history>>, UNCHANGED Rows,
         \A h \in Holders : blocks'[h] \subseteq blocks[h]
  PROVE  RefInv'
<1>1. \A a : Contested(a)' <=> Contested(a)
  BY DEF Contested
<1>2. BlocksHold'
  BY <1>1 DEF RefInv, BlocksHold
<1>3. ASSUME NEW p \in Clients PROVE StoringHolds(p)' /\ SeenFree(p)'
  <2>1. Storing(p)' = Storing(p) /\ \A h : Seen(p, h)' <=> Seen(p, h)
    BY DEF Storing, Seen
  <2> QED BY <1>1, <2>1 DEF RefInv, StoringHolds, SeenFree
<1> QED BY <1>2, <1>3 DEF RefInv

LEMMA RefInit == Init => RefInv
BY DEF Init, RefInv, BlocksHold, StoringHolds, SeenFree, Storing, IdleReq

LEMMA RefNext ==
  ASSUME TypeInv, RefInv, [Next]_vars
  PROVE  RefInv'
<1>0. asset \in [Assets -> {"none", "young", "stale"}] /\ blocks \in [Holders -> SUBSET Assets]
  BY DEF TypeInv, TypeOK
<1>1. CASE \E p \in Clients : Steps(p)
  BY <1>1, RefStep
<1>2. ASSUME NEW a \in Assets, PutObject(a) PROVE RefInv'
  BY <1>2, RefTable DEF PutObject, Rows
<1>3. ASSUME NEW a \in Assets, Age(a) PROVE RefInv'
  <2>1. UNCHANGED Rows
    BY <1>0, <1>3 DEF Age, Rows
  <2> QED BY <1>3, <2>1, RefTable DEF Age, past
<1>4. ASSUME NEW l \in Layouts, RemoveLayout(l) PROVE RefInv'
  <2>1. \A h \in Holders : blocks'[h] \subseteq blocks[h]
    BY <1>0, <1>4 DEF RemoveLayout
  <2> QED BY <1>4, <2>1, RefTable DEF RemoveLayout, Rows, past
<1>5. CASE RemoveQuestion
  <2>1. \A h \in Holders : blocks'[h] \subseteq blocks[h]
    BY <1>0, <1>5 DEF RemoveQuestion
  <2> QED BY <1>5, <2>1, RefTable DEF RemoveQuestion, Rows, past
<1>6. CASE Restart
  <2> DEFINE ended == UNION {Half(p) : p \in Clients}
  <2>1. Mark(ended, "cut") /\ UNCHANGED <<asset, blocks>>
    BY <1>6 DEF Restart, table
  <2> HIDE DEF ended
  <2>2. \A a \in Assets : Contested(a) => Contested(a)'
    BY <2>1, MarksStay DEF Contested
  <2>3. BlocksHold'
    BY <1>0, <2>1, <2>2 DEF RefInv, BlocksHold, Rows
  <2>4. \A p \in Clients : req'[p] = IdleReq
    BY <1>6 DEF Restart
  <2> QED BY <2>3, <2>4, RepliedHolds DEF RefInv, StoringHolds
<1>7. CASE UNCHANGED <<asset, blocks, req, history>>
  BY <1>7, RefTable DEF Rows
<1> QED BY <1>1, <1>2, <1>3, <1>4, <1>5, <1>6, <1>7 DEF Next, Steps, vars, table, past, CreateQuestion

(* Whatever overlaps, fails or restarts, and in whatever order the reads of  *)
(* a check are made, blocks refer to assets there are, but for those stored  *)
(* after their deletion had read the blocks or while it took their row.     *)
THEOREM ReferencesHold == Spec => []NoDanglingReference
<1>1. RefInv => NoDanglingReference
  BY DEF RefInv, BlocksHold, Contested, NoDanglingReference
<1> QED BY <1>1, InitType, NextType, RefInit, RefNext, PTL DEF Spec
===============================================================================
