------------------------- MODULE QuestionImport_proofs -------------------------
(***************************************************************************)
(* Theorems about QuestionImport, for any tags, batches, pool and clients. *)
(***************************************************************************)
EXTENDS QuestionImport, FiniteFacts, FiniteSetTheorems, TLAPS

-------------------------------------------------------------------------------
(* What the items of a batch become: the first of them moves from what is   *)
(* left to what is created.                                                *)
LEMMA FirstMoves ==
  ASSUME NEW S, NEW s \in Seq(S), NEW t \in Seq(S), t # <<>>
  PROVE  Append(s, Head(t)) \o Tail(t) = s \o t
<1>1. Head(t) \in S /\ Tail(t) \in Seq(S) /\ Len(t) > 0 /\ Len(Tail(t)) = Len(t) - 1
  OBVIOUS
<1> DEFINE a == Append(s, Head(t)) \o Tail(t)
           b == s \o t
<1>2. a \in Seq(S) /\ b \in Seq(S) /\ Len(a) = Len(b)
  BY <1>1
<1>3. ASSUME NEW i \in 1..Len(a) PROVE a[i] = b[i]
  <2>1. CASE i <= Len(s)
    BY <1>1, <2>1
  <2>2. CASE i = Len(s) + 1
    BY <1>1, <2>2
  <2>3. CASE i > Len(s) + 1
    BY <1>1, <1>2, <2>3
  <2> QED BY <1>1, <2>1, <2>2, <2>3
<1> QED BY <1>2, <1>3

-------------------------------------------------------------------------------
(* A request on its own: what it has created and what is left are the batch *)
(* it was sent, and it has upserted, or has still to, all tags of what it   *)
(* has created.                                                            *)

Whole(r) == IF r.pc = "tag" THEN r.created \o Tail(r.batch) ELSE r.created \o r.batch

Tagged(r) ==
  \A n \in DOMAIN r.created : \A k \in DOMAIN r.created[n].tags :
    r.created[n].tags[k] \in r.locked \/ \E j \in DOMAIN r.names : r.names[j] = r.created[n].tags[k]

Local(r) ==
  /\ r \in ReqRecord
  /\ r.pc \in {"lookup", "looking", "write", "tag"} => r.batch # <<>>
  /\ r.pc \notin {"idle", "subject"} => ~r.dryRun
  /\ r.pc # "tag" => r.names = <<>>
  /\ r.pc = "idle" => r = IdleReq
  /\ r.pc # "idle" => r.op \in Ops
  /\ r.op # "import" => r.created = <<>> /\ r.pc # "tag"
  /\ r.op = "import" => Whole(r) \in Batches
  /\ Tagged(r)

Locals == \A p \in Clients : Local(req[p])

Stored == \A n \in DOMAIN questions : \A k \in DOMAIN questions[n].tags : questions[n].tags[k] \in tags

LocalInv == questions \in Seq(Item) /\ tags \subseteq Tags /\ req \in [Clients -> ReqRecord] /\ Locals

(* Records stay records. *)
LEMMA Built ==
  ASSUME NEW pc \in ReqPcs, NEW op \in Ops, NEW dryRun \in BOOLEAN, NEW batch \in Seq(Item)
  PROVE  /\ [IdleReq EXCEPT !.pc = pc, !.op = op, !.batch = batch] \in ReqRecord
         /\ [IdleReq EXCEPT !.pc = pc, !.op = op, !.batch = batch, !.dryRun = dryRun] \in ReqRecord
<1>1. IdleReq \in ReqRecord
  BY DEF IdleReq, ReqRecord, ReqPcs, Ops, Item
<1>2. ASSUME NEW r \in ReqRecord
      PROVE  /\ [r EXCEPT !.pc = pc, !.op = op, !.batch = batch] \in ReqRecord
             /\ [r EXCEPT !.pc = pc, !.op = op, !.batch = batch, !.dryRun = dryRun] \in ReqRecord
  BY DEF ReqRecord
<1> QED BY <1>1, <1>2

LEMMA Changed ==
  ASSUME NEW r \in ReqRecord, NEW pc \in ReqPcs, NEW names \in Seq(Tags)
  PROVE  /\ \A batch \in Seq(Item) : [r EXCEPT !.pc = pc, !.batch = batch] \in ReqRecord
         /\ \A created \in Seq(Item) : [r EXCEPT !.pc = pc, !.names = names, !.created = created] \in ReqRecord
         /\ \A locked \in SUBSET Tags : [r EXCEPT !.names = names, !.locked = locked] \in ReqRecord
BY DEF ReqRecord

LEMMA Popped ==
  ASSUME NEW S, NEW s \in Seq(S), s # <<>>
  PROVE  Head(s) \in S /\ Tail(s) \in Seq(S)
OBVIOUS

LEMMA IdleLocal == Local(IdleReq)
BY NoneAssumption DEF Local, IdleReq, ReqRecord, ReqPcs, Ops, Item, Tagged

LEMMA ReplyLocal ==
  ASSUME LocalInv, NEW p \in Clients, Reply(p)
  PROVE  (req \in [Clients -> ReqRecord] /\ Locals)' /\ req'[p] = IdleReq
BY IdleLocal DEF LocalInv, Locals, Local, Reply

LEMMA ReplacedLocal ==
  ASSUME LocalInv, NEW p \in Clients, NEW r, Local(r), req' = [req EXCEPT ![p] = r]
  PROVE  (req \in [Clients -> ReqRecord] /\ Locals)'
BY DEF LocalInv, Locals, Local

LEMMA ProceedLocal ==
  ASSUME LocalInv, NEW p \in Clients, NEW pc, Proceed(p, pc), req[p].pc \notin {"idle", "tag"},
         \/ pc = "open" /\ req[p].pc = "subject" /\ ~req[p].dryRun
         \/ pc = "item" /\ req[p].pc = "open"
         \/ pc \in {"lookup", "looking", "write"} /\ req[p].batch # <<>> /\ req[p].pc # "subject"
  PROVE  (req \in [Clients -> ReqRecord] /\ Locals)'
<1> DEFINE r == [req[p] EXCEPT !.pc = pc]
<1>1. Local(req[p]) /\ req[p] \in ReqRecord
  BY DEF LocalInv, Locals, Local
<1>2. r \in ReqRecord
  BY <1>1 DEF ReqRecord, ReqPcs
<1>3. /\ r.pc = pc /\ r.op = req[p].op /\ r.dryRun = req[p].dryRun /\ r.batch = req[p].batch
      /\ r.names = req[p].names /\ r.created = req[p].created /\ r.locked = req[p].locked
  BY <1>1 DEF ReqRecord
<1>4. req' = [req EXCEPT ![p] = r]
  BY DEF Proceed, LocalInv
<1> HIDE DEF r
<1>5. Whole(r) = Whole(req[p])
  BY <1>3 DEF Whole
<1>6. Tagged(r)
  BY <1>1, <1>3 DEF Local, Tagged
<1>7. Local(r)
  BY <1>1, <1>2, <1>3, <1>5, <1>6 DEF Local
<1> QED BY <1>4, <1>7, ReplacedLocal

LEMMA Seen ==
  ASSUME LocalInv, NEW p \in Clients
  PROVE  Local(req[p]) /\ req[p] \in ReqRecord
BY DEF LocalInv, Locals, Local

(* The batch a request is given is what it has yet to do. *)
LEMMA BeginLocal ==
  ASSUME LocalInv, NEW p \in Clients,
         (\E batch \in Batches, dryRun \in BOOLEAN : Import(p, batch, dryRun)) \/ List(p)
  PROVE  LocalInv'
<1>1. ASSUME NEW batch \in Batches, NEW dryRun \in BOOLEAN, Import(p, batch, dryRun) PROVE LocalInv'
  <2> DEFINE r == [IdleReq EXCEPT !.pc = "subject", !.op = "import", !.batch = batch, !.dryRun = dryRun]
  <2>1. /\ r.pc = "subject" /\ r.op = "import" /\ r.batch = batch /\ r.dryRun = dryRun
        /\ r.names = <<>> /\ r.created = <<>> /\ r.locked = {}
    BY DEF IdleReq
  <2>2. r \in ReqRecord
    BY Built, BatchesAssumption DEF ReqPcs, Ops
  <2>3. req' = [req EXCEPT ![p] = r]
    BY <1>1 DEF Import
  <2> HIDE DEF r
  <2>4. Whole(r) = batch
    BY <2>1, BatchesAssumption DEF Whole
  <2>5. Tagged(r)
    BY <2>1 DEF Tagged
  <2>6. Local(r)
    BY <2>1, <2>2, <2>4, <2>5 DEF Local, Ops
  <2> QED BY <1>1, <2>3, <2>6, ReplacedLocal DEF Import, LocalInv, table
<1>2. CASE List(p)
  <2> DEFINE r == [IdleReq EXCEPT !.pc = "open", !.op = "list", !.batch = <<[lookup |-> TRUE, tags |-> <<>>]>>]
  <2>1. /\ r.pc = "open" /\ r.op = "list" /\ ~r.dryRun /\ r.names = <<>> /\ r.created = <<>>
    BY DEF IdleReq
  <2>2. r \in ReqRecord
    <3>1. <<[lookup |-> TRUE, tags |-> <<>>]>> \in Seq(Item)
      BY DEF Item
    <3> QED BY <3>1, Built DEF ReqPcs, Ops
  <2>3. req' = [req EXCEPT ![p] = r]
    BY <1>2 DEF List
  <2> HIDE DEF r
  <2>4. Tagged(r)
    BY <2>1 DEF Tagged
  <2>5. Local(r)
    BY <2>1, <2>2, <2>4 DEF Local, Ops
  <2> QED BY <1>2, <2>3, <2>5, ReplacedLocal DEF List, LocalInv, table
<1> QED BY <1>1, <1>2

LEMMA WriteLocal ==
  ASSUME LocalInv, NEW p \in Clients, WriteQuestion(p)
  PROVE  LocalInv'
<1>1. Local(req[p]) /\ req[p] \in ReqRecord
  BY Seen
<1>2. CASE Reply(p)
  BY <1>2, ReplyLocal DEF WriteQuestion, LocalInv, table
<1>3. CASE ~Reply(p)
  <2> DEFINE item == Head(req[p].batch)
             r == [req[p] EXCEPT !.pc = "tag", !.names = item.tags, !.created = Append(req[p].created, item)]
  <2>1. req[p].pc = "write" /\ req[p].op # "list" /\ req' = [req EXCEPT ![p] = r]
    BY <1>3 DEF WriteQuestion, LocalInv
  <2>2. req[p].batch # <<>> /\ item \in Item /\ item.tags \in Seq(Tags)
    <3>1. req[p].batch # <<>> /\ item \in Item
      BY <1>1, <2>1, Popped DEF Local, ReqRecord
    <3> QED BY <3>1 DEF Item
  <2>3. req[p].op = "import"
    BY <1>1, <2>1 DEF Local, Ops
  <2>4. r \in ReqRecord
    <3>1. Append(req[p].created, item) \in Seq(Item)
      BY <1>1, <2>2 DEF ReqRecord
    <3>2. "tag" \in ReqPcs
      BY DEF ReqPcs
    <3> HIDE DEF item
    <3> QED BY <1>1, <2>2, <3>1, <3>2, Changed
  <2>5. /\ r.pc = "tag" /\ r.op = "import" /\ r.dryRun = req[p].dryRun /\ r.batch = req[p].batch
        /\ r.names = item.tags /\ r.created = Append(req[p].created, item) /\ r.locked = req[p].locked
    BY <1>1, <2>3 DEF ReqRecord
  <2> HIDE DEF r
  <2>6. Whole(r) = Whole(req[p])
    <3>1. req[p].created \in Seq(Item) /\ req[p].batch \in Seq(Item)
      BY <1>1 DEF ReqRecord
    <3>2. Append(req[p].created, item) \o Tail(req[p].batch) = req[p].created \o req[p].batch
      BY <2>2, <3>1, FirstMoves
    <3> HIDE DEF item
    <3> QED BY <2>1, <2>5, <3>2 DEF Whole
  <2>7. Tagged(r)
    <3> HIDE DEF item
    <3>1. \A n \in DOMAIN r.created : (n \in DOMAIN req[p].created /\ r.created[n] = req[p].created[n]) \/ r.created[n] = item
      BY <1>1, <2>2, <2>5 DEF ReqRecord
    <3>2. \A n \in DOMAIN req[p].created : \A k \in DOMAIN req[p].created[n].tags : req[p].created[n].tags[k] \in req[p].locked
      <4>1. req[p].names = <<>> /\ Tagged(req[p])
        BY <1>1, <2>1 DEF Local
      <4> QED BY <4>1 DEF Tagged
    <3>3. \A k \in DOMAIN item.tags : \E j \in DOMAIN r.names : r.names[j] = item.tags[k]
      BY <2>5
    <3> QED BY <2>5, <3>1, <3>2, <3>3 DEF Tagged
  <2>8. Local(r)
    BY <1>1, <2>1, <2>2, <2>3, <2>4, <2>5, <2>6, <2>7 DEF Local
  <2> QED BY <1>3, <2>1, <2>8, ReplacedLocal DEF WriteQuestion, LocalInv, table
<1> QED BY <1>2, <1>3

LEMMA TagLocal ==
  ASSUME LocalInv, NEW p \in Clients, UpsertTag(p) \/ ItemDone(p)
  PROVE  LocalInv'
<1>1. Local(req[p]) /\ req[p] \in ReqRecord
  BY Seen
<1>2. CASE UpsertTag(p)
  <2> DEFINE name == Head(req[p].names)
             r == [req[p] EXCEPT !.names = Tail(req[p].names), !.locked = req[p].locked \cup {name}]
  <2>1. req[p].pc = "tag" /\ req[p].names # <<>> /\ req' = [req EXCEPT ![p] = r]
    BY <1>2 DEF UpsertTag, LocalInv
  <2>2. name \in Tags /\ req[p].names \in Seq(Tags) /\ Tail(req[p].names) \in Seq(Tags)
    BY <1>1, <2>1, Popped DEF ReqRecord
  <2>3. r \in ReqRecord
    <3>1. req[p].locked \cup {name} \in SUBSET Tags
      BY <1>1, <2>2 DEF ReqRecord
    <3> HIDE DEF name
    <3>2. req[p].pc \in ReqPcs
      BY <1>1 DEF ReqRecord
    <3> QED BY <1>1, <2>2, <3>1, <3>2, Changed
  <2>4. /\ r.pc = "tag" /\ r.op = req[p].op /\ r.dryRun = req[p].dryRun /\ r.batch = req[p].batch
        /\ r.names = Tail(req[p].names) /\ r.created = req[p].created /\ r.locked = req[p].locked \cup {name}
    BY <1>1, <2>1 DEF ReqRecord
  <2> HIDE DEF r
  <2>5. Whole(r) = Whole(req[p])
    BY <2>1, <2>4 DEF Whole
  <2>6. \A j \in DOMAIN req[p].names : req[p].names[j] = name \/ \E i \in DOMAIN r.names : r.names[i] = req[p].names[j]
    <3> SUFFICES ASSUME NEW j \in DOMAIN req[p].names, j # 1
                 PROVE  \E i \in DOMAIN r.names : r.names[i] = req[p].names[j]
      BY <2>1, <2>2
    <3> HIDE DEF name
    <3>0. j \in 1..Len(req[p].names) /\ j > 1
      BY <2>2
    <3>1. j - 1 \in DOMAIN r.names /\ r.names[j - 1] = req[p].names[j]
      BY <2>2, <2>4, <3>0
    <3> QED BY <3>1
  <2>7. Tagged(r)
    <3>1. Tagged(req[p])
      BY <1>1 DEF Local
    <3> HIDE DEF name
    <3> QED BY <2>4, <2>6, <3>1 DEF Tagged
  <2>8. Local(r)
    BY <1>1, <2>1, <2>3, <2>4, <2>5, <2>7 DEF Local
  <2> QED BY <1>2, <2>1, <2>8, ReplacedLocal DEF UpsertTag, LocalInv, table
<1>3. CASE ItemDone(p)
  <2> DEFINE r == [req[p] EXCEPT !.pc = "item", !.batch = Tail(req[p].batch)]
  <2>1. req[p].pc = "tag" /\ req[p].names = <<>> /\ req' = [req EXCEPT ![p] = r]
    BY <1>3 DEF ItemDone, LocalInv
  <2>2. req[p].batch # <<>> /\ req[p].op = "import"
    BY <1>1, <2>1 DEF Local
  <2>3. r \in ReqRecord
    <3>1. Tail(req[p].batch) \in Seq(Item)
      BY <1>1, <2>2, Popped DEF ReqRecord
    <3>2. "item" \in ReqPcs /\ <<>> \in Seq(Tags)
      BY DEF ReqPcs
    <3> QED BY <1>1, <3>1, <3>2, Changed
  <2>4. /\ r.pc = "item" /\ r.op = req[p].op /\ r.dryRun = req[p].dryRun /\ r.batch = Tail(req[p].batch)
        /\ r.names = <<>> /\ r.created = req[p].created /\ r.locked = req[p].locked
    BY <1>1, <2>1 DEF ReqRecord
  <2> HIDE DEF r
  <2>5. Whole(r) = Whole(req[p])
    BY <2>1, <2>4 DEF Whole
  <2>6. Tagged(r)
    BY <1>1, <2>1, <2>4 DEF Local, Tagged
  <2>7. Local(r)
    BY <1>1, <2>1, <2>2, <2>3, <2>4, <2>5, <2>6 DEF Local, Ops
  <2> QED BY <1>3, <2>1, <2>7, ReplacedLocal DEF ItemDone, LocalInv, table
<1> QED BY <1>2, <1>3

(* A transaction that commits adds its whole batch, with its tags. *)
LEMMA CommitAdds ==
  ASSUME LocalInv, Stored, NEW p \in Clients, Commit(p)
  PROVE  /\ LocalInv' /\ Stored'
         /\ questions' # questions =>
              /\ req[p].created \in Batches /\ req[p].op = "import" /\ ~req[p].dryRun
              /\ questions' = questions \o req[p].created /\ req'[p] = IdleReq
<1>1. Local(req[p]) /\ req[p] \in ReqRecord
  BY Seen
<1>2. /\ req[p].pc = "item" /\ req[p].batch = <<>> /\ Reply(p)
      /\ questions' = questions \o req[p].created /\ tags' = tags \cup req[p].locked
  BY DEF Commit
<1>3. LocalInv'
  BY <1>1, <1>2, ReplyLocal DEF LocalInv, ReqRecord
<1>4. \A n \in DOMAIN req[p].created : \A k \in DOMAIN req[p].created[n].tags : req[p].created[n].tags[k] \in req[p].locked
  <2>1. req[p].names = <<>> /\ Tagged(req[p])
    BY <1>1, <1>2 DEF Local
  <2> QED BY <2>1 DEF Tagged
<1>5. Stored'
  <2>1. questions \in Seq(Item) /\ req[p].created \in Seq(Item)
    BY <1>1 DEF LocalInv, ReqRecord
  <2>2. ASSUME NEW n \in DOMAIN questions'
        PROVE  (n \in DOMAIN questions /\ questions'[n] = questions[n])
               \/ \E m \in DOMAIN req[p].created : questions'[n] = req[p].created[m]
    <3>1. CASE n <= Len(questions)
      BY <1>2, <2>1, <3>1
    <3>2. CASE n > Len(questions)
      <4>1. n - Len(questions) \in DOMAIN req[p].created /\ questions'[n] = req[p].created[n - Len(questions)]
        BY <1>2, <2>1, <3>2
      <4> QED BY <4>1
    <3> QED BY <1>2, <2>1, <3>1, <3>2
  <2> QED BY <1>2, <1>4, <2>2 DEF Stored
<1>6. ASSUME questions' # questions
      PROVE  req[p].created \in Batches /\ req[p].op = "import" /\ ~req[p].dryRun /\ req'[p] = IdleReq
  <2>1. req[p].created \in Seq(Item) /\ questions \in Seq(Item)
    BY <1>1 DEF ReqRecord, LocalInv
  <2>2. req[p].created # <<>>
    BY <1>2, <1>6, <2>1
  <2>3. req[p].op = "import" /\ ~req[p].dryRun
    BY <1>1, <1>2, <2>2 DEF Local
  <2>4. Whole(req[p]) = req[p].created
    BY <1>2, <2>1 DEF Whole
  <2> QED BY <1>1, <1>2, <2>3, <2>4, ReplyLocal DEF Local
<1> QED BY <1>2, <1>3, <1>5, <1>6

LEMMA WorkLocal ==
  ASSUME LocalInv, NEW p \in Clients, Work(p) \/ GiveUp(p), ~Commit(p)
  PROVE  LocalInv' /\ UNCHANGED table
<1>1. Local(req[p]) /\ req[p] \in ReqRecord
  BY Seen
<1> SUFFICES ASSUME ~WriteQuestion(p), ~UpsertTag(p), ~ItemDone(p)
             PROVE  (req \in [Clients -> ReqRecord] /\ Locals)' /\ UNCHANGED table
  BY WriteLocal, TagLocal DEF WriteQuestion, UpsertTag, ItemDone, LocalInv, table
<1>2. CASE ReadSubject(p)
  BY <1>2, ReplyLocal, ProceedLocal DEF ReadSubject
<1>3. CASE OpenTransaction(p)
  BY <1>3, ProceedLocal DEF OpenTransaction
<1>4. CASE NextItem(p)
  BY <1>4, ReplyLocal, ProceedLocal DEF NextItem
<1>5. CASE LookUp(p) \/ LookedUp(p)
  BY <1>1, <1>5, ReplyLocal, ProceedLocal DEF LookUp, LookedUp, Local
<1>6. CASE Deadlock(p) \/ GiveUp(p)
  BY <1>6, ReplyLocal DEF Deadlock, GiveUp
<1> QED BY <1>2, <1>3, <1>4, <1>5, <1>6 DEF Work

IInv == LocalInv /\ Stored

LEMMA IInvInit == Init => IInv
BY IdleLocal DEF Init, IInv, LocalInv, Locals, Local, Stored

LEMMA IInvNext ==
  ASSUME IInv, [Next]_vars
  PROVE  IInv'
<1>1. CASE UNCHANGED vars
  BY <1>1 DEF IInv, LocalInv, Locals, Stored, vars, table
<1>2. ASSUME NEW p \in Clients, (\E batch \in Batches, dryRun \in BOOLEAN : Import(p, batch, dryRun)) \/ List(p)
      PROVE  IInv'
  <2>1. LocalInv'
    BY <1>2, BeginLocal DEF IInv
  <2>2. UNCHANGED table
    BY <1>2 DEF Import, List
  <2> QED BY <2>1, <2>2 DEF IInv, Stored, table
<1>3. ASSUME NEW p \in Clients, Work(p) \/ GiveUp(p) PROVE IInv'
  BY <1>3, CommitAdds, WorkLocal DEF IInv, Stored, table
<1> QED BY <1>1, <1>2, <1>3 DEF Next

(* The tags of an imported question are there, also when the import that     *)
(* first created one has been rolled back.                                  *)
THEOREM TagsThere == Spec => []TagsAreThere
<1>1. IInv => TagsAreThere
  BY DEF IInv, Stored, TagsAreThere
<1> QED BY <1>1, IInvInit, IInvNext, PTL DEF Spec

(* An import leaves all of its questions or none; a dry run or a list leaves *)
(* nothing.                                                                *)
THEOREM ImportAtomic == Spec => ImportIsAtomic
<1> DEFINE Whole1 == questions' # questions =>
       \E p \in Clients, batch \in Batches :
         /\ questions' = questions \o batch
         /\ req[p].op = "import" /\ ~req[p].dryRun /\ req[p].created = batch
         /\ req'[p] = IdleReq
<1>1. IInv /\ [Next]_vars => [Whole1]_vars
  <2> SUFFICES ASSUME IInv, Next, questions' # questions
               PROVE  \E p \in Clients, batch \in Batches :
                         /\ questions' = questions \o batch
                         /\ req[p].op = "import" /\ ~req[p].dryRun /\ req[p].created = batch
                         /\ req'[p] = IdleReq
    OBVIOUS
  <2>1. PICK p \in Clients : Work(p) \/ GiveUp(p)
    BY DEF Next, Import, List, table
  <2>2. Commit(p)
    BY <2>1, WorkLocal DEF IInv, table
  <2> QED BY <2>2, CommitAdds DEF IInv
<1> QED BY <1>1, IInvInit, IInvNext, PTL DEF Spec, ImportIsAtomic

-------------------------------------------------------------------------------
(* Connections.  Two steps take one, each when there is one left.           *)

Frugal == Cardinality(Open) + Cardinality(Looking) <= PoolSize

LEMMA OpenFinite == IsFiniteSet(Open) /\ IsFiniteSet(Looking) /\ Cardinality(Open) \in Nat /\ Cardinality(Looking) \in Nat
<1>1. Open \subseteq Clients /\ Looking \subseteq Clients
  BY DEF Open, Looking
<1> QED BY <1>1, ClientsAssumption, FS_Subset, FS_CardinalityType

LEMMA FewerConnections ==
  ASSUME Frugal, NEW open \in SUBSET Open, NEW looking \in SUBSET Looking
  PROVE  Cardinality(open) + Cardinality(looking) <= PoolSize
<1>1. /\ Cardinality(open) \in Nat /\ Cardinality(open) <= Cardinality(Open)
      /\ Cardinality(looking) \in Nat /\ Cardinality(looking) <= Cardinality(Looking)
  BY OpenFinite, FS_Subset, FS_CardinalityType
<1> QED BY <1>1, OpenFinite, PoolAssumption DEF Frugal

LEMMA OneAdded ==
  ASSUME NEW S, IsFiniteSet(S), NEW p
  PROVE  Cardinality(S \cup {p}) \in Nat /\ Cardinality(S \cup {p}) <= Cardinality(S) + 1
<1>1. IsFiniteSet(S \cup {p}) /\ Cardinality(S \cup {p}) = IF p \in S THEN Cardinality(S) ELSE Cardinality(S) + 1
  BY FS_AddElement
<1>2. Cardinality(S) \in Nat
  BY FS_CardinalityType
<1>3. Cardinality(S \cup {p}) \in Nat
  BY <1>1, <1>2
<1> QED BY <1>1, <1>2, <1>3

LEMMA FrugalStep ==
  ASSUME LocalInv, Frugal, [Next]_vars
  PROVE  Frugal'
<1>1. CASE UNCHANGED vars
  BY <1>1 DEF Frugal, Open, Looking, vars
<1>2. CASE Open' \subseteq Open /\ Looking' \subseteq Looking
  BY <1>2, FewerConnections DEF Frugal
<1>3. ASSUME NEW p \in Clients, OpenTransaction(p) PROVE Frugal'
  <2>1. Open' = Open \cup {p} /\ Looking' = Looking
    BY <1>3 DEF OpenTransaction, Proceed, Open, Looking, LocalInv, ReqRecord
  <2>2. Cardinality(Open') \in Nat /\ Cardinality(Open') <= Cardinality(Open) + 1
    BY <2>1, OneAdded, OpenFinite
  <2>3. Cardinality(Open) + Cardinality(Looking) < PoolSize
    BY <1>3, OpenFinite, PoolAssumption DEF OpenTransaction, FreeConnections
  <2> QED BY <2>1, <2>2, <2>3, OpenFinite, PoolAssumption DEF Frugal
<1>4. ASSUME NEW p \in Clients, LookUp(p) PROVE Frugal'
  <2>1. Open' = Open /\ Looking' = Looking \cup {p}
    BY <1>4 DEF LookUp, Proceed, Open, Looking, LocalInv, ReqRecord
  <2>2. Cardinality(Looking') \in Nat /\ Cardinality(Looking') <= Cardinality(Looking) + 1
    BY <2>1, OneAdded, OpenFinite
  <2>3. Cardinality(Open) + Cardinality(Looking) < PoolSize
    BY <1>4, OpenFinite, PoolAssumption DEF LookUp, FreeConnections
  <2> QED BY <2>1, <2>2, <2>3, OpenFinite, PoolAssumption DEF Frugal
<1>5. ASSUME NEW p \in Clients, Reply(p) PROVE Frugal'
  <2>1. Open' \subseteq Open /\ Looking' \subseteq Looking
    BY <1>5 DEF Reply, Open, Looking, LocalInv, ReqRecord, IdleReq
  <2> QED BY <1>2, <2>1
<1>6. ASSUME NEW p \in Clients, NEW pc, Proceed(p, pc), pc # "looking", req[p].pc \in {"item", "lookup", "looking"} \/ pc = "open"
      PROVE  Frugal'
  <2>1. Open' \subseteq Open /\ Looking' \subseteq Looking
    BY <1>6 DEF Proceed, Open, Looking, LocalInv, ReqRecord
  <2> QED BY <1>2, <2>1
<1>7. ASSUME NEW p \in Clients, (\E batch \in Batches, dryRun \in BOOLEAN : Import(p, batch, dryRun)) \/ List(p) PROVE Frugal'
  <2>1. Open' \subseteq Open /\ Looking' \subseteq Looking
    <3>1. req'[p].pc \in {"subject", "open"} /\ \A q \in Clients : q # p => req'[q] = req[q]
      BY <1>7 DEF Import, List, LocalInv, IdleReq
    <3> QED BY <3>1 DEF Open, Looking
  <2> QED BY <1>2, <2>1
<1>8. ASSUME NEW p \in Clients, WriteQuestion(p) \/ UpsertTag(p) \/ ItemDone(p), ~Reply(p) PROVE Frugal'
  <2>1. Open' \subseteq Open /\ Looking' \subseteq Looking
    BY <1>8, ZenonT(60) DEF WriteQuestion, UpsertTag, ItemDone, Open, Looking, LocalInv, ReqRecord
  <2> QED BY <1>2, <2>1
<1>9. ASSUME NEW p \in Clients, Work(p) \/ GiveUp(p) PROVE Frugal'
  BY <1>3, <1>4, <1>5, <1>6, <1>8, <1>9 DEF Work, ReadSubject, NextItem, LookedUp, Commit, Deadlock, GiveUp
<1> QED BY <1>1, <1>7, <1>9 DEF Next

LEMMA FrugalInit == Init => Frugal
<1>1. ASSUME Init PROVE Open = {} /\ Looking = {}
  BY <1>1 DEF Init, Open, Looking, IdleReq
<1> QED BY <1>1, FS_EmptySet, PoolAssumption DEF Frugal

(* Every variable keeps its type, and no more connections are ever in use    *)
(* than the pool has.                                                      *)
THEOREM TypeCorrect == Spec => []TypeOK
<1>2. IInv /\ Frugal => TypeOK
  BY OpenFinite, PoolAssumption DEF IInv, LocalInv, Frugal, TypeOK, FreeConnections
<1>3. IInv /\ Frugal /\ [Next]_vars => Frugal'
  BY FrugalStep DEF IInv
<1> QED BY <1>2, <1>3, FrugalInit, IInvInit, IInvNext, PTL DEF Spec

-------------------------------------------------------------------------------
(* Waiting.  With a connection left, requests that all wait do so for tags; *)
(* who has upserted a tag is under way and waits too, so some of them wait  *)
(* in a circle.  With none left all connections are transactions', for a    *)
(* lookup that has got its connection is ready.                            *)

LEMMA OnlyTagsWait ==
  ASSUME LocalInv, FreeConnections > 0, NEW p \in Clients, Busy(p), ~Ready(p)
  PROVE  \E q \in Clients : p # q /\ Busy(q) /\ WaitsFor(p, q)
<1>1. PICK q \in Clients : WaitsFor(p, q)
  BY DEF Ready
<1>2. req[q].locked # {} /\ p # q
  BY <1>1 DEF WaitsFor
<1>3. Local(req[q])
  BY Seen
<1>4. Busy(q)
  BY <1>2, <1>3 DEF Busy, Local, IdleReq
<1> QED BY <1>1, <1>2, <1>4

LEMMA LookupsProceed ==
  ASSUME NEW p \in Looking
  PROVE  p \in Clients /\ Ready(p)
BY DEF Looking, Ready, Busy, WaitsFor

LEMMA StallFillsPool ==
  ASSUME LocalInv, Frugal, NEW b \in Clients, Busy(b), \A p \in Clients : ~Ready(p)
  PROVE  Cardinality(Open) = PoolSize
<1>1. Looking = {}
  BY LookupsProceed
<1>2. Cardinality(Looking) = 0
  BY <1>1, FS_EmptySet
<1>3. ~(FreeConnections > 0)
  <2> SUFFICES ASSUME FreeConnections > 0 PROVE FALSE
    OBVIOUS
  <2> DEFINE C == {p \in Clients : Busy(p)}
             W == {w \in Clients \X Clients : WaitsFor(w[1], w[2])}
  <2>1. \A p, q \in Clients : <<p, q>> \in W <=> WaitsFor(p, q)
    OBVIOUS
  <2>2. \A p \in C : \E q \in C : p # q /\ <<p, q>> \in W
    BY <2>1, OnlyTagsWait
  <2>3. IsFiniteSet(C) /\ C # {}
    BY FS_Subset, ClientsAssumption
  <2>4. PICK D \in SUBSET C : /\ D # {}
                              /\ \A q \in D : (\E r \in D : <<q, r>> \in W) /\ (\E r \in D : <<r, q>> \in W)
    <3> HIDE DEF C, W
    <3> QED BY <2>2, <2>3, WaitingCircle
  <2>5. PICK p \in D : TRUE
    BY <2>4
  <2>6. D \in SUBSET Clients /\ Busy(p)
    BY <2>5
  <2>7. /\ \A q \in D : \E r \in D : WaitsFor(q, r)
        /\ \A r \in D : \E q \in D : WaitsFor(q, r)
    BY <2>1, <2>4, <2>6
  <2>8. InCircle(p)
    BY <2>5, <2>6, <2>7 DEF InCircle
  <2> QED BY <2>5, <2>6, <2>8 DEF Ready
<1> QED BY <1>2, <1>3, OpenFinite, PoolAssumption DEF FreeConnections, Frugal

(* Requests that all wait, short of a timeout, hold every connection with    *)
(* their transactions, whatever the tags and the order of the items.        *)
THEOREM OnlyThePoolStalls == Spec => []StallTakesThePool
<1>1. IInv /\ Frugal => StallTakesThePool
  BY StallFillsPool DEF IInv, StallTakesThePool
<1>2. IInv /\ Frugal /\ [Next]_vars => Frugal'
  BY FrugalStep DEF IInv
<1> QED BY <1>1, <1>2, FrugalInit, IInvInit, IInvNext, PTL DEF Spec

(* As long as fewer requests are under way at once than the pool has         *)
(* connections, they never all wait: one request, or as many as there are   *)
(* connections but one, cannot stall the API by what they look up outside   *)
(* their transactions.                                                      *)
THEOREM FewRequestsNeverStall ==
  ASSUME Cardinality(Clients) < PoolSize
  PROVE  Spec => []((\E p \in Clients : Busy(p)) => \E p \in Clients : Ready(p))
<1>1. Cardinality(Open) # PoolSize
  <2>1. Open \subseteq Clients
    BY DEF Open
  <2>2. Cardinality(Open) \in Nat /\ Cardinality(Clients) \in Nat /\ Cardinality(Open) <= Cardinality(Clients)
    BY <2>1, ClientsAssumption, FS_Subset, FS_CardinalityType
  <2> QED BY <2>2, PoolAssumption
<1>2. StallTakesThePool => ((\E p \in Clients : Busy(p)) => \E p \in Clients : Ready(p))
  BY <1>1 DEF StallTakesThePool
<1> QED BY <1>2, OnlyThePoolStalls, PTL
================================================================================
