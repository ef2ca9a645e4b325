----------------------------- MODULE QuestionImport -----------------------------
(***************************************************************************)
(* POST /questions/import, all items in one transaction, and GET           *)
(* /questions with a taxonomy filter.  Both look up stages, textbooks,     *)
(* chapters and assets through this.prisma, that is on another connection, *)
(* while their own transaction holds one; the pool has so many.            *)
(*                                                                         *)
(* Imports create the tags they name.  An upsert of a tag waits for an     *)
(* open transaction that has created or upserted it and then finds what    *)
(* that transaction left.  Prisma gives up on a transaction that waits or  *)
(* lasts too long.                                                         *)
(***************************************************************************)
EXTENDS Naturals, Sequences, FiniteSets

CONSTANTS
  Tags,      \* names of tags
  Batches,   \* what clients import: sequences of [lookup, tags], see Item
  Clients,   \* requests the API is handling at the same time
  PoolSize,  \* database connections of the API process
  MaxStored, \* bound: requests begin while there are no more questions than this
  None       \* no request

(* lookup: the item names something that has to be looked up; tags: its tags *)
(* in their order.                                                          *)
Item == [lookup : BOOLEAN, tags : Seq(Tags)]

ASSUME BatchesAssumption == Batches \subseteq Seq(Item)
ASSUME PoolAssumption == PoolSize \in Nat \ {0}
ASSUME ClientsAssumption == IsFiniteSet(Clients)
ASSUME NoneAssumption == None \notin {"import", "list"}

VARIABLES
  questions,  \* imported questions, as the items they come from: how many of each
  tags,       \* QuestionTag rows
  req         \* the API's requests

table == <<questions, tags>>
vars == <<table, req>>

Ops == {"import", "list"}
ReqPcs == {"idle", "subject", "open", "item", "lookup", "looking", "write", "tag"}

(***************************************************************************)
(* batch: the items, the first of them in hand; names: tags of that item    *)
(* still to be upserted; created, locked: questions the transaction has     *)
(* created and tags it has upserted.                                       *)
(***************************************************************************)
IdleReq == [pc |-> "idle", op |-> None, dryRun |-> FALSE, batch |-> <<>>, names |-> <<>>,
            created |-> <<>>, locked |-> {}]

Busy(p) == req[p].pc # "idle"

Init ==
  /\ questions = <<>>
  /\ tags = {}
  /\ req = [p \in Clients |-> IdleReq]

(* Connections in use: one for an open transaction, another for a lookup.   *)
Open == {p \in Clients : req[p].pc \in {"item", "lookup", "looking", "write", "tag"}}
Looking == {p \in Clients : req[p].pc = "looking"}
FreeConnections == PoolSize - (Cardinality(Open) + Cardinality(Looking))

(* Mutant: what a transaction has upserted stays locked. *)
ReplyHolding(p) == req' = [req EXCEPT ![p] = [IdleReq EXCEPT !.locked = req[p].locked]]

(* The handler returns or throws; an open transaction is rolled back.       *)
Reply(p) == req' = [req EXCEPT ![p] = IdleReq]

Proceed(p, pc) == req' = [req EXCEPT ![p].pc = pc]

-------------------------------------------------------------------------------
Import(p, batch, dryRun) ==
  /\ ~Busy(p) /\ Len(questions) <= MaxStored
  /\ req' = [req EXCEPT ![p] = [IdleReq EXCEPT !.pc = "subject", !.op = "import",
                                               !.batch = batch, !.dryRun = dryRun]]
  /\ UNCHANGED table

(* The filter of a list is looked up like an item's taxonomy.               *)
List(p) ==
  /\ ~Busy(p) /\ Len(questions) <= MaxStored
  /\ req' = [req EXCEPT ![p] = [IdleReq EXCEPT !.pc = "open", !.op = "list",
                                               !.batch = <<[lookup |-> TRUE, tags |-> <<>>]>>]]
  /\ UNCHANGED table

(* The fallback subject; a dry run ends here, whatever its items are.       *)
ReadSubject(p) ==
  /\ req[p].pc = "subject"
  /\ FreeConnections > 0
  /\ IF req[p].dryRun THEN Reply(p) ELSE Proceed(p, "open")
  /\ UNCHANGED table

(* Mutant: nobody waits for a connection. *)
OpenTransactionAnyway(p) ==
  /\ req[p].pc = "open"
  /\ Proceed(p, "item")
  /\ UNCHANGED table

OpenTransaction(p) ==
  /\ req[p].pc = "open"
  /\ FreeConnections > 0
  /\ Proceed(p, "item")
  /\ UNCHANGED table

(* Difficulty, and whether there is anything to look up.                    *)
NextItem(p) ==
  /\ req[p].pc = "item" /\ req[p].batch # <<>>
  /\ \/ Proceed(p, IF Head(req[p].batch).lookup THEN "lookup" ELSE "write")
     \/ req[p].op = "import" /\ Reply(p)
  /\ UNCHANGED table

LookUp(p) ==
  /\ req[p].pc = "lookup"
  /\ FreeConnections > 0
  /\ Proceed(p, "looking")
  /\ UNCHANGED table

(* What is not there, or chapters of other textbooks, refuse the import.    *)
LookedUp(p) ==
  /\ req[p].pc = "looking"
  /\ Proceed(p, "write") \/ Reply(p)
  /\ UNCHANGED table

(* Mutant: the rows are written through this.prisma. *)
WriteQuestionOutside(p) ==
  /\ req[p].pc = "write"
  /\ LET item == Head(req[p].batch) IN
       IF req[p].op = "list" THEN Reply(p) /\ UNCHANGED questions
       ELSE /\ req' = [req EXCEPT ![p].pc = "tag", ![p].names = item.tags]
            /\ questions' = Append(questions, item)
  /\ UNCHANGED tags

(* The question with its content, answers and source.  A list has read its  *)
(* page and is done.                                                       *)
WriteQuestion(p) ==
  /\ req[p].pc = "write"
  /\ LET item == Head(req[p].batch) IN
       IF req[p].op = "list" THEN Reply(p)
       ELSE req' = [req EXCEPT ![p].pc = "tag", ![p].names = item.tags, ![p].created = Append(@, item)]
  /\ UNCHANGED table

(* p's next upsert waits for a tag q has upserted.                          *)
WaitsFor(p, q) == p # q /\ req[p].pc = "tag" /\ req[p].names # <<>> /\ Head(req[p].names) \in req[q].locked

(* Mutant: a tag another transaction has created is taken for granted. *)
UpsertTagUnlocked(p) ==
  /\ req[p].pc = "tag" /\ req[p].names # <<>>
  /\ req' = [req EXCEPT ![p].names = Tail(@),
       ![p].locked = IF \E q \in Clients : WaitsFor(p, q) THEN @ ELSE @ \cup {Head(req[p].names)}]
  /\ UNCHANGED table

(* A tag is upserted by its name, then linked to the question.              *)
UpsertTag(p) ==
  /\ req[p].pc = "tag" /\ req[p].names # <<>>
  /\ \A q \in Clients : ~WaitsFor(p, q)
  /\ req' = [req EXCEPT ![p].names = Tail(@), ![p].locked = @ \cup {Head(req[p].names)}]
  /\ UNCHANGED table

ItemDone(p) ==
  /\ req[p].pc = "tag" /\ req[p].names = <<>>
  /\ req' = [req EXCEPT ![p].pc = "item", ![p].batch = Tail(@)]
  /\ UNCHANGED table

Commit(p) ==
  /\ req[p].pc = "item" /\ req[p].batch = <<>>
  /\ questions' = questions \o req[p].created
  /\ tags' = tags \cup req[p].locked
  /\ Reply(p)

(* Mutant: nothing is given up. *)
NeverGiveUp(p) == FALSE /\ UNCHANGED vars

(* A statement fails, or Prisma gives up waiting for a connection or on a    *)
(* transaction that lasts too long (maxWait, timeout, pool_timeout).        *)
GiveUp(p) ==
  /\ Busy(p)
  /\ Reply(p)
  /\ UNCHANGED table

(* Postgres aborts one of the transactions that wait in a circle.           *)
InCircle(p) ==
  \E circle \in SUBSET Clients :
    /\ p \in circle
    /\ \A q \in circle : \E r \in circle : WaitsFor(q, r)
    /\ \A r \in circle : \E q \in circle : WaitsFor(q, r)

Deadlock(p) ==
  /\ InCircle(p)
  /\ Reply(p)
  /\ UNCHANGED table

-------------------------------------------------------------------------------
Work(p) ==
  \/ ReadSubject(p) \/ OpenTransaction(p) \/ NextItem(p) \/ LookUp(p) \/ LookedUp(p)
  \/ WriteQuestion(p) \/ UpsertTag(p) \/ ItemDone(p) \/ Commit(p) \/ Deadlock(p)

Next ==
  \E p \in Clients :
    \/ \E batch \in Batches, dryRun \in BOOLEAN : Import(p, batch, dryRun)
    \/ List(p)
    \/ Work(p) \/ GiveUp(p)

(* The timers of Prisma go off.                                             *)
Spec == Init /\ [][Next]_vars /\ \A p \in Clients : WF_vars(Work(p) \/ GiveUp(p))

-------------------------------------------------------------------------------
(***************************************************************************)
(* Properties.                                                             *)
(***************************************************************************)

ReqRecord == [pc : ReqPcs, op : Ops \cup {None}, dryRun : BOOLEAN, batch : Seq(Item), names : Seq(Tags),
              created : Seq(Item), locked : SUBSET Tags]

(* Every variable has its type, and no more connections are in use than      *)
(* there are.                                                              *)
TypeOK ==
  /\ questions \in Seq(Item)
  /\ tags \subseteq Tags
  /\ req \in [Clients -> ReqRecord]
  /\ FreeConnections \in Nat

(* An import leaves all of its questions or none, and a dry run or a list    *)
(* leaves nothing, whatever fails, waits or is given up half-way.           *)
ImportIsAtomic ==
  [][questions' # questions =>
       \E p \in Clients, batch \in Batches :
         /\ questions' = questions \o batch
         /\ req[p].op = "import" /\ ~req[p].dryRun /\ req[p].created = batch
         /\ req'[p] = IdleReq]_vars

(* The tags of an imported question are there, also when the import that     *)
(* first created one has been rolled back.                                  *)
TagsAreThere ==
  \A n \in DOMAIN questions : \A k \in DOMAIN questions[n].tags : questions[n].tags[k] \in tags

(* The request waits neither for a connection nor for a tag, or Postgres      *)
(* aborts it.                                                              *)
Ready(p) ==
  /\ Busy(p)
  /\ req[p].pc \in {"subject", "open", "lookup"} => FreeConnections > 0
  /\ (\E q \in Clients : WaitsFor(p, q)) => InCircle(p)

(* Requests that all wait, short of a timeout, hold every connection with    *)
(* their transactions: only lookups through the pool make them wait for one  *)
(* another, tags in whatever order do not.                                  *)
StallTakesThePool ==
  (\E p \in Clients : Busy(p)) /\ ~(\E p \in Clients : Ready(p)) => Cardinality(Open) = PoolSize

(* Every request is answered, also when all connections are held.           *)
EveryRequestAnswered == \A p \in Clients : Busy(p) ~> ~Busy(p)
=================================================================================
