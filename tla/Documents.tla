------------------------------- MODULE Documents -------------------------------
(***************************************************************************)
(* The items of a tenant's documents and their order: DocumentsController, *)
(* and the deletion of the layout elements and questions they refer to.    *)
(*                                                                         *)
(* A handler is one withTenant transaction (a bulk add, one per item) that *)
(* Postgres runs at READ COMMITTED: every statement sees what others have  *)
(* committed by then, and a row a transaction has written is locked until  *)
(* it ends.  Consecutive reads are one action where the handler only       *)
(* refuses on what they find; every statement that writes is an action.    *)
(* Names, scores, statistics and audit records are left out.               *)
(***************************************************************************)
EXTENDS Integers, Sequences, FiniteSets

CONSTANTS
  Docs,      \* documents
  Papers,    \* those of kind paper
  Items,     \* ids of DocumentItem rows
  Questions, \* questions
  Layouts,   \* layout elements
  Clients,   \* requests the API is handling at the same time
  None,      \* no document, no item
  Ops,       \* the requests clients make
  Indexes,   \* bound: the orderIndexes that reorders hand out
  MaxNamed,  \* bound: items in one reorder
  MaxSparse, \* bound: no reorder begins while more documents than this are in sparse
  MaxIndex,  \* bound: nothing is added behind an item with a greater orderIndex
  MaxBulk,   \* bound: items in one bulk add
  MaxOverlaps, \* bound: requests begin while no more documents than this are in overlapped
  Faults     \* {"db"}: a statement may fail

AllOps == {"add", "reorder", "remove", "drop", "dropLayout"}

ASSUME OpsAssumption == Ops \subseteq AllOps
ASSUME PapersAssumption == Papers \subseteq Docs
ASSUME NoneAssumption == None \notin Docs \cup Items \cup Int
ASSUME RefsAssumption ==
  Layouts \cap (Questions \cup Docs) = {} /\ Questions \cap Docs = {} /\ None \notin Questions \cup Layouts
ASSUME ItemsAssumption == IsFiniteSet(Items)
ASSUME ClientsAssumption == IsFiniteSet(Clients)
ASSUME BulkAssumption == MaxBulk \in Nat
ASSUME IndexesAssumption == Indexes \subseteq Int

VARIABLES
  documents,  \* the documents there are
  item,       \* DocumentItem rows: document, what it refers to, orderIndex
  layouts,    \* the layout elements there are
  req,        \* the API's requests
  overlapped, \* history: documents that two requests under way at the same time have named
  sparse,     \* history: documents that a reorder has numbered otherwise than by handing
              \* their items' own numbers round, and no removal has numbered since
  crossed     \* history: layout elements that were deleted while an add had found them, or
              \* inserted while a deletion had found them out of use

table == <<documents, item, layouts>>
history == <<overlapped, sparse, crossed>>
vars == <<table, req, history>>

Blank == [doc |-> None, ref |-> None, index |-> 0]
Live == {i \in Items : item[i].doc # None}
ItemsOf(d) == {i \in Items : item[i].doc = d}
Busy(p) == req[p].pc # "idle"

ReqPcs == {"idle", "addFind", "addLast", "addCreate", "reorderFind", "removeFind",
           "delete", "scan", "apply", "commit", "dropDocument", "layoutCheck", "layoutDelete"}

(***************************************************************************)
(* doc, item, refs: what the request names (refs: items still to be added  *)
(* in a bulk, or the one layout element to delete); index: the orderIndex  *)
(* it gives a new item.  todo: rows its transaction still has to write,    *)
(* and what (None: a DELETE); done: rows it has written, not yet           *)
(* committed, which are the rows it has locked.                            *)
(***************************************************************************)
IdleReq == [pc |-> "idle", op |-> None, doc |-> None, item |-> None, refs |-> <<>>,
            index |-> 0, todo |-> <<>>, done |-> {}]

Init ==
  /\ documents = {}
  /\ item = [i \in Items |-> Blank]
  /\ layouts = Layouts
  /\ req = [p \in Clients |-> IdleReq]
  /\ overlapped = {} /\ sparse = {} /\ crossed = {}

(* Mutant: a handler that throws leaves its transaction open. *)
ReplyHolding(p) == req' = [req EXCEPT ![p] = [IdleReq EXCEPT !.done = req[p].done]]

(* The handler returns or throws, its transaction lets go of its locks.    *)
Reply(p) == req' = [req EXCEPT ![p] = IdleReq]

Proceed(p, pc) == req' = [req EXCEPT ![p].pc = pc]

(* All rows in some order; all rows ORDER BY orderIndex, where ties come in *)
(* any order.                                                              *)
Lists(S) ==
  {s \in [1..Cardinality(S) -> S] :
     /\ \A a, b \in DOMAIN s : s[a] = s[b] => a = b
     /\ \A i \in S : \E a \in DOMAIN s : s[a] = i}

(* Mutant: the rows are not ordered. *)
UnsortedLists(S) == Lists(S)

SortedLists(S) == {s \in Lists(S) : \A a, b \in DOMAIN s : a < b => item[s[a]].index <= item[s[b]].index}

(* items.map((item, index) => update): one write per row, in this order.    *)
Renumber(s) == [a \in DOMAIN s |-> [item |-> s[a], to |-> a - 1]]

(* The transaction has these rows left to write. *)
Then(todo) == IF todo = <<>> THEN "commit" ELSE "apply"

Begin(p, op, r) ==
  /\ op \in Ops
  /\ ~Busy(p)
  /\ Cardinality(overlapped) <= MaxOverlaps
  /\ req' = [req EXCEPT ![p] = r]
  /\ overlapped' = overlapped \cup {d \in Docs : d = r.doc /\ \E q \in Clients \ {p} : req[q].doc = d}
  /\ UNCHANGED <<table, sparse, crossed>>

-------------------------------------------------------------------------------
(***************************************************************************)
(* Handlers of one statement.  An id is new when nothing refers to it.     *)
(***************************************************************************)
Unused(i) ==
  /\ item[i].doc = None
  /\ \A q \in Clients : req[q].item # i /\ \A n \in DOMAIN req[q].todo : req[q].todo[n].item # i

CreateDocument(d) ==
  /\ d \notin documents
  /\ \A p \in Clients : req[p].doc # d
  /\ documents' = documents \cup {d}
  /\ UNCHANGED <<item, layouts, req, history>>

CreateLayout(l) ==
  /\ l \notin layouts
  /\ \A i \in Items : item[i].ref # l
  /\ \A p \in Clients, n \in 1..MaxBulk : n \in DOMAIN req[p].refs => req[p].refs[n] # l
  /\ layouts' = layouts \cup {l}
  /\ UNCHANGED <<documents, item, req, history>>

-------------------------------------------------------------------------------
(***************************************************************************)
(* POST /documents/:id/items and .../bulk.                                 *)
(***************************************************************************)
AddItems(p, d, refs) ==
  /\ \A i \in Items : item[i].index <= MaxIndex
  /\ \A q \in Clients : req[q].index <= MaxIndex
  /\ LET adding == {q \in Clients : req[q].op = "add"} IN
       MaxBulk * Cardinality(adding) + Len(refs) <= Cardinality({i \in Items : Unused(i)})
  /\ Begin(p, "add", [IdleReq EXCEPT !.pc = "addFind", !.op = "add", !.doc = d, !.refs = refs])

(* A question may or may not be there: deleting one (DELETE /questions/:id) *)
(* asks nothing about documents, and nothing here is told of it.           *)
AddFind(p) ==
  /\ req[p].pc = "addFind"
  /\ LET ref == Head(req[p].refs) IN
       \/ /\ \/ req[p].doc \notin documents
             \/ ref \in Questions
             \/ ref \notin layouts \/ req[p].doc \in Papers
          /\ Reply(p)
       \/ /\ req[p].doc \in documents
          /\ ref \in Questions \/ (ref \in layouts /\ req[p].doc \notin Papers)
          /\ Proceed(p, "addLast")
  /\ UNCHANGED <<table, history>>

AddLast(p) ==
  /\ req[p].pc = "addLast"
  /\ LET rows == ItemsOf(req[p].doc)
         next == IF rows = {} THEN {0} ELSE {item[i].index + 1 : i \in rows} IN
       \E n \in next :
         /\ \A i \in rows : item[i].index < n
         /\ req' = [req EXCEPT ![p].pc = "addCreate", ![p].index = n]
  /\ UNCHANGED <<table, history>>

(* A DELETE of the document under way: the foreign key makes an INSERT wait *)
(* for it.                                                                 *)
Dropping(d) == \E q \in Clients : req[q].op = "drop" /\ req[q].doc = d /\ req[q].pc \in {"apply", "commit"}

(* An add has found the layout element; a deletion has found it out of use. *)
Adding(q, l) == req[q].pc \in {"addLast", "addCreate"} /\ Head(req[q].refs) = l
Deleting(q, l) == req[q].pc = "layoutDelete" /\ Head(req[q].refs) = l

(* The INSERT, and COMMIT; then the next item of a bulk, which has the same *)
(* document.                                                               *)
AddCreate(p) ==
  /\ req[p].pc = "addCreate"
  /\ ~Dropping(req[p].doc)
  /\ \/ /\ req[p].doc \in documents
        /\ \E i \in Items :
             /\ Unused(i)
             /\ item' = [item EXCEPT ![i] = [doc |-> req[p].doc, ref |-> Head(req[p].refs), index |-> req[p].index]]
        /\ crossed' = crossed \cup {l \in Layouts : l = Head(req[p].refs) /\ \E q \in Clients : Deleting(q, l)}
        /\ IF Len(req[p].refs) = 1 THEN Reply(p)
           ELSE req' = [req EXCEPT ![p].pc = "addFind", ![p].refs = Tail(@), ![p].index = 0]
     \/ req[p].doc \notin documents /\ UNCHANGED <<item, crossed>> /\ Reply(p)
  /\ UNCHANGED <<documents, layouts, overlapped, sparse>>

-------------------------------------------------------------------------------
(***************************************************************************)
(* PATCH /documents/:id/items/reorder.  The client names any items it has  *)
(* seen, of whatever document, and any orderIndex for each: it need name   *)
(* neither all items nor different numbers.  (An id named twice, or of no  *)
(* item at all, is refused like an item of another document.)              *)
(***************************************************************************)
Reorder(p, d, s, to) ==
  Begin(p, "reorder", [IdleReq EXCEPT !.pc = "reorderFind", !.op = "reorder", !.doc = d,
                                      !.todo = [a \in DOMAIN s |-> [item |-> s[a], to |-> to[s[a]]]]])

(* Mutant: the items are looked up by their ids alone. *)
ReorderFindAnywhere(p) ==
  /\ req[p].pc = "reorderFind"
  /\ LET found == \A n \in DOMAIN req[p].todo : item[req[p].todo[n].item].doc # None IN
       \/ req[p].doc \notin documents /\ Reply(p)
       \/ req[p].doc \in documents /\ ~found /\ Reply(p)
       \/ req[p].doc \in documents /\ found /\ Proceed(p, "apply")
  /\ UNCHANGED <<table, history>>

ReorderFind(p) ==
  /\ req[p].pc = "reorderFind"
  /\ LET found == \A n \in DOMAIN req[p].todo : item[req[p].todo[n].item].doc = req[p].doc IN
       \/ req[p].doc \notin documents /\ Reply(p)
       \/ req[p].doc \in documents /\ ~found /\ Reply(p)
       \/ req[p].doc \in documents /\ found /\ Proceed(p, "apply")
  /\ UNCHANGED <<table, history>>

(***************************************************************************)
(* DELETE /documents/:id/items/:itemId.                                    *)
(***************************************************************************)
RemoveItem(p, d, i) ==
  Begin(p, "remove", [IdleReq EXCEPT !.pc = "removeFind", !.op = "remove", !.doc = d, !.item = i])

(* Mutant: the items that remain keep their indexes. *)
RemoveFindOnly(p) ==
  /\ req[p].pc = "removeFind"
  /\ LET found == req[p].doc \in documents /\ item[req[p].item].doc = req[p].doc IN
       \/ ~found /\ Reply(p)
       \/ found /\ req' = [req EXCEPT ![p].pc = "apply", ![p].todo = <<[item |-> req[p].item, to |-> None]>>]
  /\ UNCHANGED <<table, history>>

RemoveFind(p) ==
  /\ req[p].pc = "removeFind"
  /\ LET found == req[p].doc \in documents /\ item[req[p].item].doc = req[p].doc IN
       \/ ~found /\ Reply(p)
       \/ found /\ req' = [req EXCEPT ![p].pc = "delete", ![p].todo = <<[item |-> req[p].item, to |-> None]>>]
  /\ UNCHANGED <<table, history>>

(* The items that remain, in their order, get the indexes from 0 on. *)
Scan(p) ==
  /\ req[p].pc = "scan"
  /\ \E s \in SortedLists(ItemsOf(req[p].doc) \ {req[p].item}) :
       req' = [req EXCEPT ![p].pc = Then(Renumber(s)), ![p].todo = Renumber(s)]
  /\ UNCHANGED <<table, history>>

(***************************************************************************)
(* DELETE /documents/:id: the row first, then its items (ON DELETE CASCADE *)
(* of the foreign key) in the order Postgres comes upon them.              *)
(***************************************************************************)
RemoveDocument(p, d) ==
  Begin(p, "drop", [IdleReq EXCEPT !.pc = "dropDocument", !.op = "drop", !.doc = d])

(* Mutant: the foreign key does not cascade. *)
DropDocumentOnly(p) ==
  /\ req[p].pc = "dropDocument"
  /\ ~Dropping(req[p].doc)
  /\ IF req[p].doc \in documents THEN Proceed(p, "commit") ELSE Reply(p)
  /\ UNCHANGED <<table, history>>

DropDocument(p) ==
  /\ req[p].pc = "dropDocument"
  /\ ~Dropping(req[p].doc)
  /\ \/ req[p].doc \notin documents /\ Reply(p)
     \/ /\ req[p].doc \in documents
        /\ \E s \in Lists(ItemsOf(req[p].doc)) :
             LET deletes == [a \in DOMAIN s |-> [item |-> s[a], to |-> None]] IN
               req' = [req EXCEPT ![p].pc = Then(deletes), ![p].todo = deletes]
  /\ UNCHANGED <<table, history>>

-------------------------------------------------------------------------------
(***************************************************************************)
(* The writes of a transaction, one statement after the other.             *)
(***************************************************************************)
Holds(q, i) == \E w \in req[q].done : w.item = i

(* p's next write waits for a row that q has locked. *)
Writing(p) == req[p].pc \in {"delete", "apply"}
WaitsFor(p, q) == q # p /\ Writing(p) /\ Holds(q, Head(req[p].todo).item)

(* A row that is gone makes an UPDATE or DELETE by id fail (P2025), and is  *)
(* skipped by a cascade.                                                   *)
Apply(p) ==
  /\ Writing(p)
  /\ \A q \in Clients : ~WaitsFor(p, q)
  /\ LET w == Head(req[p].todo)
         rest == Tail(req[p].todo)
         gone == item[w.item].doc = None IN
       \/ gone /\ req[p].op # "drop" /\ Reply(p)
       \/ /\ gone => req[p].op = "drop"
          /\ req' = [req EXCEPT ![p].pc = IF req[p].pc = "delete" THEN "scan" ELSE Then(rest),
                                ![p].todo = rest,
                                ![p].done = IF gone THEN @ ELSE @ \cup {w}]
  /\ UNCHANGED <<table, history>>

(* Postgres aborts one of the transactions that wait in a circle. *)
InCircle(p) ==
  \E circle \in SUBSET Clients :
    /\ p \in circle
    /\ \A q \in circle : \E r \in circle : WaitsFor(q, r)
    /\ \A r \in circle : \E q \in circle : WaitsFor(q, r)

Deadlock(p) ==
  /\ InCircle(p)
  /\ Reply(p)
  /\ UNCHANGED <<table, history>>

Written(p, i) ==
  IF [item |-> i, to |-> None] \in req[p].done THEN Blank
  ELSE IF Holds(p, i) THEN [item[i] EXCEPT !.index = (CHOOSE w \in req[p].done : w.item = i).to]
  ELSE item[i]

(* The items written get the numbers that they had, each from one of them.  *)
Permutes(p) ==
  /\ {w.to : w \in req[p].done} = {item[w.item].index : w \in req[p].done}
  /\ \A w, v \in req[p].done : w.to = v.to => w = v

Commit(p) ==
  /\ req[p].pc = "commit"
  /\ item' = [i \in Items |-> Written(p, i)]
  /\ documents' = IF req[p].op = "drop" THEN documents \ {req[p].doc} ELSE documents
  /\ sparse' = IF req[p].op # "reorder" THEN sparse \ {req[p].doc}
               ELSE IF Permutes(p) THEN sparse ELSE sparse \cup {req[p].doc}
  /\ Reply(p)
  /\ UNCHANGED <<layouts, overlapped, crossed>>

-------------------------------------------------------------------------------
(***************************************************************************)
(* DELETE /layout-elements/:id.                                            *)
(***************************************************************************)
RemoveLayout(p, l) ==
  Begin(p, "dropLayout", [IdleReq EXCEPT !.pc = "layoutCheck", !.op = "dropLayout", !.refs = <<l>>])

(* Mutant: a layout element is deleted whether or not it is in use. *)
LayoutUnchecked(p) ==
  /\ req[p].pc = "layoutCheck"
  /\ LET l == Head(req[p].refs) IN
       \/ l \notin layouts /\ Reply(p)
       \/ l \in layouts /\ Proceed(p, "layoutDelete")
  /\ UNCHANGED <<table, history>>

LayoutCheck(p) ==
  /\ req[p].pc = "layoutCheck"
  /\ LET l == Head(req[p].refs)
         inUse == \E i \in Items : item[i].ref = l IN
       \/ l \notin layouts /\ Reply(p)
       \/ l \in layouts /\ inUse /\ Reply(p)
       \/ l \in layouts /\ ~inUse /\ Proceed(p, "layoutDelete")
  /\ UNCHANGED <<table, history>>

LayoutDelete(p) ==
  /\ req[p].pc = "layoutDelete"
  /\ layouts' = layouts \ {Head(req[p].refs)}
  /\ crossed' = crossed \cup {l \in Layouts : l = Head(req[p].refs) /\ \E q \in Clients : Adding(q, l)}
  /\ Reply(p)
  /\ UNCHANGED <<documents, item, overlapped, sparse>>

(* A statement fails: the handler throws, its transaction is rolled back.  *)
StatementFails(p) ==
  /\ "db" \in Faults
  /\ Busy(p)
  /\ Reply(p)
  /\ UNCHANGED <<table, history>>

-------------------------------------------------------------------------------
(* What one bulk may name. *)
Refs == UNION {[1..n -> Questions \cup Layouts] : n \in 1..MaxBulk}

Start(p) ==
  /\ ~Busy(p)
  /\ \E d \in Docs :
       \/ \E refs \in Refs : AddItems(p, d, refs)
       \/ /\ Cardinality(sparse) <= MaxSparse
          /\ \E S \in SUBSET Live :
               /\ Cardinality(S) \in 1..MaxNamed
               /\ \E s \in Lists(S), to \in [S -> Indexes] : Reorder(p, d, s, to)
       \/ \E i \in Items : item[i].doc # None /\ RemoveItem(p, d, i)
       \/ RemoveDocument(p, d)

Continue(p) ==
  \/ AddFind(p) \/ AddLast(p) \/ AddCreate(p)
  \/ ReorderFind(p)
  \/ RemoveFind(p) \/ Scan(p)
  \/ DropDocument(p)
  \/ Apply(p) \/ Deadlock(p) \/ Commit(p)
  \/ LayoutCheck(p) \/ LayoutDelete(p)

Next ==
  \/ \E d \in Docs : CreateDocument(d)
  \/ \E l \in Layouts : CreateLayout(l)
  \/ \E p \in Clients :
       \/ Start(p) \/ Continue(p) \/ StatementFails(p)
       \/ \E l \in Layouts : RemoveLayout(p, l)

Spec == Init /\ [][Next]_vars

-------------------------------------------------------------------------------
(***************************************************************************)
(* Properties.                                                             *)
(***************************************************************************)

ItemRow == [doc : Docs \cup {None}, ref : Questions \cup Layouts \cup {None}, index : Int]
WriteOf == [item : Items, to : Int \cup {None}]
ReqRecord == [pc : ReqPcs, op : AllOps \cup {None}, doc : Docs \cup {None}, item : Items \cup {None},
              refs : Seq(Questions \cup Layouts), index : Int, todo : Seq(WriteOf),
              done : SUBSET WriteOf]

(* Every variable has its type, and a row belongs to a document there is:   *)
(* the foreign key, which addItem, remove and the cascade rely on.         *)
TypeOK ==
  /\ documents \subseteq Docs /\ layouts \subseteq Layouts
  /\ item \in [Items -> ItemRow]
  /\ \A i \in Items : item[i].doc \in documents \/ item[i] = Blank
  /\ req \in [Clients -> ReqRecord]
  /\ overlapped \subseteq Docs /\ sparse \subseteq Docs /\ crossed \subseteq Layouts

(* A request changes nothing but items of the document it names, whatever   *)
(* it was sent and whatever else is under way: an item never changes its    *)
(* document or what it refers to, and it goes only with its document or     *)
(* when it is itself removed.                                               *)
OnlyWhatWasAsked ==
  [][\A i \in Items : item'[i] # item[i] =>
       \E p \in Clients :
         /\ req[p].pc \in {"addCreate", "commit"} /\ ~req'[p].pc = req[p].pc
         /\ req[p].doc \in {item[i].doc, item'[i].doc}
         /\ i \notin Live => req[p].op = "add"
         /\ i \in Live /\ item'[i] = Blank => req[p].op = "drop" \/ (req[p].op = "remove" /\ req[p].item = i)
         /\ i \in Live /\ item'[i] # Blank => [item'[i] EXCEPT !.index = item[i].index] = item[i]]_vars

(* orderIndex counts the items of a document from 0, whatever was added,     *)
(* removed, reordered or failed, as long as no two requests about it have    *)
(* overlapped and no reorder has given its items other numbers than those    *)
(* they had; and the next removal of an item mends what a reorder did.       *)
Dense ==
  \A i \in Live : item[i].doc \notin overlapped \cup sparse =>
    /\ \A j \in Live \ {i} : item[j].doc = item[i].doc => item[j].index # item[i].index
    /\ item[i].index = 0 \/ \E j \in ItemsOf(item[i].doc) : item[j].index + 1 = item[i].index

(* No document refers to a layout element that is gone, whatever requests     *)
(* overlap, but where an add inserts what is deleted between its lookup and  *)
(* its insert, or inserts it between the check of a deletion and the DELETE: *)
(* there is no foreign key.  No paper refers to any, whatever overlaps.      *)
LayoutsKept ==
  \A i \in Live : item[i].ref \in Layouts =>
    /\ item[i].ref \notin crossed => item[i].ref \in layouts
    /\ item[i].doc \notin Papers

(* Each document behaves as DocumentOrder describes, by the order in which    *)
(* its orderIndexes put its items, until two requests about it overlap: from *)
(* then on it counts as discarded.                                         *)
Content == [d \in Docs |-> IF d \in overlapped THEN {} ELSE ItemsOf(d)]
Before ==
  [d \in Docs |-> {x \in Content[d] \X Content[d] : item[x[1]].index < item[x[2]].index}]

Order == INSTANCE DocumentOrder WITH content <- Content, before <- Before

ImplementsOrder ==
  Order!Init /\ [][UNCHANGED <<item, overlapped>> \/ Order!Next]_<<Content, Before>>

(* The request waits for nobody, or Postgres aborts it.                     *)
Unhindered(p) ==
  /\ Busy(p)
  /\ \A q \in Clients : ~WaitsFor(p, q)
  /\ req[p].pc \in {"addCreate", "dropDocument"} => ~Dropping(req[p].doc)
Ready(p) == Unhindered(p) \/ InCircle(p)

(* Nobody waits for ever: as long as a request is under way one of them is  *)
(* ready, in whatever order reorders, removals and deletions of documents   *)
(* lock the rows, and an add that waits for a deletion has locked nothing.  *)
NobodyIsStuck == (\E p \in Clients : Busy(p)) => \E p \in Clients : Ready(p)
===============================================================================
