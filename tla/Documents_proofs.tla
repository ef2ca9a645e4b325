--------------------------- MODULE Documents_proofs ---------------------------
(***************************************************************************)
(* Theorems about Documents, for any documents, items and requests.        *)
(***************************************************************************)
EXTENDS Documents, FiniteFacts, TLAPS

-------------------------------------------------------------------------------
(* What a request holds where it is.                                        *)

AddPcs == {"addFind", "addLast", "addCreate"}
WritePcs == {"delete", "scan", "apply", "commit"}

(* Only a removal or a deletion of the document deletes a row.              *)
Deletes(r, w) == w.to = None => r.op = "drop" \/ (r.op = "remove" /\ w.item = r.item)

Shape(r) ==
  /\ r \in ReqRecord
  /\ r.pc \in AddPcs => r.op = "add" /\ r.doc \in Docs /\ r.refs # <<>>
  /\ r.pc \in {"layoutCheck", "layoutDelete"} => r.refs # <<>>
  /\ r.pc \in {"reorderFind", "removeFind", "dropDocument"} \cup WritePcs => r.doc \in Docs
  /\ r.pc = "reorderFind" => r.op = "reorder" /\ r.todo # <<>>
  /\ r.pc \in {"removeFind", "delete", "scan"} => r.op = "remove" /\ r.item \in Items
  /\ r.pc = "dropDocument" => r.op = "drop"
  /\ r.pc \in WritePcs => r.op \in {"reorder", "remove", "drop"}
  /\ r.pc \notin WritePcs => r.done = {}
  /\ r.pc \in {"delete", "apply"} => r.todo # <<>>
  /\ r.pc = "commit" => r.todo = <<>>
  /\ \A n \in DOMAIN r.todo : Deletes(r, r.todo[n]) /\ (r.op = "drop" => r.todo[n].to = None)
  /\ \A w \in r.done : Deletes(r, w) /\ (r.op = "drop" => w.to = None)

(* What a transaction is to write belongs to its document or is gone by now; *)
(* what it has written is still there; a deletion misses no item.           *)
Aim(r) ==
  /\ r.pc \in {"delete", "apply"} => \A n \in DOMAIN r.todo : item[r.todo[n].item].doc \in {r.doc, None}
  /\ \A w \in r.done : item[w.item].doc = r.doc
  /\ r.op = "drop" /\ r.pc \in {"apply", "commit"} =>
       \A i \in ItemsOf(r.doc) : (\E n \in DOMAIN r.todo : r.todo[n].item = i) \/ \E w \in r.done : w.item = i

(* No two transactions have written the same row. *)
Exclusive == \A p, q \in Clients : \A w \in req[p].done, v \in req[q].done : w.item = v.item => p = q

TableOK ==
  /\ documents \subseteq Docs /\ layouts \subseteq Layouts
  /\ item \in [Items -> ItemRow]
  /\ \A i \in Items : item[i].doc \in documents \/ item[i] = Blank

ReqsOK == req \in [Clients -> ReqRecord] /\ (\A p \in Clients : Shape(req[p]) /\ Aim(req[p])) /\ Exclusive

HistoryOK == overlapped \subseteq Docs /\ sparse \subseteq Docs /\ crossed \subseteq Layouts

Inv == TableOK /\ ReqsOK /\ HistoryOK

LEMMA IdleOK == Shape(IdleReq) /\ Aim(IdleReq) /\ IdleReq.done = {} /\ IdleReq.pc = "idle"
<1>1. IdleReq \in ReqRecord
  BY DEF IdleReq, ReqRecord, ReqPcs
<1>2. IdleReq.pc = "idle" /\ IdleReq.done = {} /\ IdleReq.todo = <<>>
  BY DEF IdleReq
<1> QED BY <1>1, <1>2 DEF Shape, Aim, AddPcs, WritePcs

(* A step of one request that leaves the table alone. *)
LEMMA Replaced ==
  ASSUME ReqsOK, UNCHANGED item, NEW p \in Clients, NEW r, Shape(r), Aim(r),
         \A w \in r.done : \A q \in Clients \ {p} : ~Holds(q, w.item),
         req' = [req EXCEPT ![p] = r]
  PROVE  ReqsOK'
<1>1. \A q \in Clients : req'[q] = IF q = p THEN r ELSE req[q]
  BY DEF ReqsOK
<1>2. r \in ReqRecord
  BY DEF Shape
<1>3. req' \in [Clients -> ReqRecord]
  BY <1>2 DEF ReqsOK
<1>5. \A q \in Clients : Shape(req'[q]) /\ Aim(req[q])'
  <2> TAKE q \in Clients
  <2>1. CASE q = p
    <3>1. req'[q] = r
      BY <1>1, <2>1
    <3>2. Aim(req'[q])
      BY <3>1
    <3> QED BY <3>1, <3>2 DEF Aim, ItemsOf
  <2>2. CASE q # p
    <3>1. req'[q] = req[q]
      BY <1>1, <2>2
    <3>2. Aim(req[q]) /\ Shape(req[q])
      BY DEF ReqsOK
    <3> QED BY <3>1, <3>2 DEF Aim, ItemsOf
  <2> QED BY <2>1, <2>2
<1>6. Exclusive'
  <2> SUFFICES ASSUME NEW a \in Clients, NEW b \in Clients, NEW w \in req'[a].done, NEW v \in req'[b].done,
                      w.item = v.item, a # b
               PROVE  FALSE
    BY DEF Exclusive
  <2>1. CASE a # p /\ b # p
    BY <1>1, <2>1 DEF ReqsOK, Exclusive
  <2>2. CASE a = p
    BY <1>1, <2>2 DEF Holds
  <2>3. CASE b = p
    BY <1>1, <2>3 DEF Holds
  <2> QED BY <2>1, <2>2, <2>3
<1> QED BY <1>3, <1>5, <1>6 DEF ReqsOK

LEMMA ReplyOK ==
  ASSUME ReqsOK, UNCHANGED item, NEW p \in Clients, Reply(p)
  PROVE  ReqsOK'
BY IdleOK, Replaced DEF Reply

LEMMA Seen ==
  ASSUME ReqsOK, NEW p \in Clients
  PROVE  /\ Shape(req[p]) /\ Aim(req[p]) /\ req[p] \in ReqRecord
         /\ \A w \in req[p].done : \A q \in Clients \ {p} : ~Holds(q, w.item)
BY DEF ReqsOK, Shape, Exclusive, Holds

LEMMA ListsAreSeqs ==
  ASSUME NEW S \in SUBSET Items, NEW s \in Lists(S)
  PROVE  /\ s \in Seq(S) /\ \A i \in S : \E a \in DOMAIN s : s[a] = i
         /\ Cardinality(S) > 0 => s # <<>>
<1>1. Cardinality(S) \in Nat
  BY ItemsAssumption, FS_Subset, FS_CardinalityType
<1> QED BY <1>1 DEF Lists

LEMMA Renumbered ==
  ASSUME NEW S \in SUBSET Items, NEW s \in Lists(S)
  PROVE  /\ Renumber(s) \in Seq(WriteOf)
         /\ \A n \in DOMAIN Renumber(s) : Renumber(s)[n].item \in S /\ Renumber(s)[n].to \in Nat
         /\ Cardinality(S) > 0 => Renumber(s) # <<>>
<1>1. s \in Seq(S) /\ (Cardinality(S) > 0 => s # <<>>)
  BY ListsAreSeqs
<1>2. DOMAIN Renumber(s) = 1..Len(s) /\ Len(s) \in Nat
  BY <1>1 DEF Renumber
<1>3. \A n \in 1..Len(s) : Renumber(s)[n] = [item |-> s[n], to |-> n - 1] /\ s[n] \in S /\ n - 1 \in Nat
  BY <1>1 DEF Renumber
<1>4. \A n \in 1..Len(s) : Renumber(s)[n] \in WriteOf
  <2> TAKE n \in 1..Len(s)
  <2>0. s[n] \in S /\ n - 1 \in Nat
    BY <1>3
  <2>1. s[n] \in Items /\ n - 1 \in Int \cup {None}
    BY <2>0
  <2>2. \A i \in Items, to \in Int \cup {None} : [item |-> i, to |-> to] \in WriteOf
    BY DEF WriteOf
  <2> QED BY <1>3, <2>1, <2>2
<1>5. Renumber(s) \in [1..Len(s) -> WriteOf]
  BY <1>2, <1>4 DEF Renumber
<1>6. Renumber(s) \in Seq(WriteOf)
  BY <1>2, <1>5
<1>7. \A n \in DOMAIN Renumber(s) : Renumber(s)[n].item \in S /\ Renumber(s)[n].to \in Nat
  BY <1>2, <1>3
<1>8. s # <<>> => Renumber(s) # <<>>
  BY <1>1, <1>2
<1> QED BY <1>1, <1>6, <1>7, <1>8

(* What a reorder is to write: one number for each of the items it names. *)
Body(s, to) == [a \in DOMAIN s |-> [item |-> s[a], to |-> to[s[a]]]]

LEMMA BodyFacts ==
  ASSUME NEW S \in SUBSET Live, NEW s \in Lists(S), NEW to \in [S -> Indexes], Cardinality(S) \in 1..MaxNamed
  PROVE  /\ Body(s, to) \in Seq(WriteOf) /\ Body(s, to) # <<>>
         /\ \A n \in DOMAIN Body(s, to) : Body(s, to)[n].to \in Int
         /\ \A n, m \in DOMAIN Body(s, to) : Body(s, to)[n].item = Body(s, to)[m].item => Body(s, to)[n] = Body(s, to)[m]
<1>1. S \in SUBSET Items
  BY DEF Live
<1>2. Cardinality(S) \in Nat /\ Cardinality(S) > 0
  <2>1. Cardinality(S) \in Nat
    BY <1>1, ItemsAssumption, FS_Subset, FS_CardinalityType
  <2> QED BY <2>1
<1>3. s \in Seq(S) /\ s # <<>>
  BY <1>1, <1>2, ListsAreSeqs
<1>4. DOMAIN Body(s, to) = 1..Len(s) /\ Len(s) \in Nat
  BY <1>3 DEF Body
<1>5. \A n \in 1..Len(s) : Body(s, to)[n] = [item |-> s[n], to |-> to[s[n]]] /\ s[n] \in S /\ to[s[n]] \in Int
  <2> TAKE n \in 1..Len(s)
  <2>1. n \in DOMAIN s /\ s[n] \in S
    BY <1>3
  <2>2. to[s[n]] \in Indexes
    BY <2>1
  <2> QED BY <2>1, <2>2, IndexesAssumption DEF Body
<1>6. \A n \in 1..Len(s) : Body(s, to)[n] \in WriteOf
  <2> TAKE n \in 1..Len(s)
  <2>1. s[n] \in Items /\ to[s[n]] \in Int \cup {None}
    BY <1>1, <1>5
  <2>2. \A i \in Items, k \in Int \cup {None} : [item |-> i, to |-> k] \in WriteOf
    BY DEF WriteOf
  <2> QED BY <1>5, <2>1, <2>2
<1>7. Body(s, to) \in [1..Len(s) -> WriteOf]
  BY <1>4, <1>6 DEF Body
<1>8. Body(s, to) \in Seq(WriteOf)
  BY <1>4, <1>7
<1>9. Body(s, to) # <<>>
  BY <1>3, <1>4
<1>10. \A n \in DOMAIN Body(s, to) : Body(s, to)[n].item = s[n] /\ Body(s, to)[n].to = to[s[n]]
  BY <1>4, <1>5
<1>11. \A n, m \in DOMAIN Body(s, to) : Body(s, to)[n].item = Body(s, to)[m].item => Body(s, to)[n] = Body(s, to)[m]
  BY <1>4, <1>5, <1>10
<1> QED BY <1>4, <1>5, <1>8, <1>9, <1>10, <1>11

-------------------------------------------------------------------------------
(* Requests begin.                                                         *)

LEMMA BeginOK ==
  ASSUME Inv, NEW p \in Clients, NEW op, NEW r, Shape(r), Aim(r), r.done = {}, Begin(p, op, r)
  PROVE  Inv'
<1>1. ReqsOK'
  BY Replaced DEF Begin, Inv, table
<1>2. HistoryOK'
  BY DEF Begin, Inv, HistoryOK
<1> QED BY <1>1, <1>2 DEF Begin, Inv, table, TableOK

LEMMA StartOK ==
  ASSUME Inv, NEW p \in Clients, Start(p) \/ \E l \in Layouts : RemoveLayout(p, l)
  PROVE  Inv'
<1>1. IdleReq \in ReqRecord
  BY IdleOK DEF Shape
<1>2. ASSUME NEW d \in Docs, NEW refs \in Refs, AddItems(p, d, refs) PROVE Inv'
  <2> DEFINE r == [IdleReq EXCEPT !.pc = "addFind", !.op = "add", !.doc = d, !.refs = refs]
  <2>1. refs \in Seq(Questions \cup Layouts) /\ refs # <<>>
    BY BulkAssumption, <1>2 DEF Refs
  <2>2. /\ r.pc = "addFind" /\ r.op = "add" /\ r.doc = d /\ r.refs = refs /\ r.todo = <<>> /\ r.done = {}
    BY DEF IdleReq
  <2>3. r \in ReqRecord
    BY <1>1, <2>1 DEF ReqRecord, ReqPcs, AllOps
  <2>4. Begin(p, "add", r)
    BY <1>2 DEF AddItems
  <2> HIDE DEF r
  <2>5. Shape(r) /\ Aim(r)
    BY <2>1, <2>2, <2>3 DEF Shape, Aim, AddPcs, WritePcs
  <2> QED BY <2>2, <2>4, <2>5, BeginOK
<1>3. ASSUME NEW d \in Docs, NEW S \in SUBSET Live, Cardinality(S) \in 1..MaxNamed, NEW s \in Lists(S),
             NEW to \in [S -> Indexes], Reorder(p, d, s, to)
      PROVE  Inv'
  <2> DEFINE todo == Body(s, to)
             r == [IdleReq EXCEPT !.pc = "reorderFind", !.op = "reorder", !.doc = d, !.todo = todo]
  <2>1. todo \in Seq(WriteOf) /\ todo # <<>> /\ \A n \in DOMAIN todo : todo[n].to \in Int
    BY <1>3, BodyFacts
  <2>4. Begin(p, "reorder", r)
    BY <1>3 DEF Reorder, Body
  <2> HIDE DEF todo
  <2>2. /\ r.pc = "reorderFind" /\ r.op = "reorder" /\ r.doc = d /\ r.todo = todo /\ r.done = {}
    BY DEF IdleReq
  <2>3. r \in ReqRecord
    BY <1>1, <2>1 DEF ReqRecord, ReqPcs, AllOps
  <2> HIDE DEF r
  <2>5. \A n \in DOMAIN r.todo : Deletes(r, r.todo[n])
    BY <2>1, <2>2, NoneAssumption DEF Deletes
  <2>6. Shape(r) /\ Aim(r)
    BY <2>1, <2>2, <2>3, <2>5 DEF Shape, Aim, AddPcs, WritePcs
  <2> QED BY <2>2, <2>4, <2>6, BeginOK
<1>4. ASSUME NEW d \in Docs, NEW i \in Items, RemoveItem(p, d, i) PROVE Inv'
  <2> DEFINE r == [IdleReq EXCEPT !.pc = "removeFind", !.op = "remove", !.doc = d, !.item = i]
  <2>2. /\ r.pc = "removeFind" /\ r.op = "remove" /\ r.doc = d /\ r.item = i /\ r.todo = <<>> /\ r.done = {}
    BY DEF IdleReq
  <2>3. r \in ReqRecord
    BY <1>1 DEF ReqRecord, ReqPcs, AllOps
  <2>4. Begin(p, "remove", r)
    BY <1>4 DEF RemoveItem
  <2> HIDE DEF r
  <2>5. Shape(r) /\ Aim(r)
    BY <2>2, <2>3 DEF Shape, Aim, AddPcs, WritePcs
  <2> QED BY <2>2, <2>4, <2>5, BeginOK
<1>5. ASSUME NEW d \in Docs, RemoveDocument(p, d) PROVE Inv'
  <2> DEFINE r == [IdleReq EXCEPT !.pc = "dropDocument", !.op = "drop", !.doc = d]
  <2>2. /\ r.pc = "dropDocument" /\ r.op = "drop" /\ r.doc = d /\ r.todo = <<>> /\ r.done = {}
    BY DEF IdleReq
  <2>3. r \in ReqRecord
    BY <1>1 DEF ReqRecord, ReqPcs, AllOps
  <2>4. Begin(p, "drop", r)
    BY <1>5 DEF RemoveDocument
  <2> HIDE DEF r
  <2>5. Shape(r) /\ Aim(r)
    BY <2>2, <2>3 DEF Shape, Aim, AddPcs, WritePcs
  <2> QED BY <2>2, <2>4, <2>5, BeginOK
<1>6. ASSUME NEW l \in Layouts, RemoveLayout(p, l) PROVE Inv'
  <2> DEFINE r == [IdleReq EXCEPT !.pc = "layoutCheck", !.op = "dropLayout", !.refs = <<l>>]
  <2>2. /\ r.pc = "layoutCheck" /\ r.op = "dropLayout" /\ r.refs = <<l>> /\ r.todo = <<>> /\ r.done = {}
    BY DEF IdleReq
  <2>1. <<l>> \in Seq(Questions \cup Layouts) /\ <<l>> # <<>>
    OBVIOUS
  <2>3. r \in ReqRecord
    BY <1>1, <2>1 DEF ReqRecord, ReqPcs, AllOps
  <2>4. Begin(p, "dropLayout", r)
    BY <1>6 DEF RemoveLayout
  <2> HIDE DEF r
  <2>5. Shape(r) /\ Aim(r)
    BY <2>2, <2>3 DEF Shape, Aim, AddPcs, WritePcs
  <2> QED BY <2>2, <2>4, <2>5, BeginOK
<1> QED BY <1>2, <1>3, <1>4, <1>5, <1>6 DEF Start

-------------------------------------------------------------------------------
(* Steps that read, or write what is not yet committed.                     *)

LEMMA Popped ==
  ASSUME NEW S, NEW s \in Seq(S), s # <<>>
  PROVE  /\ Head(s) \in S /\ Tail(s) \in Seq(S) /\ 1 \in DOMAIN s /\ Head(s) = s[1]
         /\ \A n \in DOMAIN Tail(s) : n + 1 \in DOMAIN s /\ Tail(s)[n] = s[n + 1]
         /\ \A n \in DOMAIN s : s[n] = Head(s) \/ \E m \in DOMAIN Tail(s) : Tail(s)[m] = s[n]
<1>1. Head(s) \in S /\ Tail(s) \in Seq(S) /\ 1 \in DOMAIN s /\ Head(s) = s[1]
  OBVIOUS
<1>2. \A n \in DOMAIN Tail(s) : n + 1 \in DOMAIN s /\ Tail(s)[n] = s[n + 1]
  OBVIOUS
<1>3. ASSUME NEW n \in DOMAIN s, n # 1 PROVE \E m \in DOMAIN Tail(s) : Tail(s)[m] = s[n]
  <2>1. n \in 1..Len(s) /\ n > 1
    BY <1>3
  <2>2. n - 1 \in DOMAIN Tail(s) /\ Tail(s)[n - 1] = s[n]
    BY <2>1
  <2> QED BY <2>2
<1> QED BY <1>1, <1>2, <1>3

LEMMA LongTail ==
  ASSUME NEW S, NEW s \in Seq(S), s # <<>>, Len(s) # 1
  PROVE  Tail(s) \in Seq(S) /\ Tail(s) # <<>>
<1>1. Len(s) \in Nat /\ Len(s) # 0
  OBVIOUS
<1>2. Len(s) > 1
  <2>1. \A n \in Nat : n # 0 /\ n # 1 => n > 1
    OBVIOUS
  <2> QED BY <1>1, <2>1
<1>3. Tail(s) \in Seq(S) /\ Len(Tail(s)) = Len(s) - 1
  OBVIOUS
<1>4. Len(Tail(s)) # 0
  BY <1>1, <1>2, <1>3
<1> QED BY <1>3, <1>4

LEMMA AddOK ==
  ASSUME ReqsOK, TableOK, NEW p \in Clients, AddFind(p) \/ AddLast(p), UNCHANGED item
  PROVE  ReqsOK'
<1>1. Shape(req[p]) /\ Aim(req[p]) /\ req[p] \in ReqRecord
  BY Seen
<1>2. CASE Reply(p)
  BY <1>2, ReplyOK
<1>3. CASE Proceed(p, "addLast") /\ req[p].pc = "addFind"
  <2> DEFINE r == [req[p] EXCEPT !.pc = "addLast"]
  <2>1. req' = [req EXCEPT ![p] = r]
    BY <1>3 DEF Proceed, ReqsOK
  <2>2. r \in ReqRecord
    BY <1>1 DEF ReqRecord, ReqPcs
  <2>3. /\ r.pc = "addLast" /\ r.op = req[p].op /\ r.doc = req[p].doc /\ r.item = req[p].item
        /\ r.refs = req[p].refs /\ r.todo = req[p].todo /\ r.done = req[p].done
    BY <1>1 DEF ReqRecord
  <2> HIDE DEF r
  <2>4. Shape(r) /\ Aim(r) /\ r.done = {}
    BY <1>1, <1>3, <2>2, <2>3 DEF Shape, Aim, AddPcs, WritePcs, Deletes
  <2> QED BY <2>1, <2>4, Replaced
<1>4. CASE AddLast(p)
  <2>1. PICK n : /\ n \in IF ItemsOf(req[p].doc) = {} THEN {0} ELSE {item[i].index + 1 : i \in ItemsOf(req[p].doc)}
                 /\ req' = [req EXCEPT ![p].pc = "addCreate", ![p].index = n]
    BY <1>4 DEF AddLast
  <2>2. n \in Int
    BY <2>1 DEF TableOK, ItemRow, ItemsOf
  <2> DEFINE r == [req[p] EXCEPT !.pc = "addCreate", !.index = n]
  <2>3. req' = [req EXCEPT ![p] = r]
    BY <2>1 DEF ReqsOK
  <2>4. r \in ReqRecord
    BY <1>1, <2>2 DEF ReqRecord, ReqPcs
  <2>5. /\ r.pc = "addCreate" /\ r.op = req[p].op /\ r.doc = req[p].doc /\ r.item = req[p].item
        /\ r.refs = req[p].refs /\ r.todo = req[p].todo /\ r.done = req[p].done
    BY <1>1 DEF ReqRecord
  <2> HIDE DEF r
  <2>6. req[p].pc = "addLast"
    BY <1>4 DEF AddLast
  <2>7. Shape(r) /\ Aim(r) /\ r.done = {}
    BY <1>1, <2>4, <2>5, <2>6 DEF Shape, Aim, AddPcs, WritePcs, Deletes
  <2> QED BY <2>3, <2>7, Replaced
<1> QED BY <1>2, <1>3, <1>4 DEF AddFind

LEMMA FindOK ==
  ASSUME ReqsOK, TableOK, NEW p \in Clients, ReorderFind(p) \/ RemoveFind(p) \/ LayoutCheck(p), UNCHANGED item
  PROVE  ReqsOK'
<1>1. Shape(req[p]) /\ Aim(req[p]) /\ req[p] \in ReqRecord
  BY Seen
<1>2. CASE Reply(p)
  BY <1>2, ReplyOK
<1>3. CASE ReorderFind(p) /\ ~Reply(p)
  <2> DEFINE r == [req[p] EXCEPT !.pc = "apply"]
  <2>1. /\ req' = [req EXCEPT ![p] = r] /\ req[p].pc = "reorderFind"
        /\ \A n \in DOMAIN req[p].todo : item[req[p].todo[n].item].doc = req[p].doc
    BY <1>3 DEF ReorderFind, Proceed, ReqsOK
  <2>2. r \in ReqRecord
    BY <1>1 DEF ReqRecord, ReqPcs
  <2>3. /\ r.pc = "apply" /\ r.op = req[p].op /\ r.doc = req[p].doc /\ r.item = req[p].item
        /\ r.refs = req[p].refs /\ r.todo = req[p].todo /\ r.done = req[p].done
    BY <1>1 DEF ReqRecord
  <2> HIDE DEF r
  <2>4. Shape(r) /\ r.done = {}
    BY <1>1, <2>1, <2>2, <2>3 DEF Shape, AddPcs, WritePcs, Deletes
  <2>5. r.op # "drop"
    BY <1>1, <2>1, <2>3 DEF Shape
  <2>6. Aim(r)
    BY <2>1, <2>3, <2>4, <2>5 DEF Aim
  <2> QED BY <2>1, <2>4, <2>6, Replaced
<1>4. CASE RemoveFind(p) /\ ~Reply(p)
  <2> DEFINE w == [item |-> req[p].item, to |-> None]
             r == [req[p] EXCEPT !.pc = "delete", !.todo = <<w>>]
  <2>1. req' = [req EXCEPT ![p] = r] /\ req[p].pc = "removeFind" /\ item[req[p].item].doc = req[p].doc
    BY <1>4 DEF RemoveFind, ReqsOK
  <2>2. w \in WriteOf /\ w.item = req[p].item /\ w.to = None
    BY <1>1, <2>1 DEF WriteOf, Shape
  <2> HIDE DEF w
  <2>3. <<w>> \in Seq(WriteOf) /\ <<w>> # <<>> /\ DOMAIN <<w>> = {1} /\ <<w>>[1] = w
    BY <2>2
  <2>4. r \in ReqRecord
    BY <1>1, <2>3 DEF ReqRecord, ReqPcs
  <2>5. /\ r.pc = "delete" /\ r.op = req[p].op /\ r.doc = req[p].doc /\ r.item = req[p].item
        /\ r.refs = req[p].refs /\ r.todo = <<w>> /\ r.done = req[p].done
    BY <1>1 DEF ReqRecord
  <2> HIDE DEF r
  <2>6. r.done = {} /\ r.op = "remove" /\ r.item \in Items /\ r.doc \in Docs
    BY <1>1, <2>1, <2>5 DEF Shape, WritePcs
  <2>7. Deletes(r, w)
    BY <2>2, <2>5, <2>6 DEF Deletes
  <2>8. Shape(r)
    BY <2>3, <2>4, <2>5, <2>6, <2>7 DEF Shape, AddPcs, WritePcs
  <2>9. Aim(r)
    BY <2>1, <2>2, <2>3, <2>5, <2>6 DEF Aim
  <2> QED BY <2>1, <2>6, <2>8, <2>9, Replaced
<1>5. CASE LayoutCheck(p) /\ ~Reply(p)
  <2> DEFINE r == [req[p] EXCEPT !.pc = "layoutDelete"]
  <2>1. req' = [req EXCEPT ![p] = r] /\ req[p].pc = "layoutCheck"
    BY <1>5 DEF LayoutCheck, Proceed, ReqsOK
  <2>2. r \in ReqRecord
    BY <1>1 DEF ReqRecord, ReqPcs
  <2>3. /\ r.pc = "layoutDelete" /\ r.op = req[p].op /\ r.doc = req[p].doc /\ r.item = req[p].item
        /\ r.refs = req[p].refs /\ r.todo = req[p].todo /\ r.done = req[p].done
    BY <1>1 DEF ReqRecord
  <2> HIDE DEF r
  <2>4. Shape(r) /\ Aim(r) /\ r.done = {}
    BY <1>1, <2>1, <2>2, <2>3 DEF Shape, Aim, AddPcs, WritePcs, Deletes
  <2> QED BY <2>1, <2>4, Replaced
<1> QED BY <1>2, <1>3, <1>4, <1>5

LEMMA ScanOK ==
  ASSUME ReqsOK, TableOK, NEW p \in Clients, Scan(p), UNCHANGED item
  PROVE  ReqsOK'
<1>1. Shape(req[p]) /\ Aim(req[p]) /\ req[p] \in ReqRecord
  BY Seen
<1>2. PICK s \in SortedLists(ItemsOf(req[p].doc) \ {req[p].item}) :
         req' = [req EXCEPT ![p].pc = Then(Renumber(s)), ![p].todo = Renumber(s)]
  BY DEF Scan
<1> DEFINE todo == Renumber(s)
<1>3. /\ todo \in Seq(WriteOf)
      /\ \A n \in DOMAIN todo : todo[n].item \in ItemsOf(req[p].doc) /\ todo[n].to \in Nat
  <2>1. ItemsOf(req[p].doc) \ {req[p].item} \in SUBSET Items
    BY DEF ItemsOf
  <2>2. s \in Lists(ItemsOf(req[p].doc) \ {req[p].item})
    BY DEF SortedLists
  <2> QED BY <2>1, <2>2, Renumbered
<1> HIDE DEF todo
<1> DEFINE r == [req[p] EXCEPT !.pc = Then(todo), !.todo = todo]
<1>4. req' = [req EXCEPT ![p] = r] /\ req[p].pc = "scan"
  BY <1>2 DEF Scan, ReqsOK, todo
<1>5. Then(todo) = IF todo = <<>> THEN "commit" ELSE "apply"
  BY DEF Then
<1>6. r \in ReqRecord
  BY <1>1, <1>3, <1>5 DEF ReqRecord, ReqPcs
<1>7. /\ r.pc = Then(todo) /\ r.op = req[p].op /\ r.doc = req[p].doc /\ r.item = req[p].item
      /\ r.refs = req[p].refs /\ r.todo = todo /\ r.done = req[p].done
  BY <1>1 DEF ReqRecord
<1> HIDE DEF r
<1>8. r.op = "remove" /\ r.doc \in Docs
  BY <1>1, <1>4, <1>7 DEF Shape, WritePcs
<1>9. \A n \in DOMAIN r.todo : Deletes(r, r.todo[n])
  BY <1>3, <1>7, NoneAssumption DEF Deletes
<1>10. \A w \in r.done : Deletes(r, w)
  BY <1>1, <1>7 DEF Shape, Deletes
<1>11. Shape(r)
  BY <1>5, <1>6, <1>7, <1>8, <1>9, <1>10 DEF Shape, AddPcs, WritePcs
<1>12. Aim(r)
  BY <1>1, <1>3, <1>7, <1>8 DEF Aim, ItemsOf
<1>13. \A w \in r.done : \A q \in Clients \ {p} : ~Holds(q, w.item)
  BY <1>7, Seen
<1> QED BY <1>4, <1>11, <1>12, <1>13, Replaced

LEMMA DropOK ==
  ASSUME ReqsOK, TableOK, NEW p \in Clients, DropDocument(p), UNCHANGED item
  PROVE  ReqsOK'
<1>1. Shape(req[p]) /\ Aim(req[p]) /\ req[p] \in ReqRecord
  BY Seen
<1>2. CASE Reply(p)
  BY <1>2, ReplyOK
<1>3. CASE ~Reply(p)
  <2>1. PICK s \in Lists(ItemsOf(req[p].doc)) :
           LET deletes == [a \in DOMAIN s |-> [item |-> s[a], to |-> None]] IN
             req' = [req EXCEPT ![p].pc = Then(deletes), ![p].todo = deletes]
    BY <1>3 DEF DropDocument
  <2> DEFINE todo == [a \in DOMAIN s |-> [item |-> s[a], to |-> None]]
  <2>2. s \in Seq(ItemsOf(req[p].doc)) /\ \A i \in ItemsOf(req[p].doc) : \E a \in DOMAIN s : s[a] = i
    <3>1. ItemsOf(req[p].doc) \in SUBSET Items
      BY DEF ItemsOf
    <3> QED BY <3>1, ListsAreSeqs
  <2>3. \A n \in DOMAIN todo : todo[n].item = s[n] /\ todo[n].to = None /\ s[n] \in ItemsOf(req[p].doc)
    BY <2>2
  <2>4. todo \in Seq(WriteOf) /\ DOMAIN todo = DOMAIN s
    <3>1. \A i \in Items : [item |-> i, to |-> None] \in WriteOf
      BY DEF WriteOf
    <3>2. DOMAIN s = 1..Len(s) /\ Len(s) \in Nat /\ \A n \in 1..Len(s) : s[n] \in Items
      BY <2>2 DEF ItemsOf
    <3>3. todo \in [1..Len(s) -> WriteOf]
      BY <3>1, <3>2
    <3> QED BY <3>2, <3>3
  <2>5. req' = [req EXCEPT ![p].pc = Then(todo), ![p].todo = todo]
    BY <2>1
  <2> HIDE DEF todo
  <2> DEFINE r == [req[p] EXCEPT !.pc = Then(todo), !.todo = todo]
  <2>6. req' = [req EXCEPT ![p] = r] /\ req[p].pc = "dropDocument"
    BY <2>5 DEF DropDocument, ReqsOK
  <2>7. Then(todo) = IF todo = <<>> THEN "commit" ELSE "apply"
    BY DEF Then
  <2>8. r \in ReqRecord
    BY <1>1, <2>4, <2>7 DEF ReqRecord, ReqPcs
  <2>9. /\ r.pc = Then(todo) /\ r.op = req[p].op /\ r.doc = req[p].doc /\ r.item = req[p].item
        /\ r.refs = req[p].refs /\ r.todo = todo /\ r.done = req[p].done
    BY <1>1 DEF ReqRecord
  <2> HIDE DEF r
  <2>10. r.op = "drop" /\ r.doc \in Docs /\ r.done = {}
    BY <1>1, <2>6, <2>9 DEF Shape, WritePcs
  <2>11. \A n \in DOMAIN r.todo : Deletes(r, r.todo[n]) /\ r.todo[n].to = None
    BY <2>3, <2>9, <2>10 DEF Deletes
  <2>12. Shape(r)
    BY <2>7, <2>8, <2>9, <2>10, <2>11 DEF Shape, AddPcs, WritePcs
  <2>13. Aim(r)
    <3>1. \A i \in ItemsOf(r.doc) : \E n \in DOMAIN r.todo : r.todo[n].item = i
      BY <2>2, <2>3, <2>4, <2>9
    <3>2. \A n \in DOMAIN r.todo : item[r.todo[n].item].doc = r.doc
      BY <2>3, <2>9 DEF ItemsOf
    <3> QED BY <3>1, <3>2, <2>10 DEF Aim
  <2> QED BY <2>6, <2>10, <2>12, <2>13, Replaced
<1> QED BY <1>2, <1>3

LEMMA ApplyOK ==
  ASSUME ReqsOK, TableOK, NEW p \in Clients, Apply(p), UNCHANGED item
  PROVE  ReqsOK'
<1>1. Shape(req[p]) /\ Aim(req[p]) /\ req[p] \in ReqRecord
  BY Seen
<1>2. CASE Reply(p)
  BY <1>2, ReplyOK
<1>3. CASE ~Reply(p)
  <2> DEFINE w == Head(req[p].todo)
             rest == Tail(req[p].todo)
             gone == item[w.item].doc = None
             done == IF gone THEN req[p].done ELSE req[p].done \cup {w}
             pc == IF req[p].pc = "delete" THEN "scan" ELSE Then(rest)
             r == [req[p] EXCEPT !.pc = pc, !.todo = rest, !.done = done]
  <2>1. req' = [req EXCEPT ![p] = r] /\ req[p].pc \in {"delete", "apply"} /\ (gone => req[p].op = "drop")
    BY <1>3 DEF Apply, Writing, ReqsOK
  <2>2. \A q \in Clients \ {p} : ~Holds(q, w.item)
    BY <2>1 DEF Apply, WaitsFor, Writing
  <2>3. req[p].todo \in Seq(WriteOf) /\ req[p].todo # <<>>
    BY <1>1, <2>1 DEF ReqRecord, Shape
  <2>4. /\ w \in WriteOf /\ rest \in Seq(WriteOf) /\ 1 \in DOMAIN req[p].todo /\ w = req[p].todo[1]
        /\ \A n \in DOMAIN rest : n + 1 \in DOMAIN req[p].todo /\ rest[n] = req[p].todo[n + 1]
        /\ \A n \in DOMAIN req[p].todo : req[p].todo[n] = w \/ \E m \in DOMAIN rest : rest[m] = req[p].todo[n]
    BY <2>3, Popped
  <2>5. pc \in ReqPcs /\ pc \in {"scan", "apply", "commit"}
        /\ (pc = "scan" <=> req[p].pc = "delete") /\ (pc = "apply" => rest # <<>>) /\ (pc = "commit" => rest = <<>>)
    BY DEF Then, ReqPcs
  <2> HIDE DEF w, rest
  <2>6. done \in SUBSET WriteOf
    BY <1>1, <2>4 DEF ReqRecord
  <2>7. item[w.item].doc \in {req[p].doc, None}
    BY <1>1, <2>1, <2>4 DEF Aim
  <2>8. \A v \in done : v \in req[p].done \/ (v = w /\ item[w.item].doc = req[p].doc)
    BY <2>7
  <2>9. req[p].done \subseteq done /\ (~gone => w \in done)
    OBVIOUS
  <2> HIDE DEF done, pc
  <2>10. r \in ReqRecord
    BY <1>1, <2>4, <2>5, <2>6 DEF ReqRecord
  <2>11. /\ r.pc = pc /\ r.op = req[p].op /\ r.doc = req[p].doc /\ r.item = req[p].item
         /\ r.refs = req[p].refs /\ r.todo = rest /\ r.done = done
    BY <1>1 DEF ReqRecord
  <2> HIDE DEF r
  <2>12. \A v : Deletes(r, v) <=> Deletes(req[p], v)
    BY <2>11 DEF Deletes
  <2>13. /\ \A n \in DOMAIN r.todo : Deletes(r, r.todo[n]) /\ (r.op = "drop" => r.todo[n].to = None)
         /\ \A v \in r.done : Deletes(r, v) /\ (r.op = "drop" => v.to = None)
    BY <1>1, <2>4, <2>8, <2>11, <2>12 DEF Shape
  <2>14. Shape(r)
    <3>1. req[p].op \in {"reorder", "remove", "drop"} /\ req[p].doc \in Docs
          /\ (req[p].pc = "delete" => req[p].op = "remove" /\ req[p].item \in Items)
      BY <1>1, <2>1 DEF Shape, WritePcs
    <3> QED BY <2>5, <2>10, <2>11, <2>13, <3>1 DEF Shape, AddPcs, WritePcs
  <2>15. Aim(r)
    <3>1. r.pc = "apply" => req[p].pc = "apply"
      BY <2>1, <2>5, <2>11
    <3>2. r.pc \in {"delete", "apply"} => \A n \in DOMAIN r.todo : item[r.todo[n].item].doc \in {r.doc, None}
      BY <1>1, <2>1, <2>4, <2>11, <3>1 DEF Aim
    <3>3. \A v \in r.done : item[v.item].doc = r.doc
      BY <1>1, <2>8, <2>11 DEF Aim
    <3>4. ASSUME r.op = "drop", NEW i \in ItemsOf(r.doc)
          PROVE  (\E n \in DOMAIN r.todo : r.todo[n].item = i) \/ \E v \in r.done : v.item = i
      <4>1. req[p].pc = "apply"
        BY <1>1, <2>1, <2>11, <3>4 DEF Shape
      <4>2. (\E n \in DOMAIN req[p].todo : req[p].todo[n].item = i) \/ \E v \in req[p].done : v.item = i
        BY <1>1, <2>11, <3>4, <4>1 DEF Aim
      <4>3. i = w.item => ~gone
        BY <1>1, <2>11, <3>4, <4>1, NoneAssumption DEF ItemsOf, Shape, WritePcs
      <4> QED BY <2>4, <2>9, <2>11, <4>2, <4>3
    <3> QED BY <3>2, <3>3, <3>4 DEF Aim
  <2>16. \A v \in r.done : \A q \in Clients \ {p} : ~Holds(q, v.item)
    BY <2>2, <2>8, <2>11, Seen
  <2> QED BY <2>1, <2>14, <2>15, <2>16, Replaced
<1> QED BY <1>2, <1>3

-------------------------------------------------------------------------------
(* Steps that write the table.  The others' rows stay theirs.               *)

LEMMA Rewritten ==
  ASSUME ReqsOK, NEW p \in Clients, NEW r, Shape(r), r.done = {}, r.pc \notin WritePcs,
         req' = [req EXCEPT ![p] = r],
         \A q \in Clients \ {p} :
           /\ \A w \in req[q].done : item'[w.item].doc = item[w.item].doc
           /\ req[q].pc \in {"delete", "apply"} =>
                \A n \in DOMAIN req[q].todo : item'[req[q].todo[n].item].doc \in {item[req[q].todo[n].item].doc, None}
           /\ req[q].op = "drop" /\ req[q].pc \in {"apply", "commit"} => ItemsOf(req[q].doc)' \subseteq ItemsOf(req[q].doc)
  PROVE  ReqsOK'
<1>1. \A q \in Clients : req'[q] = IF q = p THEN r ELSE req[q]
  BY DEF ReqsOK
<1>2. req' \in [Clients -> ReqRecord]
  BY DEF ReqsOK, Shape
<1>3. ASSUME NEW q \in Clients, q # p PROVE Shape(req'[q]) /\ Aim(req[q])'
  <2>1. Shape(req[q]) /\ Aim(req[q]) /\ req'[q] = req[q]
    BY <1>1, <1>3, Seen
  <2>2. \A w \in req[q].done : item'[w.item].doc = req[q].doc
    BY <1>3, <2>1 DEF Aim
  <2>3. req[q].pc \in {"delete", "apply"} =>
          \A n \in DOMAIN req[q].todo : item'[req[q].todo[n].item].doc \in {req[q].doc, None}
    BY <1>3, <2>1, ZenonT(60) DEF Aim
  <2>4. req[q].op = "drop" /\ req[q].pc \in {"apply", "commit"} => \A i \in Items : item'[i].doc = req[q].doc => i \in ItemsOf(req[q].doc)
    BY <1>3, <2>1 DEF ItemsOf
  <2>5. req[q].op = "drop" /\ req[q].pc \in {"apply", "commit"} =>
          \A i \in Items : item'[i].doc = req[q].doc =>
            (\E n \in DOMAIN req[q].todo : req[q].todo[n].item = i) \/ \E w \in req[q].done : w.item = i
    BY <2>1, <2>4 DEF Aim
  <2>6. req'[q] = req[q] /\ \A i \in ItemsOf(req[q].doc)' : i \in Items /\ item'[i].doc = req[q].doc
    BY <2>1 DEF ItemsOf
  <2>7. Aim(req[q])'
    <3>1. req'[q].pc \in {"delete", "apply"} =>
            \A n \in DOMAIN req'[q].todo : item'[req'[q].todo[n].item].doc \in {req'[q].doc, None}
      BY <2>3, <2>6
    <3>2. \A w \in req'[q].done : item'[w.item].doc = req'[q].doc
      BY <2>2, <2>6
    <3>3. req'[q].op = "drop" /\ req'[q].pc \in {"apply", "commit"} =>
            \A i \in ItemsOf(req[q].doc)' :
              (\E n \in DOMAIN req'[q].todo : req'[q].todo[n].item = i) \/ \E w \in req'[q].done : w.item = i
      BY <2>5, <2>6
    <3> QED BY <3>1, <3>2, <3>3 DEF Aim
  <2> QED BY <2>1, <2>7
<1>4. Shape(req'[p]) /\ Aim(req[p])'
  BY <1>1 DEF Aim, WritePcs
<1>5. \A q \in Clients : Shape(req'[q]) /\ Aim(req[q])'
  BY <1>3, <1>4
<1>6. Exclusive'
  <2>1. \A q \in Clients : req'[q].done \subseteq req[q].done
    BY <1>1
  <2> QED BY <2>1 DEF Exclusive, ReqsOK
<1> QED BY <1>2, <1>5, <1>6 DEF ReqsOK

(* What AddCreate does when it inserts a row. *)
Inserts(p, i) ==
  /\ req[p].pc = "addCreate" /\ req[p].doc \in documents /\ ~Dropping(req[p].doc)
  /\ item[i].doc = None
  /\ \A q \in Clients : req[q].item # i /\ \A n \in DOMAIN req[q].todo : req[q].todo[n].item # i
  /\ item' = [item EXCEPT ![i] = [doc |-> req[p].doc, ref |-> Head(req[p].refs), index |-> req[p].index]]
  /\ \/ Reply(p)
     \/ /\ Len(req[p].refs) # 1
        /\ req' = [req EXCEPT ![p].pc = "addFind", ![p].refs = Tail(@), ![p].index = 0]

LEMMA AddCreateCases ==
  ASSUME NEW p \in Clients, AddCreate(p)
  PROVE  (\E i \in Items : Inserts(p, i)) \/ (UNCHANGED item /\ Reply(p))
BY DEF AddCreate, Inserts, Unused

LEMMA InsertsOK ==
  ASSUME Inv, NEW p \in Clients, NEW i \in Items, Inserts(p, i), UNCHANGED <<documents, layouts>>, HistoryOK'
  PROVE  Inv'
<1>1. Shape(req[p]) /\ Aim(req[p]) /\ req[p] \in ReqRecord /\ ReqsOK /\ TableOK
  BY Seen DEF Inv
<1>2. req[p].doc \in Docs /\ req[p].refs # <<>> /\ req[p].refs \in Seq(Questions \cup Layouts) /\ req[p].index \in Int
  BY <1>1 DEF Inserts, Shape, AddPcs, ReqRecord
<1> DEFINE row == [doc |-> req[p].doc, ref |-> Head(req[p].refs), index |-> req[p].index]
<1>3. row \in ItemRow /\ row.doc = req[p].doc
  <2>1. Head(req[p].refs) \in Questions \cup Layouts \cup {None}
    BY <1>2, Popped
  <2> QED BY <1>2, <2>1 DEF ItemRow
<1>4. item' = [item EXCEPT ![i] = row]
  BY DEF Inserts
<1> HIDE DEF row
<1>5. TableOK'
  BY <1>1, <1>3, <1>4 DEF TableOK, Inserts, Inv
<1>6. \A q \in Clients \ {p} :
           /\ \A w \in req[q].done : item'[w.item].doc = item[w.item].doc
           /\ req[q].pc \in {"delete", "apply"} =>
                \A n \in DOMAIN req[q].todo : item'[req[q].todo[n].item].doc \in {item[req[q].todo[n].item].doc, None}
           /\ req[q].op = "drop" /\ req[q].pc \in {"apply", "commit"} => ItemsOf(req[q].doc)' \subseteq ItemsOf(req[q].doc)
  <2> TAKE q \in Clients \ {p}
  <2>1. Shape(req[q]) /\ Aim(req[q]) /\ req[q] \in ReqRecord
    BY <1>1, Seen
  <2>2. \A j : j # i => item'[j] = item[j]
    BY <1>1, <1>4 DEF TableOK
  <2>3. ASSUME NEW w \in req[q].done PROVE w.item # i
    <3>1. item[w.item].doc = req[q].doc /\ req[q].doc \in Docs
      BY <2>1 DEF Aim, Shape
    <3> QED BY <3>1, NoneAssumption DEF Inserts
  <2>4. \A n \in DOMAIN req[q].todo : req[q].todo[n].item # i
    BY DEF Inserts
  <2>5. ASSUME req[q].op = "drop", req[q].pc \in {"apply", "commit"} PROVE ItemsOf(req[q].doc)' \subseteq ItemsOf(req[q].doc)
    <3>1. req[q].doc # req[p].doc
      BY <2>5 DEF Inserts, Dropping
    <3>2. i \notin {j \in Items : item'[j].doc = req[q].doc}
      BY <1>1, <1>3, <1>4, <3>1 DEF TableOK
    <3>3. req'[q] = req[q]
      BY <1>1 DEF ReqsOK, Inserts, Reply
    <3> QED BY <2>2, <3>2, <3>3 DEF ItemsOf
  <2> QED BY <2>2, <2>3, <2>4, <2>5
<1>7. CASE Reply(p)
  <2>1. ReqsOK'
    BY <1>1, <1>6, <1>7, IdleOK, Rewritten DEF Reply, WritePcs
  <2> QED BY <1>5, <2>1 DEF Inv
<1>8. CASE ~Reply(p)
  <2> DEFINE r == [req[p] EXCEPT !.pc = "addFind", !.refs = Tail(req[p].refs), !.index = 0]
  <2>1. req' = [req EXCEPT ![p] = r] /\ req[p].pc = "addCreate" /\ Len(req[p].refs) # 1
    BY <1>1, <1>8 DEF Inserts, ReqsOK
  <2>2. Tail(req[p].refs) \in Seq(Questions \cup Layouts) /\ Tail(req[p].refs) # <<>>
    BY <1>2, <2>1, LongTail
  <2>3. r \in ReqRecord
    <3>1. "addFind" \in ReqPcs /\ 0 \in Int
      BY DEF ReqPcs
    <3>2. req[p] \in ReqRecord /\ Tail(req[p].refs) \in Seq(Questions \cup Layouts)
      BY <1>1, <2>2
    <3> QED BY <3>1, <3>2 DEF ReqRecord
  <2>4. /\ r.pc = "addFind" /\ r.op = req[p].op /\ r.doc = req[p].doc /\ r.item = req[p].item
        /\ r.refs = Tail(req[p].refs) /\ r.todo = req[p].todo /\ r.done = req[p].done
    BY <1>1 DEF ReqRecord
  <2> HIDE DEF r
  <2>5. Shape(r) /\ r.done = {} /\ r.pc \notin WritePcs
    BY <1>1, <2>1, <2>2, <2>3, <2>4 DEF Shape, AddPcs, WritePcs, Deletes
  <2>6. ReqsOK'
    BY <1>1, <1>6, <2>1, <2>5, Rewritten
  <2> QED BY <1>5, <2>6 DEF Inv
<1> QED BY <1>7, <1>8

(* What a commit makes of a row: it deletes or renumbers those of its        *)
(* document that it has written.                                           *)
LEMMA WrittenRow ==
  ASSUME ReqsOK, TableOK, NEW p \in Clients, NEW i \in Items
  PROVE  \/ Written(p, i) = Blank /\ Holds(p, i) /\ item[i].doc = req[p].doc
            /\ (req[p].op = "drop" \/ (req[p].op = "remove" /\ req[p].item = i))
         \/ /\ Holds(p, i) /\ item[i].doc = req[p].doc /\ req[p].op # "drop"
            /\ \E to \in Int : Written(p, i) = [item[i] EXCEPT !.index = to]
         \/ Written(p, i) = item[i] /\ ~Holds(p, i)
<1>1. Shape(req[p]) /\ Aim(req[p]) /\ req[p] \in ReqRecord
  BY Seen
<1> DEFINE d == [item |-> i, to |-> None]
<1>2. d.item = i /\ d.to = None
  OBVIOUS
<1>3. \A w \in WriteOf : w.item = i /\ w.to = None => w = d
  BY DEF WriteOf
<1> HIDE DEF d
<1>4. CASE d \in req[p].done
  <2>1. Written(p, i) = Blank
    BY <1>4 DEF Written, d
  <2>2. Holds(p, i) /\ item[i].doc = req[p].doc
    BY <1>1, <1>2, <1>4 DEF Holds, Aim
  <2>3. Deletes(req[p], d)
    BY <1>1, <1>4 DEF Shape
  <2> QED BY <1>2, <2>1, <2>2, <2>3 DEF Deletes
<1>5. CASE d \notin req[p].done /\ Holds(p, i)
  <2> DEFINE w == CHOOSE w \in req[p].done : w.item = i
  <2>1. w \in req[p].done /\ w.item = i
    BY <1>5 DEF Holds
  <2>2. Written(p, i) = [item[i] EXCEPT !.index = w.to]
    BY <1>5 DEF Written, d
  <2> HIDE DEF w
  <2>3. w \in WriteOf /\ w.to # None
    BY <1>1, <1>3, <1>5, <2>1 DEF ReqRecord
  <2>4. w.to \in Int
    BY <2>3 DEF WriteOf
  <2>5. item[i].doc = req[p].doc /\ req[p].op # "drop"
    BY <1>1, <2>1, <2>3 DEF Aim, Shape
  <2> QED BY <1>5, <2>2, <2>4, <2>5
<1>6. CASE d \notin req[p].done /\ ~Holds(p, i)
  BY <1>6 DEF Written, d
<1> QED BY <1>4, <1>5, <1>6

LEMMA RenumberedRow ==
  ASSUME NEW row \in ItemRow, NEW to \in Int
  PROVE  /\ [row EXCEPT !.index = to] \in ItemRow /\ [row EXCEPT !.index = to].doc = row.doc
         /\ [[row EXCEPT !.index = to] EXCEPT !.index = row.index] = row
BY DEF ItemRow

LEMMA BlankRow == Blank \in ItemRow /\ Blank.doc = None
BY DEF Blank, ItemRow

LEMMA CommitOK ==
  ASSUME Inv, NEW p \in Clients, Commit(p)
  PROVE  Inv'
<1>1. Shape(req[p]) /\ Aim(req[p]) /\ req[p] \in ReqRecord /\ ReqsOK /\ TableOK
  BY Seen DEF Inv
<1>2. /\ req[p].pc = "commit" /\ req[p].todo = <<>> /\ req[p].doc \in Docs
      /\ Reply(p) /\ \A i \in Items : item'[i] = Written(p, i)
  BY <1>1 DEF Commit, Shape, WritePcs
<1>3. \A i \in Items : item'[i] \in ItemRow /\ item'[i].doc \in {item[i].doc, None}
  <2> TAKE i \in Items
  <2>1. item[i] \in ItemRow /\ item'[i] = Written(p, i)
    BY <1>1, <1>2 DEF TableOK
  <2>2. CASE \E to \in Int : Written(p, i) = [item[i] EXCEPT !.index = to]
    <3>1. PICK to \in Int : Written(p, i) = [item[i] EXCEPT !.index = to]
      BY <2>2
    <3>2. [item[i] EXCEPT !.index = to] \in ItemRow /\ [item[i] EXCEPT !.index = to].doc = item[i].doc
      BY <2>1, RenumberedRow
    <3> QED BY <2>1, <3>1, <3>2
  <2>3. CASE Written(p, i) \in {Blank, item[i]}
    BY <2>1, <2>3, BlankRow
  <2> QED BY <1>1, <2>2, <2>3, WrittenRow
<1>4. ASSUME NEW i \in Items PROVE item'[i].doc \in documents' \/ item'[i] = Blank
  <2>1. CASE item[i] = Blank
    <3>1. item[i].doc = None
      BY <2>1, BlankRow
    <3>2. item[i].doc # req[p].doc
      BY <1>2, <3>1, NoneAssumption
    <3> QED BY <1>1, <1>2, <2>1, <3>2, WrittenRow
  <2>2. CASE item[i].doc \in documents /\ ~(req[p].op = "drop" /\ item[i].doc = req[p].doc)
    <3>1. item[i].doc \in documents'
      BY <2>2 DEF Commit
    <3>2. item[i] \in ItemRow
      BY <1>1 DEF TableOK
    <3>3. CASE \E to \in Int : Written(p, i) = [item[i] EXCEPT !.index = to]
      <4>1. Written(p, i).doc = item[i].doc
        <5>1. PICK to \in Int : Written(p, i) = [item[i] EXCEPT !.index = to]
          BY <3>3
        <5>2. [item[i] EXCEPT !.index = to].doc = item[i].doc
          BY <3>2, RenumberedRow
        <5> QED BY <5>1, <5>2
      <4> QED BY <1>2, <3>1, <4>1
    <3>4. CASE Written(p, i) \in {Blank, item[i]}
      BY <1>2, <3>1, <3>4
    <3> QED BY <1>1, <3>3, <3>4, WrittenRow
  <2>3. CASE req[p].op = "drop" /\ item[i].doc = req[p].doc
    <3>1. Holds(p, i)
      BY <1>1, <1>2, <2>3 DEF Aim, ItemsOf, Holds
    <3> QED BY <1>1, <1>2, <2>3, <3>1, WrittenRow
  <2> QED BY <1>1, <2>1, <2>2, <2>3 DEF TableOK
<1>5. TableOK'
  <2>1. item' \in [Items -> ItemRow]
    BY <1>2, <1>3 DEF Commit
  <2>2. documents' \subseteq Docs /\ layouts' \subseteq Layouts
    BY <1>1 DEF Commit, TableOK
  <2> QED BY <1>4, <2>1, <2>2 DEF TableOK
<1>6. \A q \in Clients \ {p} :
           /\ \A w \in req[q].done : item'[w.item].doc = item[w.item].doc
           /\ req[q].pc \in {"delete", "apply"} =>
                \A n \in DOMAIN req[q].todo : item'[req[q].todo[n].item].doc \in {item[req[q].todo[n].item].doc, None}
           /\ req[q].op = "drop" /\ req[q].pc \in {"apply", "commit"} => ItemsOf(req[q].doc)' \subseteq ItemsOf(req[q].doc)
  <2> TAKE q \in Clients \ {p}
  <2>1. Shape(req[q]) /\ Aim(req[q]) /\ req[q] \in ReqRecord /\ req'[q] = req[q]
    BY <1>1, <1>2, Seen DEF Reply, ReqsOK
  <2>2. \A w \in req[q].done : w.item \in Items /\ ~Holds(p, w.item)
    BY <1>1, <2>1, Seen DEF ReqRecord, WriteOf
  <2>3. \A w \in req[q].done : item'[w.item].doc = item[w.item].doc
    BY <1>1, <1>2, <2>2, WrittenRow
  <2>4. \A n \in DOMAIN req[q].todo : req[q].todo[n].item \in Items
    <3>1. req[q].todo \in Seq(WriteOf)
      BY <2>1 DEF ReqRecord
    <3>2. \A n \in DOMAIN req[q].todo : req[q].todo[n] \in WriteOf
      BY <3>1
    <3> QED BY <3>2 DEF WriteOf
  <2>5. ASSUME req[q].op = "drop", req[q].pc \in {"apply", "commit"} PROVE ItemsOf(req[q].doc)' \subseteq ItemsOf(req[q].doc)
    <3>1. req[q].doc \in Docs
      BY <2>1, <2>5 DEF Shape, WritePcs
    <3> QED BY <1>3, <2>1, <3>1, NoneAssumption DEF ItemsOf
  <2> QED BY <1>3, <2>3, <2>4, <2>5
<1>7. ReqsOK'
  BY <1>1, <1>2, <1>6, IdleOK, Rewritten DEF Reply, WritePcs
<1>8. HistoryOK'
  BY <1>2 DEF Commit, Inv, HistoryOK
<1> QED BY <1>5, <1>7, <1>8 DEF Inv

-------------------------------------------------------------------------------
LEMMA ContinueOK ==
  ASSUME Inv, NEW p \in Clients, Continue(p) \/ StatementFails(p)
  PROVE  Inv'
<1>1. ReqsOK /\ TableOK /\ HistoryOK
  BY DEF Inv
<1>2. ASSUME UNCHANGED <<table, history>>, ReqsOK' PROVE Inv'
  BY <1>1, <1>2 DEF Inv, TableOK, HistoryOK, table, history
<1>3. CASE AddFind(p) \/ AddLast(p) \/ ReorderFind(p) \/ RemoveFind(p) \/ LayoutCheck(p) \/ Scan(p)
           \/ DropDocument(p) \/ Apply(p)
  <2>1. UNCHANGED <<table, history>>
    BY <1>3 DEF AddFind, AddLast, ReorderFind, RemoveFind, LayoutCheck, Scan, DropDocument, Apply
  <2>2. UNCHANGED item
    BY <2>1 DEF table
  <2>3. ReqsOK'
    BY <1>1, <1>3, <2>2, AddOK, FindOK, ScanOK, DropOK, ApplyOK
  <2> QED BY <1>2, <2>1, <2>3
<1>4. CASE Deadlock(p) \/ StatementFails(p)
  <2>1. UNCHANGED <<table, history>> /\ Reply(p)
    BY <1>4 DEF Deadlock, StatementFails
  <2>2. ReqsOK'
    BY <1>1, <2>1, ReplyOK DEF table
  <2> QED BY <1>2, <2>1, <2>2
<1>5. CASE AddCreate(p)
  <2>1. UNCHANGED <<documents, layouts>> /\ HistoryOK'
    BY <1>1, <1>5 DEF AddCreate, HistoryOK
  <2>2. CASE \E i \in Items : Inserts(p, i)
    BY <2>1, <2>2, InsertsOK
  <2>3. CASE UNCHANGED item /\ Reply(p)
    <3>1. ReqsOK'
      BY <1>1, <2>3, ReplyOK
    <3> QED BY <1>1, <2>1, <2>3, <3>1 DEF Inv, TableOK
  <2> QED BY <1>5, <2>2, <2>3, AddCreateCases
<1>6. CASE LayoutDelete(p)
  <2>1. ReqsOK'
    BY <1>1, <1>6, ReplyOK DEF LayoutDelete
  <2> QED BY <1>1, <1>6, <2>1 DEF LayoutDelete, Inv, TableOK, HistoryOK
<1> QED BY <1>3, <1>4, <1>5, <1>6, CommitOK DEF Continue

LEMMA NextOK ==
  ASSUME Inv, [Next]_vars
  PROVE  Inv'
<1>1. CASE \E p \in Clients : Start(p) \/ Continue(p) \/ StatementFails(p) \/ \E l \in Layouts : RemoveLayout(p, l)
  BY <1>1, StartOK, ContinueOK
<1>2. ASSUME UNCHANGED <<item, req, history>>, documents \subseteq documents', documents' \subseteq Docs, layouts' \subseteq Layouts
      PROVE  Inv'
  BY <1>2 DEF Inv, TableOK, ReqsOK, HistoryOK, history, Aim, ItemsOf, Exclusive
<1>3. CASE (\E d \in Docs : CreateDocument(d)) \/ (\E l \in Layouts : CreateLayout(l)) \/ UNCHANGED vars
  BY <1>2, <1>3 DEF CreateDocument, CreateLayout, vars, table, Inv, TableOK
<1> QED BY <1>1, <1>3 DEF Next

LEMMA InitOK == Init => Inv
<1> SUFFICES ASSUME Init PROVE Inv
  OBVIOUS
<1>1. TableOK
  BY BlankRow DEF Init, TableOK
<1>2. req \in [Clients -> ReqRecord] /\ \A p \in Clients : req[p] = IdleReq
  BY IdleOK DEF Init, Shape
<1>3. ReqsOK
  BY <1>2, IdleOK DEF ReqsOK, Exclusive
<1> QED BY <1>1, <1>3 DEF Init, Inv, HistoryOK

(* Every variable keeps its type, and every row belongs to a document there  *)
(* is, whatever deletes of documents, adds and renumberings overlap.        *)
THEOREM TypeCorrect == Spec => []TypeOK
<1>1. Inv => TypeOK
  BY DEF Inv, TableOK, ReqsOK, HistoryOK, TypeOK
<1> QED BY <1>1, InitOK, NextOK, PTL DEF Spec

(* A request changes nothing but items of the document it names; an item     *)
(* never changes its document or what it refers to, and it goes only with   *)
(* its document or when it is itself removed.                               *)
THEOREM AskedOnly == Spec => OnlyWhatWasAsked
<1> DEFINE Explained(p, i) ==
             /\ req[p].pc \in {"addCreate", "commit"} /\ ~req'[p].pc = req[p].pc
             /\ req[p].doc \in {item[i].doc, item'[i].doc}
             /\ i \notin Live => req[p].op = "add"
             /\ i \in Live /\ item'[i] = Blank => req[p].op = "drop" \/ (req[p].op = "remove" /\ req[p].item = i)
             /\ i \in Live /\ item'[i] # Blank => [item'[i] EXCEPT !.index = item[i].index] = item[i]
<1>1. ASSUME Inv, NEW p \in Clients, NEW i \in Items, item'[i] # item[i], Commit(p) PROVE Explained(p, i)
  <2>1. Shape(req[p]) /\ req[p].pc = "commit" /\ req'[p].pc = "idle" /\ req[p].doc \in Docs
        /\ ReqsOK /\ TableOK /\ item[i] \in ItemRow /\ item'[i] = Written(p, i)
    BY <1>1, Seen, IdleOK DEF Commit, Reply, Inv, ReqsOK, TableOK, Shape, WritePcs
  <2>2. Holds(p, i) /\ item[i].doc = req[p].doc
    BY <1>1, <2>1, WrittenRow
  <2>3. i \in Live
    BY <2>1, <2>2, NoneAssumption DEF Live
  <2>4. CASE item'[i] = Blank /\ (req[p].op = "drop" \/ (req[p].op = "remove" /\ req[p].item = i))
    BY <2>1, <2>2, <2>3, <2>4
  <2>5. CASE \E to \in Int : item'[i] = [item[i] EXCEPT !.index = to]
    <3>1. item'[i].doc = item[i].doc /\ [item'[i] EXCEPT !.index = item[i].index] = item[i]
      BY <2>1, <2>5, RenumberedRow, ZenonT(60)
    <3>2. item'[i] # Blank
      BY <2>1, <2>2, <3>1, BlankRow, NoneAssumption
    <3> QED BY <2>1, <2>2, <2>3, <3>1, <3>2
  <2> QED BY <1>1, <2>1, <2>4, <2>5, WrittenRow
<1>2. ASSUME Inv, NEW p \in Clients, NEW i \in Items, item'[i] # item[i], NEW j \in Items, Inserts(p, j) PROVE Explained(p, i)
  <2>1. Shape(req[p]) /\ req[p] \in ReqRecord /\ req[p].pc = "addCreate" /\ item \in [Items -> ItemRow]
        /\ req \in [Clients -> ReqRecord]
    BY <1>2, Seen DEF Inv, ReqsOK, TableOK, Inserts
  <2>2. i = j /\ item[i].doc = None /\ item'[i].doc = req[p].doc
    BY <1>2, <2>1 DEF Inserts
  <2>3. i \notin Live /\ req[p].op = "add"
    BY <2>1, <2>2 DEF Live, Shape, AddPcs
  <2>4. req'[p].pc # "addCreate"
    BY <1>2, <2>1, IdleOK DEF Inserts, Reply, ReqRecord
  <2> QED BY <2>1, <2>2, <2>3, <2>4
<1>3. Inv /\ [Next]_vars => [\A i \in Items : item'[i] # item[i] => \E p \in Clients : Explained(p, i)]_vars
  <2> SUFFICES ASSUME Inv, Next, NEW i \in Items, item'[i] # item[i] PROVE \E p \in Clients : Explained(p, i)
    OBVIOUS
  <2> HIDE DEF Explained
  <2>1. PICK p \in Clients : Commit(p) \/ AddCreate(p)
    BY ZenonT(60) DEF Next, CreateDocument, CreateLayout, Start, AddItems, Reorder, RemoveItem, RemoveDocument, RemoveLayout,
       Begin, table, StatementFails, Continue, AddFind, AddLast, ReorderFind, RemoveFind, Scan, DropDocument, Apply,
       Deadlock, LayoutCheck, LayoutDelete
  <2>2. Commit(p) \/ \E j \in Items : Inserts(p, j)
    BY <2>1, AddCreateCases
  <2> QED BY <1>1, <1>2, <2>2
<1> QED BY <1>3, InitOK, NextOK, PTL DEF Spec, OnlyWhatWasAsked

-------------------------------------------------------------------------------
(* While a request is under way one of them is ready: whoever waits for a row *)
(* waits for one that writes rows, so if they all wait, some do so in a       *)
(* circle, and Postgres may abort one of those; and whoever waits for a       *)
(* deletion of a document waits for one that writes or commits.              *)
THEOREM SomeoneIsReady == Spec => []NobodyIsStuck
<1>1. ASSUME Inv PROVE NobodyIsStuck
  <2> SUFFICES ASSUME NEW o \in Clients, Busy(o), \A p \in Clients : ~Ready(p) PROVE FALSE
    BY DEF NobodyIsStuck
  <2> DEFINE C == {p \in Clients : Writing(p)}
             W == {x \in Clients \X Clients : WaitsFor(x[1], x[2])}
  <2>1. ASSUME NEW p \in Clients, req[p].pc \in WritePcs PROVE Writing(p)
    <3>1. Busy(p)
      BY <2>1 DEF Busy, WritePcs
    <3>2. req[p].pc \in {"scan", "commit"} => Unhindered(p)
      BY <3>1 DEF Unhindered, WaitsFor, Writing
    <3> QED BY <2>1, <3>2 DEF Ready, Writing, WritePcs
  <2>2. ASSUME NEW p \in C PROVE \E q \in C : p # q /\ <<p, q>> \in W
    <3>1. Busy(p) /\ req[p].pc \notin {"addCreate", "dropDocument"}
      BY DEF Busy, Writing
    <3>2. PICK q \in Clients : WaitsFor(p, q)
      BY <3>1 DEF Ready, Unhindered
    <3>3. req[q].done # {} /\ Shape(req[q])
      BY <1>1, <3>2, Seen DEF WaitsFor, Holds, Inv
    <3>4. req[q].pc \in WritePcs
      BY <3>3 DEF Shape
    <3> QED BY <2>1, <3>2, <3>4 DEF WaitsFor
  <2>3. C # {}
    <3>1. CASE Writing(o)
      BY <3>1
    <3>2. CASE ~Writing(o)
      <4>1. Dropping(req[o].doc)
        BY <3>2 DEF Ready, Unhindered, WaitsFor
      <4>2. PICK q \in Clients : req[q].pc \in {"apply", "commit"}
        BY <4>1 DEF Dropping
      <4> QED BY <2>1, <4>2 DEF WritePcs
    <3> QED BY <3>1, <3>2
  <2>4. IsFiniteSet(C)
    BY FS_Subset, ClientsAssumption
  <2>5. PICK D \in SUBSET C : /\ D # {}
                              /\ \A q \in D : (\E r \in D : <<q, r>> \in W) /\ (\E r \in D : <<r, q>> \in W)
    <3> HIDE DEF C, W
    <3> QED BY <2>2, <2>3, <2>4, WaitingCircle
  <2>6. PICK p \in D : TRUE
    BY <2>5
  <2>7. InCircle(p)
    BY <2>5, <2>6 DEF InCircle
  <2> QED BY <2>6, <2>7 DEF Ready
<1> QED BY <1>1, InitOK, NextOK, PTL DEF Spec

-------------------------------------------------------------------------------
(* No paper gets a layout element, whatever overlaps.                        *)

RefsFit ==
  /\ \A i \in Items : item[i].ref \in Layouts => item[i].doc \notin Papers
  /\ \A p \in Clients : req[p].pc \in {"addLast", "addCreate"} /\ Head(req[p].refs) \in Layouts => req[p].doc \notin Papers

(***************************************************************************)
(* What a request knows of its document as long as no other about that      *)
(* document has overlapped with it: where its new item goes, and that the   *)
(* writes of a removal number the items the document is left with from 0,   *)
(* in the order they had; what it knows of a layout element that has not    *)
(* been crossed: that it is there, or out of use; and that a reorder has    *)
(* one number for each of its items.                                        *)
(***************************************************************************)
Writes(r) == r.done \cup {r.todo[n] : n \in DOMAIN r.todo}
Numbers(r) == {w \in Writes(r) : w.to # None}
Kept(r) == ItemsOf(r.doc) \ {r.item}
Deletion(r) == [item |-> r.item, to |-> None]

OneEach(W) == \A w, v \in W : w.item = v.item => w = v

Plan(W, S) ==
  /\ \A w \in W : w \in WriteOf /\ w.item \in S /\ w.to \in Nat
  /\ \A i \in S : \E w \in W : w.item = i
  /\ OneEach(W)
  /\ \A w, v \in W : w.to = v.to => w = v
  /\ \A w \in W : w.to # 0 => \E v \in W : v.to + 1 = w.to

(* ... in the order they had. *)
Ascends(W) == \A w, v \in W : item[w.item].index < item[v.item].index => w.to < v.to

AtTheEnd(r) ==
  /\ \A i \in ItemsOf(r.doc) : item[i].index < r.index
  /\ r.index = 0 \/ \E i \in ItemsOf(r.doc) : item[i].index + 1 = r.index

DocKnown(r) ==
  /\ r.pc = "addCreate" => AtTheEnd(r)
  /\ r.pc = "delete" => r.todo = <<Deletion(r)>> /\ r.done = {} /\ item[r.item].doc = r.doc
  /\ r.pc = "scan" => r.todo = <<>> /\ r.done = {Deletion(r)}
  /\ r.pc \in {"apply", "commit"} /\ r.op = "remove" =>
       Plan(Numbers(r), Kept(r)) /\ Deletion(r) \in r.done /\ Ascends(Numbers(r))

LayoutKnown(r) ==
  /\ r.pc \in {"addLast", "addCreate"} => Head(r.refs) \in Questions \cup layouts \cup crossed
  /\ r.pc = "layoutDelete" /\ Head(r.refs) \in Layouts \ crossed => \A i \in Items : item[i].ref # Head(r.refs)

Exact(r) ==
  /\ r.op = "reorder" => OneEach(Writes(r))
  /\ LayoutKnown(r)
  /\ r.doc \in Docs \ overlapped => DocKnown(r)

(* A document that two requests name is known to have been overlapped. *)
Met == \A p, q \in Clients : p # q /\ req[p].doc = req[q].doc => req[p].doc \notin Docs \ overlapped

Alone == Met /\ \A p \in Clients : Exact(req[p])

Known == Inv /\ RefsFit /\ Alone /\ Dense /\ LayoutsKept

(* Numbering a list in its order is a plan for its rows. *)
LEMMA RenumberPlan ==
  ASSUME NEW S \in SUBSET Items, NEW s \in Lists(S), NEW r, r.todo = Renumber(s), \A w \in r.done : w.to = None
  PROVE  /\ Plan(Numbers(r), S)
         /\ \A w \in Numbers(r) : \E a \in DOMAIN s : w.item = s[a] /\ w.to = a - 1
         /\ DOMAIN s \subseteq Nat
<1>1. DOMAIN s = 1..Cardinality(S) /\ Cardinality(S) \in Nat /\ s \in [1..Cardinality(S) -> S]
  BY ItemsAssumption, FS_Subset, FS_CardinalityType DEF Lists
<1>2. /\ DOMAIN Renumber(s) = DOMAIN s
      /\ \A a \in DOMAIN s : Renumber(s)[a] = [item |-> s[a], to |-> a - 1] /\ a - 1 \in Nat /\ s[a] \in S
  BY <1>1 DEF Renumber
<1>3. \A a \in DOMAIN s : Renumber(s)[a].item = s[a] /\ Renumber(s)[a].to = a - 1 /\ Renumber(s)[a] \in WriteOf
  BY <1>2 DEF WriteOf
<1>4. \A w : w \in Numbers(r) <=> \E a \in DOMAIN s : w = Renumber(s)[a]
  BY <1>2, <1>3, NoneAssumption DEF Numbers, Writes
<1>5. \A w \in Numbers(r) : \E a \in DOMAIN s : w.item = s[a] /\ w.to = a - 1
  BY <1>3, <1>4
<1>6. \A w \in Numbers(r) : w \in WriteOf /\ w.item \in S /\ w.to \in Nat
  BY <1>2, <1>3, <1>4
<1>7. \A i \in S : \E w \in Numbers(r) : w.item = i
  <2> TAKE i \in S
  <2>1. PICK a \in DOMAIN s : s[a] = i
    BY DEF Lists
  <2> QED BY <1>3, <1>4, <2>1
<1>8. ASSUME NEW w \in Numbers(r), NEW v \in Numbers(r), w.item = v.item \/ w.to = v.to PROVE w = v
  <2>1. PICK a \in DOMAIN s, b \in DOMAIN s : w = Renumber(s)[a] /\ v = Renumber(s)[b]
    BY <1>4
  <2>2. s[a] = s[b] \/ a - 1 = b - 1
    BY <1>3, <1>8, <2>1
  <2>3. a = b
    <3>1. s[a] = s[b] => a = b
      BY DEF Lists
    <3>2. a - 1 = b - 1 => a = b
      BY <1>1
    <3> QED BY <2>2, <3>1, <3>2
  <2> QED BY <2>1, <2>3
<1>9. ASSUME NEW w \in Numbers(r), w.to # 0 PROVE \E v \in Numbers(r) : v.to + 1 = w.to
  <2>1. PICK a \in DOMAIN s : w = Renumber(s)[a] /\ w.to = a - 1
    BY <1>3, <1>4
  <2>2. a - 1 \in DOMAIN s /\ (a - 1) - 1 + 1 = a - 1
    BY <1>1, <1>9, <2>1
  <2> QED BY <1>3, <1>4, <2>1, <2>2
<1> QED BY <1>1, <1>5, <1>6, <1>7, <1>8, <1>9 DEF Plan, OneEach

(* What a request knows stays true when neither it nor the items change.     *)
LEMMA SameExact ==
  ASSUME UNCHANGED item, layouts \subseteq layouts', overlapped \subseteq overlapped', crossed \subseteq crossed',
         NEW p \in Clients, NEW r, Exact(r), req'[p] = r
  PROVE  Exact(req[p])'
<1>1. (\A d : ItemsOf(d)' = ItemsOf(d)) /\ item' = item
  BY DEF ItemsOf
<1>2. AtTheEnd(r) => AtTheEnd(req[p])'
  BY <1>1 DEF AtTheEnd
<1>3. /\ Kept(req[p])' = Kept(r) /\ Writes(req[p])' = Writes(r) /\ Numbers(req[p])' = Numbers(r)
      /\ Deletion(req[p])' = Deletion(r)
  BY <1>1 DEF Kept, Numbers, Writes, Deletion
<1>4. Ascends(Numbers(r)) => Ascends(Numbers(req[p]))'
  BY <1>1, <1>3 DEF Ascends
<1>5. Plan(Numbers(r), Kept(r)) => Plan(Numbers(req[p]), Kept(req[p]))'
  BY <1>3
<1>6. DocKnown(r) => DocKnown(req[p])'
  BY <1>1, <1>2, <1>3, <1>4, <1>5 DEF DocKnown
<1>7. LayoutKnown(req[p])'
  BY DEF Exact, LayoutKnown
<1>8. req[p].op' = "reorder" => OneEach(Writes(req[p]))'
  BY <1>3 DEF Exact
<1> QED BY <1>6, <1>7, <1>8 DEF Exact

(* ... and when the items of its document do not change, nor who refers to   *)
(* its layout element, which stays if it is there.                         *)
SameRows(d) == \A i \in Items : (item'[i].doc = d <=> item[i].doc = d) /\ (item[i].doc = d => item'[i] = item[i])

SameLayout(q, l) ==
  /\ Adding(q, l) /\ l \in layouts => l \in layouts'
  /\ Deleting(q, l) => \A i \in Items : item'[i].ref = l => item[i].ref = l

LEMMA KeptExact ==
  ASSUME TableOK, NEW p \in Clients, Shape(req[p]), Exact(req[p]), req'[p] = req[p],
         overlapped \subseteq overlapped', crossed \subseteq crossed',
         req[p].doc \in Docs \ overlapped' => SameRows(req[p].doc),
         \A l \in Layouts \ crossed' : SameLayout(p, l)
  PROVE  Exact(req[p])'
<1> DEFINE r == req[p]
<1>0. req'[p] = r
  OBVIOUS
<1>1. LayoutKnown(req[p])'
  <2>1. ASSUME r.pc \in {"addLast", "addCreate"} PROVE Head(r.refs) \in Questions \cup layouts' \cup crossed'
    <3>1. Head(r.refs) \in Questions \cup layouts \cup crossed
      BY <2>1 DEF Exact, LayoutKnown
    <3>2. Head(r.refs) \in layouts => Head(r.refs) \in Layouts /\ Adding(p, Head(r.refs))
      BY <2>1 DEF TableOK, Adding
    <3> QED BY <3>1, <3>2 DEF SameLayout
  <2>2. ASSUME r.pc = "layoutDelete", Head(r.refs) \in Layouts \ crossed' PROVE \A i \in Items : item'[i].ref # Head(r.refs)
    <3>1. Deleting(p, Head(r.refs))
      BY <2>2 DEF Deleting
    <3>2. \A i \in Items : item[i].ref # Head(r.refs)
      BY <2>2 DEF Exact, LayoutKnown
    <3> QED BY <2>2, <3>1, <3>2 DEF SameLayout
  <2> QED BY <1>0, <2>1, <2>2 DEF LayoutKnown
<1>2. ASSUME r.doc \in Docs \ overlapped' PROVE DocKnown(req[p])'
  <2>1. DocKnown(r) /\ SameRows(r.doc)
    BY <1>2 DEF Exact
  <2>2. ItemsOf(r.doc)' = ItemsOf(r.doc) /\ \A i \in ItemsOf(r.doc) : item'[i] = item[i]
    BY <2>1 DEF SameRows, ItemsOf
  <2>3. Kept(req[p])' = Kept(r) /\ Numbers(req[p])' = Numbers(r) /\ Deletion(req[p])' = Deletion(r) /\ Kept(r) \subseteq ItemsOf(r.doc)
    BY <2>2 DEF Kept, Numbers, Writes, Deletion
  <2>4. AtTheEnd(r) => AtTheEnd(req[p])'
    BY <2>2 DEF AtTheEnd
  <2>5. Plan(Numbers(r), Kept(r)) => Plan(Numbers(req[p]), Kept(req[p]))'
    BY <2>3
  <2>6. Plan(Numbers(r), Kept(r)) /\ Ascends(Numbers(r)) => Ascends(Numbers(req[p]))'
    <3> SUFFICES ASSUME Plan(Numbers(r), Kept(r)), Ascends(Numbers(r)) PROVE Ascends(Numbers(req[p]))'
      OBVIOUS
    <3>1. \A w \in Numbers(r) : item'[w.item] = item[w.item]
      BY <2>2, <2>3 DEF Plan
    <3> QED BY <2>3, <3>1 DEF Ascends
  <2>7. r.pc = "delete" => item'[r.item].doc = r.doc
    BY <2>1 DEF DocKnown, SameRows, Shape
  <2>8. r.pc = "delete" => r.todo = <<Deletion(r)>> /\ r.done = {}
    BY <2>1 DEF DocKnown
  <2>9. r.pc \in {"apply", "commit"} /\ r.op = "remove" =>
          Plan(Numbers(r), Kept(r)) /\ Deletion(r) \in r.done /\ Ascends(Numbers(r))
    BY <2>1 DEF DocKnown
  <2>10. r.pc = "scan" => r.todo = <<>> /\ r.done = {Deletion(r)}
    BY <2>1 DEF DocKnown
  <2>11. r.pc = "addCreate" => AtTheEnd(r)
    BY <2>1 DEF DocKnown
  <2> QED BY <1>0, <2>3, <2>4, <2>5, <2>6, <2>7, <2>8, <2>9, <2>10, <2>11 DEF DocKnown
<1>3. (req[p].op = "reorder" => OneEach(Writes(req[p])))'
  BY DEF Exact, Writes, OneEach
<1> QED BY <1>0, <1>1, <1>2, <1>3 DEF Exact

(* One step of one request, as seen by what requests know. *)
LEMMA AloneStep ==
  ASSUME Inv, Alone, NEW p \in Clients, NEW r, req' = [req EXCEPT ![p] = r], Exact(req[p])',
         overlapped \subseteq overlapped', crossed \subseteq crossed',
         \A q \in Clients \ {p} : r.doc = req[q].doc => r.doc \notin Docs \ overlapped',
         \A q \in Clients \ {p} : req[q].doc \in Docs \ overlapped' => SameRows(req[q].doc),
         \A q \in Clients \ {p} : \A l \in Layouts \ crossed' : SameLayout(q, l)
  PROVE  Alone'
<1>1. \A q \in Clients : req'[q] = IF q = p THEN r ELSE req[q]
  BY DEF Inv, ReqsOK
<1>2. ASSUME NEW q \in Clients \ {p} PROVE Exact(req[q])'
  <2>1. Shape(req[q]) /\ Exact(req[q]) /\ req'[q] = req[q] /\ TableOK
    BY <1>1, Seen DEF Inv, Alone
  <2> QED BY <2>1, KeptExact
<1>3. ASSUME NEW a \in Clients, NEW b \in Clients, a # b, req'[a].doc = req'[b].doc PROVE req'[a].doc \notin Docs \ overlapped'
  <2>1. CASE a # p /\ b # p
    BY <1>1, <1>3, <2>1 DEF Alone, Met
  <2>2. CASE a = p
    BY <1>1, <1>3, <2>2
  <2>3. CASE b = p
    BY <1>1, <1>3, <2>3
  <2> QED BY <2>1, <2>2, <2>3
<1>4. Met'
  BY <1>3 DEF Met
<1> QED BY <1>2, <1>4 DEF Alone

LEMMA UnchangedUse ==
  ASSUME UNCHANGED <<item, layouts>>
  PROVE  (\A d : SameRows(d)) /\ \A q, l : SameLayout(q, l)
BY DEF SameRows, SameLayout

(* A request that goes on without writing the table. *)
LEMMA GoneOn ==
  ASSUME Inv, Alone, NEW p \in Clients, NEW r, req' = [req EXCEPT ![p] = r],
         UNCHANGED <<table, history>>, r.doc = req[p].doc \/ r.doc \notin Docs, Exact(r)
  PROVE  Alone'
<1>1. req'[p] = r /\ UNCHANGED <<item, layouts, overlapped, crossed>>
  BY DEF Inv, ReqsOK, table, history
<1>2. Exact(req[p])'
  BY <1>1, SameExact
<1>3. \A q \in Clients \ {p} : r.doc = req[q].doc => r.doc \notin Docs \ overlapped'
  BY <1>1 DEF Alone, Met
<1> QED BY <1>1, <1>2, <1>3, UnchangedUse, AloneStep

LEMMA IdleExact == Exact(IdleReq) /\ IdleReq.doc \notin Docs /\ IdleReq.pc = "idle"
<1>1. IdleReq.op = None /\ IdleReq.doc = None /\ IdleReq.pc = "idle" /\ IdleReq.done = {} /\ DOMAIN IdleReq.todo = {}
  BY DEF IdleReq
<1>2. OneEach(Writes(IdleReq))
  BY <1>1 DEF Writes, OneEach
<1> QED BY <1>1, <1>2, NoneAssumption DEF Exact, LayoutKnown, DocKnown

LEMMA ReplyAlone ==
  ASSUME Inv, Alone, NEW p \in Clients, Reply(p), UNCHANGED <<table, history>>
  PROVE  Alone'
BY IdleExact, GoneOn DEF Reply

LEMMA BegunAlone ==
  ASSUME Inv, Alone, NEW p \in Clients, NEW op, NEW r, Begin(p, op, r), Exact(r)
  PROVE  Alone'
<1>1. /\ req' = [req EXCEPT ![p] = r] /\ req'[p] = r /\ UNCHANGED <<item, layouts>>
      /\ overlapped \subseteq overlapped' /\ crossed' = crossed
  BY DEF Begin, Inv, ReqsOK, table
<1>2. Exact(req[p])'
  BY <1>1, SameExact
<1>3. \A q \in Clients \ {p} : r.doc = req[q].doc => r.doc \notin Docs \ overlapped'
  BY DEF Begin
<1> QED BY <1>1, <1>2, <1>3, UnchangedUse, AloneStep

(* Where a request knows nothing yet. *)
LEMMA NothingKnown ==
  ASSUME NEW r, r.op # "reorder",
         \/ r.pc \in {"addFind", "removeFind", "dropDocument", "layoutCheck"}
         \/ r.op = "drop" /\ r.pc \in {"apply", "commit"}
  PROVE  Exact(r)
BY DEF Exact, LayoutKnown, DocKnown

LEMMA StartAlone ==
  ASSUME Inv, Alone, NEW p \in Clients, Start(p) \/ \E l \in Layouts : RemoveLayout(p, l)
  PROVE  Alone'
<1>1. ASSUME NEW op, NEW r, Begin(p, op, r), r.op # "reorder", r.pc \in {"addFind", "removeFind", "dropDocument", "layoutCheck"}
      PROVE  Alone'
  BY <1>1, NothingKnown, BegunAlone
<1>2. ASSUME NEW d \in Docs, NEW refs \in Refs, AddItems(p, d, refs) PROVE Alone'
  BY <1>1, <1>2 DEF AddItems, IdleReq
<1>3. ASSUME NEW d \in Docs, NEW i \in Items, RemoveItem(p, d, i) PROVE Alone'
  BY <1>1, <1>3 DEF RemoveItem, IdleReq
<1>4. ASSUME NEW d \in Docs, RemoveDocument(p, d) PROVE Alone'
  BY <1>1, <1>4 DEF RemoveDocument, IdleReq
<1>5. ASSUME NEW l \in Layouts, RemoveLayout(p, l) PROVE Alone'
  BY <1>1, <1>5 DEF RemoveLayout, IdleReq
<1>6. ASSUME NEW d \in Docs, NEW S \in SUBSET Live, Cardinality(S) \in 1..MaxNamed, NEW s \in Lists(S),
             NEW to \in [S -> Indexes], Reorder(p, d, s, to)
      PROVE  Alone'
  <2> DEFINE todo == Body(s, to)
             r == [IdleReq EXCEPT !.pc = "reorderFind", !.op = "reorder", !.doc = d, !.todo = todo]
  <2>1. Begin(p, "reorder", r)
    BY <1>6 DEF Reorder, Body
  <2>2. \A n, m \in DOMAIN todo : todo[n].item = todo[m].item => todo[n] = todo[m]
    BY <1>6, BodyFacts
  <2> HIDE DEF todo
  <2>3. r.pc = "reorderFind" /\ r.todo = todo /\ r.done = {}
    BY DEF IdleReq
  <2> HIDE DEF r
  <2>4. OneEach(Writes(r))
    <3>1. \A w \in Writes(r) : \E n \in DOMAIN todo : w = todo[n]
      BY <2>3 DEF Writes
    <3> QED BY <2>2, <3>1 DEF OneEach
  <2>5. Exact(r)
    BY <2>3, <2>4 DEF Exact, LayoutKnown, DocKnown
  <2> QED BY <2>1, <2>5, BegunAlone
<1> QED BY <1>2, <1>3, <1>4, <1>5, <1>6 DEF Start

LEMMA KnownReq ==
  ASSUME Inv, NEW p \in Clients
  PROVE  /\ Shape(req[p]) /\ Aim(req[p]) /\ req[p] \in ReqRecord
         /\ Alone => Exact(req[p])
         /\ \A e : [req EXCEPT ![p] = e] = [q \in Clients |-> IF q = p THEN e ELSE req[q]]
BY Seen DEF Inv, Alone, ReqsOK

LEMMA AddFindAlone ==
  ASSUME Inv, Alone, NEW p \in Clients, AddFind(p)
  PROVE  Alone'
<1>1. UNCHANGED <<table, history>>
  BY DEF AddFind
<1>2. CASE Reply(p)
  BY <1>1, <1>2, ReplyAlone
<1>3. CASE ~Reply(p)
  <2> DEFINE r == [req[p] EXCEPT !.pc = "addLast"]
  <2>1. /\ req' = [req EXCEPT ![p] = r] /\ Head(req[p].refs) \in Questions \cup layouts
    BY <1>3 DEF AddFind, Proceed, Inv, ReqsOK
  <2>2. r.pc = "addLast" /\ r.op = req[p].op /\ r.refs = req[p].refs /\ r.doc = req[p].doc
    BY KnownReq DEF ReqRecord
  <2>3. req[p].op = "add"
    BY KnownReq DEF AddFind, Shape, AddPcs
  <2> HIDE DEF r
  <2>4. Exact(r)
    BY <2>1, <2>2, <2>3 DEF Exact, LayoutKnown, DocKnown
  <2> QED BY <1>1, <2>1, <2>2, <2>4, GoneOn
<1> QED BY <1>2, <1>3

LEMMA AddLastAlone ==
  ASSUME Inv, Alone, NEW p \in Clients, AddLast(p)
  PROVE  Alone'
<1> DEFINE rows == ItemsOf(req[p].doc)
<1>1. PICK n \in IF rows = {} THEN {0} ELSE {item[i].index + 1 : i \in rows} :
           /\ \A i \in rows : item[i].index < n
           /\ req' = [req EXCEPT ![p].pc = "addCreate", ![p].index = n]
  BY DEF AddLast
<1>2. UNCHANGED <<table, history>> /\ req[p].pc = "addLast"
  BY DEF AddLast
<1> DEFINE r == [req[p] EXCEPT !.pc = "addCreate", !.index = n]
<1>3. req' = [req EXCEPT ![p] = r]
  BY <1>1 DEF Inv, ReqsOK
<1>4. r.pc = "addCreate" /\ r.op = req[p].op /\ r.refs = req[p].refs /\ r.doc = req[p].doc /\ r.index = n
  BY KnownReq DEF ReqRecord
<1> HIDE DEF r
<1>5. n = 0 \/ \E i \in rows : item[i].index + 1 = n
  BY <1>1
<1>6. AtTheEnd(r)
  BY <1>1, <1>4, <1>5 DEF AtTheEnd
<1>7. LayoutKnown(r) /\ DocKnown(r)
  BY <1>2, <1>4, <1>6, KnownReq DEF Exact, LayoutKnown, DocKnown
<1>8. r.op = "add"
  BY <1>2, <1>4, KnownReq DEF Shape, AddPcs
<1> QED BY <1>2, <1>3, <1>4, <1>7, <1>8, GoneOn DEF Exact

LEMMA FindAlone ==
  ASSUME Inv, Alone, NEW p \in Clients, ReorderFind(p) \/ RemoveFind(p) \/ LayoutCheck(p)
  PROVE  Alone'
<1>1. UNCHANGED <<table, history>>
  BY DEF ReorderFind, RemoveFind, LayoutCheck
<1>2. CASE Reply(p)
  BY <1>1, <1>2, ReplyAlone
<1>3. CASE ReorderFind(p) /\ ~Reply(p)
  <2> DEFINE r == [req[p] EXCEPT !.pc = "apply"]
  <2>1. /\ req' = [req EXCEPT ![p] = r] /\ req[p].pc = "reorderFind"
        /\ \A n \in DOMAIN req[p].todo : item[req[p].todo[n].item].doc = req[p].doc
    BY <1>3 DEF ReorderFind, Proceed, Inv, ReqsOK
  <2>2. r.pc = "apply" /\ r.op = req[p].op /\ r.doc = req[p].doc /\ r.refs = req[p].refs /\ r.todo = req[p].todo /\ r.done = req[p].done
    BY KnownReq DEF ReqRecord
  <2> HIDE DEF r
  <2>3. r.op = "reorder" /\ Writes(r) = Writes(req[p])
    BY <2>1, <2>2, KnownReq DEF Shape, Writes
  <2>4. Exact(r)
    BY <2>2, <2>3, KnownReq DEF Exact, LayoutKnown, DocKnown
  <2> QED BY <1>1, <2>1, <2>2, <2>4, GoneOn
<1>4. CASE RemoveFind(p) /\ ~Reply(p)
  <2> DEFINE w == [item |-> req[p].item, to |-> None]
             r == [req[p] EXCEPT !.pc = "delete", !.todo = <<w>>]
  <2>1. req' = [req EXCEPT ![p] = r] /\ req[p].pc = "removeFind" /\ item[req[p].item].doc = req[p].doc
    BY <1>4 DEF RemoveFind, Inv, ReqsOK
  <2>2. /\ r.pc = "delete" /\ r.op = req[p].op /\ r.doc = req[p].doc /\ r.refs = req[p].refs /\ r.item = req[p].item
        /\ r.todo = <<w>> /\ r.done = req[p].done
    BY KnownReq DEF ReqRecord
  <2>3. w = Deletion(r)
    BY <2>2 DEF Deletion
  <2> HIDE DEF r, w
  <2>4. req[p].done = {} /\ req[p].op = "remove"
    BY <2>1, KnownReq DEF Shape, WritePcs
  <2>5. Exact(r)
    BY <2>1, <2>2, <2>3, <2>4 DEF Exact, LayoutKnown, DocKnown
  <2> QED BY <1>1, <2>1, <2>2, <2>5, GoneOn
<1>5. CASE LayoutCheck(p) /\ ~Reply(p)
  <2> DEFINE r == [req[p] EXCEPT !.pc = "layoutDelete"]
  <2>1. req' = [req EXCEPT ![p] = r] /\ \A i \in Items : item[i].ref # Head(req[p].refs)
    BY <1>5 DEF LayoutCheck, Proceed, Inv, ReqsOK
  <2>2. /\ r.pc = "layoutDelete" /\ r.op = req[p].op /\ r.refs = req[p].refs /\ r.doc = req[p].doc
        /\ Writes(r) = Writes(req[p])
    BY KnownReq DEF ReqRecord, Writes
  <2> HIDE DEF r
  <2>3. Exact(r)
    BY <2>1, <2>2, KnownReq DEF Exact, LayoutKnown, DocKnown
  <2> QED BY <1>1, <2>1, <2>2, <2>3, GoneOn
<1> QED BY <1>2, <1>3, <1>4, <1>5

LEMMA DropAlone ==
  ASSUME Inv, Alone, NEW p \in Clients, DropDocument(p)
  PROVE  Alone'
<1>1. UNCHANGED <<table, history>> /\ req[p].op = "drop" /\ req[p] \in ReqRecord
  BY KnownReq DEF DropDocument, Shape
<1>2. CASE Reply(p)
  BY <1>1, <1>2, ReplyAlone
<1>3. CASE ~Reply(p)
  <2>1. PICK s \in Lists(ItemsOf(req[p].doc)) :
           LET deletes == [a \in DOMAIN s |-> [item |-> s[a], to |-> None]] IN
             req' = [req EXCEPT ![p].pc = Then(deletes), ![p].todo = deletes]
    BY <1>3 DEF DropDocument
  <2> DEFINE todo == [a \in DOMAIN s |-> [item |-> s[a], to |-> None]]
             r == [req[p] EXCEPT !.pc = Then(todo), !.todo = todo]
  <2>2. req' = [req EXCEPT ![p] = r]
    BY <2>1 DEF Inv, ReqsOK
  <2> HIDE DEF todo
  <2>3. r.pc \in {"apply", "commit"} /\ r.op = "drop" /\ r.doc = req[p].doc /\ r.refs = req[p].refs
    BY <1>1 DEF Then, ReqRecord
  <2> HIDE DEF r
  <2>4. Exact(r)
    BY <2>3, NothingKnown
  <2> QED BY <1>1, <2>2, <2>3, <2>4, GoneOn
<1> QED BY <1>2, <1>3

LEMMA ScanAlone ==
  ASSUME Inv, Alone, NEW p \in Clients, Scan(p)
  PROVE  Alone'
<1> DEFINE S == ItemsOf(req[p].doc) \ {req[p].item}
<1>1. PICK s \in SortedLists(S) : req' = [req EXCEPT ![p].pc = Then(Renumber(s)), ![p].todo = Renumber(s)]
  BY DEF Scan
<1> DEFINE todo == Renumber(s)
           r == [req[p] EXCEPT !.pc = Then(todo), !.todo = todo]
<1>2. req' = [req EXCEPT ![p] = r]
  BY <1>1 DEF Inv, ReqsOK
<1>3. UNCHANGED <<table, history>> /\ req[p].pc = "scan" /\ req[p].op = "remove" /\ req[p] \in ReqRecord
  BY KnownReq DEF Scan, Shape
<1> HIDE DEF todo
<1>4. /\ r.pc = Then(todo) /\ r.op = "remove" /\ r.doc = req[p].doc /\ r.item = req[p].item
      /\ r.refs = req[p].refs /\ r.todo = todo /\ r.done = req[p].done
  BY <1>3 DEF ReqRecord
<1>5. r.pc \in {"apply", "commit"}
  BY <1>4 DEF Then
<1> HIDE DEF r
<1>6. Kept(r) = S
  BY <1>4 DEF Kept
<1>7. ASSUME r.doc \in Docs \ overlapped PROVE DocKnown(r)
  <2>0. DocKnown(req[p]) /\ Deletion(r) = Deletion(req[p]) /\ Deletion(r).to = None
    BY <1>4, <1>7, KnownReq DEF Exact, Deletion
  <2>1. r.done = {Deletion(r)} /\ Deletion(r).to = None
    BY <1>3, <1>4, <2>0 DEF DocKnown
  <2>2. s \in Lists(S) /\ S \in SUBSET Items /\ r.todo = Renumber(s)
    BY <1>4 DEF SortedLists, ItemsOf, todo
  <2> HIDE DEF S
  <2>3. /\ Plan(Numbers(r), S)
        /\ \A w \in Numbers(r) : \E a \in DOMAIN s : w.item = s[a] /\ w.to = a - 1
        /\ DOMAIN s \subseteq Nat
    BY <2>1, <2>2, RenumberPlan
  <2>4. Ascends(Numbers(r))
    <3> SUFFICES ASSUME NEW w \in Numbers(r), NEW v \in Numbers(r), item[w.item].index < item[v.item].index
                 PROVE  w.to < v.to
      BY DEF Ascends
    <3>1. PICK a \in DOMAIN s, b \in DOMAIN s : w.item = s[a] /\ w.to = a - 1 /\ v.item = s[b] /\ v.to = b - 1
      BY <2>3
    <3>2. s[a] \in Items /\ s[b] \in Items
      BY <2>2, <3>1, <2>3 DEF Plan
    <3>3. item[s[a]].index \in Int /\ item[s[b]].index \in Int
      BY <3>2 DEF Inv, TableOK, ItemRow
    <3>4. a \in Nat /\ b \in Nat /\ (b < a => item[s[b]].index <= item[s[a]].index)
      BY <2>3 DEF SortedLists
    <3>5. a # b /\ ~(b < a)
      BY <3>1, <3>3, <3>4
    <3> QED BY <3>1, <3>4, <3>5
  <2> QED BY <1>4, <1>5, <1>6, <2>1, <2>3, <2>4 DEF DocKnown
<1>8. Exact(r)
  BY <1>4, <1>5, <1>7 DEF Exact, LayoutKnown
<1> QED BY <1>2, <1>3, <1>4, <1>8, GoneOn

(* A transaction that is alone writes rows that are there, and what it has    *)
(* yet to write and has written stay together what it was to write.         *)
LEMMA ApplyAlone ==
  ASSUME Inv, Alone, NEW p \in Clients, Apply(p)
  PROVE  Alone'
<1>1. UNCHANGED <<table, history>> /\ req[p].pc \in {"delete", "apply"} /\ req[p] \in ReqRecord /\ Shape(req[p])
  BY KnownReq DEF Apply, Writing
<1>2. CASE Reply(p)
  BY <1>1, <1>2, ReplyAlone
<1>3. CASE ~Reply(p)
  <2> DEFINE w == Head(req[p].todo)
             rest == Tail(req[p].todo)
             gone == item[w.item].doc = None
             done == IF gone THEN req[p].done ELSE req[p].done \cup {w}
             pc == IF req[p].pc = "delete" THEN "scan" ELSE Then(rest)
             r == [req[p] EXCEPT !.pc = pc, !.todo = rest, !.done = done]
  <2>1. req' = [req EXCEPT ![p] = r]
    BY <1>3 DEF Apply, Inv, ReqsOK
  <2>2. req[p].todo \in Seq(WriteOf) /\ req[p].todo # <<>> /\ req[p].op \in {"reorder", "remove", "drop"} /\ req[p].doc \in Docs
        /\ (req[p].pc = "delete" => req[p].op = "remove")
    BY <1>1 DEF ReqRecord, Shape, WritePcs
  <2>3. /\ w = req[p].todo[1] /\ 1 \in DOMAIN req[p].todo
        /\ \A n \in DOMAIN rest : n + 1 \in DOMAIN req[p].todo /\ rest[n] = req[p].todo[n + 1]
        /\ \A n \in DOMAIN req[p].todo : req[p].todo[n] = w \/ \E m \in DOMAIN rest : rest[m] = req[p].todo[n]
    BY <2>2, Popped
  <2>4. pc \in {"scan", "apply", "commit"} /\ (pc = "scan" <=> req[p].pc = "delete")
    BY DEF Then
  <2>5. /\ r.pc = pc /\ r.op = req[p].op /\ r.doc = req[p].doc /\ r.refs = req[p].refs /\ r.item = req[p].item /\ r.todo = rest /\ r.done = done
    BY <1>1 DEF ReqRecord
  <2>6. ~gone => done = req[p].done \cup {w}
    OBVIOUS
  <2>7. req[p].todo = <<w>> => rest = <<>>
    <3>1. \A x : Tail(<<x>>) = <<>>
      OBVIOUS
    <3> QED BY <3>1
  <2> HIDE DEF r, pc, done, w, rest
  <2>8. Writes(r) \subseteq Writes(req[p]) /\ (~gone => Writes(r) = Writes(req[p]))
    <3>1. \A v : v \in Writes(req[p]) <=> v \in req[p].done \/ v = w \/ \E n \in DOMAIN rest : v = rest[n]
      BY <2>3 DEF Writes
    <3>2. \A v : v \in Writes(r) <=> v \in done \/ \E n \in DOMAIN rest : v = rest[n]
      BY <2>5 DEF Writes
    <3>3. done = req[p].done \/ done = req[p].done \cup {w}
      BY DEF done
    <3> QED BY <2>6, <3>1, <3>2, <3>3
  <2>9. ASSUME r.op # "remove" PROVE DocKnown(r)
    BY <2>2, <2>4, <2>5, <2>9 DEF DocKnown
  <2>10. ASSUME r.doc \in Docs \ overlapped, r.op = "remove" PROVE DocKnown(r)
    <3>1. DocKnown(req[p])
      BY <2>5, <2>10, KnownReq DEF Exact
    <3>2. CASE req[p].pc = "delete"
      <4>1. req[p].todo = <<Deletion(req[p])>> /\ req[p].done = {} /\ item[req[p].item].doc = req[p].doc
        BY <3>1, <3>2 DEF DocKnown
      <4>2. w = Deletion(req[p]) /\ w.item = req[p].item /\ Deletion(r) = w
        BY <2>3, <2>5, <4>1 DEF Deletion
      <4>3. ~gone
        BY <2>2, <4>1, <4>2, NoneAssumption
      <4>4. r.done = {Deletion(r)} /\ r.todo = <<>>
        BY <2>5, <2>6, <2>7, <4>1, <4>2, <4>3
      <4> QED BY <2>4, <2>5, <3>2, <4>4 DEF DocKnown
    <3>3. CASE req[p].pc = "apply"
      <4>1. Plan(Numbers(req[p]), Kept(req[p])) /\ Deletion(req[p]) \in req[p].done /\ Ascends(Numbers(req[p]))
        BY <2>5, <2>10, <3>1, <3>3 DEF DocKnown
      <4>2. item[w.item].doc = req[p].doc
        <5>1. CASE w \in Numbers(req[p])
          BY <4>1, <5>1 DEF Plan, Kept, ItemsOf
        <5>2. CASE w \notin Numbers(req[p])
          <6>1. w.to = None
            BY <2>3, <5>2 DEF Numbers, Writes
          <6>2. w.item = req[p].item
            BY <1>1, <2>3, <2>5, <2>10, <6>1 DEF Shape, Deletes
          <6>3. item[Deletion(req[p]).item].doc = req[p].doc
            BY <4>1, KnownReq DEF Aim
          <6> QED BY <6>2, <6>3 DEF Deletion
        <5> QED BY <5>1, <5>2
      <4>3. ~gone
        BY <2>2, <4>2, NoneAssumption
      <4>4. Numbers(r) = Numbers(req[p]) /\ Kept(r) = Kept(req[p]) /\ Deletion(r) = Deletion(req[p])
        BY <2>5, <2>8, <4>3 DEF Numbers, Kept, Deletion
      <4>5. Deletion(r) \in r.done
        BY <2>5, <2>6, <4>1, <4>3, <4>4
      <4> QED BY <2>4, <2>5, <3>3, <4>1, <4>4, <4>5 DEF DocKnown
    <3> QED BY <1>1, <3>2, <3>3
  <2>11. r.op = "reorder" => OneEach(Writes(r))
    BY <2>5, <2>8, KnownReq DEF Exact, OneEach
  <2>12. Exact(r)
    BY <2>4, <2>5, <2>9, <2>10, <2>11 DEF Exact, LayoutKnown
  <2> QED BY <1>1, <2>1, <2>5, <2>12, GoneOn
<1> QED BY <1>2, <1>3

(* A commit keeps what its rows refer to, and touches no row of another       *)
(* document.                                                               *)
LEMMA CommittedRows ==
  ASSUME Inv, NEW p \in Clients, Commit(p), NEW i \in Items
  PROVE  /\ item'[i] = Written(p, i) /\ item'[i] \in ItemRow /\ item[i] \in ItemRow /\ req[p].doc # None /\ None \notin Docs
         /\ item'[i] = Blank \/ (item'[i].doc = item[i].doc /\ item'[i].ref = item[i].ref)
         /\ item[i].doc # req[p].doc => item'[i] = item[i]
         /\ item'[i].doc \in {item[i].doc, None}
<1>1. /\ ReqsOK /\ TableOK /\ req[p].doc \in Docs /\ None \notin Docs /\ item'[i] = Written(p, i) /\ item[i] \in ItemRow
  BY KnownReq, NoneAssumption DEF Inv, Commit, Shape, WritePcs, TableOK
<1>2. CASE \E to \in Int : Written(p, i) = [item[i] EXCEPT !.index = to]
  <2>1. PICK to \in Int : Written(p, i) = [item[i] EXCEPT !.index = to]
    BY <1>2
  <2>2. /\ [item[i] EXCEPT !.index = to] \in ItemRow
        /\ [item[i] EXCEPT !.index = to].doc = item[i].doc /\ [item[i] EXCEPT !.index = to].ref = item[i].ref
    BY <1>1 DEF ItemRow
  <2>3. item[i].doc # req[p].doc => item'[i] = item[i]
    BY <1>1, WrittenRow
  <2> QED BY <1>1, <2>1, <2>2, <2>3
<1>3. CASE Written(p, i) = Blank /\ item[i].doc = req[p].doc
  BY <1>1, <1>3, BlankRow
<1>4. CASE Written(p, i) = item[i]
  BY <1>1, <1>4
<1> QED BY <1>1, <1>2, <1>3, <1>4, WrittenRow

LEMMA NothingKnownThen ==
  ASSUME NEW p \in Clients, req'[p] = IdleReq \/ (req'[p].pc = "addFind" /\ req'[p].op # "reorder")
  PROVE  Exact(req[p])'
<1>1. CASE req'[p].pc = "addFind" /\ req'[p].op # "reorder"
  BY <1>1 DEF Exact, LayoutKnown, DocKnown
<1>2. CASE req'[p] = IdleReq
  <2>1. req'[p].pc = "idle" /\ req'[p].done = {} /\ DOMAIN req'[p].todo = {}
    BY <1>2 DEF IdleReq
  <2>2. OneEach(Writes(req[p]))'
    BY <2>1 DEF Writes, OneEach
  <2> QED BY <2>1, <2>2 DEF Exact, LayoutKnown, DocKnown
<1> QED BY <1>1, <1>2

LEMMA CommitAlone ==
  ASSUME Inv, Alone, NEW p \in Clients, Commit(p)
  PROVE  Alone'
<1>1. /\ req' = [req EXCEPT ![p] = IdleReq] /\ req'[p] = IdleReq
      /\ UNCHANGED <<layouts, overlapped, crossed>>
  BY DEF Commit, Reply, Inv, ReqsOK
<1>2. Met /\ req[p].doc \in Docs
  BY KnownReq DEF Alone, Commit, Shape, WritePcs
<1>3. \A q \in Clients \ {p} : req[q].doc \in Docs \ overlapped => SameRows(req[q].doc)
  <2> SUFFICES ASSUME NEW q \in Clients \ {p}, req[q].doc \in Docs \ overlapped PROVE SameRows(req[q].doc)
    OBVIOUS
  <2>1. req[q].doc # req[p].doc
    BY <1>2 DEF Met
  <2>2. \A i \in Items : (item[i].doc # req[p].doc => item'[i] = item[i]) /\ item'[i].doc \in {item[i].doc, None}
    BY CommittedRows
  <2> QED BY <2>1, <2>2, NoneAssumption DEF SameRows
<1>4. \A q, l : l \in Layouts => SameLayout(q, l)
  <2>1. \A i \in Items : item'[i] = Blank \/ item'[i].ref = item[i].ref
    BY CommittedRows
  <2>2. Blank.ref \notin Layouts
    BY RefsAssumption DEF Blank
  <2> QED BY <1>1, <2>1, <2>2 DEF SameLayout
<1>5. Exact(req[p])'
  BY <1>1, NothingKnownThen
<1> QED BY <1>1, <1>3, <1>4, <1>5, IdleExact, AloneStep

LEMMA InsertAlone ==
  ASSUME Inv, Alone, NEW p \in Clients, NEW j \in Items, Inserts(p, j), UNCHANGED <<layouts, overlapped>>,
         crossed \subseteq crossed', \A q \in Clients, l \in Layouts : l = Head(req[p].refs) /\ Deleting(q, l) => l \in crossed'
  PROVE  Alone'
<1>1. Met /\ Shape(req[p]) /\ req[p] \in ReqRecord /\ req[p].doc \in Docs /\ req[p].op = "add" /\ req[p].refs # <<>>
  BY KnownReq DEF Alone, Inserts, Shape, AddPcs
<1>2. /\ item'[j].doc = req[p].doc /\ item'[j].ref = Head(req[p].refs) /\ item[j].doc = None
      /\ \A i \in Items \ {j} : item'[i] = item[i]
  BY DEF Inserts, Inv, TableOK
<1>3. \A q \in Clients \ {p} : req[q].doc \in Docs \ overlapped => SameRows(req[q].doc)
  <2> SUFFICES ASSUME NEW q \in Clients \ {p}, req[q].doc \in Docs \ overlapped PROVE SameRows(req[q].doc)
    OBVIOUS
  <2>1. req[q].doc # req[p].doc
    BY <1>1 DEF Met
  <2> QED BY <1>2, <2>1, NoneAssumption DEF SameRows
<1>4. \A q \in Clients \ {p} : \A l \in Layouts \ crossed' : SameLayout(q, l)
  BY <1>2 DEF SameLayout
<1>5. CASE Reply(p)
  <2>1. req' = [req EXCEPT ![p] = IdleReq] /\ req'[p] = IdleReq
    BY <1>5 DEF Reply, Inv, ReqsOK
  <2>2. Exact(req[p])'
    BY <2>1, NothingKnownThen
  <2> QED BY <1>3, <1>4, <2>1, <2>2, IdleExact, AloneStep
<1>6. CASE ~Reply(p)
  <2> DEFINE r == [req[p] EXCEPT !.pc = "addFind", !.refs = Tail(req[p].refs), !.index = 0]
  <2>1. req' = [req EXCEPT ![p] = r]
    BY <1>6 DEF Inserts, Inv, ReqsOK
  <2>2. r.pc = "addFind" /\ r.op = req[p].op /\ r.doc = req[p].doc
    BY <1>1 DEF ReqRecord
  <2> HIDE DEF r
  <2>3. req'[p] = r
    BY <2>1 DEF Inv, ReqsOK
  <2>4. Exact(req[p])'
    BY <1>1, <2>2, <2>3, NothingKnownThen
  <2>5. \A q \in Clients \ {p} : r.doc = req[q].doc => r.doc \notin Docs \ overlapped
    BY <1>1, <2>2 DEF Met
  <2> QED BY <1>3, <1>4, <2>1, <2>4, <2>5, AloneStep
<1> QED BY <1>5, <1>6

LEMMA DeleteAlone ==
  ASSUME Inv, Alone, NEW p \in Clients, LayoutDelete(p)
  PROVE  Alone'
<1>1. /\ req' = [req EXCEPT ![p] = IdleReq] /\ req'[p] = IdleReq /\ UNCHANGED <<item, overlapped>>
      /\ layouts' = layouts \ {Head(req[p].refs)} /\ crossed \subseteq crossed'
      /\ \A l \in Layouts, q \in Clients : l = Head(req[p].refs) /\ Adding(q, l) => l \in crossed'
  BY DEF LayoutDelete, Reply, Inv, ReqsOK
<1>3. \A q \in Clients \ {p} : \A l \in Layouts \ crossed' : SameLayout(q, l)
  BY <1>1 DEF SameLayout
<1>4. \A d : SameRows(d)
  BY <1>1 DEF SameRows
<1>5. Exact(req[p])'
  BY <1>1, NothingKnownThen
<1> QED BY <1>1, <1>3, <1>4, <1>5, IdleExact, AloneStep

LEMMA NextAlone ==
  ASSUME Inv, Alone, [Next]_vars
  PROVE  Alone'
<1>1. ASSUME NEW p \in Clients, Continue(p) \/ StatementFails(p) PROVE Alone'
  <2>1. CASE Deadlock(p) \/ StatementFails(p)
    <3>1. Reply(p) /\ UNCHANGED <<table, history>>
      BY <2>1 DEF Deadlock, StatementFails
    <3> QED BY <3>1, ReplyAlone
  <2>2. CASE AddCreate(p)
    <3>1. CASE req[p].doc \in documents
      <4>1. \E j \in Items : Inserts(p, j)
        BY <2>2, <3>1 DEF AddCreate, Inserts, Unused
      <4>2. /\ UNCHANGED <<layouts, overlapped>> /\ crossed \subseteq crossed'
            /\ \A q \in Clients, l \in Layouts : l = Head(req[p].refs) /\ Deleting(q, l) => l \in crossed'
        BY <2>2, <3>1 DEF AddCreate
      <4> QED BY <4>1, <4>2, InsertAlone
    <3>2. CASE req[p].doc \notin documents
      <4>1. Reply(p) /\ UNCHANGED <<table, history>>
        BY <2>2, <3>2 DEF AddCreate, table, history
      <4> QED BY <4>1, ReplyAlone
    <3> QED BY <3>1, <3>2
  <2> QED BY <1>1, <2>1, <2>2, AddFindAlone, AddLastAlone, FindAlone, DropAlone, ScanAlone, ApplyAlone, CommitAlone,
             DeleteAlone DEF Continue
<1>2. CASE UNCHANGED <<item, req, overlapped, crossed>> /\ layouts \subseteq layouts'
  <2>1. \A q \in Clients : Exact(req[q]) => Exact(req[q])'
    BY <1>2, SameExact
  <2>2. Met'
    BY <1>2 DEF Alone, Met
  <2> QED BY <2>1, <2>2 DEF Alone
<1> QED BY <1>1, <1>2, StartAlone DEF Next, CreateDocument, CreateLayout, vars, table, history


-------------------------------------------------------------------------------
(* What changes in the table, and what was known when it did.               *)

(* Only an insert and a commit change rows, and only a commit says which      *)
(* documents are sparse.                                                   *)
LEMMA RowsChange ==
  ASSUME [Next]_vars, ~UNCHANGED <<item, sparse>>
  PROVE  \E p \in Clients : \/ Commit(p) /\ UNCHANGED <<layouts, overlapped, crossed>>
                           \/ /\ \E i \in Items : Inserts(p, i)
                              /\ UNCHANGED <<layouts, overlapped, sparse>>
<1>1. PICK p \in Clients : Commit(p) \/ AddCreate(p)
  BY ZenonT(60) DEF Next, CreateDocument, CreateLayout, Start, AddItems, Reorder, RemoveItem, RemoveDocument, RemoveLayout,
     Begin, table, history, vars, StatementFails, Continue, AddFind, AddLast, ReorderFind, RemoveFind, Scan, DropDocument,
     Apply, Deadlock, LayoutCheck, LayoutDelete
<1>2. CASE AddCreate(p)
  BY <1>2, AddCreateCases DEF AddCreate
<1> QED BY <1>1, <1>2 DEF Commit

LEMMA NextRefsFit ==
  ASSUME Inv, RefsFit, [Next]_vars
  PROVE  RefsFit'
<1>1. ASSUME NEW i \in Items, item'[i].ref \in Layouts PROVE item'[i].doc \notin Papers
  <2>1. CASE item'[i] = item[i]
    BY <1>1, <2>1 DEF RefsFit
  <2>2. ASSUME NEW p \in Clients, Commit(p) PROVE item'[i].doc \notin Papers
    <3>1. item'[i] # Blank
      BY <1>1, RefsAssumption DEF Blank
    <3> QED BY <1>1, <2>2, <3>1, CommittedRows DEF RefsFit
  <2>3. ASSUME NEW p \in Clients, NEW j \in Items, Inserts(p, j), i = j PROVE item'[i].doc \notin Papers
    <3>1. item'[i].doc = req[p].doc /\ item'[i].ref = Head(req[p].refs)
      BY <2>3 DEF Inserts, Inv, TableOK
    <3> QED BY <1>1, <2>3, <3>1 DEF Inserts, RefsFit
  <2>4. ASSUME NEW p \in Clients, NEW j \in Items, Inserts(p, j), i # j PROVE item'[i] = item[i]
    BY <2>4 DEF Inserts, Inv, TableOK
  <2> QED BY <2>1, <2>2, <2>3, <2>4, RowsChange
<1>2. ASSUME NEW p \in Clients, req'[p].pc \in {"addLast", "addCreate"}, Head(req'[p].refs) \in Layouts
      PROVE  req'[p].doc \notin Papers
  <2>1. CASE req'[p] = req[p]
    BY <1>2, <2>1 DEF RefsFit
  <2>2. CASE AddFind(p) \/ AddLast(p)
    <3>1. req[p] \in ReqRecord /\ req \in [Clients -> ReqRecord]
      BY KnownReq DEF Inv, ReqsOK
    <3>2. req'[p].refs = req[p].refs /\ req'[p].doc = req[p].doc
      BY <1>2, <2>2, <3>1, IdleOK DEF AddFind, AddLast, Proceed, Reply, ReqRecord
    <3>3. CASE AddFind(p)
      <4>1. ~Reply(p)
        BY <1>2, <3>1, IdleOK DEF Reply
      <4> QED BY <1>2, <3>2, <3>3, <4>1, RefsAssumption DEF AddFind
    <3>4. CASE AddLast(p)
      BY <1>2, <3>2, <3>4 DEF RefsFit, AddLast
    <3> QED BY <2>2, <3>3, <3>4
  <2>3. ASSUME NEW q \in Clients, req'[q].pc \notin {"addLast", "addCreate"}, NEW r, req' = [req EXCEPT ![q] = r] PROVE req'[p] = req[p]
    BY <1>2, <2>3 DEF Inv, ReqsOK
  <2>4. ASSUME NEW q \in Clients, Reply(q) PROVE req'[p] = req[p]
    <3>1. req'[q] = IdleReq
      BY <2>4 DEF Reply, Inv, ReqsOK
    <3> QED BY <2>3, <2>4, <3>1, IdleOK DEF Reply
  <2>5. ASSUME NEW q \in Clients, Start(q) \/ \E l \in Layouts : RemoveLayout(q, l) PROVE req'[p] = req[p]
    <3>1. ASSUME NEW op, NEW r, Begin(q, op, r), r.pc \in {"addFind", "reorderFind", "removeFind", "dropDocument", "layoutCheck"}
          PROVE req'[p] = req[p]
      <4>1. req'[q] = r
        BY <3>1 DEF Begin, Inv, ReqsOK
      <4> QED BY <2>3, <3>1, <4>1 DEF Begin
    <3> QED BY <2>5, <3>1 DEF Start, AddItems, Reorder, RemoveItem, RemoveDocument, RemoveLayout, IdleReq
  <2>6. ASSUME NEW q \in Clients, Continue(q), ~Reply(q), ~(AddFind(q) \/ AddLast(q)) PROVE req'[p] = req[p]
    <3> DEFINE R == req[q]
    <3>1. R \in ReqRecord /\ req \in [Clients -> ReqRecord]
      BY KnownReq DEF Inv, ReqsOK
    <3>2. CASE q # p
      BY <2>6, <3>1, <3>2 DEF Continue, AddCreate, ReorderFind, RemoveFind, Scan, DropDocument, Apply, Deadlock, Commit,
         LayoutCheck, LayoutDelete, Proceed
    <3>3. CASE q = p
      <4>1. req'[q].pc \in {"addFind", "apply", "delete", "scan", "commit", "layoutDelete"}
        <5>1. \A s : Then(s) \in {"apply", "commit"}
          BY DEF Then
        <5>2. CASE ReorderFind(q) \/ LayoutCheck(q)
          BY <2>6, <3>1, <5>2 DEF ReorderFind, LayoutCheck, Proceed, ReqRecord
        <5>3. CASE RemoveFind(q)
          BY <2>6, <3>1, <5>3 DEF RemoveFind, ReqRecord
        <5>4. CASE Scan(q) \/ DropDocument(q)
          <6>1. \E todo : req' = [req EXCEPT ![q].pc = Then(todo), ![q].todo = todo]
            BY <2>6, <5>4 DEF Scan, DropDocument
          <6>2. PICK todo : req'[q].pc = Then(todo)
            BY <3>1, <6>1 DEF ReqRecord
          <6> QED BY <5>1, <6>2
        <5>5. CASE Apply(q)
          BY <2>6, <3>1, <5>1, <5>5 DEF Apply, ReqRecord
        <5>6. CASE AddCreate(q)
          BY <2>6, <3>1, <5>6 DEF AddCreate, ReqRecord
        <5> QED BY <2>6, <5>2, <5>3, <5>4, <5>5, <5>6 DEF Continue, Deadlock, Commit, LayoutDelete
      <4> QED BY <1>2, <3>3, <4>1
    <3> QED BY <3>2, <3>3
  <2>7. ASSUME NEW q \in Clients, AddFind(q) \/ AddLast(q), q # p PROVE req'[p] = req[p]
    BY <2>7 DEF AddFind, AddLast, Reply, Proceed, Inv, ReqsOK
  <2> QED BY <2>1, <2>2, <2>4, <2>5, <2>6, <2>7 DEF Next, CreateDocument, CreateLayout, vars, table, StatementFails
<1> QED BY <1>1, <1>2 DEF RefsFit

(* What a commit leaves of its document: all items, those written with the    *)
(* numbers written; or nothing; or, when no other request overlapped with a  *)
(* removal, the others, numbered as planned.                                *)
Outcome(r) ==
  /\ r.op = "reorder" =>
       /\ \A w \in r.done : w.item \in ItemsOf(r.doc) /\ item'[w.item].index = w.to
       /\ \A i \in Items : item'[i].doc = r.doc <=> item[i].doc = r.doc
       /\ \A i \in Items : (\A w \in r.done : w.item # i) => item'[i] = item[i]
  /\ r.op = "remove" =>
       /\ Plan(Numbers(r), Kept(r)) /\ Ascends(Numbers(r)) /\ r.item \in ItemsOf(r.doc)
       /\ \A w \in Numbers(r) : item'[w.item].index = w.to
       /\ \A i \in Items : item'[i].doc = r.doc <=> i \in Kept(r)
  /\ r.op = "drop" => \A i \in Items : item'[i].doc # r.doc

LEMMA CommittedAlone ==
  ASSUME Inv, Alone, NEW p \in Clients, Commit(p), req[p].doc \notin overlapped
  PROVE  Outcome(req[p]) /\ req[p].op \in {"reorder", "remove", "drop"}
<1>1. /\ Shape(req[p]) /\ Aim(req[p]) /\ req[p] \in ReqRecord /\ DocKnown(req[p]) /\ Exact(req[p])
      /\ req[p].pc = "commit" /\ req[p].todo = <<>> /\ req[p].op \in {"reorder", "remove", "drop"}
  BY KnownReq DEF Commit, Shape, WritePcs, Exact
<1>2. \A i \in Items : item'[i] = Written(p, i) /\ (item'[i] = Blank => item'[i].doc = None) /\ (item[i].doc # req[p].doc => item'[i] = item[i])
  BY CommittedRows, BlankRow
<1>3. req[p].doc # None
  BY <1>1, NoneAssumption DEF Shape, WritePcs
<1>4. CASE req[p].op = "drop"
  <2>1. ASSUME NEW i \in Items, item[i].doc = req[p].doc PROVE item'[i] = Blank
    <3>1. PICK w \in req[p].done : w.item = i
      BY <1>1, <1>4, <2>1 DEF Aim, ItemsOf
    <3>2. w.to = None /\ w \in WriteOf
      BY <1>1, <1>4, <3>1 DEF Shape, ReqRecord
    <3>3. w = [item |-> i, to |-> None]
      BY <3>1, <3>2 DEF WriteOf
    <3> QED BY <1>2, <3>1, <3>3 DEF Written
  <2> QED BY <1>2, <1>3, <1>4, <2>1 DEF Outcome
<1>5. CASE req[p].op = "reorder"
  <2>1. \A w \in req[p].done : w \in WriteOf /\ w.to # None /\ item[w.item].doc = req[p].doc
    BY <1>1, <1>5 DEF Shape, Deletes, Aim, ReqRecord
  <2>2. \A w, v \in req[p].done : w.item = v.item => w = v
    BY <1>1, <1>5 DEF Exact, OneEach, Writes
  <2>3. ASSUME NEW w \in req[p].done
        PROVE  w.item \in ItemsOf(req[p].doc) /\ item'[w.item].index = w.to /\ item'[w.item].doc = req[p].doc
    <3> DEFINE i == w.item
               v == CHOOSE v \in req[p].done : v.item = i
    <3>1. i \in Items /\ item[i].doc = req[p].doc /\ item[i] \in ItemRow
      BY <2>1 DEF WriteOf, Inv, TableOK
    <3>2. v \in req[p].done /\ v.item = i
      OBVIOUS
    <3>3. v = w
      BY <2>2, <3>2
    <3>4. [item |-> i, to |-> None] \notin req[p].done
      BY <2>1
    <3>5. Written(p, i) = [item[i] EXCEPT !.index = v.to]
      BY <3>4 DEF Written, Holds
    <3> HIDE DEF i, v
    <3>6. item'[i] = [item[i] EXCEPT !.index = w.to]
      BY <1>2, <3>1, <3>3, <3>5
    <3>7. item'[i].index = w.to /\ item'[i].doc = req[p].doc
      BY <3>1, <3>6 DEF ItemRow
    <3> QED BY <3>1, <3>7 DEF i, ItemsOf
  <2>4. ASSUME NEW i \in Items, \A w \in req[p].done : w.item # i PROVE item'[i] = item[i]
    BY <1>2, <2>4 DEF Written, Holds
  <2>5. \A i \in Items : item'[i].doc = req[p].doc <=> item[i].doc = req[p].doc
    BY <2>1, <2>3, <2>4
  <2> QED BY <1>5, <2>3, <2>4, <2>5 DEF Outcome
<1>6. CASE req[p].op = "remove"
  <2> DEFINE W == Numbers(req[p])
             S == Kept(req[p])
  <2>1. Plan(W, S) /\ Deletion(req[p]) \in req[p].done /\ Ascends(W)
    BY <1>1, <1>6 DEF DocKnown
  <2>2. \A w : w \in W <=> w \in req[p].done /\ w.to # None
    BY <1>1 DEF Numbers, Writes
  <2>3. \A w \in req[p].done : w.to = None => w.item = req[p].item
    BY <1>1, <1>6 DEF Shape, Deletes
  <2>4. S \subseteq ItemsOf(req[p].doc) /\ req[p].item \notin S
        /\ \A i \in ItemsOf(req[p].doc) : i \in S \/ i = req[p].item
    BY DEF Kept
  <2>5. \A i \in ItemsOf(req[p].doc) : i \in Items /\ item[i].doc = req[p].doc /\ item[i] \in ItemRow
    BY DEF ItemsOf, Inv, TableOK
  <2> HIDE DEF W, S
  <2>6. ASSUME NEW w \in W PROVE w.item \in S /\ item'[w.item].index = w.to /\ item'[w.item].doc = req[p].doc
    <3> DEFINE i == w.item
               v == CHOOSE v \in req[p].done : v.item = i
    <3>1. w \in req[p].done /\ i \in S /\ w.to \in Nat
      BY <2>1, <2>2 DEF Plan
    <3>2. v \in req[p].done /\ v.item = i
      BY <3>1
    <3>3. v.to # None
      BY <2>3, <2>4, <3>1, <3>2
    <3>4. v = w
      BY <2>1, <2>2, <3>2, <3>3 DEF Plan, OneEach
    <3>5. [item |-> i, to |-> None] \notin req[p].done
      BY <2>3, <2>4, <3>1
    <3>6. Written(p, i) = [item[i] EXCEPT !.index = v.to]
      BY <3>1, <3>5 DEF Written, Holds
    <3>7. item[i] \in ItemRow /\ item[i].doc = req[p].doc /\ i \in Items
      BY <2>4, <2>5, <3>1
    <3> HIDE DEF i, v
    <3>8. item'[i] = [item[i] EXCEPT !.index = w.to]
      BY <1>2, <3>4, <3>6, <3>7
    <3>9. item'[i].index = w.to /\ item'[i].doc = req[p].doc
      BY <3>7, <3>8 DEF ItemRow
    <3> QED BY <3>1, <3>9 DEF i
  <2>7. \A i \in S : item'[i].doc = req[p].doc
    BY <2>1, <2>6 DEF Plan
  <2>8. item'[req[p].item].doc = None /\ req[p].item \in ItemsOf(req[p].doc)
    <3>1. Deletion(req[p]) \in req[p].done /\ Deletion(req[p]).item = req[p].item
      BY <2>1 DEF Deletion
    <3>2. Deletion(req[p]) \in WriteOf /\ item[Deletion(req[p]).item].doc = req[p].doc
      BY <1>1, <3>1 DEF Aim, ReqRecord
    <3>3. req[p].item \in Items /\ item[req[p].item].doc = req[p].doc
      BY <3>1, <3>2 DEF WriteOf
    <3>4. item'[req[p].item] = Blank
      BY <1>2, <3>1, <3>3 DEF Written, Deletion
    <3> QED BY <1>2, <3>3, <3>4 DEF ItemsOf
  <2>9. ASSUME NEW i \in Items PROVE item'[i].doc = req[p].doc <=> i \in S
    <3>1. CASE item[i].doc # req[p].doc
      BY <1>2, <2>4, <2>5, <3>1
    <3>2. CASE item[i].doc = req[p].doc
      <4>1. i \in ItemsOf(req[p].doc)
        BY <3>2 DEF ItemsOf
      <4> QED BY <1>3, <2>4, <2>7, <2>8, <4>1
    <3> QED BY <3>1, <3>2
  <2> QED BY <1>6, <2>1, <2>6, <2>8, <2>9 DEF Outcome, W, S
<1> QED BY <1>1, <1>4, <1>5, <1>6

(* What an insert adds, and what is known of it where no other overlapped.    *)
LEMMA Inserted ==
  ASSUME Inv, Alone, NEW p \in Clients, NEW j \in Items, Inserts(p, j)
  PROVE  /\ \A i \in Items : item'[i] = IF i = j THEN [doc |-> req[p].doc, ref |-> Head(req[p].refs), index |-> req[p].index] ELSE item[i]
         /\ item[j].doc = None /\ req[p].doc \in Docs /\ None \notin Docs /\ req[p].index \in Int
         /\ req[p].doc \notin overlapped => AtTheEnd(req[p])
         /\ Head(req[p].refs) \in Questions \cup layouts \cup crossed
<1>1. Shape(req[p]) /\ req[p] \in ReqRecord /\ Exact(req[p]) /\ req[p].pc = "addCreate"
  BY KnownReq DEF Inserts
<1> QED BY <1>1, NoneAssumption DEF Inserts, Exact, LayoutKnown, DocKnown, Shape, AddPcs, ReqRecord, Inv, TableOK

LEMMA Began ==
  ASSUME NEW p \in Clients, Start(p) \/ \E l \in Layouts : RemoveLayout(p, l)
  PROVE  \E op, r : Begin(p, op, r)
BY DEF Start, AddItems, Reorder, RemoveItem, RemoveDocument, RemoveLayout

LEMMA OverlapsChange ==
  ASSUME [Next]_vars, overlapped' # overlapped
  PROVE  \E p \in Clients : \E op, r : Begin(p, op, r)
<1>1. PICK p \in Clients : Start(p) \/ \E l \in Layouts : RemoveLayout(p, l)
  BY ZenonT(60) DEF Next, CreateDocument, CreateLayout, history, vars, StatementFails, Continue, AddFind, AddLast, AddCreate,
     ReorderFind, RemoveFind, Scan, DropDocument, Apply, Deadlock, Commit, LayoutCheck, LayoutDelete
<1> QED BY <1>1, Began

LEMMA CrossingsChange ==
  ASSUME [Next]_vars, crossed' # crossed
  PROVE  \E p \in Clients : AddCreate(p) \/ LayoutDelete(p)
<1>1. \A p \in Clients : ~(Start(p) \/ \E l \in Layouts : RemoveLayout(p, l))
  BY Began DEF Begin
<1> QED BY <1>1, ZenonT(60) DEF Next, CreateDocument, CreateLayout, history, vars, StatementFails, Continue, AddFind, AddLast,
         ReorderFind, RemoveFind, Scan, DropDocument, Apply, Deadlock, Commit, LayoutCheck

LEMMA HistoryStays ==
  ASSUME Inv, [Next]_vars
  PROVE  overlapped \subseteq overlapped' /\ crossed \subseteq crossed'
<1>1. overlapped \subseteq overlapped'
  BY OverlapsChange DEF Begin
<1>2. crossed \subseteq crossed'
  BY CrossingsChange DEF AddCreate, LayoutDelete
<1> QED BY <1>1, <1>2

(* The indexes of a document's items have no gap and no repetition. *)
Gapless(d) ==
  \A i \in ItemsOf(d) : /\ \A j \in ItemsOf(d) : item[j].index = item[i].index => i = j
                        /\ item[i].index = 0 \/ \E j \in ItemsOf(d) : item[j].index + 1 = item[i].index

Spaced == \A d \in Docs \ (overlapped \cup sparse) : Gapless(d)

LEMMA DenseIsGapless == TableOK => (Dense <=> Spaced)
<1> SUFFICES ASSUME TableOK PROVE Dense <=> Spaced
  OBVIOUS
<1>1. \A i \in Live : i \in Items /\ item[i].doc \in Docs /\ i \in ItemsOf(item[i].doc)
  BY DEF TableOK, ItemRow, Live, ItemsOf
<1>2. \A d \in Docs : \A i \in ItemsOf(d) : i \in Live /\ item[i].doc = d
  BY NoneAssumption DEF ItemsOf, Live
<1>3. ASSUME Dense, NEW d \in Docs \ (overlapped \cup sparse) PROVE Gapless(d)
  BY <1>2, <1>3 DEF Dense, Gapless
<1>4. ASSUME Spaced PROVE Dense
  <2> SUFFICES ASSUME NEW i \in Live, item[i].doc \notin overlapped \cup sparse
               PROVE  /\ \A j \in Live \ {i} : item[j].doc = item[i].doc => item[j].index # item[i].index
                      /\ item[i].index = 0 \/ \E j \in ItemsOf(item[i].doc) : item[j].index + 1 = item[i].index
    BY DEF Dense
  <2>1. Gapless(item[i].doc) /\ i \in ItemsOf(item[i].doc)
    BY <1>1, <1>4 DEF Spaced
  <2>2. \A j \in Live : item[j].doc = item[i].doc => j \in ItemsOf(item[i].doc)
    BY DEF Live, ItemsOf
  <2> QED BY <2>1, <2>2 DEF Gapless
<1> QED BY <1>3, <1>4 DEF Spaced

LEMMA DenseIsGaplessNext == (TableOK => (Dense <=> Spaced))'
BY DenseIsGapless, PTL

(* A reorder that hands the numbers round keeps them without a gap, and a     *)
(* removal makes them so.                                                  *)
LEMMA PermutedGapless ==
  ASSUME Inv, NEW p \in Clients, Outcome(req[p]), req[p].op = "reorder", Permutes(p), NEW d, d = req[p].doc, Gapless(d)
  PROVE  Gapless(d)'
<1> DEFINE D == req[p].done
           S == ItemsOf(d)
<1>1. /\ \A w \in D : w.item \in S /\ item'[w.item].index = w.to
      /\ \A i \in Items : item'[i].doc = d <=> item[i].doc = d
      /\ \A i \in Items : (\A w \in D : w.item # i) => item'[i] = item[i]
  BY DEF Outcome
<1>2. S \subseteq Items /\ ItemsOf(d)' = S
  BY <1>1 DEF ItemsOf
<1>3. /\ \A w \in D : \E v \in D : item[v.item].index = w.to
      /\ \A v \in D : \E w \in D : w.to = item[v.item].index
      /\ \A w, v \in D : w.to = v.to => w = v
  <2>1. {w.to : w \in D} = {item[w.item].index : w \in D} /\ \A w, v \in D : w.to = v.to => w = v
    BY DEF Permutes
  <2> HIDE DEF D
  <2>2. \A w \in D : w.to \in {item[v.item].index : v \in D}
    BY <2>1
  <2>3. \A v \in D : item[v.item].index \in {w.to : w \in D}
    BY <2>1
  <2> QED BY <2>1, <2>2, <2>3
<1>4. \A i \in S : /\ \A j \in S : item[j].index = item[i].index => i = j
                   /\ item[i].index = 0 \/ \E j \in S : item[j].index + 1 = item[i].index
  BY DEF Gapless
<1> HIDE DEF D, S
<1>5. ASSUME NEW i \in S, NEW w \in D, w.item = i, NEW j \in S, \A v \in D : v.item # j
      PROVE  item'[j].index # item'[i].index
  <2>1. PICK v \in D : item[v.item].index = w.to
    BY <1>3
  <2>2. v.item \in S /\ v.item # j /\ item'[j] = item[j] /\ item'[i].index = w.to
    BY <1>1, <1>2, <1>5
  <2> QED BY <1>4, <2>1, <2>2
<1>6. ASSUME NEW i \in S, NEW j \in S, item'[j].index = item'[i].index PROVE i = j
  <2>1. CASE \E w, v \in D : w.item = i /\ v.item = j
    BY <1>1, <1>3, <1>6, <2>1
  <2>2. CASE (\A w \in D : w.item # i) /\ (\A w \in D : w.item # j)
    BY <1>1, <1>2, <1>4, <1>6, <2>2
  <2>3. CASE (\E w \in D : w.item = i) /\ (\A w \in D : w.item # j)
    BY <1>5, <1>6, <2>3
  <2>4. CASE (\E w \in D : w.item = j) /\ (\A w \in D : w.item # i)
    BY <1>5, <1>6, <2>4
  <2> QED BY <2>1, <2>2, <2>3, <2>4
<1>7. ASSUME NEW i \in S PROVE \E j \in S : item[j].index = item'[i].index
  <2>1. CASE \A w \in D : w.item # i
    <3>1. item'[i] = item[i]
      BY <1>1, <1>2, <2>1
    <3> QED BY <3>1
  <2>2. ASSUME NEW w \in D, w.item = i PROVE \E j \in S : item[j].index = item'[i].index
    <3>1. PICK v \in D : item[v.item].index = w.to
      BY <1>3
    <3>2. v.item \in S /\ item'[i].index = w.to
      BY <1>1, <2>2
    <3> QED BY <3>1, <3>2
  <2> QED BY <2>1, <2>2
<1>8. ASSUME NEW j \in S PROVE \E i \in S : item'[i].index = item[j].index
  <2>1. CASE \A w \in D : w.item # j
    <3>1. item'[j] = item[j]
      BY <1>1, <1>2, <2>1
    <3> QED BY <3>1
  <2>2. ASSUME NEW v \in D, v.item = j PROVE \E i \in S : item'[i].index = item[j].index
    <3>1. PICK w \in D : w.to = item[v.item].index
      BY <1>3
    <3>2. w.item \in S /\ item'[w.item].index = w.to
      BY <1>1
    <3> QED BY <2>2, <3>1, <3>2
  <2> QED BY <2>1, <2>2
<1>9. ASSUME NEW i \in S, item'[i].index # 0 PROVE \E j \in S : item'[j].index + 1 = item'[i].index
  <2>1. PICK k \in S : item[k].index = item'[i].index
    BY <1>7
  <2>2. PICK m \in S : item[m].index + 1 = item[k].index
    BY <1>4, <1>9, <2>1
  <2>3. PICK j \in S : item'[j].index = item[m].index
    BY <1>8
  <2> QED BY <2>1, <2>2, <2>3
<1> QED BY <1>2, <1>6, <1>9 DEF Gapless

LEMMA CommitGapless ==
  ASSUME Inv, Alone, NEW p \in Clients, Commit(p), NEW d \in Docs \ (overlapped \cup sparse'), d \notin sparse => Gapless(d)
  PROVE  Gapless(d)'
<1>0. /\ d # req[p].doc => d \notin sparse
      /\ d = req[p].doc /\ req[p].op = "reorder" => d \notin sparse /\ Permutes(p)
  BY DEF Commit
<1>1. CASE d # req[p].doc
  <2>1. \A i \in Items : (item'[i].doc = d <=> item[i].doc = d) /\ (item[i].doc = d => item'[i] = item[i])
    <3>1. \A i \in Items : (item[i].doc # req[p].doc => item'[i] = item[i]) /\ item'[i].doc \in {item[i].doc, None}
      BY CommittedRows
    <3> QED BY <1>1, <3>1, NoneAssumption
  <2> QED BY <1>0, <1>1, <2>1 DEF Gapless, ItemsOf
<1>2. CASE d = req[p].doc /\ req[p].op = "drop"
  <2>1. \A i \in Items : item'[i].doc # d
    BY <1>2, CommittedAlone DEF Outcome
  <2> QED BY <2>1 DEF Gapless, ItemsOf
<1>3. CASE d = req[p].doc /\ req[p].op = "remove"
  <2> DEFINE W == Numbers(req[p])
             S == Kept(req[p])
  <2>1. /\ Plan(W, S) /\ \A w \in W : item'[w.item].index = w.to
        /\ \A i \in Items : item'[i].doc = d <=> i \in S
    BY <1>3, CommittedAlone DEF Outcome
  <2>2. S \subseteq Items
    BY DEF Kept, ItemsOf
  <2> HIDE DEF W, S
  <2>3. ItemsOf(d)' = S
    BY <2>1, <2>2 DEF ItemsOf
  <2>4. ASSUME NEW i \in S, NEW j \in S, item'[j].index = item'[i].index PROVE i = j
    <3>1. PICK w \in W, v \in W : w.item = i /\ v.item = j
      BY <2>1 DEF Plan
    <3>2. w.to = v.to
      BY <2>1, <2>4, <3>1
    <3> QED BY <2>1, <3>1, <3>2 DEF Plan
  <2>5. ASSUME NEW i \in S, item'[i].index # 0 PROVE \E j \in S : item'[j].index + 1 = item'[i].index
    <3>1. PICK w \in W : w.item = i
      BY <2>1 DEF Plan
    <3>2. PICK v \in W : v.to + 1 = w.to
      BY <2>1, <2>5, <3>1 DEF Plan
    <3> QED BY <2>1, <3>1, <3>2 DEF Plan
  <2> QED BY <2>3, <2>4, <2>5 DEF Gapless
<1>4. CASE d = req[p].doc /\ req[p].op = "reorder"
  BY <1>0, <1>4, CommittedAlone, PermutedGapless
<1> QED BY <1>1, <1>2, <1>3, <1>4, CommittedAlone

LEMMA InsertGapless ==
  ASSUME Inv, Alone, NEW p \in Clients, NEW j \in Items, Inserts(p, j), NEW d \in Docs \ overlapped, Gapless(d)
  PROVE  Gapless(d)'
<1>1. \A i \in Items : item'[i] = IF i = j THEN [doc |-> req[p].doc, ref |-> Head(req[p].refs), index |-> req[p].index] ELSE item[i]
  BY Inserted
<1>2. item[j].doc # d
  BY Inserted
<1>3. CASE d # req[p].doc
  <2>1. \A i \in Items : (item'[i].doc = d <=> item[i].doc = d) /\ (item[i].doc = d => item'[i] = item[i])
    BY <1>1, <1>2, <1>3
  <2> QED BY <2>1 DEF Gapless, ItemsOf
<1>4. CASE d = req[p].doc
  <2>1. ItemsOf(d)' = ItemsOf(d) \cup {j} /\ item'[j].index = req[p].index
        /\ \A i \in ItemsOf(d) : item'[i] = item[i] /\ item[i].index \in Int
    BY <1>1, <1>2, <1>4 DEF ItemsOf, Inv, TableOK, ItemRow
  <2>2. /\ \A i \in ItemsOf(d) : item[i].index < req[p].index
        /\ req[p].index = 0 \/ \E i \in ItemsOf(d) : item[i].index + 1 = req[p].index
        /\ req[p].index \in Int
    BY <1>4, Inserted DEF AtTheEnd
  <2>3. \A i \in ItemsOf(d) : item[i].index # req[p].index
    BY <2>1, <2>2
  <2> QED BY <2>1, <2>2, <2>3 DEF Gapless
<1> QED BY <1>3, <1>4

LEMMA NextDense ==
  ASSUME Inv, Inv', Alone, Dense, [Next]_vars
  PROVE  Dense'
<1>1. ASSUME NEW d \in Docs \ (overlapped' \cup sparse') PROVE Gapless(d)'
  <2>1. d \in Docs \ overlapped /\ (d \notin sparse => Gapless(d))
    BY <1>1, HistoryStays, DenseIsGapless DEF Inv, Spaced
  <2>2. CASE UNCHANGED <<item, sparse>>
    BY <1>1, <2>1, <2>2 DEF Gapless, ItemsOf
  <2>3. ASSUME NEW p \in Clients, Commit(p) PROVE Gapless(d)'
    BY <1>1, <2>1, <2>3, CommitGapless
  <2>4. ASSUME NEW p \in Clients, NEW j \in Items, Inserts(p, j), sparse' = sparse PROVE Gapless(d)'
    BY <1>1, <2>1, <2>4, InsertGapless
  <2> QED BY <2>2, <2>3, <2>4, RowsChange
<1>2. Spaced'
  BY <1>1 DEF Spaced
<1>3. TableOK'
  BY DEF Inv
<1> QED BY <1>2, <1>3, DenseIsGaplessNext

LEMMA LayoutsChange ==
  ASSUME [Next]_vars, ~(layouts \subseteq layouts')
  PROVE  \E p \in Clients : LayoutDelete(p)
<1>1. \A p \in Clients : ~(Start(p) \/ \E l \in Layouts : RemoveLayout(p, l))
  BY Began DEF Begin, table
<1> QED BY <1>1, ZenonT(60) DEF Next, CreateDocument, CreateLayout, table, vars, StatementFails, Continue, AddFind, AddLast,
         AddCreate, ReorderFind, RemoveFind, Scan, DropDocument, Apply, Deadlock, Commit, LayoutCheck

LEMMA NextLayoutsKept ==
  ASSUME Inv, Alone, RefsFit', LayoutsKept, [Next]_vars
  PROVE  LayoutsKept'
<1>1. ASSUME NEW i \in Items, item'[i].doc # None, item'[i].ref \in Layouts \ crossed' PROVE item'[i].ref \in layouts'
  <2>1. item'[i].ref \in Layouts \ crossed
    BY <1>1, HistoryStays
  <2>2. ASSUME item[i].doc # None, item[i].ref = item'[i].ref PROVE item[i].ref \in layouts
    BY <2>1, <2>2 DEF LayoutsKept, Live
  <2>3. CASE item' = item /\ layouts \subseteq layouts'
    BY <1>1, <2>2, <2>3
  <2>4. ASSUME NEW p \in Clients, LayoutDelete(p) PROVE item'[i].ref \in layouts'
    <3>1. item'[i] = item[i] /\ layouts' = layouts \ {Head(req[p].refs)} /\ req[p].pc = "layoutDelete"
      BY <2>4 DEF LayoutDelete
    <3>2. LayoutKnown(req[p])
      BY KnownReq DEF Exact
    <3>3. item[i].ref # Head(req[p].refs)
      BY <2>1, <3>1, <3>2 DEF LayoutKnown
    <3> QED BY <1>1, <2>2, <3>1, <3>3
  <2>5. ASSUME NEW p \in Clients, Commit(p), layouts' = layouts PROVE item'[i].ref \in layouts'
    <3>1. item'[i].doc = item[i].doc /\ item'[i].ref = item[i].ref
      BY <1>1, <2>5, CommittedRows, BlankRow
    <3> QED BY <1>1, <2>2, <2>5, <3>1
  <2>6. ASSUME NEW p \in Clients, NEW j \in Items, Inserts(p, j), layouts' = layouts PROVE item'[i].ref \in layouts'
    <3>1. /\ item'[i] = IF i = j THEN [doc |-> req[p].doc, ref |-> Head(req[p].refs), index |-> req[p].index] ELSE item[i]
          /\ Head(req[p].refs) \in Questions \cup layouts \cup crossed
      BY <2>6, Inserted
    <3>2. CASE i = j
      <4>1. item'[i].ref = Head(req[p].refs)
        BY <3>1, <3>2
      <4> QED BY <2>1, <2>6, <3>1, <4>1, RefsAssumption
    <3>3. CASE i # j
      BY <1>1, <2>2, <2>6, <3>1, <3>3
    <3> QED BY <3>2, <3>3
  <2> QED BY <2>3, <2>4, <2>5, <2>6, RowsChange, LayoutsChange
<1>2. \A i \in Items : item'[i].ref \in Layouts => item'[i].doc \notin Papers
  BY DEF RefsFit
<1> QED BY <1>1, <1>2 DEF LayoutsKept, Live

-------------------------------------------------------------------------------
LEMMA InitKnown == Init => Known
<1> SUFFICES ASSUME Init PROVE Known
  OBVIOUS
<1>1. Live = {} /\ \A i \in Items : item[i].ref = None
  BY DEF Init, Live, Blank
<1>2. \A p \in Clients : req[p] = IdleReq
  BY DEF Init
<1>3. RefsFit
  BY <1>1, <1>2, IdleOK, RefsAssumption DEF RefsFit
<1>4. Alone
  <2>1. Met
    BY <1>2, IdleExact DEF Met
  <2> QED BY <1>2, <2>1, IdleExact DEF Alone
<1>5. Dense /\ LayoutsKept
  BY <1>1 DEF Dense, LayoutsKept
<1> QED BY <1>3, <1>4, <1>5, InitOK DEF Known

LEMMA NextKnown == Known /\ [Next]_vars => Known'
BY NextOK, NextAlone, NextRefsFit, NextDense, NextLayoutsKept DEF Known

LEMMA KnownAlways == Spec => []Known
BY InitKnown, NextKnown, PTL DEF Spec

(* As long as no two requests about a document have overlapped and no reorder *)
(* has given its items other numbers than they had, orderIndex counts them   *)
(* from 0, without a gap and without a repetition, whatever has overlapped   *)
(* about the others; and a removal restores this after such a reorder.       *)
THEOREM IndexesAreDense == Spec => []Dense
<1>1. Known => Dense
  BY DEF Known
<1> QED BY <1>1, KnownAlways, PTL

(* No item refers to a layout element that is gone, whatever overlaps, unless *)
(* its deletion crossed with an add between the check of the one and the     *)
(* write of the other; an item of a paper refers to none, whatever overlaps. *)
THEOREM LayoutElementsStay == Spec => []LayoutsKept
<1>1. Known => LayoutsKept
  BY DEF Known
<1> QED BY <1>1, KnownAlways, PTL

-------------------------------------------------------------------------------
(***************************************************************************)
(* Each document is what DocumentOrder describes until two requests about   *)
(* it overlap: numbers put the items in an order, whatever numbers they be. *)
(***************************************************************************)
LEMMA NumbersOrder ==
  ASSUME NEW S, NEW n, \A i \in S : n[i].index \in Int,
         NEW R, R = {x \in S \X S : n[x[1]].index < n[x[2]].index}
  PROVE  Order!Orders(R, S)
<1>1. \A i, j \in S : <<i, j>> \in R <=> n[i].index < n[j].index
  OBVIOUS
<1>2. R \subseteq S \X S
  OBVIOUS
<1>3. \A i, j, k \in S : <<i, k>> \in R => <<i, j>> \in R \/ <<j, k>> \in R
  BY <1>1
<1>4. \A i, j, k \in S : <<i, j>> \in R /\ <<j, k>> \in R => <<i, k>> \in R
  BY <1>1
<1>5. \A i \in S : <<i, i>> \notin R
  BY <1>1
<1> QED BY <1>2, <1>3, <1>4, <1>5 DEF Order!Orders

LEMMA ContentNow ==
  ASSUME NEW d \in Docs
  PROVE  /\ Content[d] = IF d \in overlapped THEN {} ELSE ItemsOf(d)
         /\ Before[d] = {x \in Content[d] \X Content[d] : item[x[1]].index < item[x[2]].index}
         /\ Content \in [Docs -> SUBSET Items]
BY DEF Content, Before, ItemsOf

LEMMA ContentThen ==
  ASSUME NEW d \in Docs
  PROVE  /\ Content'[d] = IF d \in overlapped' THEN {} ELSE ItemsOf(d)'
         /\ Before'[d] = {x \in Content'[d] \X Content'[d] : item'[x[1]].index < item'[x[2]].index}
         /\ Content'[d] \subseteq Items
BY DEF Content, Before, ItemsOf

(* A document whose rows stay as they are stays what it is. *)
LEMMA SameDocument ==
  ASSUME NEW d \in Docs, d \in overlapped' <=> d \in overlapped, d \notin overlapped => SameRows(d)
  PROVE  Content'[d] = Content[d] /\ Before'[d] = Before[d]
<1>1. CASE d \in overlapped
  <2>1. Content[d] = {} /\ Content'[d] = {}
    BY <1>1, ContentNow, ContentThen
  <2> QED BY <2>1, ContentNow, ContentThen
<1>2. CASE d \notin overlapped
  <2>1. ItemsOf(d)' = ItemsOf(d) /\ \A i \in ItemsOf(d) : item'[i] = item[i]
    BY <1>2 DEF SameRows, ItemsOf
  <2>2. Content[d] = ItemsOf(d) /\ Content'[d] = Content[d]
    BY <1>2, <2>1, ContentNow, ContentThen
  <2>3. Before'[d] = {x \in Content[d] \X Content[d] : item'[x[1]].index < item'[x[2]].index}
    BY <2>2, ContentThen
  <2>4. \A x \in Content[d] \X Content[d] : item'[x[1]] = item[x[1]] /\ item'[x[2]] = item[x[2]]
    BY <2>1, <2>2
  <2>5. Before[d] = {x \in Content[d] \X Content[d] : item[x[1]].index < item[x[2]].index}
    BY ContentNow
  <2> QED BY <2>2, <2>3, <2>4, <2>5
<1> QED BY <1>1, <1>2

(* What a step that leaves the other documents alone does to the whole.      *)
LEMMA OneDocument ==
  ASSUME NEW d \in Docs,
         \A e \in Docs \ {d} : (e \in overlapped' <=> e \in overlapped) /\ (e \notin overlapped => SameRows(e))
  PROVE  Content' = [Content EXCEPT ![d] = Content'[d]] /\ Before' = [Before EXCEPT ![d] = Before'[d]]
<1>1. \A e \in Docs \ {d} : Content'[e] = Content[e] /\ Before'[e] = Before[e]
  BY SameDocument
<1>2. DOMAIN Content = Docs /\ DOMAIN Before = Docs /\ DOMAIN Content' = Docs /\ DOMAIN Before' = Docs
  BY DEF Content, Before
<1>3. Content = [e \in Docs |-> Content[e]] /\ Content' = [e \in Docs |-> Content'[e]]
  BY DEF Content
<1>4. Before = [e \in Docs |-> Before[e]] /\ Before' = [e \in Docs |-> Before'[e]]
  BY DEF Before
<1> HIDE DEF Content, Before
<1> QED BY <1>1, <1>2, <1>3, <1>4

LEMMA SameWhole ==
  ASSUME NEW d \in Docs, Content'[d] = Content[d], Before'[d] = Before[d],
         \A e \in Docs \ {d} : (e \in overlapped' <=> e \in overlapped) /\ (e \notin overlapped => SameRows(e))
  PROVE  UNCHANGED <<Content, Before>>
<1>1. /\ \A e \in Docs \ {d} : Content'[e] = Content[e] /\ Before'[e] = Before[e]
      /\ Content'[d] = Content[d] /\ Before'[d] = Before[d]
  BY SameDocument
<1>2. Content = [e \in Docs |-> Content[e]] /\ Content' = [e \in Docs |-> Content'[e]]
  BY DEF Content
<1>3. Before = [e \in Docs |-> Before[e]] /\ Before' = [e \in Docs |-> Before'[e]]
  BY DEF Before
<1> HIDE DEF Content, Before
<1> QED BY <1>1, <1>2, <1>3

LEMMA Discarded ==
  ASSUME NEW d \in Docs, Content'[d] = {},
         \A e \in Docs \ {d} : (e \in overlapped' <=> e \in overlapped) /\ (e \notin overlapped => SameRows(e))
  PROVE  Order!Next
<1>1. Before'[d] = {}
  BY ContentThen
<1>2. Order!Discard(d)
  BY <1>1, OneDocument DEF Order!Discard
<1> QED BY <1>2 DEF Order!Next

LEMMA InsertStep ==
  ASSUME Inv, Alone, NEW p \in Clients, NEW j \in Items, Inserts(p, j), UNCHANGED overlapped,
         NEW d, d = req[p].doc
  PROVE  Order!Next \/ UNCHANGED <<Content, Before>>
<1>1. /\ \A i \in Items \ {j} : item'[i] = item[i]
      /\ item'[j].doc = d /\ item'[j].index = req[p].index
      /\ item[j].doc = None /\ d \in Docs /\ None \notin Docs /\ (d \notin overlapped => AtTheEnd(req[p]))
  <2> DEFINE new == [doc |-> d, ref |-> Head(req[p].refs), index |-> req[p].index]
  <2>1. /\ \A i \in Items : item'[i] = IF i = j THEN new ELSE item[i]
        /\ item[j].doc = None /\ d \in Docs /\ None \notin Docs /\ (d \notin overlapped => AtTheEnd(req[p]))
    BY Inserted
  <2>2. new.doc = d /\ new.index = req[p].index
    OBVIOUS
  <2> HIDE DEF new
  <2> QED BY <2>1, <2>2
<1>2. \A e \in Docs \ {d} : (e \in overlapped' <=> e \in overlapped) /\ (e \notin overlapped => SameRows(e))
  BY <1>1 DEF SameRows
<1>3. CASE d \in overlapped
  <2>1. Content'[d] = Content[d] /\ Before'[d] = Before[d]
    BY <1>1, <1>3, SameDocument
  <2> QED BY <1>1, <1>2, <2>1, SameWhole
<1>4. CASE d \notin overlapped
  <2>1. ItemsOf(d)' = ItemsOf(d) \cup {j} /\ \A i \in ItemsOf(d) : item'[i] = item[i] /\ item[i].index < req[p].index
    BY <1>1, <1>4 DEF ItemsOf, AtTheEnd
  <2>2. Content[d] = ItemsOf(d) /\ Content'[d] = Content[d] \cup {j}
    BY <1>1, <1>4, <2>1, ContentNow, ContentThen
  <2>3. j \notin Content[d] /\ item'[j].index = req[p].index /\ req[p].index \in Int
        /\ \A i \in Content[d] : i \in Items /\ item[i].index \in Int
    BY <1>1, <2>2, Inserted DEF ItemsOf, Inv, TableOK, ItemRow
  <2>4. Before'[d] = Before[d] \cup (Content[d] \X {j})
    <3> DEFINE S == Content[d]
               n == req[p].index
    <3>1. Before[d] = {x \in S \X S : item[x[1]].index < item[x[2]].index}
      BY <1>1, ContentNow
    <3>2. Before'[d] = {x \in (S \cup {j}) \X (S \cup {j}) : item'[x[1]].index < item'[x[2]].index}
      BY <1>1, <2>2, ContentThen
    <3>3. /\ \A i \in S : item'[i].index = item[i].index /\ item[i].index \in Int /\ item[i].index < n
          /\ item'[j].index = n /\ n \in Int /\ j \notin S
      BY <2>1, <2>2, <2>3
    <3> HIDE DEF S, n
    <3>4. \A a, b \in S \cup {j} : item'[a].index < item'[b].index <=>
              (a \in S /\ b \in S /\ item[a].index < item[b].index) \/ (a \in S /\ b = j)
      BY <3>3
    <3>5. \A x \in (S \cup {j}) \X (S \cup {j}) : x \in Before'[d] <=> x \in Before[d] \/ x \in S \X {j}
      BY <3>1, <3>2, <3>4
    <3>6. Before'[d] \subseteq (S \cup {j}) \X (S \cup {j}) /\ Before[d] \subseteq (S \cup {j}) \X (S \cup {j})
      BY <3>1, <3>2
    <3> QED BY <3>5, <3>6 DEF S
  <2>5. ASSUME NEW e \in Docs PROVE j \notin Content[e]
    <3>1. Content[e] = {} \/ Content[e] = ItemsOf(e)
      BY ContentNow
    <3>2. j \notin ItemsOf(e)
      BY <1>1 DEF ItemsOf
    <3> QED BY <3>1, <3>2
  <2>6. Order!Add(d, j)
    BY <1>1, <1>2, <2>2, <2>4, <2>5, OneDocument DEF Order!Add
  <2> QED BY <1>1, <2>6 DEF Order!Next
<1> QED BY <1>3, <1>4

LEMMA CommitStep ==
  ASSUME Inv, Alone, Inv', NEW p \in Clients, Commit(p), NEW d, d = req[p].doc
  PROVE  Order!Next \/ UNCHANGED <<Content, Before>>
<1>0. overlapped' = overlapped
  BY DEF Commit
<1>1. d \in Docs
  BY KnownReq DEF Commit, Shape, WritePcs
<1>2. \A e \in Docs \ {d} : (e \in overlapped' <=> e \in overlapped) /\ (e \notin overlapped => SameRows(e))
  <2>1. \A i \in Items : (item[i].doc # d => item'[i] = item[i]) /\ item'[i].doc \in {item[i].doc, None}
    BY CommittedRows
  <2> QED BY <1>0, <2>1, NoneAssumption DEF SameRows
<1>3. Content' = [Content EXCEPT ![d] = Content'[d]] /\ Before' = [Before EXCEPT ![d] = Before'[d]]
  BY <1>1, <1>2, OneDocument
<1>4. \A i \in Items : item[i].index \in Int /\ item'[i].index \in Int
  BY DEF Inv, TableOK, ItemRow
<1>5. CASE d \in overlapped
  <2>1. Content'[d] = Content[d] /\ Before'[d] = Before[d]
    BY <1>0, <1>1, <1>5, SameDocument
  <2> QED BY <1>1, <1>2, <2>1, SameWhole
<1>6. CASE d \notin overlapped /\ req[p].op = "drop"
  <2>1. ItemsOf(d)' = {}
    BY <1>6, CommittedAlone DEF Outcome, ItemsOf
  <2>2. Content'[d] = {}
    BY <1>0, <1>1, <1>6, <2>1, ContentThen
  <2> QED BY <1>1, <1>2, <2>2, Discarded
<1>7. CASE d \notin overlapped /\ req[p].op = "reorder"
  <2>1. ItemsOf(d)' = ItemsOf(d)
    BY <1>7, CommittedAlone DEF Outcome, ItemsOf
  <2>2. Content'[d] = Content[d] /\ Content'[d] \subseteq Items
    BY <1>0, <1>1, <1>7, <2>1, ContentNow, ContentThen
  <2>3. Order!Orders(Before'[d], Content[d])
    <3>1. Before'[d] = {x \in Content[d] \X Content[d] : item'[x[1]].index < item'[x[2]].index}
      BY <1>1, <2>2, ContentThen
    <3> QED BY <1>4, <2>2, <3>1, NumbersOrder
  <2>4. Content' = Content
    BY <1>3, <2>2, Zenon DEF Content
  <2>5. Order!Rearrange(d)
    BY <1>3, <2>3, <2>4 DEF Order!Rearrange
  <2> QED BY <1>1, <2>5 DEF Order!Next
<1>8. CASE d \notin overlapped /\ req[p].op = "remove"
  <2> DEFINE W == Numbers(req[p])
             K == Kept(req[p])
             gone == req[p].item
  <2>1. /\ Plan(W, K) /\ Ascends(W) /\ gone \in ItemsOf(d)
        /\ \A w \in W : item'[w.item].index = w.to
        /\ \A i \in Items : item'[i].doc = d <=> i \in K
    BY <1>8, CommittedAlone DEF Outcome
  <2>2. K = ItemsOf(d) \ {gone} /\ K \subseteq Items
    BY DEF Kept, ItemsOf
  <2>3. ItemsOf(d)' = K
    BY <2>1, <2>2 DEF ItemsOf
  <2>4. Content[d] = ItemsOf(d) /\ Content'[d] = K /\ Content'[d] = Content[d] \ {gone} /\ gone \in Content[d] /\ gone \in Items
    BY <1>0, <1>1, <1>8, <2>1, <2>2, <2>3, ContentNow, ContentThen DEF ItemsOf
  <2>5. Before'[d] = {x \in K \X K : item'[x[1]].index < item'[x[2]].index}
    BY <1>1, <2>4, ContentThen
  <2> HIDE DEF W, K, gone
  <2>6. Order!Orders(Before'[d], Content'[d])
    BY <1>4, <2>2, <2>4, <2>5, NumbersOrder
  <2>7. \A i \in K : \E w \in W : w.item = i /\ w.to = item'[i].index /\ w.to \in Nat
    BY <2>1 DEF Plan
  <2>8. \A i, j \in K : <<i, j>> \in Before'[d] <=> item'[i].index < item'[j].index
    BY <2>5
  <2>9. Order!Separates(Before'[d], Content'[d])
    <3>1. ASSUME NEW i \in K, NEW j \in K, i # j PROVE item'[i].index < item'[j].index \/ item'[j].index < item'[i].index
      <4>1. PICK w \in W, v \in W : /\ w.item = i /\ w.to = item'[i].index /\ w.to \in Nat
                                    /\ v.item = j /\ v.to = item'[j].index /\ v.to \in Nat
        BY <2>7
      <4>2. w.to # v.to
        BY <2>1, <3>1, <4>1 DEF Plan
      <4> QED BY <4>1, <4>2
    <3> QED BY <2>4, <2>8, <3>1 DEF Order!Separates
  <2>10. ASSUME NEW i \in Content'[d], NEW j \in Content'[d], <<i, j>> \in Before[d] PROVE <<i, j>> \in Before'[d]
    <3>1. i \in K /\ j \in K /\ item[i].index < item[j].index
      <4>1. Before[d] = {x \in Content[d] \X Content[d] : item[x[1]].index < item[x[2]].index}
        BY <1>1, ContentNow
      <4> QED BY <2>4, <2>10, <4>1
    <3>2. PICK w \in W, v \in W : w.item = i /\ w.to = item'[i].index /\ v.item = j /\ v.to = item'[j].index
      BY <2>7, <3>1
    <3>3. w.to < v.to
      BY <2>1, <3>1, <3>2 DEF Ascends
    <3> QED BY <2>8, <3>1, <3>2, <3>3
  <2>11. Order!Remove(d, gone)
    BY <1>3, <2>4, <2>6, <2>9, <2>10 DEF Order!Remove
  <2> QED BY <1>1, <2>4, <2>11 DEF Order!Next
<1> QED BY <1>5, <1>6, <1>7, <1>8, CommittedAlone

LEMMA BeginStep ==
  ASSUME NEW p \in Clients, NEW op, NEW r, Begin(p, op, r), overlapped' # overlapped
  PROVE  Order!Next
<1>1. /\ item' = item /\ r.doc \in Docs /\ r.doc \in overlapped'
      /\ \A e \in Docs \ {r.doc} : e \in overlapped' <=> e \in overlapped
  BY DEF Begin, table
<1>2. \A e : SameRows(e)
  BY <1>1 DEF SameRows
<1>3. Content'[r.doc] = {}
  BY <1>1, ContentThen
<1> QED BY <1>1, <1>2, <1>3, Discarded

(* Until two requests about it overlap each document is what DocumentOrder    *)
(* describes: an add puts its item behind all others, a reorder gives the    *)
(* items some order, in which some may share a place, a removal leaves the   *)
(* others in their order with none sharing a place, and everything else      *)
(* leaves it alone.  ImplementsOrder is DocumentOrder's specification, but   *)
(* for the steps that leave all documents alone anyway.                     *)
THEOREM DocumentsAreLists == Spec => Order!Spec /\ ImplementsOrder
<1>1. Init => Order!Init
  <2> SUFFICES ASSUME Init PROVE Order!Init
    OBVIOUS
  <2>1. \A d \in Docs : Content[d] = {} /\ Before[d] = {}
    BY ContentNow, NoneAssumption DEF Init, Blank, ItemsOf
  <2>2. Content = [d \in Docs |-> Content[d]] /\ Before = [d \in Docs |-> Before[d]]
    BY DEF Content, Before
  <2> HIDE DEF Content, Before
  <2> QED BY <2>1, <2>2 DEF Order!Init
<1>2. Known /\ Known' /\ [Next]_vars => [Order!Next]_<<Content, Before>>
  <2> SUFFICES ASSUME Known, Known', [Next]_vars PROVE Order!Next \/ UNCHANGED <<Content, Before>>
    OBVIOUS
  <2>1. CASE UNCHANGED <<item, overlapped>>
    BY <2>1 DEF Content, Before, ItemsOf
  <2>2. CASE overlapped' # overlapped
    BY <2>2, OverlapsChange, BeginStep
  <2>3. CASE overlapped' = overlapped /\ item' # item
    BY <2>3, RowsChange, CommitStep, InsertStep DEF Known
  <2> QED BY <2>1, <2>2, <2>3
<1>3. [Order!Next]_<<Content, Before>> => [UNCHANGED <<item, overlapped>> \/ Order!Next]_<<Content, Before>>
  OBVIOUS
<1> QED BY <1>1, <1>2, <1>3, KnownAlways, PTL DEF Spec, ImplementsOrder, Order!Spec
================================================================================
