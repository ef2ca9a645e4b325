------------------------- MODULE QuestionLinks_proofs -------------------------
(***************************************************************************)
(* Theorems about QuestionLinks, for any tags, textbooks, chapters and     *)
(* requests.                                                               *)
(***************************************************************************)
EXTENDS QuestionLinks, FiniteFacts, TLAPS

-------------------------------------------------------------------------------
(* What a delete has left when it skips the rows that are gone.             *)
Keeps(t, s, gone) ==
  \A k : (\E n \in DOMAIN t : t[n] = k) <=> k \notin gone /\ \E n \in DOMAIN s : s[n] = k

LEMMA WithoutIs ==
  ASSUME NEW S, NEW s \in Seq(S), NEW gone
  PROVE  Without(s, gone) \in Seq(S) /\ Keeps(Without(s, gone), s, gone)
<1>1. PICK N \in Nat : N = Len(s) /\ DOMAIN s = 1..N /\ \A m \in 1..N : s[m] \in S
  OBVIOUS
<1> DEFINE Eq(f) == f = [m \in 0..N |->
                           IF m = 0 THEN <<>>
                           ELSE IF s[m] \in gone THEN f[m - 1] ELSE Append(f[m - 1], s[m])]
           left == CHOOSE f : Eq(f)
           step == [x \in (1..N) \X Seq(S) |-> IF s[x[1]] \in gone THEN x[2] ELSE Append(x[2], s[x[1]])]
<1>2. Without(s, gone) = left[N]
  BY <1>1 DEF Without
<1>3. step \in [(1..N) \X Seq(S) -> Seq(S)]
  BY <1>1
<1>4. PICK g \in [0..N -> Seq(S)] : g[0] = <<>> /\ \A i \in 1..N : g[i] = step[<<i, g[i - 1]>>]
  <2>1. <<>> \in Seq(S)
    OBVIOUS
  <2>2. \E f : Carries(f, N, Seq(S), <<>>, step)
    <3> HIDE DEF step
    <3> QED BY <1>3, <2>1, Iterated
  <2> QED BY <2>2 DEF Carries
<1>5. \A i \in 1..N : g[i] = IF s[i] \in gone THEN g[i - 1] ELSE Append(g[i - 1], s[i])
  <2> TAKE i \in 1..N
  <2>1. <<i, g[i - 1]>> \in (1..N) \X Seq(S)
    OBVIOUS
  <2>2. g[i] = step[<<i, g[i - 1]>>]
    BY <1>4
  <2> QED BY <2>1, <2>2
<1>6. Eq(g)
  <2> HIDE DEF step
  <2>1. g = [m \in 0..N |-> g[m]]
    OBVIOUS
  <2>2. \A m \in 0..N : g[m] = IF m = 0 THEN <<>> ELSE IF s[m] \in gone THEN g[m - 1] ELSE Append(g[m - 1], s[m])
    <3> HIDE DEF Eq, left
    <3> TAKE m \in 0..N
    <3>1. m = 0 \/ m \in 1..N
      OBVIOUS
    <3> QED BY <1>4, <1>5, <3>1
  <2> QED BY <2>1, <2>2, Zenon
<1>7. Eq(left)
  <2> HIDE DEF Eq
  <2> QED BY <1>6
<1> HIDE DEF left, step
<1>8. left[0] = <<>> /\ \A m \in 1..N : left[m] = IF s[m] \in gone THEN left[m - 1] ELSE Append(left[m - 1], s[m])
  <2>1. ASSUME NEW m \in 0..N
        PROVE  left[m] = IF m = 0 THEN <<>> ELSE IF s[m] \in gone THEN left[m - 1] ELSE Append(left[m - 1], s[m])
    BY <1>7
  <2> HIDE DEF Eq
  <2> QED BY <2>1
<1> HIDE DEF Eq
<1> DEFINE Holds(t, m) == \A k : (\E n \in DOMAIN t : t[n] = k) <=> k \notin gone /\ \E n \in 1..m : s[n] = k
           Right(m) == left[m] \in Seq(S) /\ Holds(left[m], m)
           T == {m \in 0..N : ~Right(m)}
<1>9. Right(N)
  <2> SUFFICES ASSUME ~Right(N) PROVE FALSE
    OBVIOUS
  <2>1. T \in SUBSET Nat /\ N \in T
    <3> HIDE DEF Right
    <3> QED OBVIOUS
  <2>2. PICK m \in T : \A k \in T : m <= k
    <3> HIDE DEF T
    <3> QED BY <2>1, SmallestMember
  <2>3. m \in 0..N /\ ~Right(m)
    BY <2>2
  <2>4. m # 0
    <3>1. Right(0)
      BY <1>8
    <3> QED BY <2>3, <3>1
  <2>5. m \in 1..N /\ m - 1 \in 0..N /\ m - 1 \notin T
    <3> HIDE DEF T
    <3> QED BY <2>2, <2>3, <2>4
  <2> DEFINE t == left[m - 1]
  <2>6. t \in Seq(S) /\ Holds(t, m - 1) /\ s[m] \in S
    BY <1>1, <2>5
  <2>7. \A n : n \in 1..m <=> n \in 1..(m - 1) \/ n = m
    BY <2>5
  <2>8. left[m] = IF s[m] \in gone THEN t ELSE Append(t, s[m])
    BY <1>8, <2>5
  <2> HIDE DEF t
  <2>9. CASE s[m] \in gone
    BY <2>3, <2>6, <2>7, <2>8, <2>9
  <2>10. CASE s[m] \notin gone
    <3> DEFINE u == Append(t, s[m])
               L == Len(t)
    <3>1. u \in Seq(S) /\ L \in Nat /\ DOMAIN t = 1..L /\ DOMAIN u = 1..(L + 1)
          /\ u[L + 1] = s[m] /\ \A n \in 1..L : u[n] = t[n]
      BY <2>6
    <3> HIDE DEF u, L
    <3>2. \A n : n \in 1..(L + 1) <=> n \in 1..L \/ n = L + 1
      BY <3>1
    <3>3. \A k : (\E n \in DOMAIN u : u[n] = k) <=> (\E n \in DOMAIN t : t[n] = k) \/ k = s[m]
      BY <3>1, <3>2
    <3>4. Holds(u, m)
      BY <2>6, <2>7, <2>10, <3>3
    <3>5. left[m] = u
      BY <2>8, <2>10 DEF u
    <3> QED BY <2>3, <3>1, <3>4, <3>5
  <2> QED BY <2>9, <2>10
<1>10. Keeps(left[N], s, gone)
  BY <1>1, <1>9 DEF Keeps
<1> QED BY <1>2, <1>9, <1>10

-------------------------------------------------------------------------------
(* A request on its own.  What it has inserted it was asked for; what it has *)
(* deleted and was asked for it has inserted again or is still to insert:   *)
(* a row it has deleted itself does not count as one that is there.         *)

IsRequest(r) ==
  DOMAIN r = {"pc", "op", "want", "tag", "tables", "todo", "erased", "added"}

Wanted(r, k) == \E n \in DOMAIN r.want : r.want[n] = k

Local(r) ==
  /\ IsRequest(r)
  /\ r.want \in Seq(Targets)
  /\ r.pc # "insert" => r.added = {}
  /\ r.op \in {"dropTag", "dropQuestion"} => r.want = <<>> /\ r.pc # "insert"
  /\ \A k \in r.added : Wanted(r, k)
  /\ r.pc = "insert" =>
       /\ r.todo \in Seq(Targets)
       /\ \A n \in DOMAIN r.todo : Wanted(r, r.todo[n])
       /\ \A k \in r.erased : Wanted(r, k) => k \in r.added \/ \E n \in DOMAIN r.todo : r.todo[n] = k

Inv == req = [q \in Clients |-> req[q]] /\ \A q \in Clients : Local(req[q])

LEMMA IdleLocal == Local(IdleReq)
<1>1. IdleReq.added = {} /\ IdleReq.pc = "idle" /\ IdleReq.want = <<>>
  BY DEF IdleReq
<1>2. IsRequest(IdleReq)
  BY DEF IsRequest, IdleReq
<1> QED BY <1>1, <1>2 DEF Local

LEMMA Replaced ==
  ASSUME Inv, NEW p \in Clients, NEW r, Local(r), req' = [req EXCEPT ![p] = r]
  PROVE  Inv'
<1>1. \A q \in Clients : req'[q] = IF q = p THEN r ELSE req[q]
  BY DEF Inv
<1>2. req' = [q \in Clients |-> req'[q]]
  BY DEF Inv
<1> QED BY <1>1, <1>2 DEF Inv

LEMMA ReplyInv ==
  ASSUME Inv, NEW p \in Clients, Reply(p)
  PROVE  Inv'
BY IdleLocal, Replaced DEF Reply

LEMMA Seen ==
  ASSUME Inv, NEW p \in Clients
  PROVE  Local(req[p]) /\ IsRequest(req[p]) /\ req = [q \in Clients |-> req[q]]
BY DEF Inv, Local

LEMMA ListsAreSeqs ==
  ASSUME NEW S, IsFiniteSet(S), NEW want \in Wants(S)
  PROVE  want \in Seq(S)
<1>1. PICK T \in SUBSET S : want \in Lists(T)
  BY DEF Wants
<1>2. Cardinality(T) \in Nat
  BY FS_Subset, FS_CardinalityType
<1>3. want \in [1..Cardinality(T) -> S]
  BY <1>1 DEF Lists
<1> QED BY <1>2, <1>3

LEMMA BeginInv ==
  ASSUME Inv, NEW p \in Clients, Start(p)
  PROVE  Inv'
<1>1. ASSUME NEW r, r.pc \in {"find", "drop"}, r.added = {}, r.want \in Seq(Targets), IsRequest(r),
             r.op \in {"dropTag", "dropQuestion"} => r.want = <<>>, Begin(p, r)
      PROVE  Inv'
  <2>1. Local(r)
    BY <1>1 DEF Local
  <2> QED BY <1>1, <2>1, Replaced DEF Begin
<1>2. ASSUME NEW want \in Wants(Tags), SetTags(p, want) PROVE Inv'
  <2> DEFINE r == [IdleReq EXCEPT !.pc = "find", !.op = "tags", !.want = want, !.tables = <<Tags>>]
  <2>1. r.pc = "find" /\ r.added = {} /\ r.want = want /\ IsRequest(r) /\ r.op = "tags"
    BY DEF IdleReq, IsRequest
  <2>2. want \in Seq(Targets)
    BY ListsAreSeqs, FiniteAssumption DEF Targets
  <2>3. Begin(p, r)
    BY <1>2 DEF SetTags
  <2> HIDE DEF r
  <2> QED BY <1>1, <2>1, <2>2, <2>3
<1>3. ASSUME NEW books \in Wants(Books), NEW chapters \in Wants(Chapters), SetTaxonomy(p, books, chapters) PROVE Inv'
  <2> DEFINE want == books \o chapters
             r == [IdleReq EXCEPT !.pc = "find", !.op = "taxonomy", !.want = want, !.tables = <<Books, Chapters>>]
  <2>1. r.pc = "find" /\ r.added = {} /\ r.want = want /\ IsRequest(r) /\ r.op = "taxonomy"
    BY DEF IdleReq, IsRequest
  <2>2. want \in Seq(Targets)
    <3>1. books \in Seq(Targets) /\ chapters \in Seq(Targets)
      BY ListsAreSeqs, FiniteAssumption DEF Targets
    <3> QED BY <3>1
  <2>3. Begin(p, r)
    BY <1>3 DEF SetTaxonomy
  <2> HIDE DEF r, want
  <2> QED BY <1>1, <2>1, <2>2, <2>3
<1>4. ASSUME NEW t, RemoveTag(p, t) PROVE Inv'
  <2> DEFINE r == [IdleReq EXCEPT !.pc = "drop", !.op = "dropTag", !.tag = t]
  <2>1. r.pc = "drop" /\ r.added = {} /\ r.want = <<>> /\ IsRequest(r)
    BY DEF IdleReq, IsRequest
  <2>3. r.want \in Seq(Targets)
    <3>1. <<>> \in Seq(Targets)
      OBVIOUS
    <3> HIDE DEF r
    <3> QED BY <2>1, <3>1
  <2>4. Local(r)
    <3> HIDE DEF r
    <3> QED BY <2>1, <2>3 DEF Local
  <2>2. Begin(p, r)
    BY <1>4 DEF RemoveTag
  <2> HIDE DEF r
  <2> QED BY <2>2, <2>4, Replaced DEF Begin
<1>5. CASE RemoveQuestion(p)
  <2> DEFINE r == [IdleReq EXCEPT !.pc = "drop", !.op = "dropQuestion"]
  <2>1. r.pc = "drop" /\ r.added = {} /\ r.want = <<>> /\ IsRequest(r)
    BY DEF IdleReq, IsRequest
  <2>3. r.want \in Seq(Targets)
    <3>1. <<>> \in Seq(Targets)
      OBVIOUS
    <3> HIDE DEF r
    <3> QED BY <2>1, <3>1
  <2>4. Local(r)
    <3> HIDE DEF r
    <3> QED BY <2>1, <2>3 DEF Local
  <2>2. Begin(p, r)
    BY <1>5 DEF RemoveQuestion
  <2> HIDE DEF r
  <2> QED BY <2>2, <2>4, Replaced DEF Begin
<1> QED BY <1>2, <1>3, <1>4, <1>5 DEF Start

(* While it deletes, a request may be left with any rows to delete. *)
LEMMA ErasingLocal ==
  ASSUME NEW r, NEW s, Local(r), IsRequest(s), r.pc # "insert", s.pc \notin {"insert"},
         s.op = r.op, s.want = r.want, s.added = r.added
  PROVE  Local(s)
BY DEF Local

LEMMA ClearInv ==
  ASSUME Inv, NEW p \in Clients, Find(p) \/ Clear(p) \/ Erase(p) \/ Drop(p)
  PROVE  Inv'
<1>1. Local(req[p]) /\ IsRequest(req[p]) /\ req = [q \in Clients |-> req[q]]
  BY Seen
<1>2. CASE Reply(p)
  BY <1>2, ReplyInv
<1>3. ASSUME NEW r, req' = [req EXCEPT ![p] = r], IsRequest(r), req[p].pc # "insert", r.pc # "insert",
             r.op = req[p].op, r.want = req[p].want, r.added = req[p].added
      PROVE  Inv'
  BY <1>1, <1>3, ErasingLocal, Replaced
<1>4. CASE Find(p) /\ ~Reply(p)
  <2> DEFINE r == [req[p] EXCEPT !.pc = "erase"]
  <2>1. req' = [req EXCEPT ![p] = r] /\ req[p].pc = "find"
    BY <1>1, <1>4 DEF Find, Proceed
  <2>2. IsRequest(r) /\ r.pc = "erase" /\ r.op = req[p].op /\ r.want = req[p].want /\ r.added = req[p].added
    BY <1>1 DEF IsRequest
  <2> HIDE DEF r
  <2> QED BY <1>3, <2>1, <2>2
<1>5. CASE Clear(p)
  <2>1. PICK s : req' = [req EXCEPT ![p].todo = s, ![p].tables = Tail(@)]
    BY <1>5 DEF Clear
  <2> DEFINE r == [req[p] EXCEPT !.todo = s, !.tables = Tail(req[p].tables)]
  <2>2. req' = [req EXCEPT ![p] = r] /\ req[p].pc = "erase"
    BY <1>1, <1>5, <2>1 DEF Clear
  <2>3. IsRequest(r) /\ r.pc = "erase" /\ r.op = req[p].op /\ r.want = req[p].want /\ r.added = req[p].added
    BY <1>1, <2>2 DEF IsRequest
  <2> HIDE DEF r
  <2> QED BY <1>3, <2>2, <2>3
<1>6. CASE Erase(p)
  <2> DEFINE r == [req[p] EXCEPT !.todo = Tail(req[p].todo), !.erased = req[p].erased \cup {Head(req[p].todo)}]
  <2>1. req' = [req EXCEPT ![p] = r] /\ req[p].pc = "erase"
    BY <1>1, <1>6 DEF Erase
  <2>2. IsRequest(r) /\ r.pc = "erase" /\ r.op = req[p].op /\ r.want = req[p].want /\ r.added = req[p].added
    BY <1>1, <2>1 DEF IsRequest
  <2> HIDE DEF r
  <2> QED BY <1>3, <2>1, <2>2
<1>7. CASE Drop(p) /\ ~Reply(p)
  <2>1. PICK s : req' = [req EXCEPT ![p].pc = "erase", ![p].todo = s]
    BY <1>7 DEF Drop
  <2> DEFINE r == [req[p] EXCEPT !.pc = "erase", !.todo = s]
  <2>2. req' = [req EXCEPT ![p] = r] /\ req[p].pc = "drop"
    BY <1>1, <1>7, <2>1 DEF Drop
  <2>3. IsRequest(r) /\ r.pc = "erase" /\ r.op = req[p].op /\ r.want = req[p].want /\ r.added = req[p].added
    BY <1>1 DEF IsRequest
  <2> HIDE DEF r
  <2> QED BY <1>3, <2>2, <2>3
<1> QED BY <1>2, <1>4, <1>5, <1>6, <1>7

LEMMA InsertInv ==
  ASSUME Inv, NEW p \in Clients, Cleared(p) \/ Insert(p)
  PROVE  Inv'
<1>1. Local(req[p]) /\ IsRequest(req[p]) /\ req = [q \in Clients |-> req[q]]
  BY Seen
<1>2. CASE Cleared(p)
  <2> DEFINE r == [req[p] EXCEPT !.pc = "insert", !.todo = req[p].want]
  <2>1. req' = [req EXCEPT ![p] = r] /\ req[p].pc = "erase" /\ req[p].op \in {"tags", "taxonomy"}
    BY <1>1, <1>2 DEF Cleared
  <2>2. /\ IsRequest(r) /\ r.pc = "insert" /\ r.op = req[p].op /\ r.want = req[p].want /\ r.added = req[p].added
        /\ r.todo = req[p].want /\ r.erased = req[p].erased
    BY <1>1 DEF IsRequest
  <2> HIDE DEF r
  <2>3. Local(r)
    BY <1>1, <2>1, <2>2 DEF Local, Wanted
  <2> QED BY <2>1, <2>3, Replaced
<1>3. CASE Insert(p) /\ ~Reply(p)
  <2> DEFINE k == Head(req[p].todo)
             taken == k \in links \ req[p].erased
             added == IF taken THEN req[p].added ELSE req[p].added \cup {k}
             r == [req[p] EXCEPT !.todo = Tail(req[p].todo), !.added = added]
  <2>1. req' = [req EXCEPT ![p] = r] /\ req[p].pc = "insert" /\ req[p].todo # <<>>
    BY <1>1, <1>3 DEF Insert
  <2>2. /\ IsRequest(r) /\ r.pc = "insert" /\ r.op = req[p].op /\ r.want = req[p].want
        /\ r.added = added /\ r.todo = Tail(req[p].todo) /\ r.erased = req[p].erased
    BY <1>1, <2>1 DEF IsRequest
  <2> HIDE DEF r
  <2>3. req[p].todo \in Seq(Targets)
    BY <1>1, <2>1 DEF Local
  <2>4. Wanted(r, k)
    BY <1>1, <2>1, <2>2, <2>3 DEF Local, Wanted
  <2>5. \A n \in DOMAIN r.todo : n + 1 \in DOMAIN req[p].todo /\ r.todo[n] = req[p].todo[n + 1]
    BY <2>1, <2>2, <2>3
  <2>6. \A n \in DOMAIN req[p].todo : req[p].todo[n] = k \/ \E m \in DOMAIN r.todo : r.todo[m] = req[p].todo[n]
    <3> SUFFICES ASSUME NEW n \in DOMAIN req[p].todo, n # 1 PROVE \E m \in DOMAIN r.todo : r.todo[m] = req[p].todo[n]
      BY <2>1, <2>3
    <3> HIDE DEF k
    <3>1. n \in 1..Len(req[p].todo) /\ n > 1
      BY <2>3
    <3>2. n - 1 \in DOMAIN r.todo /\ r.todo[n - 1] = req[p].todo[n]
      BY <2>2, <2>3, <3>1
    <3> QED BY <3>2
  <2>7. r.todo \in Seq(Targets)
    BY <2>1, <2>2, <2>3
  <2>8. \A i \in req[p].erased : Wanted(req[p], i) => i \in req[p].added \/ \E n \in DOMAIN req[p].todo : req[p].todo[n] = i
    BY <1>1, <2>1 DEF Local
  <2>9. k \in req[p].erased => k \in added
    OBVIOUS
  <2>10. \A i : Wanted(r, i) <=> Wanted(req[p], i)
    BY <2>2 DEF Wanted
  <2>11. req[p].added \subseteq added /\ added \subseteq req[p].added \cup {k}
    OBVIOUS
  <2> HIDE DEF k, added
  <2>12. \A i \in r.erased : Wanted(r, i) => i \in r.added \/ \E n \in DOMAIN r.todo : r.todo[n] = i
    BY <2>2, <2>6, <2>8, <2>9, <2>10, <2>11
  <2>13. \A n \in DOMAIN r.todo : Wanted(r, r.todo[n])
    BY <1>1, <2>1, <2>5, <2>10 DEF Local
  <2>14. \A i \in r.added : Wanted(r, i)
    BY <1>1, <2>2, <2>4, <2>10, <2>11 DEF Local
  <2>15. Local(r)
    BY <1>1, <2>1, <2>2, <2>7, <2>12, <2>13, <2>14 DEF Local
  <2> QED BY <2>1, <2>15, Replaced
<1>4. CASE Reply(p)
  BY <1>4, ReplyInv
<1> QED BY <1>2, <1>3, <1>4

LEMMA CommitInv ==
  ASSUME Inv, NEW p \in Clients, Commit(p)
  PROVE  Inv'
<1>1. \A q \in Clients : Local(req[q]) /\ IsRequest(req[q])
  BY Seen
<1>2. ASSUME NEW q \in Clients PROVE Local(req'[q])
  <2>1. CASE q = p
    BY <2>1, IdleLocal DEF Commit
  <2>2. CASE q # p /\ req[q].pc # "erase"
    BY <1>1, <2>2 DEF Commit
  <2>3. CASE q # p /\ req[q].pc = "erase"
    <3> DEFINE left == Without(req[q].todo, req[p].erased)
    <3>1. req'[q] = [req[q] EXCEPT !.todo = left]
      BY <2>3 DEF Commit
    <3> HIDE DEF left
    <3> DEFINE r == [req[q] EXCEPT !.todo = left]
    <3>2. IsRequest(r) /\ r.pc = "erase" /\ r.op = req[q].op /\ r.want = req[q].want /\ r.added = req[q].added
      BY <1>1, <2>3 DEF IsRequest
    <3> HIDE DEF r
    <3>3. Local(r)
      BY <1>1, <2>3, <3>2, ErasingLocal
    <3> QED BY <3>1, <3>3 DEF r
  <2> QED BY <2>1, <2>2, <2>3
<1>3. req' = [q \in Clients |-> req'[q]]
  BY DEF Commit
<1> QED BY <1>2, <1>3 DEF Inv

LEMMA NextInv ==
  ASSUME Inv, [Next]_vars
  PROVE  Inv'
<1>1. CASE UNCHANGED req
  BY <1>1 DEF Inv
<1>2. ASSUME NEW p \in Clients, Start(p) \/ Continue(p) \/ StatementFails(p) PROVE Inv'
  BY <1>2, BeginInv, ClearInv, InsertInv, CommitInv, ReplyInv DEF Continue, Deadlock, StatementFails
<1> QED BY <1>1, <1>2 DEF Next, vars, CreateQuestion, CreateTag

(* Whatever overlaps, a link comes only from a request that asks for it, and *)
(* goes only with one that ends without asking for it.                      *)
THEOREM ChangeAsAsked == Spec => LinksChangeAsAsked
<1>1. Init => Inv
  BY IdleLocal DEF Init, Inv
<1>2. Inv /\ [Next]_vars =>
        [\A k \in Targets : (k \in links) # (k \in links') =>
           \E p \in Clients : Busy(p) /\ ~Busy(p)' /\ (k \in links' <=> Asked(p, k))]_vars
  <2> SUFFICES ASSUME Inv, Next, NEW k \in Targets, (k \in links) # (k \in links')
               PROVE  \E p \in Clients : Busy(p) /\ ~Busy(p)' /\ (k \in links' <=> Asked(p, k))
    OBVIOUS
  <2>1. PICK p \in Clients : Commit(p)
    BY DEF Next, CreateQuestion, CreateTag, Start, SetTags, SetTaxonomy, RemoveTag, RemoveQuestion, Begin,
       StatementFails, Continue, Find, Clear, Erase, Cleared, Insert, Drop, Deadlock, table
  <2>2. Local(req[p]) /\ links' = (links \ req[p].erased) \cup req[p].added
    BY <2>1, Seen DEF Commit
  <2>3. Busy(p) /\ ~Busy(p)'
    BY <2>1 DEF Commit, Busy, IdleReq
  <2>4. k \in links' <=> Asked(p, k)
    <3>1. CASE k \in req[p].added
      BY <2>2, <3>1 DEF Local, Asked, Wanted
    <3>2. CASE k \in req[p].erased /\ k \notin req[p].added
      <4>1. ~Wanted(req[p], k)
        <5>1. CASE req[p].pc = "insert"
          BY <2>1, <2>2, <3>2, <5>1 DEF Local, Commit
        <5>2. CASE req[p].pc = "erase" /\ req[p].op \in {"dropTag", "dropQuestion"}
          BY <2>2, <5>2 DEF Local, Wanted
        <5> QED BY <2>1, <5>1, <5>2 DEF Commit
      <4> QED BY <2>2, <3>2, <4>1 DEF Asked, Wanted
    <3> QED BY <2>2, <3>1, <3>2
  <2> QED BY <2>3, <2>4
<1> QED BY <1>1, <1>2, NextInv, PTL DEF Spec, LinksChangeAsAsked
-------------------------------------------------------------------------------
(* What is known of every request, whatever overlaps.  A transaction that    *)
(* has deleted the question or a tag has nobody else inserting links to it:  *)
(* it waits for those who have, and those who would wait for it.  The links  *)
(* there are to it are among those it is to delete.                         *)

DropOps == {"dropTag", "dropQuestion"}
ReplaceOps == {"tags", "taxonomy"}

Shape(r) ==
  /\ r.pc = "idle" => r = IdleReq
  /\ r.pc \in {"find", "insert"} => r.op \in ReplaceOps
  /\ r.pc = "drop" => r.op \in DropOps
  /\ r.pc = "erase" => r.op \in DropOps \cup ReplaceOps
  /\ r.op \in DropOps => r.tables = <<>>
  /\ r.pc \in {"find", "drop"} => r.todo = <<>> /\ r.erased = {}
  /\ r.pc \in {"find", "drop", "erase"} => r.added = {}

Left(r, k) == k \in r.erased \/ \E n \in DOMAIN r.todo : r.todo[n] = k

Dropping(r, k) == r.pc = "erase" /\ (r.op = "dropQuestion" \/ (r.op = "dropTag" /\ r.tag = k))

AddsThere(r) == \A k \in r.added : question /\ k \in tags \cup Books \cup Chapters

Refs ==
  /\ \A q \in Clients : Shape(req[q]) /\ AddsThere(req[q])
  /\ \A q, o \in Clients : \A k : Dropping(req[q], k) => k \notin req[o].added
  /\ \A q \in Clients : \A k \in links : Dropping(req[q], k) => Left(req[q], k)

(* A request on its own: what it has swept of the link tables, and what it   *)
(* is still to insert.                                                      *)
Area(op) == IF op = "tags" THEN Tags ELSE Books \cup Chapters

Swept(r) ==
  IF r.tables = <<>> THEN Area(r.op)
  ELSE IF r.op = "taxonomy" /\ r.tables = <<Chapters>> THEN Books ELSE {}

Exact(r) ==
  /\ r.op = "tags" => r.tables \in {<<Tags>>, <<>>}
  /\ r.op = "taxonomy" => r.tables \in {<<Books, Chapters>>, <<Chapters>>, <<>>}
  /\ r.op \in ReplaceOps =>
       /\ \A k : Wanted(r, k) => k \in Area(r.op)
       /\ r.pc = "find" => Swept(r) = {}
       /\ r.pc = "erase" => \A k : k \in links \cap Swept(r) <=> Left(r, k)
       /\ r.pc = "insert" =>
            /\ \A k : k \in r.erased <=> k \in links \cap Area(r.op)
            /\ \A k : Wanted(r, k) <=> k \in r.added \/ \E n \in DOMAIN r.todo : r.todo[n] = k
  /\ r.op = "taxonomy" =>
       \A b \in Books, c \in Chapters : Wanted(r, b) /\ Wanted(r, c) => Wanted(r, BookOf[c])
  /\ r.op = "dropTag" => r.tag \in Tags /\ \A k : Left(r, k) => k = r.tag

Alone ==
  ~overlapped =>
    /\ \A q, o \in Clients : Busy(q) /\ Busy(o) => q = o
    /\ \A q \in Clients : Exact(req[q])

Known == TypeOK /\ Inv /\ Refs /\ Alone

(* A request moves on and leaves the tables alone.                          *)
LEMMA Moved ==
  ASSUME Known, Inv', NEW p \in Clients, NEW r \in ReqRecord, req' = [req EXCEPT ![p] = r],
         UNCHANGED table, overlapped' \in BOOLEAN, overlapped => overlapped',
         ~overlapped' => \A q \in Clients \ {p} : ~Busy(q),
         Shape(r), AddsThere(r),
         \A k : Dropping(r, k) => \A o \in Clients \ {p} : k \notin req[o].added,
         \A q \in Clients \ {p} : \A k \in r.added : ~Dropping(req[q], k),
         \A k \in links : Dropping(r, k) => Left(r, k),
         ~overlapped' => Exact(r)
  PROVE  Known'
<1>1. req'[p] = r /\ \A q \in Clients \ {p} : req'[q] = req[q]
  BY DEF Known, TypeOK
<1>2. TypeOK'
  BY DEF Known, TypeOK, table
<1>3. ASSUME NEW q \in Clients PROVE Shape(req'[q]) /\ AddsThere(req[q])' /\ \A k \in links : Dropping(req'[q], k) => Left(req'[q], k)
  <2>1. Shape(req'[q])
    BY <1>1 DEF Known, Refs
  <2>2. AddsThere(req[q])'
    BY <1>1 DEF Known, Refs, AddsThere, table
  <2>3. \A k \in links : Dropping(req'[q], k) => Left(req'[q], k)
    BY <1>1 DEF Known, Refs
  <2> QED BY <2>1, <2>2, <2>3
<1>4. ASSUME NEW q \in Clients, NEW o \in Clients, NEW k, Dropping(req'[q], k) PROVE k \notin req'[o].added
  <2>1. Dropping(r, k) => k \notin r.added
    BY DEF Shape, Dropping
  <2>2. CASE q = p
    BY <1>1, <1>4, <2>1, <2>2
  <2>3. CASE q # p
    BY <1>1, <1>4, <2>3 DEF Known, Refs
  <2> QED BY <2>2, <2>3
<1>5. Refs'
  <2>1. \A q \in Clients : Shape(req[q])' /\ AddsThere(req[q])'
    BY <1>3 DEF Shape
  <2>2. \A q, o \in Clients : \A k : Dropping(req'[q], k) => k \notin req'[o].added
    BY <1>4
  <2>3. \A q \in Clients : \A k \in links' : Dropping(req'[q], k) => Left(req'[q], k)
    BY <1>3 DEF table
  <2> QED BY <2>1, <2>2, <2>3 DEF Refs, Dropping, Left
<1>6. Alone'
  <2> SUFFICES ASSUME ~overlapped' PROVE /\ \A q, o \in Clients : Busy(q)' /\ Busy(o)' => q = o
                                         /\ \A q \in Clients : Exact(req[q])'
    BY DEF Alone
  <2>1. \A q \in Clients : Busy(q)' => q = p
    BY <1>1 DEF Busy
  <2>2. ASSUME NEW q \in Clients PROVE Exact(req[q])'
    <3>1. Exact(req'[q])
      BY <1>1 DEF Known, Alone
    <3> QED BY <3>1 DEF Exact, table
  <2> QED BY <2>1, <2>2
<1> QED BY <1>2, <1>5, <1>6 DEF Known

LEMMA IdleShape ==
  /\ IdleReq \in ReqRecord /\ Shape(IdleReq) /\ AddsThere(IdleReq) /\ Exact(IdleReq)
  /\ \A k : ~Dropping(IdleReq, k)
<1>1. /\ IdleReq.pc = "idle" /\ IdleReq.op = None /\ IdleReq.want = <<>> /\ IdleReq.tag = None
      /\ IdleReq.tables = <<>> /\ IdleReq.todo = <<>> /\ IdleReq.erased = {} /\ IdleReq.added = {}
  BY DEF IdleReq
<1>2. IdleReq \in ReqRecord
  BY DEF IdleReq, ReqRecord, ReqPcs
<1>3. None \notin Ops
  BY NoneAssumption DEF Ops
<1> QED BY <1>1, <1>2, <1>3 DEF Shape, AddsThere, Exact, Dropping, Ops, DropOps, ReplaceOps

LEMMA IdleExact == Exact(IdleReq)'
<1>1. None \notin Ops
  BY NoneAssumption DEF Ops
<1> QED BY <1>1 DEF Exact, IdleReq, Ops, ReplaceOps

LEMMA ReplyKnown ==
  ASSUME Known, Inv', NEW p \in Clients, Busy(p), Reply(p), UNCHANGED <<table, overlapped>>
  PROVE  Known'
<1>1. ~overlapped => \A q \in Clients \ {p} : ~Busy(q)
  BY DEF Known, Alone
<1>2. overlapped \in BOOLEAN
  BY DEF Known, TypeOK
<1>3. req' = [req EXCEPT ![p] = IdleReq] /\ IdleReq.added = {}
  BY DEF Reply, IdleReq
<1> QED BY <1>1, <1>2, <1>3, IdleShape, Moved

LEMMA WantsAll ==
  ASSUME NEW S, IsFiniteSet(S), NEW want \in Wants(S)
  PROVE  want \in Seq(S) /\ \A n \in DOMAIN want : want[n] \in S
BY ListsAreSeqs

LEMMA StartKnown ==
  ASSUME Known, Inv', NEW p \in Clients, Start(p)
  PROVE  Known'
<1>1. ASSUME NEW r \in ReqRecord, Begin(p, r), Shape(r), Exact(r), r.pc \in {"find", "drop"}, r.added = {}
      PROVE  Known'
  <2>1. ~overlapped' => \A q \in Clients \ {p} : ~Busy(q)
    BY <1>1 DEF Begin
  <2>2. overlapped' \in BOOLEAN /\ (overlapped => overlapped') /\ UNCHANGED table
        /\ req' = [req EXCEPT ![p] = r]
    BY <1>1 DEF Begin, Known, TypeOK
  <2>3. AddsThere(r) /\ \A k : ~Dropping(r, k)
    BY <1>1 DEF AddsThere, Dropping
  <2> QED BY <1>1, <2>1, <2>2, <2>3, Moved
<1>2. ASSUME NEW want \in Wants(Tags), SetTags(p, want) PROVE Known'
  <2> DEFINE r == [IdleReq EXCEPT !.pc = "find", !.op = "tags", !.want = want, !.tables = <<Tags>>]
  <2>1. /\ r.pc = "find" /\ r.op = "tags" /\ r.want = want /\ r.tag = None /\ r.tables = <<Tags>>
        /\ r.todo = <<>> /\ r.erased = {} /\ r.added = {}
    BY DEF IdleReq
  <2>2. want \in Seq(Targets) /\ \A n \in DOMAIN want : want[n] \in Tags
    BY WantsAll, FiniteAssumption DEF Targets
  <2>3. <<Tags>> \in Seq(SUBSET Targets) /\ <<Tags>> # <<>>
    BY DEF Targets
  <2>4. r \in ReqRecord
    BY IdleShape, <2>2, <2>3 DEF ReqRecord, ReqPcs, Ops
  <2>5. Begin(p, r)
    BY <1>2 DEF SetTags
  <2> HIDE DEF r
  <2>6. Shape(r)
    BY <2>1 DEF Shape, DropOps, ReplaceOps
  <2>7. Exact(r)
    BY <2>1, <2>2, <2>3 DEF Exact, Swept, Area, Wanted, ReplaceOps
  <2> QED BY <1>1, <2>1, <2>4, <2>5, <2>6, <2>7
<1>3. ASSUME NEW books \in Wants(Books), NEW chapters \in Wants(Chapters), SetTaxonomy(p, books, chapters) PROVE Known'
  <2> DEFINE want == books \o chapters
             r == [IdleReq EXCEPT !.pc = "find", !.op = "taxonomy", !.want = want, !.tables = <<Books, Chapters>>]
  <2>1. /\ r.pc = "find" /\ r.op = "taxonomy" /\ r.want = want /\ r.tag = None /\ r.tables = <<Books, Chapters>>
        /\ r.todo = <<>> /\ r.erased = {} /\ r.added = {}
    BY DEF IdleReq
  <2>2. /\ books \in Seq(Books) /\ \A n \in DOMAIN books : books[n] \in Books
        /\ chapters \in Seq(Chapters) /\ \A n \in DOMAIN chapters : chapters[n] \in Chapters
    BY WantsAll, FiniteAssumption
  <2>3. want \in Seq(Targets)
    <3>1. books \in Seq(Targets) /\ chapters \in Seq(Targets)
      BY <2>2 DEF Targets
    <3> QED BY <3>1
  <2>4. /\ \A n \in DOMAIN want : \/ \E m \in DOMAIN books : want[n] = books[m]
                                  \/ \E m \in DOMAIN chapters : want[n] = chapters[m]
        /\ \A m \in DOMAIN books : \E n \in DOMAIN want : want[n] = books[m]
    <3>1. books \in Seq(Books) /\ chapters \in Seq(Chapters)
      BY <2>2
    <3> HIDE DEF r, want
    <3>2. Joins(want, books, chapters)
      BY <3>1, Appended, Zenon DEF want
    <3> QED BY <3>2, Zenon DEF Joins
  <2>5. <<Books, Chapters>> \in Seq(SUBSET Targets) /\ <<Books, Chapters>> # <<>> /\ <<Books, Chapters>> # <<Chapters>>
    BY Pairs DEF Targets
  <2>6. books # <<>> => \A n \in DOMAIN chapters : \E m \in DOMAIN books : books[m] = BookOf[chapters[n]]
    BY <1>3 DEF SetTaxonomy
  <2>7. r \in ReqRecord
    BY IdleShape, <2>3, <2>5 DEF ReqRecord, ReqPcs, Ops
  <2>8. Begin(p, r)
    BY <1>3 DEF SetTaxonomy
  <2> HIDE DEF r, want
  <2>9. Shape(r)
    BY <2>1 DEF Shape, DropOps, ReplaceOps
  <2>10. \A k : Wanted(r, k) => (k \in Books /\ books # <<>>) \/ \E m \in DOMAIN chapters : chapters[m] = k
    BY <2>1, <2>2, <2>4 DEF Wanted
  <2>11. \A k : Wanted(r, k) => k \in Books \cup Chapters
    BY <2>2, <2>10
  <2>12. \A b \in Books, c \in Chapters : Wanted(r, b) /\ Wanted(r, c) => Wanted(r, BookOf[c])
    <3> SUFFICES ASSUME NEW b \in Books, NEW c \in Chapters, Wanted(r, b), Wanted(r, c) PROVE Wanted(r, BookOf[c])
      OBVIOUS
    <3>1. books # <<>>
      <4>1. b \notin Chapters /\ c \notin Books
        BY KindsAssumption
      <4> QED BY <2>2, <2>10, <4>1
    <3>2. PICK n \in DOMAIN chapters : chapters[n] = c
      <4>1. c \notin Books
        BY KindsAssumption
      <4> QED BY <2>10, <4>1
    <3>3. PICK m \in DOMAIN books : books[m] = BookOf[c]
      BY <2>6, <3>1, <3>2
    <3> QED BY <2>1, <2>4, <3>3 DEF Wanted
  <2>13. Exact(r)
    BY <2>1, <2>5, <2>11, <2>12 DEF Exact, Swept, Area, ReplaceOps
  <2> QED BY <1>1, <2>1, <2>7, <2>8, <2>9, <2>13
<1>4. ASSUME NEW t \in tags, RemoveTag(p, t) PROVE Known'
  <2> DEFINE r == [IdleReq EXCEPT !.pc = "drop", !.op = "dropTag", !.tag = t]
  <2>1. /\ r.pc = "drop" /\ r.op = "dropTag" /\ r.want = <<>> /\ r.tag = t /\ r.tables = <<>>
        /\ r.todo = <<>> /\ r.erased = {} /\ r.added = {}
    BY DEF IdleReq
  <2>2. t \in Tags
    BY DEF Known, TypeOK
  <2>3. r \in ReqRecord
    BY IdleShape, <2>2 DEF ReqRecord, ReqPcs, Ops
  <2>4. Begin(p, r)
    BY <1>4 DEF RemoveTag
  <2> HIDE DEF r
  <2>5. Shape(r) /\ Exact(r)
    BY <2>1, <2>2 DEF Shape, Exact, DropOps, ReplaceOps, Left
  <2> QED BY <1>1, <2>1, <2>3, <2>4, <2>5
<1>5. CASE RemoveQuestion(p)
  <2> DEFINE r == [IdleReq EXCEPT !.pc = "drop", !.op = "dropQuestion"]
  <2>1. /\ r.pc = "drop" /\ r.op = "dropQuestion" /\ r.want = <<>> /\ r.tag = None /\ r.tables = <<>>
        /\ r.todo = <<>> /\ r.erased = {} /\ r.added = {}
    BY DEF IdleReq
  <2>2. r \in ReqRecord
    BY IdleShape DEF ReqRecord, ReqPcs, Ops
  <2>3. Begin(p, r)
    BY <1>5 DEF RemoveQuestion
  <2> HIDE DEF r
  <2>4. Shape(r) /\ Exact(r)
    BY <2>1 DEF Shape, Exact, DropOps, ReplaceOps
  <2> QED BY <1>1, <2>1, <2>2, <2>3, <2>4
<1> QED BY <1>2, <1>3, <1>4, <1>5 DEF Start

(* All members of a finite set of links are on any list of them.            *)
LEMMA ListsFull ==
  ASSUME NEW S \in SUBSET Targets, NEW s \in Lists(S)
  PROVE  s \in Seq(Targets) /\ \A k : k \in S <=> \E n \in DOMAIN s : s[n] = k
<1>1. IsFiniteSet(Targets)
  BY FiniteAssumption, FS_Union DEF Targets
<1>2. IsFiniteSet(S)
  BY <1>1, FS_Subset
<1>3. s \in [1..Cardinality(S) -> S] /\ \A a, b \in DOMAIN s : s[a] = s[b] => a = b
  BY DEF Lists
<1>4. s \in Seq(S) /\ \A k \in S : \E n \in DOMAIN s : s[n] = k
  BY <1>2, <1>3, FullList
<1> QED BY <1>3, <1>4

(* A request that goes on by itself and adds no link.                       *)
LEMMA Continued ==
  ASSUME Known, Inv', NEW p \in Clients, Busy(p), NEW r \in ReqRecord, req' = [req EXCEPT ![p] = r],
         UNCHANGED <<table, overlapped>>, Shape(r), r.added = req[p].added,
         \A k : Dropping(r, k) => Dropping(req[p], k) \/ \A o \in Clients \ {p} : k \notin req[o].added,
         \A k \in links : Dropping(r, k) => Left(r, k),
         ~overlapped => Exact(r)
  PROVE  Known'
<1>1. ~overlapped => \A q \in Clients \ {p} : ~Busy(q)
  BY DEF Known, Alone
<1>2. AddsThere(r)
  BY DEF Known, Refs, AddsThere
<1>3. \A k : Dropping(r, k) => \A o \in Clients \ {p} : k \notin req[o].added
  BY DEF Known, Refs
<1>4. \A q \in Clients \ {p} : \A k \in r.added : ~Dropping(req[q], k)
  BY DEF Known, Refs
<1>5. overlapped \in BOOLEAN
  BY DEF Known, TypeOK
<1> QED BY <1>1, <1>2, <1>3, <1>4, <1>5, Moved

LEMMA KnownReq ==
  ASSUME Known, NEW p \in Clients
  PROVE  /\ req[p] \in ReqRecord /\ Shape(req[p]) /\ (~overlapped => Exact(req[p]))
         /\ \A k \in links : Dropping(req[p], k) => Left(req[p], k)
         /\ links \in SUBSET Targets
         /\ \A r : [req EXCEPT ![p] = r][p] = r
BY DEF Known, Refs, Alone, TypeOK, Targets

LEMMA FindKnown ==
  ASSUME Known, Inv', NEW p \in Clients, Find(p)
  PROVE  Known'
<1>1. CASE Reply(p)
  BY <1>1, ReplyKnown DEF Find, Busy
<1>2. CASE ~Reply(p)
  <2> DEFINE r == [req[p] EXCEPT !.pc = "erase"]
  <2>1. req' = [req EXCEPT ![p] = r] /\ req[p].pc = "find" /\ UNCHANGED <<table, overlapped>>
    BY <1>2 DEF Find, Proceed, Known, TypeOK
  <2>2. /\ r.pc = "erase" /\ r.op = req[p].op /\ r.want = req[p].want /\ r.tag = req[p].tag /\ r.tables = req[p].tables
        /\ r.todo = req[p].todo /\ r.erased = req[p].erased /\ r.added = req[p].added /\ r \in ReqRecord
    <3>1. req[p] \in ReqRecord
      BY KnownReq
    <3> QED BY <3>1 DEF ReqRecord, ReqPcs
  <2> HIDE DEF r
  <2>3. Shape(req[p]) /\ req[p].op \in ReplaceOps /\ r.todo = <<>> /\ r.erased = {}
    BY <2>1, <2>2, KnownReq DEF Shape
  <2>4. Shape(r)
    BY <2>1, <2>2, <2>3 DEF Shape, DropOps, ReplaceOps
  <2>5. \A k : ~Dropping(r, k)
    BY <2>2, <2>3 DEF Dropping, ReplaceOps
  <2>6. ASSUME ~overlapped PROVE Exact(r)
    <3>1. Exact(req[p]) /\ Swept(req[p]) = {}
      BY <2>1, <2>3, <2>6, KnownReq DEF Exact
    <3>2. Swept(r) = {} /\ \A k : ~Left(r, k)
      BY <2>2, <2>3, <3>1 DEF Swept, Left
    <3> QED BY <2>2, <2>3, <3>1, <3>2 DEF Exact, Wanted, ReplaceOps
  <2> QED BY <2>1, <2>2, <2>4, <2>5, <2>6, Continued DEF Busy
<1> QED BY <1>1, <1>2

LEMMA ClearKnown ==
  ASSUME Known, Inv', NEW p \in Clients, Clear(p)
  PROVE  Known'
<1>1. PICK s \in Lists(links \cap Head(req[p].tables)) : req' = [req EXCEPT ![p].todo = s, ![p].tables = Tail(@)]
  BY DEF Clear
<1> DEFINE r == [req[p] EXCEPT !.todo = s, !.tables = Tail(req[p].tables)]
<1>2. /\ req' = [req EXCEPT ![p] = r] /\ req[p].pc = "erase" /\ UNCHANGED <<table, overlapped>>
      /\ req[p].todo = <<>> /\ req[p].tables # <<>>
  BY <1>1 DEF Clear, Known, TypeOK
<1>3. s \in Seq(Targets) /\ \A k : k \in links \cap Head(req[p].tables) <=> \E n \in DOMAIN s : s[n] = k
  BY KnownReq, ListsFull
<1>4. req[p].tables \in Seq(SUBSET Targets) /\ Tail(req[p].tables) \in Seq(SUBSET Targets)
  BY <1>2, KnownReq DEF ReqRecord
<1>5. /\ r.pc = "erase" /\ r.op = req[p].op /\ r.want = req[p].want /\ r.tag = req[p].tag
      /\ r.tables = Tail(req[p].tables) /\ r.todo = s /\ r.erased = req[p].erased /\ r.added = req[p].added
      /\ r \in ReqRecord
  <2> DEFINE rest == Tail(req[p].tables)
  <2>1. rest \in Seq(SUBSET Targets) /\ r = [req[p] EXCEPT !.todo = s, !.tables = rest]
    BY <1>4
  <2> HIDE DEF r, rest
  <2>2. req[p] \in ReqRecord /\ s \in Seq(Targets)
    BY <1>3, KnownReq
  <2>3. /\ r.pc = req[p].pc /\ r.op = req[p].op /\ r.want = req[p].want /\ r.tag = req[p].tag
        /\ r.tables = rest /\ r.todo = s /\ r.erased = req[p].erased /\ r.added = req[p].added
        /\ r \in ReqRecord
    BY <2>1, <2>2 DEF ReqRecord
  <2> QED BY <1>2, <2>3 DEF rest
<1> HIDE DEF r
<1>6. Shape(req[p]) /\ req[p].op \in ReplaceOps
  BY <1>2, KnownReq DEF Shape
<1>7. Shape(r)
  BY <1>2, <1>5, <1>6 DEF Shape, DropOps, ReplaceOps
<1>8. \A k : ~Dropping(r, k)
  BY <1>5, <1>6 DEF Dropping, ReplaceOps
<1>9. ASSUME ~overlapped PROVE Exact(r)
  <2>1. Exact(req[p])
    BY <1>9, KnownReq
  <2>2. \A k : k \in req[p].erased <=> k \in links \cap Swept(req[p])
    BY <1>2, <1>6, <2>1 DEF Exact, Left
  <2>3. /\ Swept(r) = Swept(req[p]) \cup Head(req[p].tables)
        /\ r.op = "tags" => r.tables \in {<<Tags>>, <<>>}
        /\ r.op = "taxonomy" => r.tables \in {<<Books, Chapters>>, <<Chapters>>, <<>>}
    <3>1. CASE req[p].op = "tags"
      <4>1. req[p].tables = <<Tags>>
        BY <1>2, <2>1, <3>1 DEF Exact
      <4>2. Head(req[p].tables) = Tags /\ r.tables = <<>> /\ <<Tags>> # <<>>
        BY <1>5, <4>1
      <4> QED BY <1>5, <3>1, <4>1, <4>2 DEF Swept, Area
    <3>2. CASE req[p].op = "taxonomy"
      <4>1. req[p].tables \in {<<Books, Chapters>>, <<Chapters>>}
        BY <1>2, <2>1, <3>2 DEF Exact
      <4>2. CASE req[p].tables = <<Chapters>>
        <5>1. Head(req[p].tables) = Chapters /\ r.tables = <<>> /\ <<Chapters>> # <<>>
          BY <1>5, <4>2
        <5> QED BY <1>5, <3>2, <4>2, <5>1 DEF Swept, Area
      <4>3. CASE req[p].tables = <<Books, Chapters>>
        <5>1. /\ Head(req[p].tables) = Books /\ r.tables = <<Chapters>> /\ <<Chapters>> # <<>>
              /\ <<Books, Chapters>> # <<>> /\ <<Books, Chapters>> # <<Chapters>>
          BY <1>5, <4>3
        <5> QED BY <1>5, <3>2, <4>3, <5>1 DEF Swept, Area
      <4> QED BY <4>1, <4>2, <4>3
    <3> QED BY <1>6, <3>1, <3>2 DEF ReplaceOps
  <2>4. \A k : k \in links \cap Swept(r) <=> Left(r, k)
    BY <1>3, <1>5, <2>2, <2>3 DEF Left
  <2> QED BY <1>2, <1>5, <1>6, <2>1, <2>3, <2>4 DEF Exact, Wanted, ReplaceOps
<1> QED BY <1>2, <1>5, <1>7, <1>8, <1>9, Continued DEF Busy

LEMMA EraseKnown ==
  ASSUME Known, Inv', NEW p \in Clients, Erase(p)
  PROVE  Known'
<1> DEFINE rest == Tail(req[p].todo)
           gone == req[p].erased \cup {Head(req[p].todo)}
           r == [req[p] EXCEPT !.todo = rest, !.erased = gone]
<1>1. /\ req' = [req EXCEPT ![p] = r] /\ req[p].pc = "erase" /\ UNCHANGED <<table, overlapped>>
      /\ req[p].todo # <<>>
  BY DEF Erase, Known, TypeOK
<1>2. req[p].todo \in Seq(Targets) /\ req[p].erased \in SUBSET Targets /\ req[p] \in ReqRecord
  BY KnownReq DEF ReqRecord
<1>3. /\ Head(req[p].todo) \in Targets /\ rest \in Seq(Targets)
      /\ \A k : (\E n \in DOMAIN req[p].todo : req[p].todo[n] = k)
                  <=> k = Head(req[p].todo) \/ \E n \in DOMAIN rest : rest[n] = k
  BY <1>1, <1>2, HeadOrTail
<1>4. gone \in SUBSET Targets /\ \A k : k \in gone <=> k \in req[p].erased \/ k = Head(req[p].todo)
  BY <1>2, <1>3
<1> HIDE DEF rest, gone
<1>5. /\ r.pc = "erase" /\ r.op = req[p].op /\ r.want = req[p].want /\ r.tag = req[p].tag
      /\ r.tables = req[p].tables /\ r.todo = rest /\ r.erased = gone /\ r.added = req[p].added
      /\ r \in ReqRecord
  BY <1>1, <1>2, <1>3, <1>4 DEF ReqRecord
<1> HIDE DEF r
<1>6. \A k : Left(r, k) <=> Left(req[p], k)
  BY <1>3, <1>4, <1>5 DEF Left
<1>7. \A k : Dropping(r, k) <=> Dropping(req[p], k)
  BY <1>1, <1>5 DEF Dropping
<1>8. Shape(req[p]) /\ Shape(r)
  BY <1>1, <1>5, KnownReq DEF Shape
<1>9. ASSUME ~overlapped PROVE Exact(r)
  <2>1. Exact(req[p])
    BY <1>9, KnownReq
  <2>2. Swept(r) = Swept(req[p])
    BY <1>5 DEF Swept
  <2> QED BY <1>1, <1>5, <1>6, <2>1, <2>2 DEF Exact, Wanted
<1>10. \A k \in links : Dropping(r, k) => Left(r, k)
  BY <1>6, <1>7, KnownReq
<1> QED BY <1>1, <1>5, <1>7, <1>8, <1>9, <1>10, Continued DEF Busy

LEMMA ClearedKnown ==
  ASSUME Known, Inv', NEW p \in Clients, Cleared(p)
  PROVE  Known'
<1> DEFINE r == [req[p] EXCEPT !.pc = "insert", !.todo = req[p].want]
<1>1. /\ req' = [req EXCEPT ![p] = r] /\ req[p].pc = "erase" /\ UNCHANGED <<table, overlapped>>
      /\ req[p].todo = <<>> /\ req[p].tables = <<>> /\ req[p].op \in ReplaceOps
  BY DEF Cleared, Known, TypeOK, ReplaceOps
<1>2. req[p] \in ReqRecord /\ req[p].want \in Seq(Targets)
  BY KnownReq DEF ReqRecord
<1>3. /\ r.pc = "insert" /\ r.op = req[p].op /\ r.want = req[p].want /\ r.tag = req[p].tag
      /\ r.tables = <<>> /\ r.todo = req[p].want /\ r.erased = req[p].erased /\ r.added = req[p].added
      /\ r \in ReqRecord
  BY <1>1, <1>2 DEF ReqRecord, ReqPcs
<1> HIDE DEF r
<1>4. Shape(r) /\ r.added = {}
  BY <1>1, <1>3, KnownReq DEF Shape, DropOps, ReplaceOps
<1>5. \A k : ~Dropping(r, k)
  BY <1>3 DEF Dropping
<1>6. ASSUME ~overlapped PROVE Exact(r)
  <2>1. Exact(req[p]) /\ Swept(req[p]) = Area(r.op)
    BY <1>1, <1>3, <1>6, KnownReq DEF Swept
  <2>2. \A k : k \in r.erased <=> k \in links \cap Area(r.op)
    BY <1>1, <1>3, <2>1 DEF Exact, Left
  <2>3. \A k : Wanted(r, k) <=> k \in r.added \/ \E n \in DOMAIN r.todo : r.todo[n] = k
    BY <1>3, <1>4 DEF Wanted
  <2> QED BY <1>1, <1>3, <2>1, <2>2, <2>3 DEF Exact, Wanted, ReplaceOps
<1> QED BY <1>1, <1>3, <1>4, <1>5, <1>6, Continued DEF Busy

(* The row it inserts, p waits for nobody who drops what it refers to.      *)
LEMMA InsertKnown ==
  ASSUME Known, Inv', NEW p \in Clients, Insert(p)
  PROVE  Known'
<1>1. CASE Reply(p)
  BY <1>1, ReplyKnown DEF Insert, Busy
<1>2. CASE ~Reply(p)
  <2> DEFINE k == Head(req[p].todo)
             rest == Tail(req[p].todo)
             added == IF k \in links \ req[p].erased THEN req[p].added ELSE req[p].added \cup {k}
             r == [req[p] EXCEPT !.todo = rest, !.added = added]
  <2>1. /\ req' = [req EXCEPT ![p] = r] /\ req[p].pc = "insert" /\ UNCHANGED <<table, overlapped>>
        /\ req[p].todo # <<>> /\ Unhindered(p) /\ question /\ k \notin Tags \ tags
    BY <1>2 DEF Insert, Known, TypeOK
  <2>2. req[p].todo \in Seq(Targets) /\ req[p].added \in SUBSET Targets /\ req[p] \in ReqRecord
    BY KnownReq DEF ReqRecord
  <2>3. /\ k \in Targets /\ rest \in Seq(Targets)
        /\ \A i : (\E n \in DOMAIN req[p].todo : req[p].todo[n] = i)
                    <=> i = k \/ \E n \in DOMAIN rest : rest[n] = i
    <3>1. req[p].todo \in Seq(Targets) /\ req[p].todo # <<>>
      BY <2>1, <2>2
    <3> HIDE DEF r, added
    <3> QED BY <3>1, HeadOrTail
  <2>4. \A q \in Clients \ {p} : ~Dropping(req[q], k)
    BY <2>1 DEF Unhindered, WaitsFor, Drops, Dropping
  <2>5. /\ added \in SUBSET Targets /\ req[p].added \subseteq added /\ added \subseteq req[p].added \cup {k}
        /\ k \notin links \ req[p].erased => added = req[p].added \cup {k}
    BY <2>2, <2>3
  <2> HIDE DEF k, rest, added
  <2>6. /\ r.pc = "insert" /\ r.op = req[p].op /\ r.want = req[p].want /\ r.tag = req[p].tag
        /\ r.tables = req[p].tables /\ r.todo = rest /\ r.erased = req[p].erased /\ r.added = added
        /\ r \in ReqRecord
    BY <2>1, <2>2, <2>3, <2>5 DEF ReqRecord
  <2> HIDE DEF r
  <2>7. Shape(req[p]) /\ Shape(r) /\ req[p].op \in ReplaceOps
    BY <2>1, <2>6, KnownReq DEF Shape
  <2>8. AddsThere(r)
    <3>1. AddsThere(req[p])
      BY DEF Known, Refs
    <3> QED BY <2>1, <2>3, <2>5, <2>6, <3>1 DEF AddsThere, Targets
  <2>9. \A i : ~Dropping(r, i)
    BY <2>6 DEF Dropping
  <2>10. \A q \in Clients \ {p} : \A i \in r.added : ~Dropping(req[q], i)
    BY <2>4, <2>5, <2>6 DEF Known, Refs
  <2>11. ASSUME ~overlapped PROVE Exact(r)
    <3>1. Exact(req[p])
      BY <2>11, KnownReq
    <3>2. /\ \A i : i \in req[p].erased <=> i \in links \cap Area(req[p].op)
          /\ \A i : Wanted(req[p], i) <=> i \in req[p].added \/ \E n \in DOMAIN req[p].todo : req[p].todo[n] = i
          /\ \A i : Wanted(req[p], i) => i \in Area(req[p].op)
      BY <2>1, <2>7, <3>1 DEF Exact
    <3>3. \A i : Wanted(r, i) <=> Wanted(req[p], i)
      BY <2>6 DEF Wanted
    <3>4. k \in Area(req[p].op) /\ added = req[p].added \cup {k}
      BY <2>3, <2>5, <3>2
    <3>5. \A i : Wanted(r, i) <=> i \in r.added \/ \E n \in DOMAIN r.todo : r.todo[n] = i
      BY <2>3, <2>6, <3>2, <3>3, <3>4
    <3> QED BY <2>1, <2>6, <2>7, <3>1, <3>2, <3>3, <3>5 DEF Exact, ReplaceOps
  <2>12. ~overlapped => \A q \in Clients \ {p} : ~Busy(q)
    BY <2>1 DEF Known, Alone, Busy
  <2>13. overlapped \in BOOLEAN
    BY DEF Known, TypeOK
  <2> QED BY <2>1, <2>6, <2>7, <2>8, <2>9, <2>10, <2>11, <2>12, <2>13, Moved
<1> QED BY <1>1, <1>2

(* The row it deletes, p waits for everyone who has inserted a link to it.   *)
LEMMA DropKnown ==
  ASSUME Known, Inv', NEW p \in Clients, Drop(p)
  PROVE  Known'
<1>1. CASE Reply(p)
  BY <1>1, ReplyKnown DEF Drop, Busy
<1>2. CASE ~Reply(p)
  <2> DEFINE mine == IF req[p].op = "dropTag" THEN {req[p].tag} ELSE Targets
  <2>1. PICK s \in Lists(links \cap mine) : req' = [req EXCEPT ![p].pc = "erase", ![p].todo = s]
    BY <1>2 DEF Drop
  <2> DEFINE r == [req[p] EXCEPT !.pc = "erase", !.todo = s]
  <2>2. req' = [req EXCEPT ![p] = r] /\ req[p].pc = "drop" /\ Unhindered(p) /\ UNCHANGED <<table, overlapped>>
    BY <1>2, <2>1 DEF Drop, Known, TypeOK
  <2>3. s \in Seq(Targets) /\ \A k : k \in links \cap mine <=> \E n \in DOMAIN s : s[n] = k
    <3>1. links \cap mine \in SUBSET Targets
      BY KnownReq
    <3> HIDE DEF mine
    <3> QED BY <3>1, ListsFull
  <2>4. req[p] \in ReqRecord /\ Shape(req[p]) /\ req[p].op \in DropOps
    BY <2>2, KnownReq DEF Shape
  <2>5. /\ r.pc = "erase" /\ r.op = req[p].op /\ r.want = req[p].want /\ r.tag = req[p].tag
        /\ r.tables = req[p].tables /\ r.todo = s /\ r.erased = req[p].erased /\ r.added = req[p].added
        /\ r \in ReqRecord
    BY <2>3, <2>4 DEF ReqRecord, ReqPcs
  <2> HIDE DEF r
  <2>6. Shape(r) /\ r.erased = {}
    BY <2>2, <2>4, <2>5 DEF Shape, DropOps, ReplaceOps
  <2>7. \A k : Dropping(r, k) => \A o \in Clients \ {p} : k \notin req[o].added
    BY <2>2, <2>4, <2>5 DEF Dropping, Unhindered, WaitsFor, DropOps
  <2>8. \A k \in links : Dropping(r, k) => Left(r, k)
    <3>1. links \subseteq Targets
      BY KnownReq
    <3>2. \A k \in links : Dropping(r, k) => k \in mine
      BY <2>4, <2>5, <3>1 DEF Dropping, DropOps
    <3> HIDE DEF mine
    <3> QED BY <2>3, <2>5, <3>2 DEF Left
  <2>9. ASSUME ~overlapped PROVE Exact(r)
    <3>1. Exact(req[p])
      BY <2>9, KnownReq
    <3>2. r.op = "dropTag" => \A k : Left(r, k) => k = r.tag
      BY <2>3, <2>5, <2>6 DEF Left
    <3> QED BY <2>4, <2>5, <3>1, <3>2 DEF Exact, DropOps, ReplaceOps
  <2> QED BY <2>2, <2>5, <2>6, <2>7, <2>8, <2>9, Continued DEF Busy
<1> QED BY <1>1, <1>2

(* What p has deleted is gone for those that wait to delete it; nobody has   *)
(* inserted a link to what p takes away.                                    *)
LEMMA CommitKnown ==
  ASSUME Known, Inv', NEW p \in Clients, Commit(p)
  PROVE  Known'
<1>1. req[p] \in ReqRecord /\ Shape(req[p]) /\ AddsThere(req[p]) /\ links \subseteq Targets
  BY KnownReq DEF Known, Refs
<1>2. /\ req[p].todo = <<>> /\ links' = (links \ req[p].erased) \cup req[p].added
      /\ tags' = IF req[p].op = "dropTag" THEN tags \ {req[p].tag} ELSE tags
      /\ question' = (question /\ req[p].op # "dropQuestion") /\ UNCHANGED overlapped
      /\ req[p].op \in DropOps => req[p].pc = "erase"
  BY <1>1 DEF Commit, Shape, DropOps, ReplaceOps
<1>3. \A k : Left(req[p], k) <=> k \in req[p].erased
  BY <1>2 DEF Left
<1>4. \A k : Dropping(req[p], k) => k \notin links' /\ \A o \in Clients : k \notin req[o].added
  <2> SUFFICES ASSUME NEW k, Dropping(req[p], k) PROVE k \notin links' /\ \A o \in Clients : k \notin req[o].added
    OBVIOUS
  <2>1. \A o \in Clients : k \notin req[o].added
    BY DEF Known, Refs
  <2>2. k \in links => k \in req[p].erased
    BY <1>3 DEF Known, Refs
  <2> QED BY <1>2, <2>1, <2>2
<1>5. \A k : req[p].op = "dropQuestion" \/ (req[p].op = "dropTag" /\ req[p].tag = k) => Dropping(req[p], k)
  BY <1>2 DEF Dropping, DropOps
<1>6. ASSUME NEW q \in Clients
      PROVE  \/ req'[q] = IdleReq
             \/ q # p /\ req'[q] = req[q] /\ req[q].pc # "erase"
             \/ /\ q # p /\ req[q].pc = "erase" /\ req'[q] \in ReqRecord
                /\ req'[q].pc = "erase" /\ req'[q].op = req[q].op /\ req'[q].tag = req[q].tag
                /\ req'[q].tables = req[q].tables /\ req'[q].erased = req[q].erased /\ req'[q].added = req[q].added
                /\ \A k : Left(req[q], k) /\ k \notin req[p].erased => Left(req'[q], k)
  <2>1. CASE q = p
    BY <2>1 DEF Commit
  <2>2. CASE q # p /\ req[q].pc # "erase"
    BY <2>2 DEF Commit
  <2>3. CASE q # p /\ req[q].pc = "erase"
    <3> DEFINE left == Without(req[q].todo, req[p].erased)
    <3>1. req'[q] = [req[q] EXCEPT !.todo = left]
      BY <2>3 DEF Commit
    <3>2. req[q] \in ReqRecord /\ req[q].todo \in Seq(Targets)
      BY KnownReq DEF ReqRecord
    <3>3. /\ left \in Seq(Targets)
          /\ \A k : (\E n \in DOMAIN left : left[n] = k)
                      <=> k \notin req[p].erased /\ \E n \in DOMAIN req[q].todo : req[q].todo[n] = k
      <4>1. left \in Seq(Targets) /\ Keeps(left, req[q].todo, req[p].erased)
        BY <3>2, WithoutIs
      <4> HIDE DEF left
      <4> QED BY <4>1 DEF Keeps
    <3> HIDE DEF left
    <3>4. /\ req'[q] \in ReqRecord /\ req'[q].pc = "erase" /\ req'[q].op = req[q].op /\ req'[q].tag = req[q].tag
          /\ req'[q].tables = req[q].tables /\ req'[q].erased = req[q].erased /\ req'[q].added = req[q].added
          /\ req'[q].todo = left
      BY <2>3, <3>1, <3>2, <3>3 DEF ReqRecord
    <3>5. \A k : Left(req[q], k) /\ k \notin req[p].erased => Left(req'[q], k)
      BY <3>3, <3>4 DEF Left
    <3> QED BY <2>3, <3>4, <3>5
  <2> QED BY <2>1, <2>2, <2>3
<1>7. req' \in [Clients -> ReqRecord]
  <2>1. \A q \in Clients : req'[q] \in ReqRecord
    BY <1>6, IdleShape, KnownReq
  <2>2. req' = [q \in Clients |-> req'[q]]
    BY DEF Commit
  <2> QED BY <2>1, <2>2
<1>8. TypeOK'
  <2>1. question' \in BOOLEAN /\ tags' \subseteq Tags /\ overlapped' \in BOOLEAN
    BY <1>2 DEF Known, TypeOK
  <2>2. links' \subseteq tags' \cup Books \cup Chapters
    <3> SUFFICES ASSUME NEW k \in links' PROVE k \in tags' \cup Books \cup Chapters
      OBVIOUS
    <3>1. k \in tags \cup Books \cup Chapters
      BY <1>1, <1>2 DEF AddsThere, Known, TypeOK
    <3>2. req[p].op = "dropTag" => k # req[p].tag
      BY <1>4, <1>5
    <3> QED BY <1>2, <3>1, <3>2
  <2>3. links' # {} => question'
    <3> SUFFICES ASSUME NEW k \in links' PROVE question'
      OBVIOUS
    <3>1. question
      BY <1>1, <1>2 DEF AddsThere, Known, TypeOK
    <3>2. req[p].op # "dropQuestion"
      BY <1>4, <1>5
    <3> QED BY <1>2, <3>1, <3>2
  <2> QED BY <1>7, <2>1, <2>2, <2>3 DEF TypeOK
<1>9. ASSUME NEW q \in Clients PROVE Shape(req'[q]) /\ req'[q].added \subseteq req[q].added
  <2>1. Shape(req[q])
    BY KnownReq
  <2>2. IdleReq.added = {}
    BY DEF IdleReq
  <2>3. CASE req'[q].pc = "erase" /\ req[q].pc = "erase" /\ req'[q].op = req[q].op
             /\ req'[q].tables = req[q].tables /\ req'[q].added = req[q].added
    BY <2>1, <2>3 DEF Shape
  <2> QED BY <1>6, <2>1, <2>2, <2>3, IdleShape
<1>10. ASSUME NEW q \in Clients PROVE AddsThere(req[q])'
  <2> SUFFICES ASSUME NEW k \in req'[q].added PROVE question' /\ k \in tags' \cup Books \cup Chapters
    BY DEF AddsThere
  <2>1. k \in req[q].added
    BY <1>9
  <2>2. question /\ k \in tags \cup Books \cup Chapters
    BY <2>1 DEF Known, Refs, AddsThere
  <2>3. req[p].op # "dropQuestion" /\ (req[p].op = "dropTag" => k # req[p].tag)
    BY <1>4, <1>5, <2>1
  <2> QED BY <1>2, <2>2, <2>3
<1>11. ASSUME NEW q \in Clients, NEW k, Dropping(req'[q], k)
       PROVE  Dropping(req[q], k) /\ req'[q].erased = req[q].erased
              /\ (Left(req[q], k) /\ k \notin req[p].erased => Left(req'[q], k))
  BY <1>6, <1>11, IdleShape DEF Dropping
<1>12. Refs'
  <2>1. \A q, o \in Clients : \A k : Dropping(req'[q], k) => k \notin req'[o].added
    BY <1>9, <1>11 DEF Known, Refs
  <2>2. ASSUME NEW q \in Clients, NEW k \in links', Dropping(req'[q], k) PROVE Left(req'[q], k)
    <3>1. Dropping(req[q], k)
      BY <1>11, <2>2
    <3>2. k \notin req[p].added
      BY <3>1 DEF Known, Refs
    <3>3. k \in links /\ k \notin req[p].erased
      BY <1>2, <3>2
    <3>4. Left(req[q], k)
      BY <3>1, <3>3 DEF Known, Refs
    <3> QED BY <1>11, <2>2, <3>3, <3>4
  <2>3. \A q \in Clients : Shape(req[q])' /\ AddsThere(req[q])'
    BY <1>9, <1>10 DEF Shape
  <2> QED BY <2>1, <2>2, <2>3 DEF Refs, Dropping, Left
<1>13. Alone'
  <2> SUFFICES ASSUME ~overlapped PROVE \A q \in Clients : req'[q] = IdleReq
    <3>1. (\A q \in Clients : req'[q] = IdleReq) => Alone'
      <4> SUFFICES ASSUME \A q \in Clients : req'[q] = IdleReq PROVE Alone'
        OBVIOUS
      <4>1. \A q \in Clients : Exact(req[q])'
        <5>1. Exact(IdleReq)'
          BY IdleExact
        <5> QED BY <5>1 DEF Exact
      <4>2. \A q \in Clients : ~Busy(q)'
        BY DEF Busy, IdleReq
      <4> QED BY <4>1, <4>2 DEF Alone
    <3> QED BY <1>2, <3>1 DEF Alone
  <2> SUFFICES ASSUME NEW q \in Clients, q # p PROVE req'[q] = IdleReq
    BY DEF Commit
  <2>1. Busy(p)
    BY DEF Commit, Busy
  <2>2. ~Busy(q)
    BY <2>1 DEF Known, Alone
  <2>3. req[q] = IdleReq
    BY <2>2, KnownReq DEF Busy, Shape
  <2> QED BY <2>2, <2>3 DEF Commit, Busy
<1> QED BY <1>8, <1>12, <1>13 DEF Known

(* Whoever waits is under way, and for one that is: those that are over hold *)
(* no lock.                                                                 *)
LEMMA WaitersAreBusy ==
  ASSUME NEW p, NEW q, WaitsFor(p, q)
  PROVE  Busy(p) /\ p # q
BY DEF WaitsFor, Busy

LEMMA WaitedForIsBusy ==
  ASSUME Known, NEW p \in Clients, NEW q \in Clients, WaitsFor(p, q)
  PROVE  Busy(q) /\ p # q
<1>1. Shape(req[q]) /\ (~Busy(q) => req[q] = IdleReq)
  BY KnownReq DEF Shape, Busy
<1> QED BY <1>1 DEF WaitsFor, Writes, Drops, IdleReq, Busy

LEMMA InitKnown == Init => Known
<1> SUFFICES ASSUME Init PROVE Known
  OBVIOUS
<1>1. IdleReq.added = {} /\ IdleReq.pc = "idle"
  BY DEF IdleReq
<1>2. TypeOK
  BY IdleShape DEF Init, TypeOK
<1>3. Inv
  BY IdleLocal DEF Init, Inv
<1>4. Refs
  BY IdleShape, <1>1 DEF Init, Refs
<1>5. Alone
  BY IdleShape, <1>1 DEF Init, Alone, Busy
<1> QED BY <1>2, <1>3, <1>4, <1>5 DEF Known

(* New rows do not matter to what is under way.                             *)
LEMMA CreateKnown ==
  ASSUME Known, Inv', CreateQuestion \/ \E t \in Tags : CreateTag(t)
  PROVE  Known'
<1>1. /\ UNCHANGED <<links, req, overlapped>> /\ tags \subseteq tags' /\ tags' \subseteq Tags
      /\ question => question'
  BY DEF CreateQuestion, CreateTag, Known, TypeOK
<1>2. TypeOK'
  <2>1. TypeOK
    BY DEF Known
  <2>2. links' \subseteq tags' \cup Books \cup Chapters /\ (links' # {} => question')
    BY <1>1, <2>1 DEF TypeOK
  <2>3. req' \in [Clients -> ReqRecord] /\ overlapped' \in BOOLEAN
    BY <1>1, <2>1 DEF TypeOK
  <2>4. question' \in BOOLEAN /\ tags' \subseteq Tags
    BY <2>1 DEF CreateQuestion, CreateTag, TypeOK
  <2>5. links' # {} => question'
    BY <2>2
  <2> QED BY <2>2, <2>3, <2>4, <2>5 DEF TypeOK
<1>3. Refs'
  <2>1. \A q \in Clients : AddsThere(req[q])'
    BY <1>1 DEF Known, Refs, AddsThere
  <2> QED BY <1>1, <2>1 DEF Known, Refs, Shape, Dropping, Left
<1>4. Alone'
  <2>1. \A q \in Clients : Exact(req[q]) => Exact(req[q])'
    BY <1>1 DEF Exact
  <2>2. Alone
    BY DEF Known
  <2> QED BY <1>1, <2>1, <2>2 DEF Alone, Busy
<1> QED BY <1>2, <1>3, <1>4 DEF Known

LEMMA NextKnown == Known /\ [Next]_vars => Known'
<1> SUFFICES ASSUME Known, [Next]_vars PROVE Known'
  OBVIOUS
<1>1. Inv'
  BY NextInv DEF Known
<1>2. CASE UNCHANGED vars
  <2>1. TypeOK' /\ Refs' /\ Alone'
    BY <1>2 DEF vars, table, Known, TypeOK, Refs, AddsThere, Shape, Dropping, Left, Alone, Busy, Exact
  <2> QED BY <1>1, <2>1 DEF Known
<1>3. ASSUME NEW p \in Clients, Continue(p) PROVE Known'
  <2>1. CASE Deadlock(p)
    <3>1. Busy(p)
      BY <2>1, WaitersAreBusy DEF Deadlock, InCircle
    <3> QED BY <1>1, <2>1, <3>1, ReplyKnown DEF Deadlock
  <2> QED BY <1>1, <1>3, <2>1, FindKnown, ClearKnown, EraseKnown, ClearedKnown, InsertKnown, DropKnown, CommitKnown
       DEF Continue
<1>4. ASSUME NEW p \in Clients, StatementFails(p) PROVE Known'
  BY <1>1, <1>4, ReplyKnown DEF StatementFails
<1> QED BY <1>1, <1>2, <1>3, <1>4, CreateKnown, StartKnown DEF Next

LEMMA KnownAlways == Spec => []Known
BY InitKnown, NextKnown, PTL DEF Spec

(* Whatever overlaps, every variable has its type, and every link refers to  *)
(* a question and a tag that are there: the row waits for those who insert   *)
(* links to it, and they for the row.                                       *)
THEOREM TypeCorrect == Spec => []TypeOK
<1>1. Known => TypeOK
  BY DEF Known
<1> QED BY <1>1, KnownAlways, PTL

-------------------------------------------------------------------------------
(* Without overlap, a transaction that replaces has swept its tables and      *)
(* inserted what it was asked for by the time it commits.                   *)

LEMMA CommitAlone ==
  ASSUME Known, ~overlapped, NEW p \in Clients, Commit(p)
  PROVE  /\ \A q \in Clients : Busy(q) => q = p
         /\ req[p].op \in ReplaceOps =>
              \A k : k \in links' <=> (k \in links /\ k \notin Area(req[p].op)) \/ Wanted(req[p], k)
         /\ req[p].op = "dropTag" => req[p].tag \in Tags /\ links' \subseteq links /\ links \subseteq links' \cup {req[p].tag}
         /\ req[p].op = "dropQuestion" => links' = {}
         /\ req[p].op \in Ops
<1>1. Busy(p) /\ Exact(req[p]) /\ Shape(req[p]) /\ req[p].todo = <<>>
      /\ links' = (links \ req[p].erased) \cup req[p].added
  BY KnownReq DEF Commit, Busy
<1>2. \A q \in Clients : Busy(q) => q = p
  BY <1>1 DEF Known, Alone
<1>3. CASE req[p].op \in ReplaceOps
  <2>1. req[p].pc = "insert"
    BY <1>3 DEF Commit, ReplaceOps
  <2>2. /\ \A k : k \in req[p].erased <=> k \in links \cap Area(req[p].op)
        /\ \A k : Wanted(req[p], k) <=> k \in req[p].added
    BY <1>1, <1>3, <2>1 DEF Exact
  <2> QED BY <1>1, <1>2, <1>3, <2>2 DEF ReplaceOps, Ops
<1>4. CASE req[p].op \notin ReplaceOps
  <2>1. req[p].pc = "erase" /\ req[p].op \in DropOps /\ req[p].added = {}
    BY <1>1, <1>4 DEF Commit, Shape, DropOps
  <2>2. \A k : Left(req[p], k) <=> k \in req[p].erased
    BY <1>1 DEF Left
  <2>3. CASE req[p].op = "dropTag"
    BY <1>1, <1>2, <2>1, <2>2, <2>3 DEF Exact, Ops, ReplaceOps
  <2>4. CASE req[p].op = "dropQuestion"
    <3>1. \A k \in links : k \in req[p].erased
      BY <2>1, <2>2, <2>4, KnownReq DEF Dropping
    <3> QED BY <1>1, <1>2, <2>1, <2>4, <3>1 DEF Ops, ReplaceOps
  <2> QED BY <2>1, <2>3, <2>4 DEF DropOps
<1> QED BY <1>3, <1>4

LEMMA LinksChange ==
  ASSUME Known, [Next]_vars, links' # links
  PROVE  \E p \in Clients : Commit(p)
BY DEF Next, CreateQuestion, CreateTag, Start, SetTags, SetTaxonomy, RemoveTag, RemoveQuestion, Begin,
   StatementFails, Continue, Find, Clear, Erase, Cleared, Insert, Drop, Deadlock, table, vars

(* As long as no two requests have overlapped, what a replacement leaves is   *)
(* what it was asked for, and the links of other kinds.                     *)
THEOREM ReplacementsAreWhole == Spec => ReplacesAll
<1>1. Known /\ [Next]_vars =>
        [~overlapped /\ links' # links =>
           \A p \in Clients : Busy(p) =>
             /\ req[p].op = "tags" => links' = (links \ Tags) \cup {k \in Targets : Asked(p, k)}
             /\ req[p].op = "taxonomy" => links' = (links \cap Tags) \cup {k \in Targets : Asked(p, k)}]_vars
  <2> SUFFICES ASSUME Known, [Next]_vars, ~overlapped, links' # links, NEW p \in Clients, Busy(p)
               PROVE  /\ req[p].op = "tags" => links' = (links \ Tags) \cup {k \in Targets : Asked(p, k)}
                      /\ req[p].op = "taxonomy" => links' = (links \cap Tags) \cup {k \in Targets : Asked(p, k)}
    OBVIOUS
  <2>1. Commit(p)
    BY LinksChange, CommitAlone
  <2>2. links \subseteq Targets /\ req[p].want \in Seq(Targets)
    BY KnownReq DEF ReqRecord
  <2>3. \A k : Wanted(req[p], k) <=> k \in {i \in Targets : Asked(p, i)}
    BY <2>2 DEF Wanted, Asked
  <2>4. req[p].op \in ReplaceOps =>
          links' = (links \ Area(req[p].op)) \cup {k \in Targets : Asked(p, k)}
    BY <2>1, <2>3, CommitAlone
  <2>5. links \ (Books \cup Chapters) = links \cap Tags
    BY <2>2, KindsAssumption DEF Targets
  <2> QED BY <2>4, <2>5 DEF Area, ReplaceOps
<1> QED BY <1>1, KnownAlways, PTL DEF Spec, ReplacesAll

(* As long as no two requests have overlapped, a question that has textbooks  *)
(* has only chapters of theirs.                                             *)
THEOREM ChaptersOfTextbooks == Spec => []ChaptersFit
<1>1. Init => ChaptersFit
  BY DEF Init, ChaptersFit
<1>2. Known /\ ChaptersFit /\ [Next]_vars => ChaptersFit'
  <2> SUFFICES ASSUME Known, ChaptersFit, [Next]_vars, ~overlapped',
                      NEW b \in links' \cap Books, NEW c \in links' \cap Chapters
               PROVE  BookOf[c] \in links'
    BY DEF ChaptersFit
  <2>1. ~overlapped
    BY DEF Next, CreateQuestion, CreateTag, Start, SetTags, SetTaxonomy, RemoveTag, RemoveQuestion, Begin,
       StatementFails, Continue, Find, Clear, Erase, Cleared, Insert, Drop, Commit, Deadlock, table, vars
  <2>2. CASE links' = links
    BY <2>1, <2>2 DEF ChaptersFit
  <2>3. CASE links' # links
    <3>1. PICK p \in Clients : Commit(p)
      BY <2>3, LinksChange
    <3>2. b \notin Tags /\ c \notin Tags /\ BookOf[c] \in Books /\ BookOf[c] \notin Tags
      BY KindsAssumption, BookOfAssumption
    <3>3. CASE req[p].op = "tags"
      <4>1. \A k : Wanted(req[p], k) => k \in Tags
        BY <2>1, <3>3, KnownReq DEF Exact, ReplaceOps, Area
      <4>2. \A k : k \notin Tags => (k \in links' <=> k \in links)
        BY <2>1, <3>1, <3>3, <4>1, CommitAlone DEF ReplaceOps, Area
      <4> QED BY <2>1, <3>2, <4>2 DEF ChaptersFit
    <3>4. CASE req[p].op = "taxonomy"
      <4>1. \A k : k \in Books \cup Chapters => (k \in links' <=> Wanted(req[p], k))
        BY <2>1, <3>1, <3>4, CommitAlone DEF ReplaceOps, Area
      <4>2. Wanted(req[p], BookOf[c])
        BY <2>1, <3>4, <4>1, KnownReq DEF Exact
      <4> QED BY <3>2, <4>1, <4>2
    <3>5. CASE req[p].op = "dropTag"
      <4>1. \A k : k \notin Tags => (k \in links' <=> k \in links)
        BY <2>1, <3>1, <3>5, CommitAlone
      <4> QED BY <2>1, <3>2, <4>1 DEF ChaptersFit
    <3>6. CASE req[p].op = "dropQuestion"
      BY <2>1, <3>1, <3>6, CommitAlone
    <3> QED BY <2>1, <3>1, <3>3, <3>4, <3>5, <3>6, CommitAlone DEF Ops
  <2> QED BY <2>2, <2>3
<1> QED BY <1>1, <1>2, KnownAlways, PTL DEF Spec

-------------------------------------------------------------------------------
(* While a request is under way one of them can go on: nobody waits for one   *)
(* that is over, so if all wait, some do so in a circle, and Postgres may    *)
(* abort one of those.                                                      *)
THEOREM SomeoneIsReady == Spec => []NobodyIsStuck
<1>1. ASSUME Known PROVE NobodyIsStuck
  <2> SUFFICES ASSUME NEW o \in Clients, Busy(o), \A p \in Clients : ~Ready(p) PROVE FALSE
    BY DEF NobodyIsStuck
  <2> DEFINE C == {p \in Clients : Busy(p)}
             W == {x \in Clients \X Clients : WaitsFor(x[1], x[2])}
  <2>1. IsFiniteSet(C) /\ C # {}
    BY FS_Subset, FiniteAssumption
  <2>2. ASSUME NEW p \in C PROVE \E q \in C : p # q /\ <<p, q>> \in W
    <3>1. PICK q \in Clients : WaitsFor(p, q)
      BY DEF Ready, Unhindered
    <3>2. Busy(q) /\ p # q
      BY <1>1, <3>1, WaitedForIsBusy
    <3> QED BY <3>1, <3>2
  <2>3. PICK D \in SUBSET C : /\ D # {}
                              /\ \A q \in D : (\E r \in D : <<q, r>> \in W) /\ (\E r \in D : <<r, q>> \in W)
    <3> HIDE DEF C, W
    <3> QED BY <2>1, <2>2, WaitingCircle
  <2>4. PICK p \in D : TRUE
    BY <2>3
  <2>5. InCircle(p)
    BY <2>3, <2>4 DEF InCircle
  <2> QED BY <2>4, <2>5 DEF Ready
<1> QED BY <1>1, KnownAlways, PTL
================================================================================
