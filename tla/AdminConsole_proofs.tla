-------------------------- MODULE AdminConsole_proofs --------------------------
(***************************************************************************)
(* Theorems about AdminConsole, for any tenants, rows, number of handlers    *)
(* and clicks.                                                             *)
(***************************************************************************)
EXTENDS AdminConsole, FiniteFacts, SequenceTheorems, TLAPS

(***************************************************************************)
(* Calls: those that show what is selected of a kind, those that set what is *)
(* selected and what is shown apart, those that may be sent together.       *)
(***************************************************************************)
Shows(kind) ==
  CASE kind \in {"question", "links"} -> {"showQuestion"}
    [] kind = "document" -> {"showDocument"}
    [] kind = "tenant" -> TenantCalls
    [] OTHER -> {}

Upsets(call) ==
  CASE call = "createQuestion" -> {"question", "links"}
    [] call \in {"createDocument", "delete"} -> {"document"}
    [] call = "taxonomy" -> {"links"}
    [] OTHER -> {}

(***************************************************************************)
(* What a handler hd has to do about a kind, and does rightly: after a call *)
(* that sets selection and pane apart comes one that shows; requests name   *)
(* what is selected.                                                       *)
(***************************************************************************)
ToShow(todo, kind) == \E n \in DOMAIN todo : \E c \in todo[n] : c \in Shows(kind)

WillShow(hd, kind) == ToShow(hd.todo, kind) \/ \E r \in hd.sent : r.call \in Shows(kind)

Ordered(todo, kind) ==
  \A n \in DOMAIN todo : \A c \in todo[n] : kind \in Upsets(c) =>
    \E m \in DOMAIN todo : n < m /\ \E d \in todo[m] : d \in Shows(kind)

InScript(todo, kind) == \E n \in DOMAIN todo : \E c \in todo[n] : kind \in Touches(c)

Touching(hd, kind) == InScript(hd.todo, kind) \/ \E r \in hd.sent : kind \in Touches(r.call)

Fits(r, todo, kind, st, pa) ==
  /\ kind \in Upsets(r.call) => ToShow(todo, kind)
  /\ kind \in Panes(Subject(r.call)) => r.id = SelectedIn(st, kind)
  /\ kind = "document" /\ r.call = "readItems" => pa[kind] = SelectedIn(st, kind)

Goes(hd, kind, st, pa) ==
  /\ Ordered(hd.todo, kind)
  /\ \A r \in hd.sent : Fits(r, hd.todo, kind, st, pa)

(* What is shown of a kind is selected or about to be shown, by one handler. *)
KeptIn(hs, st, pa, kind) ==
  /\ pa[kind] = SelectedIn(st, kind) \/ \E h \in Handlers : WillShow(hs[h], kind)
  /\ \A g, h \in Handlers : Touching(hs[g], kind) /\ Touching(hs[h], kind) => g = h
  /\ \A h \in Handlers : Goes(hs[h], kind, st, pa)

Kept == \A kind \in Kinds \ torn : KeptIn(handler, state, shown, kind)

-------------------------------------------------------------------------------
LEMMA ScriptMeans ==
  ASSUME NEW todo, NEW kind
  PROVE  kind \in Script(todo) <=> InScript(todo, kind)
BY DEF Script, InScript

LEMMA TouchedMeans ==
  ASSUME NEW h, NEW kind
  PROVE  kind \in TouchedBy(h) <=> Touching(handler[h], kind)
BY DEF TouchedBy, Script, InScript, Touching

LEMMA OthersMean ==
  ASSUME NEW h, NEW kind
  PROVE  kind \in TouchedByOthers(h) <=> \E g \in Handlers \ {h} : Touching(handler[g], kind)
BY TouchedMeans DEF TouchedByOthers

LEMMA SelectedMeans ==
  ASSUME NEW kind
  PROVE  Selected(kind) = SelectedIn(state, kind)
BY DEF Selected

LEMMA TouchesKinds == \A c : Touches(c) \subseteq Kinds
BY DEF Touches, Kinds

(* Calls that show, upset or name a kind touch it. *)
LEMMA CallsTouch ==
  ASSUME NEW c, NEW kind \in Kinds
  PROVE  /\ c \in Shows(kind) => kind \in Touches(c)
         /\ kind \in Upsets(c) => kind \in Touches(c)
         /\ kind \in Panes(Subject(c)) => kind \in Touches(c)
         /\ c = "readItems" => "document" \in Touches(c)
<1>1. c \in Shows(kind) => kind \in Touches(c)
  BY DEF Shows, Touches, Kinds, QuestionCalls, DocumentCalls, TenantCalls
<1>2. kind \in Upsets(c) => kind \in Touches(c)
  BY DEF Upsets, Touches, Kinds, QuestionCalls, DocumentCalls, TenantCalls
<1>3. kind \in Panes(Subject(c)) => kind \in Touches(c)
  <2>1. CASE Subject(c) = "question"
    BY <2>1, NoneAssumption DEF Subject, Panes, Touches, Kinds, QuestionCalls, DocumentCalls, TenantCalls
  <2>2. CASE Subject(c) = "document"
    BY <2>2, NoneAssumption DEF Subject, Panes, Touches, Kinds, QuestionCalls, DocumentCalls, TenantCalls
  <2>3. CASE Subject(c) = "export"
    BY <2>3, NoneAssumption DEF Subject, Panes, Touches, Kinds, QuestionCalls, DocumentCalls, ExportCalls, TenantCalls
  <2>4. CASE Subject(c) = None
    BY <2>4, NoneAssumption DEF Panes, Kinds
  <2> QED BY <2>1, <2>2, <2>3, <2>4 DEF Subject
<1>4. c = "readItems" => "document" \in Touches(c)
  BY DEF Touches, DocumentCalls, TenantCalls
<1> QED BY <1>1, <1>2, <1>3, <1>4

(* A handler that does not touch a kind goes well about it. *)
LEMMA UntouchedGoes ==
  ASSUME NEW hd, NEW kind \in Kinds, ~Touching(hd, kind), NEW st, NEW pa
  PROVE  Goes(hd, kind, st, pa) /\ ~WillShow(hd, kind)
BY CallsTouch DEF Goes, Fits, Touching, InScript, Ordered, ToShow, WillShow

-------------------------------------------------------------------------------
(* One handler goes on, to hd.  About a kind no other touches, it is enough  *)
(* that it goes well; it leaves the others' kinds alone.                    *)
LEMMA MineKept ==
  ASSUME NEW hs, NEW hs2, NEW h \in Handlers, NEW kind \in Kinds, NEW st, NEW pa,
         \A g \in Handlers \ {h} : hs2[g] = hs[g] /\ ~Touching(hs[g], kind),
         Goes(hs2[h], kind, st, pa), pa[kind] = SelectedIn(st, kind) \/ WillShow(hs2[h], kind)
  PROVE  KeptIn(hs2, st, pa, kind)
<1>1. \A g \in Handlers \ {h} : ~Touching(hs2[g], kind) /\ Goes(hs2[g], kind, st, pa)
  BY UntouchedGoes
<1> QED BY <1>1 DEF KeptIn

LEMMA OthersKept ==
  ASSUME NEW hs, NEW hs2, NEW h \in Handlers, NEW kind \in Kinds, NEW st, NEW pa, NEW st2, NEW pa2,
         KeptIn(hs, st, pa, kind), ~Touching(hs[h], kind), ~Touching(hs2[h], kind),
         \A g \in Handlers \ {h} : hs2[g] = hs[g],
         \/ pa2[kind] = pa[kind] /\ SelectedIn(st2, kind) = SelectedIn(st, kind)
         \/ kind = "tenant" /\ pa2[kind] = SelectedIn(st2, kind)
  PROVE  KeptIn(hs2, st2, pa2, kind)
<1>1. Goes(hs2[h], kind, st2, pa2)
  BY UntouchedGoes
<1>2. ~WillShow(hs[h], kind)
  BY UntouchedGoes
<1>3. \A g \in Handlers \ {h} : Goes(hs[g], kind, st, pa)
  BY DEF KeptIn
<1>4. \A g \in Handlers \ {h} : Goes(hs2[g], kind, st2, pa2)
  <2>1. CASE pa2[kind] = pa[kind] /\ SelectedIn(st2, kind) = SelectedIn(st, kind)
    BY <1>3, <2>1 DEF Goes, Fits
  <2>2. CASE kind = "tenant"
    <3>1. \A c : kind \notin Panes(Subject(c))
      BY <2>2, NoneAssumption DEF Panes, Subject, Kinds
    <3> QED BY <1>3, <2>2, <3>1 DEF Goes, Fits
  <2> QED BY <2>1, <2>2
<1>5. pa2[kind] = SelectedIn(st2, kind) \/ \E g \in Handlers : WillShow(hs2[g], kind)
  BY <1>2 DEF KeptIn
<1> QED BY <1>1, <1>4, <1>5 DEF KeptIn

-------------------------------------------------------------------------------
(* What GoOn does: where it stops, what it sends there, what it shows.       *)

HandlerRecord == [todo : Seq(SUBSET Calls), sent : SUBSET RequestRecord, rounds : 0..(MaxPolls - 1),
                  about : Ids \cup {None}]

StopsAt(st, todo, stop, group) ==
  /\ \A n \in 1..(stop - 1) : \A c \in todo[n] : Silent(st, c)
  /\ group = {} => stop = Len(todo) /\ \A n \in DOMAIN todo : \A c \in todo[n] : Silent(st, c)
  /\ group # {} => stop \in DOMAIN todo /\ group = {c \in todo[stop] : ~Silent(st, c)}

Cleared(st, todo, stop, kind) ==
  \E n \in 1..stop : \E c \in todo[n] : Silent(st, c) /\ c \in {"showQuestion", "showDocument"} /\ kind \in Touches(c)

Going(st, todo, about, rounds, stop, group, new) ==
  IF group = {} THEN IdleHandler
  ELSE [todo |-> SubSeq(todo, stop + 1, Len(todo)), sent |-> {Request(st, call, about, new) : call \in group},
        rounds |-> rounds, about |-> about]

Stores(st, about, group, new) ==
  LET sent == {Request(st, call, about, new) : call \in group} IN
    /\ home' = [id \in Ids |-> IF id = new /\ \E r \in sent : r.ok THEN st.tenant ELSE home[id]]
    /\ gone' = gone \cup {r.id : r \in {q \in sent : q.call = "delete" /\ q.ok}}

New(group, new) ==
  IF UNION {Fresh(call) : call \in group} = {} THEN new = None ELSE new \in UNION {Fresh(call) : call \in group}

Does(hs, h, st, pa, todo, about, rounds, harm, stop, group, new) ==
  /\ state' = st
  /\ torn' = harm \cup {kind \in Kinds : Cleared(st, todo, stop, kind) /\ SelectedIn(st, kind) # None}
  /\ shown' \in [Kinds -> {pa[kind] : kind \in Kinds} \cup {None}]
  /\ \A kind \in Kinds : IF Cleared(st, todo, stop, kind) THEN shown'[kind] = None ELSE shown'[kind] = pa[kind]
  /\ handler' = [hs EXCEPT ![h] = Going(st, todo, about, rounds, stop, group, new)]
  /\ Stores(st, about, group, new)

(* Of a script nothing is left to do without a tenant, from its lists on.    *)
Left(st, script, todo) ==
  todo = script \/ (todo = <<>> /\ st.tenant = None /\ 1 \in DOMAIN script /\ script[1] = Lists)

LEMMA LeftIs ==
  ASSUME NEW st, NEW script \in Seq(SUBSET Calls)
  PROVE  LeftToDo(st, script) \in Seq(SUBSET Calls) /\ Left(st, script, LeftToDo(st, script))
<1> DEFINE S == SUBSET Calls
<1>1. script \in Seq(S)
  OBVIOUS
<1> HIDE DEF S
<1>2. script # <<>> => 1 \in DOMAIN script /\ Head(script) = script[1]
  BY <1>1
<1>3. <<>> \in Seq(S)
  OBVIOUS
<1>4. LeftToDo(st, script) \in Seq(S) /\ Left(st, script, LeftToDo(st, script))
  BY <1>1, <1>2, <1>3 DEF LeftToDo, Left
<1> QED BY <1>4 DEF S

LEMMA GoOnDoes ==
  ASSUME NEW hs, NEW h, NEW st, NEW pa, NEW script \in Seq(SUBSET Calls), NEW about, NEW rounds, NEW harm,
         GoOn(hs, h, st, pa, script, about, rounds, harm)
  PROVE  \E todo \in Seq(SUBSET Calls), group \in SUBSET Calls : \E stop \in 0..Len(todo) : \E new :
           /\ Left(st, script, todo) /\ StopsAt(st, todo, stop, group) /\ New(group, new)
           /\ Does(hs, h, st, pa, todo, about, rounds, harm, stop, group, new)
<1> DEFINE todo == LeftToDo(st, script)
<1>0. todo \in Seq(SUBSET Calls) /\ Left(st, script, todo)
  BY LeftIs
<1> DEFINE loud == {n \in DOMAIN todo : \E call \in todo[n] : ~Silent(st, call)}
           stop == IF loud = {} THEN Len(todo) ELSE CHOOSE n \in loud : \A k \in loud : n <= k
           group == IF loud = {} THEN {} ELSE {call \in todo[stop] : ~Silent(st, call)}
           silent == UNION {{call \in todo[n] : Silent(st, call)} : n \in 1..stop}
           cleared == UNION {Touches(call) : call \in silent \cap {"showQuestion", "showDocument"}}
           news == UNION {Fresh(call) : call \in group}
<1>a. /\ state' = st
      /\ \E new \in IF news = {} THEN {None} ELSE news :
           LET sent == {Request(st, call, about, new) : call \in group} IN
             /\ shown' = [kind \in Kinds |-> IF kind \in cleared THEN None ELSE pa[kind]]
             /\ torn' = harm \cup {kind \in cleared : SelectedIn(st, kind) # None}
             /\ handler' = [hs EXCEPT ![h] =
                  IF group = {} THEN IdleHandler
                  ELSE [todo |-> SubSeq(todo, stop + 1, Len(todo)), sent |-> sent, rounds |-> rounds, about |-> about]]
             /\ home' = [id \in Ids |-> IF id = new /\ \E r \in sent : r.ok THEN st.tenant ELSE home[id]]
             /\ gone' = gone \cup {r.id : r \in {q \in sent : q.call = "delete" /\ q.ok}}
  <2> HIDE DEF todo, loud, stop, group, silent, cleared, news
  <2> QED BY DEF GoOn, todo, loud, stop, group, silent, cleared, news
<1> HIDE DEF todo
<1>1. DOMAIN todo = 1..Len(todo) /\ Len(todo) \in Nat
  BY <1>0
<1>2. loud # {} => stop \in loud /\ \A k \in loud : stop <= k
  <2>1. ASSUME loud # {} PROVE \E n \in loud : \A k \in loud : n <= k
    <3>1. loud \subseteq Nat
      BY <1>1
    <3>2. PICK k \in loud : TRUE
      BY <2>1
    <3> HIDE DEF loud
    <3> QED BY <3>1, <3>2, SmallestMember
  <2> HIDE DEF loud
  <2> QED BY <2>1
<1>3. stop \in 0..Len(todo)
  BY <1>1, <1>2
<1>4. group \in SUBSET Calls
  <2>1. loud # {} => stop \in DOMAIN todo
    BY <1>2
  <2>2. \A n \in DOMAIN todo : todo[n] \subseteq Calls
    BY <1>0, <1>1
  <2> HIDE DEF loud, stop
  <2> QED BY <2>1, <2>2
<1>5. StopsAt(st, todo, stop, group)
  <2>1. ASSUME NEW n \in 1..(stop - 1) PROVE \A c \in todo[n] : Silent(st, c)
    <3>1. n \in DOMAIN todo /\ n < stop
      BY <1>1, <1>3
    <3>2. n \notin loud
      <4>1. n \in loud => stop <= n
        BY <1>2
      <4> HIDE DEF loud, stop
      <4> QED BY <1>1, <1>3, <3>1, <4>1
    <3> QED BY <3>1, <3>2
  <2>2. loud # {} => group # {} /\ stop \in DOMAIN todo
    BY <1>2
  <2>3. loud = {} => \A n \in DOMAIN todo : \A c \in todo[n] : Silent(st, c)
    OBVIOUS
  <2> QED BY <2>1, <2>2, <2>3 DEF StopsAt
<1>6. PICK new \in IF news = {} THEN {None} ELSE news :
        LET sent == {Request(st, call, about, new) : call \in group} IN
          /\ shown' = [kind \in Kinds |-> IF kind \in cleared THEN None ELSE pa[kind]]
          /\ torn' = harm \cup {kind \in cleared : SelectedIn(st, kind) # None}
          /\ handler' = [hs EXCEPT ![h] =
               IF group = {} THEN IdleHandler
               ELSE [todo |-> SubSeq(todo, stop + 1, Len(todo)), sent |-> sent, rounds |-> rounds, about |-> about]]
          /\ home' = [id \in Ids |-> IF id = new /\ \E r \in sent : r.ok THEN st.tenant ELSE home[id]]
          /\ gone' = gone \cup {r.id : r \in {q \in sent : q.call = "delete" /\ q.ok}}
  <2> HIDE DEF stop, group, cleared, news
  <2> QED BY <1>a
<1>7. New(group, new)
  <2> HIDE DEF group
  <2> QED BY DEF New
<1>8. \A kind \in Kinds : kind \in cleared <=> Cleared(st, todo, stop, kind)
  <2> HIDE DEF stop
  <2> QED BY DEF Cleared
<1>9. cleared \subseteq Kinds
  BY TouchesKinds
<1>10. Does(hs, h, st, pa, todo, about, rounds, harm, stop, group, new)
  <2> HIDE DEF stop, group, cleared
  <2>1. {kind \in cleared : SelectedIn(st, kind) # None}
          = {kind \in Kinds : Cleared(st, todo, stop, kind) /\ SelectedIn(st, kind) # None}
    BY <1>8, <1>9
  <2> QED BY <1>6, <1>8, <1>a, <2>1 DEF Does, Going, Stores
<1> HIDE DEF loud, stop, group, silent, cleared, news
<1> QED BY <1>0, <1>3, <1>4, <1>5, <1>7, <1>10


-------------------------------------------------------------------------------
(* The groups behind the one where it stops are left.                       *)
Rest(t, todo, stop) ==
  /\ t \in Seq(SUBSET Calls) /\ Len(t) = Len(todo) - stop
  /\ \A i \in DOMAIN t : i \in Nat \ {0} /\ stop + i \in DOMAIN todo /\ t[i] = todo[stop + i]
  /\ \A m \in DOMAIN todo : stop < m => m - stop \in DOMAIN t /\ t[m - stop] = todo[m]

LEMMA RestIs ==
  ASSUME NEW todo \in Seq(SUBSET Calls), NEW stop \in 0..Len(todo)
  PROVE  Rest(SubSeq(todo, stop + 1, Len(todo)), todo, stop)
<1> DEFINE t == SubSeq(todo, stop + 1, Len(todo))
<1>1. Len(todo) \in Nat /\ DOMAIN todo = 1..Len(todo) /\ \A n \in DOMAIN todo : todo[n] \in SUBSET Calls
  OBVIOUS
<1>2. t = [i \in 1..(Len(todo) - stop) |-> todo[stop + i]]
  BY <1>1
<1> HIDE DEF t
<1>3. DOMAIN t = 1..(Len(todo) - stop) /\ \A i \in 1..(Len(todo) - stop) : t[i] = todo[stop + i]
  BY <1>2
<1>4. t \in Seq(SUBSET Calls) /\ Len(t) = Len(todo) - stop
  <2> DEFINE n == Len(todo) - stop
             e(i) == todo[stop + i]
  <2>1. n \in Nat /\ \A i \in 1..n : e(i) \in SUBSET Calls
    BY <1>1
  <2>2. t = [i \in 1..n |-> e(i)]
    BY <1>2
  <2> HIDE DEF n, e
  <2>3. t \in Seq(SUBSET Calls) /\ Len(t) = n
    BY <2>1, <2>2
  <2> QED BY <2>3 DEF n
<1>5. \A i \in DOMAIN t : i \in Nat \ {0} /\ stop + i \in DOMAIN todo /\ t[i] = todo[stop + i]
  BY <1>1, <1>3
<1>6. \A m \in DOMAIN todo : stop < m => m - stop \in DOMAIN t /\ t[m - stop] = todo[m]
  BY <1>1, <1>3
<1> QED BY <1>4, <1>5, <1>6 DEF Rest, t

Sends(hd, st, about, group, new) == hd.sent = {Request(st, call, about, new) : call \in group}

LEMMA GoingParts ==
  ASSUME NEW st, NEW todo \in Seq(SUBSET Calls), NEW about, NEW rounds, NEW stop \in 0..Len(todo),
         NEW group \in SUBSET Calls, NEW new, StopsAt(st, todo, stop, group),
         NEW hd, hd = Going(st, todo, about, rounds, stop, group, new)
  PROVE  Rest(hd.todo, todo, stop) /\ Sends(hd, st, about, group, new)
<1>1. CASE group = {}
  <2>1. stop = Len(todo) /\ hd = IdleHandler
    BY <1>1 DEF StopsAt, Going
  <2>2. hd.todo = <<>> /\ hd.sent = {}
    BY <2>1 DEF IdleHandler
  <2>3. SubSeq(todo, stop + 1, Len(todo)) = <<>>
    BY <2>1
  <2> QED BY <1>1, <2>2, <2>3, RestIs DEF Sends
<1>2. CASE group # {}
  BY <1>2, RestIs DEF Going, Sends
<1> QED BY <1>1, <1>2

LEMMA RequestParts ==
  ASSUME NEW st, NEW c, NEW about, NEW new
  PROVE  LET r == Request(st, c, about, new) IN
           /\ r.call = c /\ r.tenant = st.tenant
           /\ Subject(c) # None => r.id = st[Subject(c)]
           /\ Subject(c) = None => r.id = new
BY DEF Request

LEMMA NamesSelected ==
  ASSUME NEW st, NEW c, NEW about, NEW new, NEW kind \in Kinds, kind \in Panes(Subject(c))
  PROVE  Request(st, c, about, new).id = SelectedIn(st, kind)
<1>1. Subject(c) # None
  BY NoneAssumption DEF Panes, Kinds
<1>2. SelectedIn(st, kind) = st[Subject(c)]
  BY NoneAssumption DEF SelectedIn, Panes, Subject, Kinds
<1> QED BY <1>1, <1>2, RequestParts

(* A handler that goes on with a rightly ordered script goes well, and shows *)
(* what is selected unless it already is shown.                             *)
Startable(todo, kind, st, pa) ==
  /\ Ordered(todo, kind)
  /\ ToShow(todo, kind) \/ pa[kind] = SelectedIn(st, kind)
  /\ \A n \in DOMAIN todo : kind = "document" /\ "readItems" \in todo[n] => pa[kind] = SelectedIn(st, kind)

Repainted(st, todo, stop, kind, pa, pa2) ==
  IF Cleared(st, todo, stop, kind) THEN pa2[kind] = None ELSE pa2[kind] = pa[kind]

Well(hd, kind, st, pa) == Goes(hd, kind, st, pa) /\ (pa[kind] = SelectedIn(st, kind) \/ WillShow(hd, kind))

LEMMA GoingWell ==
  ASSUME NEW st, NEW todo \in Seq(SUBSET Calls), NEW about, NEW rounds, NEW stop \in 0..Len(todo),
         NEW group \in SUBSET Calls, NEW new, StopsAt(st, todo, stop, group),
         NEW hd, hd = Going(st, todo, about, rounds, stop, group, new),
         NEW kind \in Kinds, Cleared(st, todo, stop, kind) => SelectedIn(st, kind) = None,
         NEW pa, Startable(todo, kind, st, pa), NEW pa2, Repainted(st, todo, stop, kind, pa, pa2)
  PROVE  Well(hd, kind, st, pa2)
<1> USE DEF Startable, Repainted
<1>0. Rest(hd.todo, todo, stop) /\ Sends(hd, st, about, group, new)
  BY GoingParts
<1>1. Rest(hd.todo, todo, stop) /\ hd.sent = {Request(st, call, about, new) : call \in group}
  BY <1>0 DEF Sends
<1>2. DOMAIN todo = 1..Len(todo)
  OBVIOUS
<1>3. \A m \in DOMAIN todo : stop < m /\ (\E d \in todo[m] : d \in Shows(kind)) => ToShow(hd.todo, kind)
  BY <1>1 DEF Rest, ToShow
<1>4. Ordered(hd.todo, kind)
  <2> SUFFICES ASSUME NEW n \in DOMAIN hd.todo, NEW c \in hd.todo[n], kind \in Upsets(c)
               PROVE  \E m \in DOMAIN hd.todo : n < m /\ \E d \in hd.todo[m] : d \in Shows(kind)
    BY DEF Ordered
  <2>1. n \in Nat /\ stop + n \in DOMAIN todo /\ c \in todo[stop + n]
    BY <1>1 DEF Rest
  <2>2. PICK m \in DOMAIN todo : stop + n < m /\ \E d \in todo[m] : d \in Shows(kind)
    BY <2>1 DEF Ordered
  <2>3. m - stop \in DOMAIN hd.todo /\ hd.todo[m - stop] = todo[m] /\ n < m - stop
    BY <1>1, <2>1, <2>2, SMTT(30) DEF Rest
  <2> QED BY <2>2, <2>3
<1>5. \A c \in group : stop \in DOMAIN todo /\ c \in todo[stop]
  BY DEF StopsAt
<1>6. Cleared(st, todo, stop, kind) => pa2[kind] = SelectedIn(st, kind)
  OBVIOUS
<1>7. ASSUME NEW c \in group PROVE Fits(Request(st, c, about, new), hd.todo, kind, st, pa2)
  <2> DEFINE r == Request(st, c, about, new)
  <2>1. r.call = c
    BY RequestParts
  <2>2. kind \in Upsets(c) => ToShow(hd.todo, kind)
    BY <1>3, <1>5 DEF Ordered
  <2>3. kind \in Panes(Subject(c)) => r.id = SelectedIn(st, kind)
    BY NamesSelected
  <2>4. kind = "document" /\ c = "readItems" => pa2[kind] = SelectedIn(st, kind)
    BY <1>5, <1>6
  <2> HIDE DEF r
  <2> QED BY <2>1, <2>2, <2>3, <2>4 DEF Fits, r
<1>8. Goes(hd, kind, st, pa2)
  BY <1>1, <1>4, <1>7 DEF Goes
<1>9. ASSUME ~Cleared(st, todo, stop, kind), ToShow(todo, kind) PROVE WillShow(hd, kind)
  <2>1. PICK n \in DOMAIN todo : \E d \in todo[n] : d \in Shows(kind)
    BY <1>9 DEF ToShow
  <2>2. PICK d \in todo[n] : d \in Shows(kind)
    BY <2>1
  <2>3. Silent(st, d) => d \in {"showQuestion", "showDocument"}
    BY <2>2 DEF Silent, Shows, TenantCalls
  <2>4. kind \in Touches(d)
    BY <2>2, CallsTouch
  <2>5. CASE stop < n
    BY <1>3, <2>2, <2>5 DEF WillShow
  <2>6. CASE ~(stop < n)
    <3>1. n \in 1..stop
      BY <1>2, <2>6
    <3>2. ~Silent(st, d)
      BY <1>9, <2>2, <2>3, <2>4, <3>1 DEF Cleared
    <3>3. n = stop /\ group # {}
      <4>1. ~(n \in 1..(stop - 1))
        BY <2>2, <3>2 DEF StopsAt
      <4>2. n = stop
        BY <3>1, <4>1
      <4> QED BY <2>2, <3>2, <4>2 DEF StopsAt
    <3>4. d \in group
      BY <2>2, <3>2, <3>3 DEF StopsAt
    <3>5. Request(st, d, about, new) \in hd.sent /\ Request(st, d, about, new).call = d
      BY <1>1, <3>4, RequestParts
    <3> QED BY <2>2, <3>5 DEF WillShow
  <2> QED BY <2>5, <2>6
<1> QED BY <1>6, <1>8, <1>9 DEF Well


LEMMA GoingTouches ==
  ASSUME NEW st, NEW todo \in Seq(SUBSET Calls), NEW about, NEW rounds, NEW stop \in 0..Len(todo),
         NEW group \in SUBSET Calls, NEW new, StopsAt(st, todo, stop, group),
         NEW hd, hd = Going(st, todo, about, rounds, stop, group, new), NEW kind, ~InScript(todo, kind)
  PROVE  ~Touching(hd, kind) /\ ~Cleared(st, todo, stop, kind)
<1>1. Rest(hd.todo, todo, stop) /\ Sends(hd, st, about, group, new)
  BY GoingParts
<1>2. ~InScript(hd.todo, kind)
  BY <1>1 DEF Rest, InScript
<1>3. \A c \in group : kind \notin Touches(c)
  BY DEF StopsAt, InScript
<1>4. \A r \in hd.sent : kind \notin Touches(r.call)
  BY <1>1, <1>3, RequestParts DEF Sends
<1>5. ~Cleared(st, todo, stop, kind)
  <2>1. 1..stop \subseteq DOMAIN todo
    OBVIOUS
  <2> QED BY <2>1 DEF Cleared, InScript
<1> QED BY <1>2, <1>4, <1>5 DEF Touching

(* A step that ends in GoOn, about a kind only this handler touches, and      *)
(* about one its script leaves alone.                                       *)
Dropped(st, script) == st.tenant = None /\ 1 \in DOMAIN script /\ script[1] = Lists

LEMMA GoOnMine ==
  ASSUME NEW hs \in [Handlers -> HandlerRecord], NEW h \in Handlers, NEW st, NEW pa,
         NEW script \in Seq(SUBSET Calls), NEW about, NEW rounds, NEW harm,
         GoOn(hs, h, st, pa, script, about, rounds, harm),
         NEW kind \in Kinds \ torn', Startable(script, kind, st, pa),
         Dropped(st, script) => pa[kind] = SelectedIn(st, kind),
         \A g \in Handlers \ {h} : ~Touching(hs[g], kind)
  PROVE  KeptIn(handler', state', shown', kind)
<1>1. PICK todo \in Seq(SUBSET Calls), group \in SUBSET Calls : \E stop \in 0..Len(todo) : \E new :
        /\ Left(st, script, todo) /\ StopsAt(st, todo, stop, group)
        /\ Does(hs, h, st, pa, todo, about, rounds, harm, stop, group, new)
  BY GoOnDoes
<1>2. PICK stop \in 0..Len(todo) : \E new :
        /\ Left(st, script, todo) /\ StopsAt(st, todo, stop, group)
        /\ Does(hs, h, st, pa, todo, about, rounds, harm, stop, group, new)
  BY <1>1
<1>3. PICK new : /\ Left(st, script, todo) /\ StopsAt(st, todo, stop, group)
                 /\ Does(hs, h, st, pa, todo, about, rounds, harm, stop, group, new)
  BY <1>2
<1> DEFINE hd == Going(st, todo, about, rounds, stop, group, new)
<1>4. state' = st /\ handler' = [hs EXCEPT ![h] = hd]
  BY <1>3 DEF Does
<1>5. Repainted(st, todo, stop, kind, pa, shown')
  BY <1>3 DEF Does, Repainted
<1>6. Cleared(st, todo, stop, kind) => SelectedIn(st, kind) = None
  BY <1>3 DEF Does
<1>7. Startable(todo, kind, st, pa)
  <2>1. CASE todo = script
    BY <2>1
  <2>2. CASE todo = <<>> /\ Dropped(st, script)
    BY <2>2 DEF Startable, Ordered
  <2> QED BY <1>3, <2>1, <2>2 DEF Left, Dropped
<1> HIDE DEF hd
<1>8. Well(hd, kind, st, shown')
  <2>1. hd = Going(st, todo, about, rounds, stop, group, new)
    BY DEF hd
  <2>2. StopsAt(st, todo, stop, group)
    BY <1>3
  <2> QED BY <1>5, <1>6, <1>7, <2>1, <2>2, GoingWell
<1>9. handler'[h] = hd /\ \A g \in Handlers \ {h} : handler'[g] = hs[g]
  BY <1>4
<1>10. \A g \in Handlers \ {h} : handler'[g] = hs[g] /\ ~Touching(hs[g], kind)
  BY <1>9
<1> QED BY <1>4, <1>8, <1>9, <1>10, MineKept DEF Well

LEMMA GoOnOthers ==
  ASSUME NEW hs \in [Handlers -> HandlerRecord], NEW h \in Handlers, NEW st, NEW pa,
         NEW script \in Seq(SUBSET Calls), NEW about, NEW rounds, NEW harm,
         GoOn(hs, h, st, pa, script, about, rounds, harm),
         NEW kind \in Kinds, ~InScript(script, kind), ~Touching(hs[h], kind),
         NEW st0, NEW pa0, KeptIn(hs, st0, pa0, kind),
         \/ pa[kind] = pa0[kind] /\ SelectedIn(st, kind) = SelectedIn(st0, kind)
         \/ kind = "tenant" /\ pa[kind] = SelectedIn(st, kind)
  PROVE  KeptIn(handler', state', shown', kind)
<1>1. PICK todo \in Seq(SUBSET Calls), group \in SUBSET Calls : \E stop \in 0..Len(todo) : \E new :
        /\ Left(st, script, todo) /\ StopsAt(st, todo, stop, group)
        /\ Does(hs, h, st, pa, todo, about, rounds, harm, stop, group, new)
  BY GoOnDoes
<1>2. PICK stop \in 0..Len(todo) : \E new :
        /\ Left(st, script, todo) /\ StopsAt(st, todo, stop, group)
        /\ Does(hs, h, st, pa, todo, about, rounds, harm, stop, group, new)
  BY <1>1
<1>3. PICK new : /\ Left(st, script, todo) /\ StopsAt(st, todo, stop, group)
                 /\ Does(hs, h, st, pa, todo, about, rounds, harm, stop, group, new)
  BY <1>2
<1> DEFINE hd == Going(st, todo, about, rounds, stop, group, new)
<1>4. state' = st /\ handler' = [hs EXCEPT ![h] = hd]
  BY <1>3 DEF Does
<1>5. Repainted(st, todo, stop, kind, pa, shown')
  BY <1>3 DEF Does, Repainted
<1>6. ~InScript(todo, kind)
  BY <1>3 DEF Left, InScript
<1> HIDE DEF hd
<1>7. ~Touching(hd, kind) /\ ~Cleared(st, todo, stop, kind)
  <2>1. hd = Going(st, todo, about, rounds, stop, group, new)
    BY DEF hd
  <2>2. StopsAt(st, todo, stop, group)
    BY <1>3
  <2> QED BY <1>6, <2>1, <2>2, GoingTouches
<1>8. handler'[h] = hd /\ \A g \in Handlers \ {h} : handler'[g] = hs[g]
  BY <1>4
<1>9. shown'[kind] = pa[kind]
  BY <1>5, <1>7 DEF Repainted
<1>10. ~Touching(handler'[h], kind)
  BY <1>7, <1>8
<1>11. \/ shown'[kind] = pa0[kind] /\ SelectedIn(state', kind) = SelectedIn(st0, kind)
       \/ kind = "tenant" /\ shown'[kind] = SelectedIn(state', kind)
  BY <1>4, <1>9
<1>12. \A g \in Handlers \ {h} : handler'[g] = hs[g]
  BY <1>8
<1> HIDE DEF KeptIn
<1> QED BY <1>10, <1>11, <1>12, OthersKept


-------------------------------------------------------------------------------
(***************************************************************************)
(* Types, and the shape of what handlers have to do: calls sent together are *)
(* lists; a poll is the last call; what is read of panes is sent at once,    *)
(* by a click, but for a reorder, which follows on reading the items; a      *)
(* tenant is asked for first, and the state of the server before the lists.  *)
(***************************************************************************)
StateRecord == [tenant : Tenants \cup {None}, question : Questions \cup {None},
                document : Documents \cup {None}, export : Jobs \cup {None}]

PaneRecord == [tenant : Tenants \cup {None}, question : Questions \cup {None}, links : Questions \cup {None},
               document : Documents \cup {None}, export : Jobs \cup {None}]

Steps(todo) ==
  \A n \in DOMAIN todo :
    /\ \A c, d \in todo[n] : c # d => c \in Lists
    /\ "poll" \in todo[n] => n = Len(todo)

Bare == {"health"} \cup TenantCalls

Plan(todo) ==
  /\ Steps(todo)
  /\ \A n \in DOMAIN todo :
       /\ n > 1 => \A c \in todo[n] : Source(c) = None /\ c # "readItems" /\ c \notin TenantCalls
       /\ todo[n] = Lists => \A m \in DOMAIN todo : m < n => todo[m] \subseteq Bare
       /\ "readItems" \in todo[n] => \A kind \in Kinds : InScript(todo, kind) => kind = "document"
       /\ "reorder" \in todo[n] => n = 1 \/ (n = 2 /\ todo[1] = {"readItems"})

Planned(hd) ==
  /\ Steps(hd.todo)
  /\ \A r, q \in hd.sent : r # q => r.call \in Lists
  /\ \A n \in DOMAIN hd.todo :
       /\ \A c \in hd.todo[n] : Source(c) = None /\ c # "readItems" /\ c \notin TenantCalls
       /\ hd.todo[n] = Lists =>
            /\ \A m \in DOMAIN hd.todo : m < n => hd.todo[m] \subseteq Bare
            /\ hd.sent # {} /\ \A r \in hd.sent : r.call \in Bare
       /\ "reorder" \in hd.todo[n] => n = 1 /\ hd.sent # {} /\ \A r \in hd.sent : r.call = "readItems"
  /\ \A r \in hd.sent :
       /\ r.call = "readItems" => \A kind \in Kinds : InScript(hd.todo, kind) => kind = "document"
       /\ r.call = "poll" => hd.todo = <<>>

Creates == {"createQuestion", "createDocument", "export"}

Named(r) ==
  /\ Subject(r.call) = "question" \/ r.call = "createQuestion" => r.id \in Questions \cup {None}
  /\ Subject(r.call) = "document" \/ r.call = "createDocument" => r.id \in Documents \cup {None}
  /\ Subject(r.call) = "export" \/ r.call = "export" => r.id \in Jobs \cup {None}

LEMMA PlannedPlan ==
  ASSUME NEW hd \in HandlerRecord, Planned(hd)
  PROVE  Plan(hd.todo)
BY DEF Planned, Plan

LEMMA GoingPlanned ==
  ASSUME NEW st, NEW todo \in Seq(SUBSET Calls), NEW about, NEW rounds, NEW stop \in 0..Len(todo),
         NEW group \in SUBSET Calls, NEW new, StopsAt(st, todo, stop, group), Plan(todo),
         NEW hd, hd = Going(st, todo, about, rounds, stop, group, new)
  PROVE  Planned(hd)
<1>1. Rest(hd.todo, todo, stop) /\ Sends(hd, st, about, group, new)
  BY GoingParts
<1>2. \A n \in DOMAIN todo : n \in 1..Len(todo)
  OBVIOUS
<1>3. \A c \in group : stop \in DOMAIN todo /\ c \in todo[stop] /\ ~Silent(st, c)
  BY DEF StopsAt
<1>4. \A i \in DOMAIN hd.todo : i \in Nat \ {0} /\ stop + i \in DOMAIN todo /\ hd.todo[i] = todo[stop + i]
  BY <1>1 DEF Rest
<1>5. \A r \in hd.sent : r.call \in group
  BY <1>1, RequestParts DEF Sends
<1>6. \A r, q \in hd.sent : r # q => r.call # q.call
  BY <1>1, RequestParts DEF Sends
<1>7. Steps(hd.todo)
  <2>1. \A i \in DOMAIN hd.todo : \A c, d \in hd.todo[i] : c # d => c \in Lists
    BY <1>4 DEF Plan, Steps
  <2>2. \A i \in DOMAIN hd.todo : "poll" \in hd.todo[i] => stop + i = Len(todo)
    BY <1>4 DEF Plan, Steps
  <2>3. Len(hd.todo) = Len(todo) - stop
    BY <1>1 DEF Rest
  <2>4. \A i \in DOMAIN hd.todo : "poll" \in hd.todo[i] => i = Len(hd.todo)
    BY <1>4, <2>2, <2>3
  <2> QED BY <2>1, <2>4 DEF Steps
<1>8. \A r, q \in hd.sent : r # q => r.call \in Lists
  BY <1>3, <1>5, <1>6 DEF Plan, Steps
<1>9. ASSUME NEW i \in DOMAIN hd.todo
      PROVE  /\ \A c \in hd.todo[i] : Source(c) = None /\ c # "readItems" /\ c \notin TenantCalls
             /\ hd.todo[i] = Lists =>
                  /\ \A m \in DOMAIN hd.todo : m < i => hd.todo[m] \subseteq Bare
                  /\ hd.sent # {} /\ \A r \in hd.sent : r.call \in Bare
             /\ "reorder" \in hd.todo[i] => i = 1 /\ hd.sent # {} /\ \A r \in hd.sent : r.call = "readItems"
  <2>1. i \in Nat \ {0} /\ stop + i \in DOMAIN todo /\ hd.todo[i] = todo[stop + i]
    BY <1>4
  <2>2. group # {}
    BY <1>2, <2>1 DEF StopsAt
  <2>3. stop \in DOMAIN todo /\ stop >= 1
    BY <1>2, <2>2 DEF StopsAt
  <2>4. \A c \in hd.todo[i] : Source(c) = None /\ c # "readItems" /\ c \notin TenantCalls
    <3>1. stop + i > 1
      BY <2>1, <2>3
    <3>2. \A c \in todo[stop + i] : Source(c) = None /\ c # "readItems" /\ c \notin TenantCalls
      BY <2>1, <3>1 DEF Plan
    <3> QED BY <2>1, <3>2
  <2>6. ASSUME hd.todo[i] = Lists
        PROVE  /\ \A m \in DOMAIN hd.todo : m < i => hd.todo[m] \subseteq Bare
               /\ hd.sent # {} /\ \A r \in hd.sent : r.call \in Bare
    <3>1. \A m \in DOMAIN todo : m < stop + i => todo[m] \subseteq Bare
      BY <2>1, <2>6 DEF Plan
    <3>2. \A m \in DOMAIN hd.todo : m < i => hd.todo[m] \subseteq Bare
      <4> SUFFICES ASSUME NEW m \in DOMAIN hd.todo, m < i PROVE hd.todo[m] \subseteq Bare
        OBVIOUS
      <4>1. m \in Nat /\ stop + m \in DOMAIN todo /\ hd.todo[m] = todo[stop + m]
        BY <1>4
      <4>2. stop + m < stop + i
        BY <2>1, <4>1
      <4> QED BY <3>1, <4>1, <4>2
    <3>3. stop < stop + i
      BY <2>1, <2>3
    <3>4. \A r \in hd.sent : r.call \in Bare
      BY <1>3, <1>5, <2>3, <3>1, <3>3
    <3>5. hd.sent # {}
      BY <1>1, <2>2 DEF Sends
    <3> QED BY <3>2, <3>4, <3>5
  <2>5. ASSUME "reorder" \in hd.todo[i] PROVE i = 1 /\ hd.sent # {} /\ \A r \in hd.sent : r.call = "readItems"
    <3>1. stop + i = 2 /\ todo[1] = {"readItems"}
      BY <2>1, <2>3, <2>5 DEF Plan
    <3>2. stop = 1 /\ i = 1
      BY <2>1, <2>3, <3>1
    <3>3. group = {"readItems"}
      BY <1>3, <2>2, <3>1, <3>2
    <3>4. hd.sent # {}
      BY <1>1, <3>3 DEF Sends
    <3> QED BY <1>5, <3>2, <3>3, <3>4
  <2> QED BY <2>4, <2>5, <2>6
<1>10. ASSUME NEW r \in hd.sent
       PROVE  /\ r.call = "readItems" => \A kind \in Kinds : InScript(hd.todo, kind) => kind = "document"
              /\ r.call = "poll" => hd.todo = <<>>
  <2>1. stop \in DOMAIN todo /\ r.call \in todo[stop]
    BY <1>3, <1>5
  <2>2. \A kind : InScript(hd.todo, kind) => InScript(todo, kind)
    BY <1>4 DEF InScript
  <2>3. r.call = "readItems" => \A kind \in Kinds : InScript(hd.todo, kind) => kind = "document"
    BY <2>1, <2>2 DEF Plan
  <2>4. ASSUME r.call = "poll" PROVE hd.todo = <<>>
    <3>1. stop = Len(todo)
      BY <2>1, <2>4 DEF Plan, Steps
    <3>2. hd.todo \in Seq(SUBSET Calls) /\ Len(hd.todo) = 0
      BY <1>1, <3>1 DEF Rest
    <3> QED BY <3>2
  <2> QED BY <2>3, <2>4
<1> QED BY <1>7, <1>8, <1>9, <1>10 DEF Planned


-------------------------------------------------------------------------------
(* Requests and what the server stores of them. *)

LEMMA NewIsFree ==
  ASSUME NEW group \in SUBSET Calls, NEW new, New(group, new), new # None
  PROVE  /\ new \in Ids /\ home[new] = None
         /\ \A c \in group : group = {c} => new \in Fresh(c)
<1>1. PICK c \in group : new \in Fresh(c)
  BY DEF New
<1>2. \A d : Fresh(d) \subseteq {id \in Ids : home[id] = None}
  BY DEF Fresh, Ids
<1> QED BY <1>1, <1>2

LEMMA RequestNamed ==
  ASSUME NEW st \in StateRecord, shown \in PaneRecord, NEW group \in SUBSET Calls, NEW new, New(group, new),
         NEW about \in Ids \cup {None}, NEW c \in group, c \in Creates => group = {c}
  PROVE  Request(st, c, about, new) \in RequestRecord /\ Named(Request(st, c, about, new))
<1> DEFINE r == Request(st, c, about, new)
<1>1. new \in Ids \cup {None}
  BY NewIsFree
<1>2. st.question \in Questions \cup {None} /\ st.document \in Documents \cup {None} /\ st.export \in Jobs \cup {None}
      /\ st.tenant \in Tenants \cup {None}
  BY DEF StateRecord
<1>3. shown.question \in Questions \cup {None} /\ shown.links \in Questions \cup {None}
      /\ shown.document \in Documents \cup {None} /\ shown.export \in Jobs \cup {None}
  BY DEF PaneRecord
<1>4. r.call = c /\ r.tenant = st.tenant
      /\ (Subject(c) # None => r.id = st[Subject(c)]) /\ (Subject(c) = None => r.id = new)
  BY RequestParts
<1>5. Subject(c) \in {"question", "document", "export", None}
  BY DEF Subject
<1>6. r.id \in Ids \cup {None}
  BY <1>1, <1>2, <1>4, <1>5 DEF Ids
<1>7. r.from \in Ids \cup {None}
  <2>1. Source(c) \in {"question", "links", "document", "export", None}
    BY DEF Source
  <2>2. r.from = CASE Source(c) # None -> shown[Source(c)] [] c \in {"reorder", "export"} -> about [] OTHER -> r.id
    BY DEF Request
  <2>3. Source(c) # None => shown[Source(c)] \in Ids \cup {None}
    BY <1>3, <2>1 DEF Ids
  <2> HIDE DEF r
  <2> QED BY <1>6, <2>2, <2>3
<1>8. r.ok \in BOOLEAN /\ r.listed \in SUBSET Ids
  BY DEF Request
<1>9. r \in RequestRecord
  <2>1. r = [call |-> r.call, tenant |-> r.tenant, id |-> r.id, from |-> r.from, listed |-> r.listed, ok |-> r.ok]
    BY DEF Request
  <2> HIDE DEF r
  <2> QED BY <1>2, <1>4, <1>6, <1>7, <1>8, <2>1 DEF RequestRecord
<1>10. c \in Creates => Subject(c) = None
  BY DEF Creates, Subject
<1>11. c \in Creates /\ new # None => new \in Fresh(c)
  BY NewIsFree
<1>12. /\ c = "createQuestion" => new \in Questions \cup {None}
       /\ c = "createDocument" => new \in Documents \cup {None}
       /\ c = "export" => new \in Jobs \cup {None}
  BY <1>11 DEF Fresh, Creates
<1>13. None \notin {"question", "document", "export"}
  BY NoneAssumption DEF Kinds
<1> HIDE DEF r
<1>14. Subject(c) = "question" \/ c = "createQuestion" => r.id \in Questions \cup {None}
  BY <1>2, <1>4, <1>10, <1>12, <1>13 DEF Creates
<1>15. Subject(c) = "document" \/ c = "createDocument" => r.id \in Documents \cup {None}
  BY <1>2, <1>4, <1>10, <1>12, <1>13 DEF Creates
<1>16. Subject(c) = "export" \/ c = "export" => r.id \in Jobs \cup {None}
  BY <1>2, <1>4, <1>10, <1>12, <1>13 DEF Creates
<1>17. Named(r)
  BY <1>4, <1>10, <1>14, <1>15, <1>16 DEF Named
<1> QED BY <1>9, <1>17 DEF r

ServerOK == home \in [Ids -> Tenants \cup {None}] /\ gone \subseteq {d \in Documents : home[d] # None}

LEMMA StoresWell ==
  ASSUME NEW st \in StateRecord, NEW about, NEW group \in SUBSET Calls, NEW new, New(group, new),
         Stores(st, about, group, new), ServerOK
  PROVE  ServerOK'
<1> DEFINE sent == {Request(st, call, about, new) : call \in group}
<1>1. /\ home' = [id \in Ids |-> IF id = new /\ \E r \in sent : r.ok THEN st.tenant ELSE home[id]]
      /\ gone' = gone \cup {r.id : r \in {q \in sent : q.call = "delete" /\ q.ok}}
  BY DEF Stores
<1>2. home' \in [Ids -> Tenants \cup {None}]
  <2> HIDE DEF sent
  <2> QED BY <1>1 DEF ServerOK, StateRecord
<1>3. \A id \in Ids : home[id] # None => home'[id] = home[id]
  <2>1. \A id \in Ids : home[id] # None => id # new
    BY NewIsFree, NoneAssumption
  <2> HIDE DEF sent
  <2> QED BY <1>1, <2>1
<1>4. ASSUME NEW r \in sent, r.call = "delete", r.ok PROVE r.id \in Documents /\ home[r.id] # None
  <2>1. PICK c \in group : r = Request(st, c, about, new)
    OBVIOUS
  <2>2. c = "delete"
    BY <1>4, <2>1, RequestParts
  <2>3. Subject(c) = "document" /\ None # "document"
    BY <2>2, NoneAssumption DEF Subject, Kinds
  <2>4. r.id = st.document
    BY <2>1, <2>3, RequestParts
  <2>5. Exists(r.id, st.tenant)
    BY <1>4, <2>1, <2>3 DEF Request
  <2>6. r.id \in Ids /\ home[r.id] # None
    BY <2>5 DEF Exists
  <2> QED BY <2>4, <2>6, NoneAssumption DEF StateRecord
<1>5. \A d \in gone' : d \in Documents /\ home[d] # None
  BY <1>1, <1>4 DEF ServerOK
<1>6. \A d \in gone' : d \in Ids
  BY <1>5 DEF Ids
<1> QED BY <1>2, <1>3, <1>5, <1>6 DEF ServerOK

LEMMA PanesTyped ==
  ASSUME NEW f, f \in [Kinds -> {f[kind] : kind \in Kinds}],
         f["tenant"] \in Tenants \cup {None}, f["question"] \in Questions \cup {None},
         f["links"] \in Questions \cup {None}, f["document"] \in Documents \cup {None}, f["export"] \in Jobs \cup {None}
  PROVE  f \in PaneRecord
<1>1. f = [kind \in Kinds |-> f[kind]]
  OBVIOUS
<1> QED BY <1>1 DEF PaneRecord, Kinds

LEMMA PaneNames ==
  ASSUME NEW pa \in PaneRecord
  PROVE  /\ pa["tenant"] \in Tenants \cup {None} /\ pa["question"] \in Questions \cup {None}
         /\ pa["links"] \in Questions \cup {None} /\ pa["document"] \in Documents \cup {None}
         /\ pa["export"] \in Jobs \cup {None}
BY DEF PaneRecord


-------------------------------------------------------------------------------
(* What GoOn keeps besides. *)
Shaped(hs) ==
  /\ hs \in [Handlers -> HandlerRecord]
  /\ \A g \in Handlers : Planned(hs[g]) /\ \A r \in hs[g].sent : Named(r)

(* Under a blank tenant code, what a handler would read again after the state *)
(* of the server, and will not, is shown as it is selected, or torn.         *)
Told == {"question", "links", "document"}

Waits(hd) == \E n \in DOMAIN hd.todo : hd.todo[n] = Lists

Under(hs, st, pa, T) ==
  st.tenant = None =>
    \A h \in Handlers : Waits(hs[h]) => \A kind \in Told \ T : pa[kind] = SelectedIn(st, kind)

Home(r, T) == r.from # r.id /\ r.call # "export" => \E kind \in T : kind \in Touches(r.call)

(* What is taken from the panes is what is selected, or torn. *)
Taken(todo, st, about, T) ==
  \A n \in DOMAIN todo : \A c \in todo[n] :
    /\ Source(c) # None => shown[Source(c)] = st[Subject(c)] \/ \E kind \in T : kind \in Touches(c)
    /\ c = "reorder" /\ n = 1 => about = st.document \/ "document" \in T

LEMMA IdleShaped == IdleHandler \in HandlerRecord /\ Planned(IdleHandler) /\ IdleHandler.sent = {} /\ IdleHandler.todo = <<>>
<1>1. IdleHandler.sent = {} /\ IdleHandler.todo = <<>>
  BY DEF IdleHandler
<1>2. IdleHandler \in HandlerRecord
  BY MaxPollsAssumption DEF IdleHandler, HandlerRecord
<1> QED BY <1>1, <1>2 DEF Planned, Steps

LEMMA GoOnShaped ==
  ASSUME NEW hs, Shaped(hs), NEW h \in Handlers, NEW st \in StateRecord, NEW pa \in PaneRecord, shown \in PaneRecord,
         NEW script \in Seq(SUBSET Calls), NEW about \in Ids \cup {None}, NEW rounds \in 0..(MaxPolls - 1), NEW harm,
         GoOn(hs, h, st, pa, script, about, rounds, harm), Plan(script), ServerOK
  PROVE  state' \in StateRecord /\ shown' \in PaneRecord /\ Shaped(handler') /\ ServerOK'
<1>a. PICK todo \in Seq(SUBSET Calls), group \in SUBSET Calls : \E stop \in 0..Len(todo) : \E new :
        /\ Left(st, script, todo) /\ StopsAt(st, todo, stop, group) /\ New(group, new)
        /\ Does(hs, h, st, pa, todo, about, rounds, harm, stop, group, new)
  BY GoOnDoes
<1>1. PICK stop \in 0..Len(todo) : \E new :
        /\ Left(st, script, todo) /\ StopsAt(st, todo, stop, group) /\ New(group, new)
        /\ Does(hs, h, st, pa, todo, about, rounds, harm, stop, group, new)
  BY <1>a
<1>2. PICK new : /\ Left(st, script, todo) /\ StopsAt(st, todo, stop, group) /\ New(group, new)
                 /\ Does(hs, h, st, pa, todo, about, rounds, harm, stop, group, new)
  BY <1>1
<1>b. Plan(todo)
  BY <1>2 DEF Left, Plan, Steps
<1> DEFINE hd == Going(st, todo, about, rounds, stop, group, new)
<1>3. state' \in StateRecord /\ ServerOK'
  <2>1. Stores(st, about, group, new) /\ state' = st
    BY <1>2 DEF Does
  <2> QED BY <1>2, <2>1, StoresWell
<1>4. shown' \in PaneRecord
  <2>1. \A kind \in Kinds : shown'[kind] \in {None, pa[kind]}
    BY <1>2 DEF Does
  <2>2. shown' = [kind \in Kinds |-> shown'[kind]]
    BY <1>2 DEF Does
  <2>3. shown' \in [Kinds -> {shown'[kind] : kind \in Kinds}]
    BY <2>2
  <2>4. /\ shown'["tenant"] \in Tenants \cup {None} /\ shown'["question"] \in Questions \cup {None}
        /\ shown'["links"] \in Questions \cup {None} /\ shown'["document"] \in Documents \cup {None}
        /\ shown'["export"] \in Jobs \cup {None}
    BY <2>1, PaneNames DEF Kinds
  <2> QED BY <2>3, <2>4, PanesTyped
<1>5. handler' = [hs EXCEPT ![h] = hd]
  BY <1>2 DEF Does
<1>6. Planned(hd) /\ Rest(hd.todo, todo, stop) /\ Sends(hd, st, about, group, new)
  <2>1. StopsAt(st, todo, stop, group)
    BY <1>2
  <2> QED BY <1>b, <2>1, GoingPlanned, GoingParts
<1>7. \A c \in group : c \in Creates => group = {c}
  <2>1. \A c \in group : stop \in DOMAIN todo /\ c \in todo[stop]
    BY <1>2 DEF StopsAt
  <2>2. Steps(todo)
    BY <1>b DEF Plan
  <2>3. \A c, d \in group : c # d => c \in Lists
    BY <2>1, <2>2 DEF Steps
  <2>4. \A c \in Creates : c \notin Lists
    BY DEF Lists, Creates
  <2> HIDE DEF hd
  <2> QED BY <2>3, <2>4
<1>8. \A c \in group : Request(st, c, about, new) \in RequestRecord /\ Named(Request(st, c, about, new))
  BY <1>2, <1>7, RequestNamed
<1>9. hd.sent \in SUBSET RequestRecord /\ \A r \in hd.sent : Named(r)
  BY <1>6, <1>8 DEF Sends
<1>10. hd \in HandlerRecord
  <2>1. hd.todo \in Seq(SUBSET Calls)
    BY <1>6 DEF Rest
  <2>2. CASE group = {}
    BY <2>2, IdleShaped DEF Going
  <2>3. CASE group # {}
    <3>1. hd = [todo |-> hd.todo, sent |-> hd.sent, rounds |-> rounds, about |-> about]
      BY <2>3 DEF Going
    <3> HIDE DEF hd
    <3> QED BY <1>9, <2>1, <3>1 DEF HandlerRecord
  <2> QED BY <2>2, <2>3
<1> HIDE DEF hd
<1>11. Shaped(handler')
  BY <1>5, <1>6, <1>9, <1>10 DEF Shaped
<1> QED BY <1>3, <1>4, <1>11

LEMMA GoOnHarm ==
  ASSUME NEW hs, NEW h, NEW st, NEW pa, NEW script \in Seq(SUBSET Calls), NEW about, NEW rounds, NEW harm \in SUBSET Kinds,
         GoOn(hs, h, st, pa, script, about, rounds, harm)
  PROVE  harm \subseteq torn' /\ torn' \in SUBSET Kinds
<1>1. PICK todo \in Seq(SUBSET Calls), group \in SUBSET Calls : \E stop \in 0..Len(todo) : \E new :
        Does(hs, h, st, pa, todo, about, rounds, harm, stop, group, new)
  BY GoOnDoes
<1> QED BY <1>1 DEF Does

(* Of those who wait for the lists, one goes on; what the others would read    *)
(* again it leaves alone.                                                   *)
LEMMA GoOnUnder ==
  ASSUME NEW hs \in [Handlers -> HandlerRecord], NEW h \in Handlers, NEW st, NEW pa,
         NEW script \in Seq(SUBSET Calls), NEW about, NEW rounds, NEW harm,
         GoOn(hs, h, st, pa, script, about, rounds, harm), Plan(script),
         \A kind \in Told \ torn', g \in Handlers \ {h} : st.tenant = None /\ Waits(hs[g]) =>
           pa[kind] = SelectedIn(st, kind) /\ ~InScript(script, kind),
         \A kind \in Told \ torn', n \in DOMAIN script : st.tenant = None /\ script[n] = Lists =>
           pa[kind] = SelectedIn(st, kind)
  PROVE  Under(handler', state', shown', torn')
<1>1. PICK todo \in Seq(SUBSET Calls), group \in SUBSET Calls : \E stop \in 0..Len(todo) : \E new :
        /\ Left(st, script, todo) /\ StopsAt(st, todo, stop, group)
        /\ Does(hs, h, st, pa, todo, about, rounds, harm, stop, group, new)
  BY GoOnDoes
<1>2. PICK stop \in 0..Len(todo) : \E new :
        /\ Left(st, script, todo) /\ StopsAt(st, todo, stop, group)
        /\ Does(hs, h, st, pa, todo, about, rounds, harm, stop, group, new)
  BY <1>1
<1>3. PICK new : /\ Left(st, script, todo) /\ StopsAt(st, todo, stop, group)
                 /\ Does(hs, h, st, pa, todo, about, rounds, harm, stop, group, new)
  BY <1>2
<1> DEFINE hd == Going(st, todo, about, rounds, stop, group, new)
<1>4. state' = st /\ handler' = [hs EXCEPT ![h] = hd]
  BY <1>3 DEF Does
<1>5. \A kind \in Told : ~Cleared(st, todo, stop, kind) => shown'[kind] = pa[kind]
  BY <1>3 DEF Does, Told, Kinds
<1>6. Rest(hd.todo, todo, stop)
  <2>1. StopsAt(st, todo, stop, group)
    BY <1>3
  <2> QED BY <2>1, GoingParts
<1> HIDE DEF hd
<1>7. handler'[h] = hd /\ \A g \in Handlers \ {h} : handler'[g] = hs[g]
  BY <1>4
<1>8. ASSUME st.tenant = None, NEW kind \in Told \ torn', Waits(hd) PROVE shown'[kind] = SelectedIn(st, kind)
  <2>1. PICK i \in DOMAIN hd.todo : hd.todo[i] = Lists
    BY <1>8 DEF Waits
  <2>2. i \in Nat \ {0} /\ stop + i \in DOMAIN todo /\ todo[stop + i] = Lists
    BY <1>6, <2>1 DEF Rest
  <2>3. todo = script
    BY <1>3, <2>2 DEF Left
  <2>4. \A m \in DOMAIN todo : m < stop + i => todo[m] \subseteq Bare
    BY <2>2, <2>3 DEF Plan
  <2>5. \A m \in 1..stop : m \in DOMAIN todo /\ m < stop + i
    BY <2>2
  <2>6. ~Cleared(st, todo, stop, kind)
    BY <2>4, <2>5 DEF Cleared, Bare, TenantCalls
  <2> QED BY <1>5, <1>8, <2>2, <2>3, <2>6
<1>9. ASSUME st.tenant = None, NEW kind \in Told \ torn', NEW g \in Handlers \ {h}, Waits(hs[g])
      PROVE  shown'[kind] = SelectedIn(st, kind)
  <2>1. pa[kind] = SelectedIn(st, kind) /\ ~InScript(script, kind)
    BY <1>9
  <2>2. 1..stop \subseteq DOMAIN todo
    OBVIOUS
  <2>3. ~Cleared(st, todo, stop, kind)
    BY <1>3, <2>1, <2>2 DEF Left, Cleared, InScript
  <2> QED BY <1>5, <2>1, <2>3
<1> QED BY <1>4, <1>7, <1>8, <1>9 DEF Under

LEMMA GoOnHome ==
  ASSUME NEW hs \in [Handlers -> HandlerRecord], NEW h \in Handlers, NEW st, NEW pa, NEW script \in Seq(SUBSET Calls),
         NEW about, NEW rounds, NEW harm, GoOn(hs, h, st, pa, script, about, rounds, harm), Plan(script),
         NEW T, Taken(script, st, about, T), \A g \in Handlers \ {h} : \A r \in hs[g].sent : Home(r, T)
  PROVE  \A g \in Handlers : \A r \in handler'[g].sent : Home(r, T)
<1>a. PICK todo \in Seq(SUBSET Calls), group \in SUBSET Calls : \E stop \in 0..Len(todo) : \E new :
        /\ Left(st, script, todo) /\ StopsAt(st, todo, stop, group)
        /\ Does(hs, h, st, pa, todo, about, rounds, harm, stop, group, new)
  BY GoOnDoes
<1>1. PICK stop \in 0..Len(todo) : \E new :
        /\ Left(st, script, todo) /\ StopsAt(st, todo, stop, group)
        /\ Does(hs, h, st, pa, todo, about, rounds, harm, stop, group, new)
  BY <1>a
<1>2. PICK new : /\ Left(st, script, todo) /\ StopsAt(st, todo, stop, group)
                 /\ Does(hs, h, st, pa, todo, about, rounds, harm, stop, group, new)
  BY <1>1
<1>b. Plan(todo) /\ Taken(todo, st, about, T)
  BY <1>2 DEF Left, Plan, Steps, Taken
<1> DEFINE hd == Going(st, todo, about, rounds, stop, group, new)
<1>3. handler' = [hs EXCEPT ![h] = hd]
  BY <1>2 DEF Does
<1>4. Sends(hd, st, about, group, new)
  <2>1. StopsAt(st, todo, stop, group)
    BY <1>2
  <2> QED BY <2>1, GoingParts
<1>5. ASSUME NEW c \in group PROVE Home(Request(st, c, about, new), T)
  <2> DEFINE r == Request(st, c, about, new)
  <2>1. stop \in DOMAIN todo /\ c \in todo[stop]
    BY <1>2 DEF StopsAt
  <2>2. /\ Source(c) # None => r.from = shown[Source(c)]
        /\ Source(c) = None /\ c = "reorder" => r.from = about
        /\ Source(c) = None /\ c \notin {"reorder", "export"} => r.from = r.id
    <3>1. r.from = CASE Source(c) # None -> shown[Source(c)] [] c \in {"reorder", "export"} -> about [] OTHER -> r.id
      BY DEF Request
    <3>2. Source(c) # None => c \notin {"reorder", "export"}
      BY DEF Source
    <3> HIDE DEF r
    <3> QED BY <3>1, <3>2
  <2>3. r.call = c /\ (Subject(c) # None => r.id = st[Subject(c)])
    BY RequestParts
  <2> HIDE DEF r
  <2>4. ASSUME Source(c) # None PROVE Home(r, T)
    <3>1. Subject(c) # None
      BY <2>4, NoneAssumption DEF Source, Subject, Kinds
    <3>2. r.from = shown[Source(c)]
      BY <2>2, <2>4
    <3>3. shown[Source(c)] = st[Subject(c)] \/ \E kind \in T : kind \in Touches(c)
      BY <1>b, <2>1, <2>4 DEF Taken
    <3> QED BY <2>3, <3>1, <3>2, <3>3 DEF Home
  <2>5. ASSUME Source(c) = None, c = "reorder" PROVE Home(r, T)
    <3>1. r.from = about /\ r.id = st.document
      BY <2>2, <2>3, <2>5, NoneAssumption DEF Subject, Kinds
    <3>2. stop = 1
      <4>1. stop = 1 \/ (stop = 2 /\ todo[1] = {"readItems"})
        BY <1>b, <2>1, <2>5 DEF Plan
      <4>2. ~Silent(st, "readItems")
        BY DEF Silent
      <4>3. stop = 2 => \A d \in todo[1] : Silent(st, d)
        BY <1>2 DEF StopsAt
      <4> QED BY <4>1, <4>2, <4>3
    <3>3. "document" \in Touches(c)
      BY <2>5 DEF Touches, DocumentCalls, TenantCalls
    <3>4. about = st.document \/ "document" \in T
      BY <1>b, <2>1, <2>5, <3>2 DEF Taken
    <3> QED BY <2>3, <3>1, <3>3, <3>4 DEF Home
  <2>6. ASSUME Source(c) = None, c # "reorder" PROVE Home(r, T)
    <3>1. c # "export" => r.from = r.id
      BY <2>2, <2>6
    <3> QED BY <2>3, <3>1 DEF Home
  <2>7. Home(r, T)
    BY <2>4, <2>5, <2>6
  <2> QED BY <2>7 DEF r
<1> HIDE DEF hd
<1>6. \A r \in hd.sent : Home(r, T)
  BY <1>4, <1>5 DEF Sends
<1> QED BY <1>3, <1>6


-------------------------------------------------------------------------------
(***************************************************************************)
(* The scripts of the clicks: what a call sets apart is shown later.         *)
(***************************************************************************)
Group(g) ==
  /\ g \in SUBSET Calls /\ g # Lists
  /\ \A c, d \in g : c # d => c \in Lists
  /\ "poll" \notin g /\ "readItems" \notin g /\ "reorder" \notin g

Follower(g) == Group(g) /\ \A c \in g : Source(c) = None /\ c \notin TenantCalls

(* The script is the list of the first n of the groups a, b, c, d.          *)
Is(t, n, a, b, c, d) == n \in 0..4 /\ Spelt(t, SUBSET Calls, n, a, b, c, d)

Grouped(t, n, a, b, c, d) ==
  /\ t \in Seq(SUBSET Calls) /\ DOMAIN t = 1..n
  /\ \A i \in DOMAIN t : (i = 1 /\ t[i] = a) \/ (i = 2 /\ t[i] = b) \/ (i = 3 /\ t[i] = c) \/ (i = 4 /\ t[i] = d)

LEMMA Groups ==
  ASSUME NEW t, NEW n, NEW a, NEW b, NEW c, NEW d, Is(t, n, a, b, c, d)
  PROVE  Grouped(t, n, a, b, c, d)
<1>1. t \in Seq(SUBSET Calls) /\ DOMAIN t = 1..n
  BY DEF Spelt, Is
<1> QED BY <1>1 DEF Spelt, Is, Grouped

LEMMA Written ==
  ASSUME NEW a \in SUBSET Calls, NEW b \in SUBSET Calls, NEW c \in SUBSET Calls, NEW d \in SUBSET Calls
  PROVE  Is(<<a>>, 1, a, b, c, d) /\ Is(<<a, b>>, 2, a, b, c, d) /\ Is(<<a, b, c>>, 3, a, b, c, d)
         /\ Is(<<a, b, c, d>>, 4, a, b, c, d)
<1> DEFINE S == SUBSET Calls
<1>1. a \in S /\ b \in S /\ c \in S /\ d \in S
  OBVIOUS
<1> HIDE DEF S
<1>2. /\ Spelt(<<a>>, S, 1, a, b, c, d) /\ Spelt(<<a, b>>, S, 2, a, b, c, d)
      /\ Spelt(<<a, b, c>>, S, 3, a, b, c, d) /\ Spelt(<<a, b, c, d>>, S, 4, a, b, c, d)
  BY <1>1, Spelled
<1> QED BY <1>2 DEF Is, S

(* No click sends a reorder at once, or lists. *)
Opens(todo) == \A n \in DOMAIN todo : "reorder" \in todo[n] \/ todo[n] = Lists => n # 1

(* A script without polls and reorders, panes being read by its first group. *)
LEMMA ShortPlan ==
  ASSUME NEW t, NEW n, NEW a, NEW b, NEW c, NEW d, Is(t, n, a, b, c, d),
         Group(a), Follower(b), Follower(c), Follower(d)
  PROVE  Plan(t) /\ Opens(t)
<1>1. ASSUME NEW i \in DOMAIN t PROVE i \in Nat /\ Group(t[i]) /\ (i > 1 => Follower(t[i]))
  <2>1. DOMAIN t = 1..n
    BY Groups DEF Grouped
  <2>2. (i = 1 /\ t[i] = a) \/ (i = 2 /\ t[i] = b) \/ (i = 3 /\ t[i] = c) \/ (i = 4 /\ t[i] = d)
    BY Groups DEF Grouped
  <2>3. Group(b) /\ Group(c) /\ Group(d)
    BY DEF Follower
  <2> QED BY <2>1, <2>2, <2>3
<1> QED BY <1>1 DEF Plan, Opens, Steps, Group, Follower

Upsetting == {"createQuestion", "createDocument", "delete", "taxonomy"}

LEMMA Upsetters ==
  ASSUME NEW c, NEW kind, kind \in Upsets(c)
  PROVE  c \in Upsetting
BY DEF Upsets, Upsetting

LEMMA QuietOrdered ==
  ASSUME NEW todo, NEW kind, \A n \in DOMAIN todo : \A c \in todo[n] : kind \notin Upsets(c)
  PROVE  Ordered(todo, kind)
BY DEF Ordered

(* What an early group upsets is shown by a later one. *)
LEMMA ShownLater ==
  ASSUME NEW todo, NEW kind, NEW k \in DOMAIN todo, k \in Nat, \E d \in todo[k] : d \in Shows(kind),
         \A n \in DOMAIN todo : n \in Nat /\ (k <= n => \A c \in todo[n] : kind \notin Upsets(c))
  PROVE  Ordered(todo, kind) /\ ToShow(todo, kind)
<1>1. \A n \in DOMAIN todo : \A c \in todo[n] : kind \in Upsets(c) => n < k
  OBVIOUS
<1> QED BY <1>1 DEF Ordered, ToShow

LEMMA SmallGroups ==
  /\ \A c \in Calls \ {"poll", "readItems", "reorder"} : Group({c})
  /\ \A c \in Calls \ {"poll", "readItems", "reorder", "save", "saveLinks", "rename", "delete", "removeItem", "download"} :
       c \notin TenantCalls => Follower({c})
<1>1. \A c : {c} # Lists
  BY DEF Lists
<1>2. \A c \in Calls \ {"poll", "readItems", "reorder"} : Group({c})
  BY <1>1 DEF Group
<1> QED BY <1>2 DEF Follower, Source


Quiet(g) == \A c \in g : c \notin Upsetting

LEMMA QuietScript ==
  ASSUME NEW t, NEW n, NEW a, NEW b, NEW c, NEW d, Is(t, n, a, b, c, d),
         Quiet(a), Quiet(b), Quiet(c), Quiet(d), NEW kind
  PROVE  Ordered(t, kind)
<1>1. \A i \in DOMAIN t : t[i] \in {a, b, c, d}
  BY Groups DEF Grouped
<1> QED BY <1>1, Upsetters, QuietOrdered DEF Quiet

LEMMA ShownThird ==
  ASSUME NEW t, NEW n \in {3, 4}, NEW a, NEW b, NEW c, NEW d, Is(t, n, a, b, c, d),
         NEW kind, \E x \in c : x \in Shows(kind), Quiet(c), Quiet(d)
  PROVE  Ordered(t, kind) /\ ToShow(t, kind)
<1>1. DOMAIN t = 1..n
  BY Groups DEF Grouped
<1>2. \A i \in DOMAIN t : (i = 1 /\ t[i] = a) \/ (i = 2 /\ t[i] = b) \/ (i = 3 /\ t[i] = c) \/ (i = 4 /\ t[i] = d)
  BY Groups DEF Grouped
<1>3. 3 \in DOMAIN t /\ t[3] = c
  BY <1>1, <1>2
<1>4. \A i \in DOMAIN t : i \in Nat /\ (3 <= i => \A x \in t[i] : kind \notin Upsets(x))
  BY <1>1, <1>2, Upsetters DEF Quiet
<1> QED BY <1>3, <1>4, ShownLater

LEMMA ShownFourth ==
  ASSUME NEW t, NEW a, NEW b, NEW c, NEW d, Is(t, 4, a, b, c, d),
         NEW kind, \E x \in d : x \in Shows(kind), Quiet(d)
  PROVE  Ordered(t, kind) /\ ToShow(t, kind)
<1>1. DOMAIN t = 1..4
  BY Groups DEF Grouped
<1>2. \A i \in DOMAIN t : (i = 1 /\ t[i] = a) \/ (i = 2 /\ t[i] = b) \/ (i = 3 /\ t[i] = c) \/ (i = 4 /\ t[i] = d)
  BY Groups DEF Grouped
<1>3. 4 \in DOMAIN t /\ t[4] = d
  BY <1>1, <1>2
<1>4. \A i \in DOMAIN t : i \in Nat /\ (4 <= i => \A x \in t[i] : kind \notin Upsets(x))
  BY <1>1, <1>2, Upsetters DEF Quiet
<1> QED BY <1>3, <1>4, ShownLater

LEMMA RefreshSpelt == Is(Refresh, 4, {"health"}, Lists, {"showDocument"}, {"showQuestion"})
<1>1. {"health"} \in SUBSET Calls /\ Lists \in SUBSET Calls /\ {"showDocument"} \in SUBSET Calls /\ {"showQuestion"} \in SUBSET Calls
  BY DEF Lists, Calls, QuestionCalls, DocumentCalls
<1>2. Refresh = <<{"health"}, Lists, {"showDocument"}, {"showQuestion"}>>
  BY DEF Refresh
<1> HIDE DEF Refresh, Lists
<1> QED BY <1>1, <1>2, Written

(* Scripts that start with what is selected as it is shown. *)
Sound(todo) ==
  /\ todo \in Seq(SUBSET Calls) /\ Plan(todo) /\ Opens(todo)
  /\ \A kind \in Kinds : Ordered(todo, kind)

(* The groups of scripts that take nothing from the panes. *)
Unread(todo) == \A n \in DOMAIN todo : \A c \in todo[n] : Source(c) = None /\ c \notin {"readItems", "reorder"}

(* Of the groups of a refresh, n are the first; tenants may be asked before.  *)
Refreshing(t, n) ==
  /\ t \in Seq(SUBSET Calls) /\ DOMAIN t = 1..(n + 3)
  /\ \A i \in DOMAIN t :
       \/ i < n /\ t[i] = {"join"}
       \/ i = n /\ t[i] = {"health"}
       \/ i = n + 1 /\ t[i] = Lists
       \/ i = n + 2 /\ t[i] = {"showDocument"}
       \/ i = n + 3 /\ t[i] = {"showQuestion"}

LEMMA RefreshPlan ==
  ASSUME NEW t, NEW n \in {1, 2}, Refreshing(t, n)
  PROVE  /\ Sound(t) /\ Unread(t)
         /\ ToShow(t, "question") /\ ToShow(t, "links") /\ ToShow(t, "document")
         /\ n = 2 => ToShow(t, "tenant")
<1>1. \A i \in DOMAIN t : i \in 1..(n + 3)
  BY DEF Refreshing
<1>2. Len(t) = n + 3
  BY DEF Refreshing
<1>3. \A x \in {"join", "health", "showDocument", "showQuestion"} : {x} # Lists
  BY DEF Lists
<1>4. \A x \in Lists \cup {"join", "health", "showDocument", "showQuestion"} :
        Source(x) = None /\ x \notin {"readItems", "reorder", "poll"}
  BY DEF Lists, Source
<1>5. \A i \in DOMAIN t : \A x \in t[i] : x \in Lists \cup {"join", "health", "showDocument", "showQuestion"}
  BY DEF Refreshing
<1>6. Unread(t)
  BY <1>4, <1>5 DEF Unread
<1>7. \A i \in DOMAIN t : \A x, y \in t[i] : x # y => x \in Lists
  BY DEF Refreshing
<1>8. \A i \in DOMAIN t : t[i] = Lists => i = n + 1
  BY <1>3 DEF Refreshing
<1>9. \A i \in DOMAIN t : i < n + 1 => t[i] \subseteq Bare
  BY <1>1 DEF Refreshing, Bare, TenantCalls
<1>10. \A i \in DOMAIN t : i > 1 => \A x \in t[i] : x \notin TenantCalls
  BY <1>1 DEF Refreshing, Lists, TenantCalls
<1>11. Plan(t)
  <2>1. Steps(t)
    BY <1>4, <1>5, <1>7 DEF Steps
  <2> QED BY <1>4, <1>5, <1>8, <1>9, <1>10, <2>1 DEF Plan
<1>12. Opens(t)
  BY <1>4, <1>5, <1>8 DEF Opens
<1>13. n + 2 \in DOMAIN t /\ n + 3 \in DOMAIN t /\ 1 \in DOMAIN t
  BY DEF Refreshing
<1>14. t[n + 2] = {"showDocument"} /\ t[n + 3] = {"showQuestion"} /\ (n = 2 => t[1] = {"join"})
  BY <1>13 DEF Refreshing
<1>15. \A kind \in {"question", "links"} : Ordered(t, kind) /\ ToShow(t, kind)
  <2>1. ASSUME NEW kind \in {"question", "links"} PROVE Ordered(t, kind) /\ ToShow(t, kind)
    <3>1. \E d \in t[n + 3] : d \in Shows(kind)
      BY <1>14 DEF Shows
    <3>2. kind \notin Upsets("showQuestion")
      BY DEF Upsets
    <3>3. \A i \in DOMAIN t : i \in Nat /\ (n + 3 <= i => \A c \in t[i] : kind \notin Upsets(c))
      BY <1>1, <1>14, <3>2
    <3>4. n + 3 \in Nat
      OBVIOUS
    <3> QED BY <1>13, <3>1, <3>3, <3>4, ShownLater
  <2> QED BY <2>1
<1>16. \A kind \in {"document", "tenant", "export"} : Ordered(t, kind)
  <2>1. \A kind \in {"document", "tenant", "export"} :
          \A x \in Lists \cup {"join", "health", "showDocument", "showQuestion"} : kind \notin Upsets(x)
    BY DEF Upsets, Lists
  <2> QED BY <1>5, <2>1, QuietOrdered
<1>17. ToShow(t, "document") /\ (n = 2 => ToShow(t, "tenant"))
  BY <1>13, <1>14 DEF ToShow, Shows, TenantCalls
<1>18. t \in Seq(SUBSET Calls) /\ \A kind \in Kinds : Ordered(t, kind)
  BY <1>15, <1>16 DEF Refreshing, Kinds
<1> QED BY <1>6, <1>11, <1>12, <1>15, <1>17, <1>18 DEF Sound

LEMMA RefreshSound ==
  /\ Sound(Refresh) /\ Unread(Refresh)
  /\ ToShow(Refresh, "question") /\ ToShow(Refresh, "links") /\ ToShow(Refresh, "document")
<1>1. Grouped(Refresh, 4, {"health"}, Lists, {"showDocument"}, {"showQuestion"})
  BY RefreshSpelt, Groups
<1>2. \A i \in DOMAIN Refresh :
        \/ i = 1 /\ Refresh[i] = {"health"}
        \/ i = 1 + 1 /\ Refresh[i] = Lists
        \/ i = 1 + 2 /\ Refresh[i] = {"showDocument"}
        \/ i = 1 + 3 /\ Refresh[i] = {"showQuestion"}
  BY <1>1 DEF Grouped
<1>3. Refreshing(Refresh, 1)
  BY <1>1, <1>2 DEF Grouped, Refreshing
<1> QED BY <1>3, RefreshPlan

LEMMA Led ==
  ASSUME NEW S, NEW g \in S, NEW s \in Seq(S)
  PROVE  /\ <<g>> \o s \in Seq(S) /\ Len(<<g>> \o s) = 1 + Len(s) /\ (<<g>> \o s)[1] = g
         /\ \A i \in 1..Len(s) : (<<g>> \o s)[1 + i] = s[i]
OBVIOUS

(* A tenant is in state before the server has been asked. *)
LEMMA JoinScript ==
  LET todo == <<{"join"}>> \o Refresh IN Sound(todo) /\ Unread(todo) /\ ToShow(todo, "tenant")
<1> DEFINE S == SUBSET Calls
           g == {"join"}
           todo == <<g>> \o Refresh
<1>1. g \in S /\ Refresh \in Seq(S)
  BY RefreshSpelt, Groups DEF Grouped, Calls, TenantCalls
<1>2. DOMAIN Refresh = 1..4 /\ Len(Refresh) = 4
  BY RefreshSpelt DEF Is, Spelt
<1>3. /\ Refresh[1] = {"health"} /\ Refresh[2] = Lists
      /\ Refresh[3] = {"showDocument"} /\ Refresh[4] = {"showQuestion"}
  BY <1>2, RefreshSpelt, Groups DEF Grouped
<1> HIDE DEF S, g
<1>a. /\ todo \in Seq(S) /\ Len(todo) = 1 + Len(Refresh) /\ todo[1] = g
      /\ \A i \in 1..Len(Refresh) : todo[1 + i] = Refresh[i]
  BY <1>1, Led
<1> HIDE DEF todo
<1>4. todo \in Seq(S) /\ Len(todo) = 5 /\ DOMAIN todo = 1..5
  BY <1>2, <1>a
<1>5. todo[1] = g /\ todo[2] = Refresh[1] /\ todo[3] = Refresh[2] /\ todo[4] = Refresh[3] /\ todo[5] = Refresh[4]
  <2>1. 1 \in 1..4 /\ 2 \in 1..4 /\ 3 \in 1..4 /\ 4 \in 1..4 /\ 1 + 1 = 2 /\ 1 + 2 = 3 /\ 1 + 3 = 4 /\ 1 + 4 = 5
    OBVIOUS
  <2> QED BY <1>2, <1>a, <2>1
<1>6. Refreshing(todo, 2)
  BY <1>3, <1>4, <1>5 DEF Refreshing, S, g
<1>7. Sound(todo) /\ Unread(todo) /\ ToShow(todo, "tenant")
  BY <1>6, RefreshPlan
<1> QED BY <1>7 DEF todo, g


First == Calls \ {"poll", "readItems", "reorder"}
Later == First \ (TenantCalls \cup {"save", "saveLinks", "rename", "delete", "removeItem", "download"})

LEMMA QuietSound ==
  ASSUME NEW a \in First \ Upsetting, NEW b \in Later \ Upsetting, NEW c \in Later \ Upsetting
  PROVE  Sound(<<{a}>>) /\ Sound(<<{a}, {b}>>) /\ Sound(<<{a}, {b}, {c}>>)
<1>1. {a} \in SUBSET Calls /\ {b} \in SUBSET Calls /\ {c} \in SUBSET Calls
  BY DEF First, Later
<1>2. Group({a}) /\ Follower({b}) /\ Follower({c})
  BY SmallGroups DEF First, Later
<1>3. Quiet({a}) /\ Quiet({b}) /\ Quiet({c})
  BY DEF Quiet
<1>4. Is(<<{a}>>, 1, {a}, {b}, {c}, {c}) /\ Is(<<{a}, {b}>>, 2, {a}, {b}, {c}, {c})
      /\ Is(<<{a}, {b}, {c}>>, 3, {a}, {b}, {c}, {c})
  BY <1>1, Written
<1>5. ASSUME NEW t, NEW n, Is(t, n, {a}, {b}, {c}, {c}) PROVE Sound(t)
  <2>1. t \in Seq(SUBSET Calls)
    BY <1>5, Groups DEF Grouped
  <2>2. Plan(t) /\ Opens(t)
    BY <1>2, <1>5, ShortPlan
  <2>3. \A kind \in Kinds : Ordered(t, kind)
    BY <1>3, <1>5, QuietScript
  <2> QED BY <2>1, <2>2, <2>3 DEF Sound
<1> QED BY <1>4, <1>5

(* What is created, or deleted, is then shown, or the pane cleared.         *)
LEMMA CreateSound ==
  /\ Sound(<<{"createQuestion"}, {"questions"}, {"showQuestion"}>>)
  /\ Sound(<<{"createDocument"}, {"documents"}, {"showDocument"}>>)
  /\ Sound(<<{"delete"}, {"documents"}, {"showDocument"}>>)
<1>1. ASSUME NEW a \in {"createQuestion", "createDocument", "delete"}, NEW b \in {"questions", "documents"},
             NEW c \in {"showQuestion", "showDocument"}, a = "createQuestion" <=> c = "showQuestion"
      PROVE  Sound(<<{a}, {b}, {c}>>)
  <2> DEFINE t == <<{a}, {b}, {c}>>
  <2>1. a \in First /\ b \in Later /\ c \in Later
    BY DEF First, Later, Calls, QuestionCalls, DocumentCalls, TenantCalls
  <2>2. {a} \in SUBSET Calls /\ {b} \in SUBSET Calls /\ {c} \in SUBSET Calls
    BY <2>1 DEF First, Later
  <2>3. Is(t, 3, {a}, {b}, {c}, {c})
    BY <2>2, Written
  <2> HIDE DEF t
  <2>4. t \in Seq(SUBSET Calls)
    BY <2>3, Groups DEF Grouped
  <2>5. Group({a}) /\ Follower({b}) /\ Follower({c})
    BY <2>1, SmallGroups DEF First, Later
  <2>6. Plan(t) /\ Opens(t)
    BY <2>3, <2>5, ShortPlan
  <2>7. Quiet({b}) /\ Quiet({c})
    BY DEF Quiet, Upsetting
  <2>8. ASSUME NEW kind \in Kinds PROVE Ordered(t, kind)
    <3>1. CASE c \in Shows(kind)
      <4>1. \E x \in {c} : x \in Shows(kind)
        BY <3>1
      <4> QED BY <2>3, <2>7, <4>1, ShownThird
    <3>2. CASE c \notin Shows(kind)
      <4>1. kind \notin Upsets(a)
        BY <1>1, <3>2 DEF Upsets, Shows, Kinds, TenantCalls
      <4>2. \A x \in {a} \cup {b} \cup {c} : kind \notin Upsets(x)
        BY <2>7, <4>1, Upsetters DEF Quiet
      <4>3. \A i \in DOMAIN t : t[i] \in {{a}, {b}, {c}}
        BY <2>3, Groups DEF Grouped
      <4> QED BY <4>2, <4>3, QuietOrdered
    <3> QED BY <3>1, <3>2
  <2>9. Sound(t)
    BY <2>4, <2>6, <2>8 DEF Sound
  <2> QED BY <2>9 DEF t
<1> QED BY <1>1

(* The form is filled again after the taxonomy. *)
LEMMA TaxonomySound ==
  /\ Sound(<<{"change"}, {"taxonomy"}, {"showQuestion"}, {"questions"}>>)
  /\ \A t \in {<<{"taxonomy"}>>, <<{"change"}, {"taxonomy"}>>} :
       /\ t \in Seq(SUBSET Calls) /\ Plan(t) /\ Opens(t)
       /\ \A kind \in Kinds \ {"links"} : Ordered(t, kind) /\ ~InScript(t, kind)
<1>1. /\ {"change"} \in SUBSET Calls /\ {"taxonomy"} \in SUBSET Calls /\ {"showQuestion"} \in SUBSET Calls
      /\ {"questions"} \in SUBSET Calls
  BY DEF Calls, QuestionCalls, TenantCalls
<1>2. /\ Group({"change"}) /\ Group({"taxonomy"}) /\ Follower({"taxonomy"}) /\ Follower({"showQuestion"})
      /\ Follower({"questions"})
  BY SmallGroups DEF Calls, QuestionCalls, Follower, TenantCalls
<1>3. ASSUME NEW kind \in Kinds \ {"links"} PROVE kind \notin Touches("taxonomy") /\ kind \notin Touches("change")
  BY DEF Touches, QuestionCalls, DocumentCalls, ExportCalls, TenantCalls
<1>4. Sound(<<{"change"}, {"taxonomy"}, {"showQuestion"}, {"questions"}>>)
  <2> DEFINE t == <<{"change"}, {"taxonomy"}, {"showQuestion"}, {"questions"}>>
  <2>1. Is(t, 4, {"change"}, {"taxonomy"}, {"showQuestion"}, {"questions"})
    BY <1>1, Written
  <2> HIDE DEF t
  <2>2. t \in Seq(SUBSET Calls)
    BY <2>1, Groups DEF Grouped
  <2>3. Plan(t) /\ Opens(t)
    BY <1>2, <2>1, ShortPlan
  <2>4. Ordered(t, "links")
    <3>1. Quiet({"showQuestion"}) /\ Quiet({"questions"})
      BY DEF Quiet, Upsetting
    <3>2. \E x \in {"showQuestion"} : x \in Shows("links")
      BY DEF Shows, TenantCalls
    <3> QED BY <2>1, <3>1, <3>2, ShownThird
  <2>5. ASSUME NEW kind \in Kinds \ {"links"} PROVE Ordered(t, kind)
    <3>1. \A x \in {"change", "taxonomy", "showQuestion", "questions"} : kind \notin Upsets(x)
      BY DEF Upsets
    <3>2. \A i \in DOMAIN t : t[i] \in {{"change"}, {"taxonomy"}, {"showQuestion"}, {"questions"}}
      BY <2>1, Groups DEF Grouped
    <3> QED BY <3>1, <3>2, QuietOrdered
  <2>6. Sound(t)
    BY <2>2, <2>3, <2>4, <2>5 DEF Sound
  <2> QED BY <2>6 DEF t
<1>5. ASSUME NEW t, NEW n, NEW a \in {{"change"}, {"taxonomy"}}, Is(t, n, a, {"taxonomy"}, {"taxonomy"}, {"taxonomy"})
      PROVE  /\ t \in Seq(SUBSET Calls) /\ Plan(t) /\ Opens(t)
             /\ \A kind \in Kinds \ {"links"} : Ordered(t, kind) /\ ~InScript(t, kind)
  <2>1. t \in Seq(SUBSET Calls) /\ \A i \in DOMAIN t : t[i] \in {{"change"}, {"taxonomy"}}
    BY <1>5, Groups DEF Grouped
  <2>2. Plan(t) /\ Opens(t)
    BY <1>2, <1>5, ShortPlan
  <2>3. ASSUME NEW kind \in Kinds \ {"links"} PROVE ~InScript(t, kind)
    BY <1>3, <2>1 DEF InScript
  <2>4. ASSUME NEW kind \in Kinds \ {"links"} PROVE Ordered(t, kind)
    <3>1. \A x \in {"change", "taxonomy"} : kind \notin Upsets(x)
      BY DEF Upsets
    <3> QED BY <2>1, <3>1, QuietOrdered
  <2> QED BY <2>1, <2>2, <2>3, <2>4
<1>6. /\ Is(<<{"taxonomy"}>>, 1, {"taxonomy"}, {"taxonomy"}, {"taxonomy"}, {"taxonomy"})
      /\ Is(<<{"change"}, {"taxonomy"}>>, 2, {"change"}, {"taxonomy"}, {"taxonomy"}, {"taxonomy"})
  BY <1>1, Written
<1>7. ASSUME NEW t \in {<<{"taxonomy"}>>, <<{"change"}, {"taxonomy"}>>}
      PROVE  /\ t \in Seq(SUBSET Calls) /\ Plan(t) /\ Opens(t)
             /\ \A kind \in Kinds \ {"links"} : Ordered(t, kind) /\ ~InScript(t, kind)
  BY <1>5, <1>6
<1> QED BY <1>4, <1>7

(* Exports are asked for to the end; moving an item reads the items first.    *)
LEMMA LongSound ==
  /\ Sound(<<{"export"}, {"poll"}>>)
  /\ Sound(<<{"documents"}, {"showDocument"}, {"export"}, {"poll"}>>)
  /\ Sound(<<{"readItems"}, {"reorder"}, {"showDocument"}, {"documents"}>>)
<1> DEFINE All == {"export", "poll", "documents", "showDocument", "readItems", "reorder"}
<1>1. \A x \in All : {x} \in SUBSET Calls
  BY DEF Calls, DocumentCalls, ExportCalls, TenantCalls
<1>2. \A x \in All : Source(x) = None /\ x \notin TenantCalls /\ {x} # Lists
  BY DEF Source, TenantCalls, Lists
<1>3. ASSUME NEW a \in All, NEW b \in All, NEW c \in All, NEW d \in All, NEW t, NEW n, Is(t, n, {a}, {b}, {c}, {d})
      PROVE  t \in Seq(SUBSET Calls) /\ \A kind \in Kinds : Ordered(t, kind)
  <2>1. t \in Seq(SUBSET Calls)
    BY <1>3, Groups DEF Grouped
  <2>2. Quiet({a}) /\ Quiet({b}) /\ Quiet({c}) /\ Quiet({d})
    BY DEF Quiet, Upsetting
  <2> QED BY <1>3, <2>1, <2>2, QuietScript
<1>4. Sound(<<{"export"}, {"poll"}>>)
  <2> DEFINE t == <<{"export"}, {"poll"}>>
  <2>1. Is(t, 2, {"export"}, {"poll"}, {"poll"}, {"poll"})
    BY <1>1, Written
  <2> HIDE DEF t
  <2>2. Grouped(t, 2, {"export"}, {"poll"}, {"poll"}, {"poll"})
    BY <2>1, Groups
  <2>3. Len(t) = 2
    BY <2>2 DEF Grouped
  <2>4. \A i \in DOMAIN t : (i = 1 /\ t[i] = {"export"}) \/ (i = 2 /\ t[i] = {"poll"})
    BY <2>2 DEF Grouped
  <2>5. Plan(t) /\ Opens(t)
    BY <1>2, <2>3, <2>4 DEF Plan, Opens, Steps
  <2>6. t \in Seq(SUBSET Calls) /\ \A kind \in Kinds : Ordered(t, kind)
    <3>1. "export" \in All /\ "poll" \in All
      OBVIOUS
    <3> HIDE DEF All
    <3> QED BY <1>3, <2>1, <3>1
  <2>7. Sound(t)
    BY <2>5, <2>6 DEF Sound
  <2> QED BY <2>7 DEF t
<1>5. Sound(<<{"documents"}, {"showDocument"}, {"export"}, {"poll"}>>)
  <2> DEFINE t == <<{"documents"}, {"showDocument"}, {"export"}, {"poll"}>>
  <2>1. Is(t, 4, {"documents"}, {"showDocument"}, {"export"}, {"poll"})
    BY <1>1, Written
  <2> HIDE DEF t
  <2>2. Grouped(t, 4, {"documents"}, {"showDocument"}, {"export"}, {"poll"})
    BY <2>1, Groups
  <2>3. Len(t) = 4
    BY <2>2 DEF Grouped
  <2>4. \A i \in DOMAIN t : t[i] \in {{"documents"}, {"showDocument"}, {"export"}} \/ (i = 4 /\ t[i] = {"poll"})
    BY <2>2 DEF Grouped
  <2>5. Plan(t) /\ Opens(t)
    BY <1>2, <2>3, <2>4 DEF Plan, Opens, Steps
  <2>6. t \in Seq(SUBSET Calls) /\ \A kind \in Kinds : Ordered(t, kind)
    <3>1. "documents" \in All /\ "showDocument" \in All /\ "export" \in All /\ "poll" \in All
      OBVIOUS
    <3> HIDE DEF All
    <3> QED BY <1>3, <2>1, <3>1
  <2>7. Sound(t)
    BY <2>5, <2>6 DEF Sound
  <2> QED BY <2>7 DEF t
<1>6. Sound(<<{"readItems"}, {"reorder"}, {"showDocument"}, {"documents"}>>)
  <2> DEFINE t == <<{"readItems"}, {"reorder"}, {"showDocument"}, {"documents"}>>
  <2>1. Is(t, 4, {"readItems"}, {"reorder"}, {"showDocument"}, {"documents"})
    BY <1>1, Written
  <2> HIDE DEF t
  <2>2. Grouped(t, 4, {"readItems"}, {"reorder"}, {"showDocument"}, {"documents"})
    BY <2>1, Groups
  <2>3. \A i \in DOMAIN t : \/ i = 1 /\ t[i] = {"readItems"}
                            \/ i = 2 /\ t[i] = {"reorder"}
                            \/ i > 2 /\ t[i] \in {{"showDocument"}, {"documents"}}
    BY <2>2 DEF Grouped
  <2>4. 1 \in DOMAIN t /\ t[1] = {"readItems"}
    BY <2>2 DEF Grouped
  <2>5. \A kind \in Kinds : InScript(t, kind) => kind = "document"
    <3>1. \A x \in {"readItems", "reorder", "showDocument", "documents"} : Touches(x) = {"document"}
      BY DEF Touches, QuestionCalls, DocumentCalls, ExportCalls, TenantCalls
    <3> QED BY <2>3, <3>1 DEF InScript
  <2>6. Plan(t) /\ Opens(t)
    BY <1>2, <2>3, <2>4, <2>5 DEF Plan, Opens, Steps
  <2>7. t \in Seq(SUBSET Calls) /\ \A kind \in Kinds : Ordered(t, kind)
    <3>1. "readItems" \in All /\ "reorder" \in All /\ "showDocument" \in All /\ "documents" \in All
      OBVIOUS
    <3> HIDE DEF All
    <3> QED BY <1>3, <2>1, <3>1
  <2>8. Sound(t)
    BY <2>6, <2>7 DEF Sound
  <2> QED BY <2>8 DEF t
<1> QED BY <1>4, <1>5, <1>6


-------------------------------------------------------------------------------
(***************************************************************************)
(* The invariant.                                                          *)
(***************************************************************************)
Sent == \A h \in Handlers : \A r \in handler[h].sent : Home(r, torn)

Inv ==
  /\ state \in StateRecord /\ shown \in PaneRecord /\ Shaped(handler) /\ ServerOK /\ torn \in SUBSET Kinds
  /\ Under(handler, state, shown, torn)
  /\ Kept
  /\ Sent

LEMMA InvHandlers ==
  ASSUME Inv
  PROVE  /\ handler \in [Handlers -> HandlerRecord]
         /\ \A g \in Handlers : handler[g] \in HandlerRecord /\ Planned(handler[g])
BY DEF Inv, Shaped

LEMMA HomeMore ==
  ASSUME NEW r, NEW T, NEW U, Home(r, T), \A kind \in T : kind \in Touches(r.call) => kind \in U
  PROVE  Home(r, U)
BY DEF Home

(* A click starts an idle handler.  About a kind of its script, no other      *)
(* handler being about it, it starts from what is selected being shown.      *)
Apt(todo, kind, st, pa) ==
  LET stays == shown[kind] = SelectedIn(state, kind) => pa[kind] = SelectedIn(st, kind) IN
    /\ Ordered(todo, kind)
    /\ InScript(todo, kind) => ToShow(todo, kind) \/ stays
    /\ ~InScript(todo, kind) =>
         \/ pa[kind] = shown[kind] /\ SelectedIn(st, kind) = SelectedIn(state, kind)
         \/ kind = "tenant" /\ pa[kind] = SelectedIn(st, kind)
    /\ \A n \in DOMAIN todo : kind = "document" /\ "readItems" \in todo[n] => stays

Drawn(todo, st) ==
  \A n \in DOMAIN todo : \A c \in todo[n] :
    (Source(c) # None => st[Subject(c)] = state[Subject(c)]) /\ (c = "reorder" => n # 1)

(* A script that lists starts with what is selected, and shown, as it is.     *)
Listed(todo, st, pa) ==
  \A n \in DOMAIN todo : todo[n] = Lists =>
    \A kind \in Told : pa[kind] = shown[kind] /\ SelectedIn(st, kind) = SelectedIn(state, kind)

Listless(todo) == \A n \in DOMAIN todo : todo[n] # Lists

Alone(todo, h, kind) == InScript(todo, kind) => \A g \in Handlers \ {h} : ~Touching(handler[g], kind)

LEMMA IdleUntouching ==
  ASSUME NEW hd, hd.todo = <<>>, hd.sent = {}, NEW kind
  PROVE  ~Touching(hd, kind)
BY DEF Touching, InScript

LEMMA AloneShown ==
  ASSUME Inv, NEW kind \in Kinds \ torn, \A g \in Handlers : ~Touching(handler[g], kind)
  PROVE  shown[kind] = SelectedIn(state, kind)
<1>1. KeptIn(handler, state, shown, kind)
  BY DEF Inv, Kept
<1>2. \A g \in Handlers : ~WillShow(handler[g], kind)
  BY UntouchedGoes
<1> QED BY <1>1, <1>2 DEF KeptIn

LEMMA ClickKept ==
  ASSUME Inv, NEW h \in Handlers, ~Busy(h), NEW st, NEW pa, NEW todo \in Seq(SUBSET Calls), NEW about,
         NEW harm, GoOn(handler, h, st, pa, todo, about, 0, harm), torn \subseteq torn', Opens(todo),
         NEW kind \in Kinds \ torn', Alone(todo, h, kind), Apt(todo, kind, st, pa)
  PROVE  KeptIn(handler', state', shown', kind)
<1>1. handler \in [Handlers -> HandlerRecord] /\ kind \in Kinds \ torn
  BY InvHandlers
<1>a. ~Dropped(st, todo)
  BY DEF Opens, Dropped
<1>2. ~Touching(handler[h], kind)
  BY IdleUntouching DEF Busy
<1>3. CASE InScript(todo, kind)
  <2>1. \A g \in Handlers \ {h} : ~Touching(handler[g], kind)
    BY <1>3 DEF Alone
  <2>2. shown[kind] = SelectedIn(state, kind)
    BY <1>1, <1>2, <2>1, AloneShown
  <2>3. Startable(todo, kind, st, pa)
    BY <1>3, <2>2 DEF Apt, Startable
  <2> QED BY <1>1, <1>a, <2>1, <2>3, GoOnMine
<1>4. CASE ~InScript(todo, kind)
  <2>1. KeptIn(handler, state, shown, kind)
    BY <1>1 DEF Inv, Kept
  <2>2. \/ pa[kind] = shown[kind] /\ SelectedIn(st, kind) = SelectedIn(state, kind)
        \/ kind = "tenant" /\ pa[kind] = SelectedIn(st, kind)
    BY <1>4 DEF Apt
  <2> QED BY <1>1, <1>2, <1>4, <2>1, <2>2, GoOnOthers
<1> QED BY <1>3, <1>4

LEMMA ClickSent ==
  ASSUME Inv, NEW h \in Handlers, ~Busy(h), NEW st, NEW pa, NEW todo \in Seq(SUBSET Calls), NEW about,
         NEW harm, GoOn(handler, h, st, pa, todo, about, 0, harm), Plan(todo), Drawn(todo, st), torn \subseteq torn',
         \A kind \in Kinds \ torn' : Alone(todo, h, kind)
  PROVE  Sent'
<1>1. handler \in [Handlers -> HandlerRecord]
  BY InvHandlers
<1>2. Taken(todo, st, about, torn')
  <2>1. ASSUME NEW n \in DOMAIN todo, NEW c \in todo[n], Source(c) # None
        PROVE  shown[Source(c)] = st[Subject(c)] \/ \E kind \in torn' : kind \in Touches(c)
    <3>1. Source(c) \in Kinds /\ Source(c) \in Touches(c)
      BY <2>1 DEF Source, Kinds, Touches, QuestionCalls, DocumentCalls, ExportCalls, TenantCalls
    <3>2. SelectedIn(state, Source(c)) = state[Subject(c)]
      BY <2>1 DEF Source, SelectedIn, Subject
    <3>3. st[Subject(c)] = state[Subject(c)]
      BY <2>1 DEF Drawn
    <3>4. CASE Source(c) \notin torn'
      <4>1. InScript(todo, Source(c))
        BY <3>1 DEF InScript
      <4>2. \A g \in Handlers \ {h} : ~Touching(handler[g], Source(c))
        BY <3>1, <3>4, <4>1 DEF Alone
      <4>3. ~Touching(handler[h], Source(c))
        BY IdleUntouching DEF Busy
      <4>4. shown[Source(c)] = SelectedIn(state, Source(c))
        BY <3>1, <3>4, <4>2, <4>3, AloneShown
      <4> QED BY <3>2, <3>3, <4>4
    <3> QED BY <3>1, <3>4
  <2> QED BY <2>1 DEF Taken, Drawn
<1>3. \A g \in Handlers : \A r \in handler[g].sent : Home(r, torn')
  BY HomeMore DEF Inv, Sent
<1>4. \A g \in Handlers : \A r \in handler'[g].sent : Home(r, torn')
  BY <1>1, <1>2, <1>3, GoOnHome
<1> QED BY <1>4 DEF Sent

(* Under a blank tenant code a click leaves alone what others wait to list.   *)
Calm(h, todo, st, pa, harm) ==
  st.tenant = None =>
    \A kind \in Told \ harm :
      /\ \A g \in Handlers \ {h} : Waits(handler[g]) => pa[kind] = SelectedIn(st, kind) /\ ~InScript(todo, kind)
      /\ \A n \in DOMAIN todo : todo[n] = Lists => pa[kind] = SelectedIn(st, kind)

LEMMA ClickInv ==
  ASSUME Inv, NEW h \in Handlers, ~Busy(h), NEW st \in StateRecord, NEW pa \in PaneRecord,
         NEW todo \in Seq(SUBSET Calls), NEW about \in Ids \cup {None}, NEW harm \in SUBSET Kinds,
         GoOn(handler, h, st, pa, todo, about, 0, harm),
         Plan(todo), Opens(todo), Drawn(todo, st), torn \subseteq harm,
         \A kind \in Kinds \ harm : Alone(todo, h, kind) /\ Apt(todo, kind, st, pa), Calm(h, todo, st, pa, harm)
  PROVE  Inv'
<1>1. Shaped(handler) /\ ServerOK /\ shown \in PaneRecord /\ 0 \in 0..(MaxPolls - 1)
  BY MaxPollsAssumption DEF Inv
<1>2. state' \in StateRecord /\ shown' \in PaneRecord /\ Shaped(handler') /\ ServerOK'
  BY <1>1, GoOnShaped
<1>3. harm \subseteq torn' /\ torn' \in SUBSET Kinds
  BY GoOnHarm
<1>4. Under(handler', state', shown', torn')
  <2>1. handler \in [Handlers -> HandlerRecord]
    BY InvHandlers
  <2>2. \A kind \in Told \ torn', g \in Handlers \ {h} : st.tenant = None /\ Waits(handler[g]) =>
          pa[kind] = SelectedIn(st, kind) /\ ~InScript(todo, kind)
    BY <1>3 DEF Calm
  <2>3. \A kind \in Told \ torn', n \in DOMAIN todo : st.tenant = None /\ todo[n] = Lists => pa[kind] = SelectedIn(st, kind)
    BY <1>3 DEF Calm
  <2> QED BY <2>1, <2>2, <2>3, GoOnUnder
<1>5. \A kind \in Kinds \ torn' : Alone(todo, h, kind) /\ Apt(todo, kind, st, pa)
  BY <1>3
<1>6. torn \subseteq torn'
  BY <1>3
<1>7. \A kind \in Kinds \ torn' : KeptIn(handler', state', shown', kind)
  BY <1>5, <1>6, ClickKept
<1>8. Sent'
  BY <1>5, <1>6, ClickSent
<1> QED BY <1>2, <1>3, <1>4, <1>7, <1>8 DEF Inv, Kept, Shaped


-------------------------------------------------------------------------------
(* The clicks. *)

LEMMA InScriptKind ==
  ASSUME NEW todo, NEW kind, InScript(todo, kind)
  PROVE  kind \in Kinds
BY TouchesKinds DEF InScript

(* Who waits for the lists touches what they may clear. *)
LEMMA WaitsTouch ==
  ASSUME NEW hd, Waits(hd), NEW kind \in Told
  PROVE  Touching(hd, kind)
<1>1. PICK n \in DOMAIN hd.todo : hd.todo[n] = Lists
  BY DEF Waits
<1>2. /\ "questions" \in Lists /\ "documents" \in Lists
      /\ kind \in Touches("questions") \/ kind \in Touches("documents")
  BY DEF Lists, Told, Touches, QuestionCalls, DocumentCalls
<1> QED BY <1>1, <1>2 DEF Touching, InScript

LEMMA RunInv ==
  ASSUME Inv, NEW h \in Handlers, NEW st \in StateRecord, NEW pa \in PaneRecord,
         NEW todo \in Seq(SUBSET Calls), NEW about \in Ids \cup {None}, Run(h, st, pa, todo, about),
         Plan(todo), Opens(todo), Drawn(todo, st), Listed(todo, st, pa), \A kind \in Kinds : Apt(todo, kind, st, pa)
  PROVE  Inv'
<1> DEFINE harm == torn \cup Overlap(h, st, todo)
<1>1. ~Busy(h) /\ GoOn(handler, h, st, pa, todo, about, 0, harm)
  BY DEF Run
<1>2. harm \in SUBSET Kinds /\ torn \subseteq harm
  <2>1. TouchedByOthers(h) \subseteq Kinds
    BY TouchesKinds DEF TouchedByOthers, TouchedBy, Script
  <2> QED BY <2>1 DEF Overlap, Inv
<1>3. \A kind \in Kinds \ harm : Alone(todo, h, kind)
  <2>1. \A kind : InScript(todo, kind) /\ kind \in TouchedByOthers(h) => kind \in harm
    BY ScriptMeans DEF Overlap
  <2> QED BY <2>1, OthersMean DEF Alone
<1>4. Calm(h, todo, st, pa, harm)
  <2> SUFFICES ASSUME st.tenant = None, NEW kind \in Told \ harm
               PROVE  /\ \A g \in Handlers \ {h} : ~Waits(handler[g])
                      /\ \A n \in DOMAIN todo : todo[n] = Lists => pa[kind] = SelectedIn(st, kind)
    BY DEF Calm
  <2>1. \A g \in Handlers \ {h} : ~Touching(handler[g], kind)
    BY OthersMean DEF Overlap
  <2>2. \A g \in Handlers \ {h} : ~Waits(handler[g])
    BY <2>1, WaitsTouch
  <2>3. ~Touching(handler[h], kind)
    BY <1>1, IdleUntouching DEF Busy
  <2>4. shown[kind] = SelectedIn(state, kind)
    BY <2>1, <2>3, AloneShown DEF Told, Kinds
  <2> QED BY <2>2, <2>4 DEF Listed
<1> HIDE DEF harm
<1>5. \A kind \in Kinds \ harm : Alone(todo, h, kind) /\ Apt(todo, kind, st, pa)
  BY <1>3
<1> QED BY <1>1, <1>2, <1>4, <1>5, ClickInv

LEMMA InvParts ==
  ASSUME Inv
  PROVE  /\ state \in StateRecord /\ shown \in PaneRecord
         /\ shown.document \in Ids \cup {None} /\ state.document \in Ids \cup {None}
BY DEF Inv, StateRecord, PaneRecord, Ids

(* State and panes stay as they are. *)
LEMMA PlainClick ==
  ASSUME Inv, NEW h \in Handlers, NEW todo, NEW about \in Ids \cup {None}, Click(h, state, todo, about), Sound(todo)
  PROVE  Inv'
<1>1. todo \in Seq(SUBSET Calls) /\ Plan(todo) /\ Opens(todo) /\ \A kind \in Kinds : Ordered(todo, kind)
  BY DEF Sound
<1>2. Run(h, state, shown, todo, about)
  BY DEF Click
<1>3. Drawn(todo, state)
  BY <1>1 DEF Drawn, Opens
<1>4. \A kind \in Kinds : Apt(todo, kind, state, shown)
  BY <1>1 DEF Apt
<1>5. Listed(todo, state, shown)
  BY DEF Listed
<1> QED BY <1>1, <1>2, <1>3, <1>4, <1>5, InvParts, RunInv

LEMMA CallNames ==
  /\ "questions" \in Later \ Upsetting /\ "documents" \in Later \ Upsetting
  /\ "showQuestion" \in Later \ Upsetting /\ "showDocument" \in Later \ Upsetting
  /\ Later \subseteq First
  /\ {"createTenant", "join", "save", "saveLinks", "addItem", "rename", "removeItem", "download"} \subseteq First \ Upsetting
BY DEF First, Later, Upsetting, Calls, QuestionCalls, DocumentCalls, ExportCalls, TenantCalls

LEMMA PlainStarts ==
  ASSUME Inv, NEW h \in Handlers,
         \/ Load(h) \/ CreateQuestion(h) \/ CreateDocument(h) \/ SaveQuestion(h) \/ AddItem(h) \/ RenameDocument(h)
         \/ DeleteDocument(h) \/ MoveItem(h) \/ RemoveItem(h) \/ ExportSelected(h) \/ Download(h) \/ DeleteTag(h)
  PROVE  Inv'
<1> DEFINE Good(todo) == \E about \in Ids \cup {None} : Click(h, state, todo, about) /\ Sound(todo)
<1>1. ASSUME NEW todo, Good(todo) PROVE Inv'
  BY <1>1, PlainClick
<1>2. shown.document \in Ids \cup {None} /\ state.document \in Ids \cup {None} /\ None \in Ids \cup {None}
  BY InvParts
<1> HIDE DEF Good
<1>3. \A todo, about : about \in Ids \cup {None} /\ Click(h, state, todo, about) /\ Sound(todo) => Inv'
  BY <1>1 DEF Good
<1>4. CASE Load(h)
  <2>1. \A todo \in {Refresh, <<{"questions"}>>, <<{"documents"}>>, <<{"showDocument"}>>, <<{"showQuestion"}>>} : Sound(todo)
    BY RefreshSound, CallNames, QuietSound
  <2>2. PICK todo \in {Refresh, <<{"questions"}>>, <<{"documents"}>>, <<{"showDocument"}>>, <<{"showQuestion"}>>} :
          Click(h, state, todo, None)
    BY <1>4 DEF Load
  <2> QED BY <1>2, <1>3, <2>1, <2>2
<1>5. CASE CreateQuestion(h) \/ CreateDocument(h) \/ DeleteDocument(h)
  BY <1>2, <1>3, <1>5, CreateSound DEF CreateQuestion, CreateDocument, DeleteDocument
<1>6. CASE AddItem(h)
  <2>1. Sound(<<{"addItem"}, {"showDocument"}>>)
    BY CallNames, QuietSound
  <2> QED BY <1>2, <1>3, <1>6, <2>1 DEF AddItem
<1>7. CASE RenameDocument(h)
  <2>1. Sound(<<{"rename"}, {"documents"}, {"showDocument"}>>)
    BY CallNames, QuietSound
  <2> QED BY <1>2, <1>3, <1>7, <2>1 DEF RenameDocument
<1>8. CASE RemoveItem(h)
  <2>1. Sound(<<{"removeItem"}, {"showDocument"}, {"documents"}>>)
    BY CallNames, QuietSound
  <2> QED BY <1>2, <1>3, <1>8, <2>1 DEF RemoveItem
<1>9. CASE Download(h)
  <2>1. Sound(<<{"download"}>>)
    BY CallNames, QuietSound
  <2> QED BY <1>2, <1>3, <1>9, <2>1 DEF Download
<1>10. CASE MoveItem(h) \/ ExportSelected(h)
  BY <1>2, <1>3, <1>10, LongSound DEF MoveItem, ExportSelected
<1>11. CASE DeleteTag(h)
  BY <1>2, <1>3, <1>11, TaxonomySound DEF DeleteTag
<1>12. CASE SaveQuestion(h)
  <2>1. PICK save \in {"save", "saveLinks"}, list \in {<<>>, <<{"questions"}>>} :
          Click(h, state, <<{save}>> \o list \o <<{"showQuestion"}>>, None)
    BY <1>12 DEF SaveQuestion
  <2>2. save \in First \ Upsetting /\ "questions" \in Later \ Upsetting /\ "showQuestion" \in Later \ Upsetting
    BY CallNames
  <2>3. {save} \in SUBSET Calls /\ {"questions"} \in SUBSET Calls /\ {"showQuestion"} \in SUBSET Calls
    BY <2>2 DEF First, Later
  <2>4. <<{save}>> \o list \o <<{"showQuestion"}>> \in {<<{save}, {"showQuestion"}>>, <<{save}, {"questions"}, {"showQuestion"}>>}
    <3> DEFINE S == SUBSET Calls
    <3>0. {save} \in S /\ {"questions"} \in S /\ {"showQuestion"} \in S
      BY <2>3
    <3> HIDE DEF S
    <3>1. /\ Strings({save}, {"questions"}, {"showQuestion"}, {"showQuestion"})
          /\ Strings({save}, {"showQuestion"}, {"showQuestion"}, {"showQuestion"})
      BY <3>0, Strung
    <3>2. <<{save}>> \o <<>> \o <<{"showQuestion"}>> = <<{save}, {"showQuestion"}>>
      BY <3>1 DEF Strings
    <3>3. <<{save}>> \o <<{"questions"}>> \o <<{"showQuestion"}>> = <<{save}, {"questions"}, {"showQuestion"}>>
      BY <3>1 DEF Strings
    <3> QED BY <3>2, <3>3
  <2>5. Sound(<<{save}>> \o list \o <<{"showQuestion"}>>)
    BY <2>2, <2>4, QuietSound
  <2> QED BY <1>2, <1>3, <2>1, <2>5
<1> QED BY <1>4, <1>5, <1>6, <1>7, <1>8, <1>9, <1>10, <1>11, <1>12


(* Clicks that select: what is selected is shown by the script. *)
LEMMA AptSame ==
  ASSUME NEW todo, NEW kind, Ordered(todo, kind), NEW st, NEW pa,
         pa[kind] = shown[kind], SelectedIn(st, kind) = SelectedIn(state, kind)
  PROVE  Apt(todo, kind, st, pa)
BY DEF Apt

LEMMA AptTenant ==
  ASSUME NEW todo, Ordered(todo, "tenant"), NEW st, NEW pa, pa["tenant"] = SelectedIn(st, "tenant")
  PROVE  Apt(todo, "tenant", st, pa)
BY DEF Apt

LEMMA AptShown ==
  ASSUME NEW todo, NEW kind \in Kinds, Ordered(todo, kind), ToShow(todo, kind), NEW st, NEW pa,
         \A n \in DOMAIN todo : "readItems" \notin todo[n]
  PROVE  Apt(todo, kind, st, pa)
<1>1. InScript(todo, kind)
  BY CallsTouch DEF ToShow, InScript
<1> QED BY <1>1 DEF Apt

(* Those scripts take nothing from the panes. *)
LEMMA UnreadGroups ==
  ASSUME NEW t, NEW n, NEW a, NEW b, NEW c, NEW d, Is(t, n, a, b, c, d),
         \A x \in a \cup b \cup c \cup d : Source(x) = None /\ x \notin {"readItems", "reorder"}
  PROVE  Unread(t)
<1>1. \A i \in DOMAIN t : t[i] \in {a, b, c, d}
  BY Groups DEF Grouped
<1> QED BY <1>1 DEF Unread

LEMMA UnreadDrawn ==
  ASSUME NEW todo, Unread(todo), NEW st
  PROVE  Drawn(todo, st)
BY DEF Unread, Drawn

LEMMA TenantChange ==
  ASSUME Inv, NEW h \in Handlers, NEW t \in Tenants \cup {None}, NEW todo, Sound(todo), Unread(todo),
         ToShow(todo, "tenant"), Click(h, [state EXCEPT !.tenant = t], todo, None)
  PROVE  Inv'
<1> DEFINE st == [state EXCEPT !.tenant = t]
<1>1. st \in StateRecord /\ \A kind \in Kinds \ {"tenant"} : SelectedIn(st, kind) = SelectedIn(state, kind)
  BY DEF Inv, StateRecord, SelectedIn, Kinds
<1>2. Run(h, st, shown, todo, None)
  BY DEF Click
<1> HIDE DEF st
<1>3. todo \in Seq(SUBSET Calls) /\ Plan(todo) /\ Opens(todo) /\ \A kind \in Kinds : Ordered(todo, kind)
  BY DEF Sound
<1>4. Listed(todo, st, shown)
  BY <1>1 DEF Listed, Told, Kinds
<1>5. \A kind \in Kinds \ {"tenant"} : Apt(todo, kind, st, shown)
  BY <1>1, <1>3, AptSame
<1>6. Apt(todo, "tenant", st, shown)
  BY <1>3, AptShown DEF Unread, Kinds
<1>7. \A kind \in Kinds : Apt(todo, kind, st, shown)
  BY <1>5, <1>6
<1>8. Drawn(todo, st)
  BY UnreadDrawn
<1> QED BY <1>1, <1>2, <1>3, <1>4, <1>7, <1>8, InvParts, RunInv

LEMMA TenantStarts ==
  ASSUME Inv, NEW h \in Handlers, JoinTenant(h) \/ CreateTenant(h)
  PROVE  Inv'
<1>1. CASE JoinTenant(h)
  <2>1. PICK t \in Tenants \cup {None} : Click(h, [state EXCEPT !.tenant = t], <<{"join"}>> \o Refresh, None)
    BY <1>1 DEF JoinTenant
  <2> QED BY <2>1, JoinScript, TenantChange
<1>2. CASE CreateTenant(h)
  <2> DEFINE todo == <<{"createTenant"}>>
  <2>1. PICK t \in Tenants \cup {None} : Click(h, [state EXCEPT !.tenant = t], todo, None)
    BY <1>2 DEF CreateTenant
  <2>2. Sound(todo)
    BY CallNames, QuietSound
  <2>3. Is(todo, 1, {"createTenant"}, {"createTenant"}, {"createTenant"}, {"createTenant"})
    <3>1. {"createTenant"} \in SUBSET Calls
      BY DEF Calls, TenantCalls
    <3> QED BY <3>1, Written
  <2> HIDE DEF todo
  <2>4. Unread(todo)
    <3>1. Source("createTenant") = None
      BY DEF Source
    <3> QED BY <2>3, <3>1, UnreadGroups
  <2>5. ToShow(todo, "tenant")
    <3>1. 1 \in DOMAIN todo /\ todo[1] = {"createTenant"}
      BY <2>3, Groups DEF Grouped
    <3> QED BY <3>1 DEF ToShow, Shows, TenantCalls
  <2> QED BY <2>1, <2>2, <2>4, <2>5, TenantChange
<1> QED BY <1>1, <1>2



(* What is selected is listed, then shown. *)
LEMMA SyncedParts ==
  ASSUME Inv
  PROVE  /\ Synced \in PaneRecord /\ Synced.tenant = state.tenant
         /\ \A kind \in Kinds \ {"tenant"} : Synced[kind] = shown[kind]
<1>1. shown \in PaneRecord /\ state.tenant \in Tenants \cup {None}
  BY DEF Inv, StateRecord
<1>2. Synced \in PaneRecord
  BY <1>1 DEF Synced, PaneRecord
<1>3. Synced.tenant = state.tenant /\ \A kind \in Kinds \ {"tenant"} : Synced[kind] = shown[kind]
  BY <1>1 DEF Synced, PaneRecord, Kinds
<1> QED BY <1>2, <1>3

LEMMA Selecting ==
  ASSUME Inv, NEW h \in Handlers, NEW st \in StateRecord, NEW S \in SUBSET {"question", "links", "document"},
         st.tenant = state.tenant, \A kind \in Kinds \ S : SelectedIn(st, kind) = SelectedIn(state, kind),
         NEW todo, Sound(todo), Unread(todo), Listless(todo), \A kind \in S : ToShow(todo, kind),
         NEW about \in Ids \cup {None}, Run(h, st, Synced, todo, about)
  PROVE  Inv'
<1>1. todo \in Seq(SUBSET Calls) /\ Plan(todo) /\ Opens(todo) /\ \A kind \in Kinds : Ordered(todo, kind)
  BY DEF Sound
<1>2. Synced \in PaneRecord /\ Synced.tenant = state.tenant
  BY SyncedParts
<1>3. Listed(todo, st, Synced)
  BY DEF Listed, Listless
<1>4. Drawn(todo, st)
  BY UnreadDrawn
<1>5. Apt(todo, "tenant", st, Synced)
  <2>1. Synced["tenant"] = SelectedIn(st, "tenant")
    BY <1>2 DEF SelectedIn
  <2> QED BY <1>1, <2>1, AptTenant DEF Kinds
<1>6. \A kind \in S : Apt(todo, kind, st, Synced)
  BY <1>1, AptShown DEF Unread, Kinds
<1>7. \A kind \in Kinds \ (S \cup {"tenant"}) : Apt(todo, kind, st, Synced)
  BY <1>1, SyncedParts, AptSame
<1>8. \A kind \in Kinds : Apt(todo, kind, st, Synced)
  BY <1>5, <1>6, <1>7
<1> QED BY <1>1, <1>2, <1>3, <1>4, <1>8, RunInv

LEMMA SelectScripts ==
  /\ LET t == <<{"questions"}, {"showQuestion"}>> IN
       Sound(t) /\ Unread(t) /\ Listless(t) /\ ToShow(t, "question") /\ ToShow(t, "links")
  /\ \A export \in {<<>>, <<{"export"}, {"poll"}>>} :
       LET t == <<{"documents"}, {"showDocument"}>> \o export IN
         Sound(t) /\ Unread(t) /\ Listless(t) /\ ToShow(t, "document")
  /\ Sound(<<>>) /\ Unread(<<>>) /\ Listless(<<>>)
<1> DEFINE S == SUBSET Calls
<1>1. \A x \in {"questions", "showQuestion", "documents", "showDocument", "export", "poll"} : {x} \in S
  BY DEF Calls, QuestionCalls, DocumentCalls, ExportCalls, TenantCalls
<1>2. \A x \in {"questions", "showQuestion", "documents", "showDocument", "export", "poll"} :
        Source(x) = None /\ x \notin {"readItems", "reorder"} /\ {x} # Lists
  BY DEF Source, Lists
<1>3. ASSUME NEW a \in {"questions", "documents"}, NEW b \in {"showQuestion", "showDocument"}, NEW t,
             NEW n \in {2, 4}, Is(t, n, {a}, {b}, {"export"}, {"poll"})
      PROVE  Unread(t) /\ Listless(t) /\ \A kind : b \in Shows(kind) => ToShow(t, kind)
  <2>1. Grouped(t, n, {a}, {b}, {"export"}, {"poll"})
    BY <1>3, Groups
  <2>2. \A i \in DOMAIN t : t[i] \in {{a}, {b}, {"export"}, {"poll"}}
    BY <2>1 DEF Grouped
  <2>3. 2 \in DOMAIN t /\ t[2] = {b}
    BY <2>1 DEF Grouped
  <2> QED BY <1>2, <2>2, <2>3 DEF Unread, Listless, ToShow
<1>4. \A kind \in {"question", "links"} : "showQuestion" \in Shows(kind)
  BY DEF Shows, TenantCalls
<1>5. "showDocument" \in Shows("document")
  BY DEF Shows, TenantCalls
<1>6. Strings({"documents"}, {"showDocument"}, {"export"}, {"poll"})
  <2> HIDE DEF S
  <2> QED BY <1>1, Strung
<1>7. /\ <<{"documents"}, {"showDocument"}>> \o <<>> = <<{"documents"}, {"showDocument"}>>
      /\ <<{"documents"}, {"showDocument"}>> \o <<{"export"}, {"poll"}>> = <<{"documents"}, {"showDocument"}, {"export"}, {"poll"}>>
  BY <1>6 DEF Strings
<1>8. /\ Is(<<{"questions"}, {"showQuestion"}>>, 2, {"questions"}, {"showQuestion"}, {"export"}, {"poll"})
      /\ Is(<<{"documents"}, {"showDocument"}>>, 2, {"documents"}, {"showDocument"}, {"export"}, {"poll"})
      /\ Is(<<{"documents"}, {"showDocument"}, {"export"}, {"poll"}>>, 4, {"documents"}, {"showDocument"}, {"export"}, {"poll"})
  BY <1>1, Written
<1>9. /\ Sound(<<{"questions"}, {"showQuestion"}>>) /\ Sound(<<{"documents"}, {"showDocument"}>>)
      /\ Sound(<<{"documents"}, {"showDocument"}, {"export"}, {"poll"}>>)
  BY CallNames, QuietSound, LongSound
<1>10. Unread(<<{"questions"}, {"showQuestion"}>>) /\ Listless(<<{"questions"}, {"showQuestion"}>>)
       /\ \A kind \in {"question", "links"} : ToShow(<<{"questions"}, {"showQuestion"}>>, kind)
  BY <1>3, <1>4, <1>8
<1>11. ASSUME NEW t \in {<<{"documents"}, {"showDocument"}>>, <<{"documents"}, {"showDocument"}, {"export"}, {"poll"}>>}
       PROVE  Unread(t) /\ Listless(t) /\ ToShow(t, "document")
  BY <1>3, <1>5, <1>8
<1>12. Sound(<<>>) /\ Unread(<<>>) /\ Listless(<<>>)
  BY DEF Sound, Plan, Steps, Opens, Ordered, Unread, Listless
<1> QED BY <1>7, <1>9, <1>10, <1>11, <1>12

LEMMA SelectStarts ==
  ASSUME Inv, NEW h \in Handlers, SelectQuestion(h) \/ SelectDocument(h) \/ Sync(h)
  PROVE  Inv'
<1>1. state \in StateRecord
  BY DEF Inv
<1>2. CASE SelectQuestion(h)
  <2>1. PICK q \in Questions :
          Run(h, [state EXCEPT !.question = q], Synced, <<{"questions"}, {"showQuestion"}>>, None)
    BY <1>2 DEF SelectQuestion
  <2> DEFINE st == [state EXCEPT !.question = q]
             todo == <<{"questions"}, {"showQuestion"}>>
             S == {"question", "links"}
  <2>2. st \in StateRecord /\ st.tenant = state.tenant /\ \A kind \in Kinds \ S : SelectedIn(st, kind) = SelectedIn(state, kind)
    BY <1>1 DEF StateRecord, SelectedIn, Kinds
  <2>3. Sound(todo) /\ Unread(todo) /\ Listless(todo) /\ \A kind \in S : ToShow(todo, kind)
    BY SelectScripts
  <2>4. Run(h, st, Synced, todo, None) /\ S \in SUBSET {"question", "links", "document"}
    BY <2>1
  <2> HIDE DEF st, todo, S
  <2> QED BY <2>1, <2>2, <2>3, <2>4, Selecting
<1>3. CASE SelectDocument(h)
  <2>1. PICK d \in Documents, export \in {<<>>, <<{"export"}, {"poll"}>>} :
          Run(h, [state EXCEPT !.document = d], Synced, <<{"documents"}, {"showDocument"}>> \o export, d)
    BY <1>3 DEF SelectDocument
  <2> DEFINE st == [state EXCEPT !.document = d]
             todo == <<{"documents"}, {"showDocument"}>> \o export
             S == {"document"}
  <2>2. st \in StateRecord /\ st.tenant = state.tenant /\ \A kind \in Kinds \ S : SelectedIn(st, kind) = SelectedIn(state, kind)
    BY <1>1 DEF StateRecord, SelectedIn, Kinds
  <2>3. Sound(todo) /\ Unread(todo) /\ Listless(todo) /\ \A kind \in S : ToShow(todo, kind)
    BY SelectScripts
  <2>4. Run(h, st, Synced, todo, d) /\ S \in SUBSET {"question", "links", "document"} /\ d \in Ids \cup {None}
    BY <2>1 DEF Ids
  <2> HIDE DEF st, todo, S
  <2> QED BY <2>1, <2>2, <2>3, <2>4, Selecting
<1>4. CASE Sync(h)
  <2> DEFINE todo == <<>>
  <2>1. Run(h, state, Synced, todo, None)
    BY <1>4 DEF Sync
  <2>2. Sound(todo) /\ Unread(todo) /\ Listless(todo)
    BY SelectScripts
  <2>3. {} \in SUBSET {"question", "links", "document"} /\ None \in Ids \cup {None}
    OBVIOUS
  <2> HIDE DEF todo
  <2> QED BY <1>1, <2>1, <2>2, <2>3, Selecting
<1> QED BY <1>2, <1>3, <1>4



(* The taxonomy is read again. *)
LEMMA TaxonomyStarts ==
  ASSUME Inv, NEW h \in Handlers, ReloadTaxonomy(h)
  PROVE  Inv'
<1>1. PICK change \in {<<>>, <<{"change"}>>} :
        /\ ~Busy(h)
        /\ GoOn(handler, h, state, shown, change \o <<{"taxonomy"}>>, None, 0, torn \cup {"links"})
  BY DEF ReloadTaxonomy
<1> DEFINE todo == change \o <<{"taxonomy"}>>
           S == SUBSET Calls
           harm == torn \cup {"links"}
<1>2. {"change"} \in S /\ {"taxonomy"} \in S
  BY DEF Calls, TenantCalls
<1>3. Strings({"change"}, {"taxonomy"}, {"taxonomy"}, {"taxonomy"}) /\ Strings({"taxonomy"}, {"taxonomy"}, {"taxonomy"}, {"taxonomy"})
  <2> HIDE DEF S
  <2> QED BY <1>2, Strung
<1>4. todo = <<{"taxonomy"}>> \/ todo = <<{"change"}, {"taxonomy"}>>
  BY <1>1, <1>3 DEF Strings
<1>5. Is(<<{"taxonomy"}>>, 1, {"taxonomy"}, {"taxonomy"}, {"taxonomy"}, {"taxonomy"})
      /\ Is(<<{"change"}, {"taxonomy"}>>, 2, {"change"}, {"taxonomy"}, {"taxonomy"}, {"taxonomy"})
  BY <1>2, Written
<1>6. \A x \in {"change", "taxonomy"} : Source(x) = None /\ x \notin {"readItems", "reorder"} /\ {x} # Lists
  BY DEF Source, Lists
<1>7. Unread(<<{"taxonomy"}>>) /\ Unread(<<{"change"}, {"taxonomy"}>>)
  BY <1>5, <1>6, UnreadGroups
<1>a. Listless(<<{"taxonomy"}>>) /\ Listless(<<{"change"}, {"taxonomy"}>>)
  <2>1. \A t, n : Is(t, n, {"change"}, {"taxonomy"}, {"taxonomy"}, {"taxonomy"}) => Listless(t)
    BY <1>6, Groups DEF Grouped, Listless
  <2>2. \A t, n : Is(t, n, {"taxonomy"}, {"taxonomy"}, {"taxonomy"}, {"taxonomy"}) => Listless(t)
    BY <1>6, Groups DEF Grouped, Listless
  <2> QED BY <1>5, <2>1, <2>2
<1>8. todo \in Seq(SUBSET Calls) /\ Plan(todo) /\ Opens(todo) /\ Unread(todo) /\ Listless(todo)
      /\ \A kind \in Kinds \ {"links"} : Ordered(todo, kind) /\ ~InScript(todo, kind)
  BY <1>4, <1>7, <1>a, TaxonomySound
<1>9. GoOn(handler, h, state, shown, todo, None, 0, harm) /\ ~Busy(h)
  BY <1>1
<1>10. harm \in SUBSET Kinds /\ torn \subseteq harm /\ "links" \in harm
  BY DEF Inv, Kinds
<1> HIDE DEF todo, S, harm
<1>11. Drawn(todo, state)
  BY <1>8, UnreadDrawn
<1>12. \A kind \in Kinds \ harm : Alone(todo, h, kind) /\ Apt(todo, kind, state, shown)
  BY <1>8, <1>10, AptSame DEF Alone
<1>13. Calm(h, todo, state, shown, harm)
  <2>1. \A kind \in Told \ harm : kind \in Told \ torn /\ kind \in Kinds \ {"links"}
    BY <1>10 DEF Told, Kinds
  <2>2. Under(handler, state, shown, torn)
    BY DEF Inv
  <2> QED BY <1>8, <2>1, <2>2 DEF Calm, Under, Listless
<1> QED BY <1>8, <1>9, <1>10, <1>11, <1>12, <1>13, InvParts, ClickInv

LEMMA ReloadKeeps ==
  ASSUME Inv, NEW h \in Handlers, ReloadPage(h)
  PROVE  Inv'
<1> DEFINE hs == [g \in Handlers |-> IdleHandler]
           st == [state EXCEPT !.tenant = shown.tenant, !.export = None]
           pa == [NothingShown EXCEPT !.tenant = shown.tenant]
           todo == IF shown.tenant = None THEN <<>> ELSE Refresh
           harm == IF shown.tenant = None THEN Untold(state) ELSE {}
<1>1. GoOn(hs, h, st, pa, todo, None, 0, harm)
  BY DEF ReloadPage
<1>2. state \in StateRecord /\ shown \in PaneRecord /\ ServerOK
  BY DEF Inv
<1>3. shown.tenant \in Tenants \cup {None}
  BY <1>2, PaneNames
<1>4. /\ st \in StateRecord /\ st.tenant = shown.tenant /\ st.export = None
      /\ st.question = state.question /\ st.document = state.document
  BY <1>2, <1>3 DEF StateRecord
<1>5. pa \in [Kinds -> {pa[kind] : kind \in Kinds}] /\ pa["tenant"] = shown.tenant
      /\ \A kind \in Kinds \ {"tenant"} : pa[kind] = None
  BY DEF NothingShown, Kinds
<1>6. Shaped(hs) /\ hs \in [Handlers -> HandlerRecord] /\ \A g \in Handlers : hs[g] = IdleHandler
  BY IdleShaped DEF Shaped
<1>a. /\ todo \in Seq(SUBSET Calls) /\ Plan(todo) /\ Opens(todo) /\ Unread(todo)
      /\ \A kind \in Kinds : Ordered(todo, kind)
  BY RefreshSound, SelectScripts DEF Sound
<1>b. /\ shown.tenant = None => todo = <<>> /\ harm = Untold(state)
      /\ shown.tenant # None => todo = Refresh
      /\ harm \in SUBSET Kinds
  BY DEF Untold, Kinds
<1> HIDE DEF hs, st, pa, todo, harm
<1>7. pa \in PaneRecord
  BY <1>3, <1>5, PanesTyped DEF Kinds
<1>8. \A g \in Handlers : hs[g].sent = {} /\ ~Waits(hs[g]) /\ \A kind : ~Touching(hs[g], kind)
  BY <1>6, IdleShaped, IdleUntouching DEF Waits
<1>9. harm \subseteq torn' /\ torn' \in SUBSET Kinds
  BY <1>1, <1>a, <1>b, GoOnHarm
<1>10. ~Dropped(st, todo)
  BY <1>a DEF Opens, Dropped
<1>11. 0 \in 0..(MaxPolls - 1) /\ None \in Ids \cup {None}
  BY MaxPollsAssumption
<1>12. state' \in StateRecord /\ shown' \in PaneRecord /\ Shaped(handler') /\ ServerOK'
  BY <1>1, <1>2, <1>4, <1>6, <1>7, <1>11, <1>a, GoOnShaped
<1>13. Under(handler', state', shown', torn')
  <2>1. \A kind \in Told \ torn', g \in Handlers \ {h} : st.tenant = None /\ Waits(hs[g]) =>
          pa[kind] = SelectedIn(st, kind) /\ ~InScript(todo, kind)
    BY <1>8
  <2>2. \A kind \in Told \ torn', n \in DOMAIN todo : st.tenant = None /\ todo[n] = Lists => pa[kind] = SelectedIn(st, kind)
    BY <1>4, <1>b
  <2> QED BY <1>1, <1>6, <1>a, <2>1, <2>2, GoOnUnder
<1>14. ASSUME NEW kind \in Kinds \ torn' PROVE Startable(todo, kind, st, pa)
  <2>1. \A n \in DOMAIN todo : "readItems" \notin todo[n]
    BY <1>a DEF Unread
  <2>2. CASE shown.tenant = None
    <3>1. kind \in Told => SelectedIn(state, kind) = None
      BY <1>9, <1>b, <2>2 DEF Untold, Told
    <3>2. pa[kind] = SelectedIn(st, kind)
      BY <1>4, <1>5, <3>1 DEF SelectedIn, Kinds, Told
    <3> QED BY <1>a, <2>1, <3>2 DEF Startable
  <2>3. CASE shown.tenant # None
    <3>1. ToShow(todo, kind) \/ pa[kind] = SelectedIn(st, kind)
      BY <1>4, <1>5, <1>b, <2>3, RefreshSound DEF SelectedIn, Kinds
    <3> QED BY <1>a, <2>1, <3>1 DEF Startable
  <2> QED BY <2>2, <2>3
<1>15. \A kind \in Kinds \ torn' : KeptIn(handler', state', shown', kind)
  BY <1>1, <1>6, <1>8, <1>10, <1>14, <1>a, GoOnMine
<1>16. Taken(todo, st, None, {})
  BY <1>a DEF Taken, Unread
<1>17. \A g \in Handlers : \A r \in handler'[g].sent : Home(r, {})
  BY <1>1, <1>6, <1>8, <1>16, <1>a, GoOnHome
<1>18. \A g \in Handlers : \A r \in handler'[g].sent : Home(r, torn')
  BY <1>17 DEF Home
<1> QED BY <1>9, <1>12, <1>13, <1>15, <1>18 DEF Inv, Kept, Sent, Shaped

-------------------------------------------------------------------------------
(***************************************************************************)
(* The answers: a call leaves a kind as it is, or makes state and panes      *)
(* agree about it, or upsets it.                                            *)
(***************************************************************************)
Stays(kind, st, pa) == pa[kind] = shown[kind] /\ SelectedIn(st, kind) = SelectedIn(state, kind)

Agrees(kind, st, pa) == pa[kind] = SelectedIn(st, kind)

Effect(call, kind, st, pa) ==
  \/ Stays(kind, st, pa) /\ call \notin Shows(kind)
  \/ Agrees(kind, st, pa) /\ (kind \in Touches(call) \/ kind = "tenant")
  \/ kind \in Upsets(call)

Names(r, kind) == kind \in Panes(Subject(r.call)) => r.id = SelectedIn(state, kind)

(* Where state and panes are as before but for some kinds. *)
Apart(S, st, pa) ==
  /\ \A kind \in Kinds \ (S \cup {"tenant"}) : Stays(kind, st, pa)
  /\ Stays("tenant", st, pa) \/ Agrees("tenant", st, pa)

LEMMA SameApart == Apart({}, state, shown)
BY DEF Apart, Stays

LEMMA ShowApart ==
  ASSUME NEW kind \in Kinds \ {"tenant"}, NEW id
  PROVE  /\ Apart(Panes(kind), state, Show(kind, id))
         /\ \A k \in Panes(kind) \cap Kinds : Show(kind, id)[k] = id
<1>1. \A k \in Kinds : Show(kind, id)[k] = IF k \in Panes(kind) THEN id ELSE shown[k]
  BY DEF Show
<1>2. "tenant" \notin Panes(kind) /\ "tenant" \in Kinds
  BY DEF Panes, Kinds
<1> QED BY <1>1, <1>2 DEF Apart, Stays

LEMMA SelectApart ==
  ASSUME Inv, NEW kind \in {"question", "document"}, NEW id
  PROVE  Apart(Panes(kind), [state EXCEPT ![kind] = id], Synced)
<1>1. Synced.tenant = state.tenant /\ \A k \in Kinds \ {"tenant"} : Synced[k] = shown[k]
  BY SyncedParts
<1>2. state \in StateRecord
  BY DEF Inv
<1>3. \A k \in Kinds \ (Panes(kind) \cup {"tenant"}) : SelectedIn([state EXCEPT ![kind] = id], k) = SelectedIn(state, k)
  BY <1>2 DEF StateRecord, SelectedIn, Panes, Kinds
<1>4. [state EXCEPT ![kind] = id].tenant = state.tenant
  BY <1>2 DEF StateRecord
<1> QED BY <1>1, <1>3, <1>4 DEF Apart, Stays, Agrees, SelectedIn

LEMMA DeselectApart ==
  ASSUME Inv, NEW kind \in {"question", "document"}
  PROVE  /\ Apart(Panes(kind), Deselect(kind)[1], Deselect(kind)[2])
         /\ \A k \in Panes(kind) : Agrees(k, Deselect(kind)[1], Deselect(kind)[2])
<1> DEFINE st == [state EXCEPT ![kind] = None]
           pa == [Show(kind, None) EXCEPT !.tenant = state.tenant]
<1>1. Deselect(kind)[1] = st /\ Deselect(kind)[2] = pa
  BY DEF Deselect
<1>2. state \in StateRecord
  BY DEF Inv
<1>3. \A k \in Kinds \ (Panes(kind) \cup {"tenant"}) : SelectedIn(st, k) = SelectedIn(state, k)
  BY <1>2 DEF StateRecord, SelectedIn, Panes, Kinds
<1>4. st.tenant = state.tenant /\ \A k \in Panes(kind) : SelectedIn(st, k) = None
  BY <1>2 DEF StateRecord, SelectedIn, Panes
<1>5. pa["tenant"] = state.tenant /\ \A k \in Kinds \ {"tenant"} : pa[k] = IF k \in Panes(kind) THEN None ELSE shown[k]
  BY DEF Show, Kinds
<1>6. Panes(kind) \subseteq Kinds \ {"tenant"}
  BY DEF Panes, Kinds
<1> HIDE DEF st, pa
<1>7. Apart(Panes(kind), st, pa)
  <2>1. \A k \in Kinds \ (Panes(kind) \cup {"tenant"}) : Stays(k, st, pa)
    BY <1>3, <1>5 DEF Stays
  <2>2. Agrees("tenant", st, pa)
    BY <1>4, <1>5 DEF Agrees, SelectedIn
  <2> QED BY <2>1, <2>2 DEF Apart
<1>8. \A k \in Panes(kind) : Agrees(k, st, pa)
  BY <1>4, <1>5, <1>6 DEF Agrees
<1> QED BY <1>1, <1>7, <1>8

LEMMA ApartEffect ==
  ASSUME NEW S, NEW st, NEW pa, Apart(S, st, pa), NEW call, NEW kind \in Kinds,
         kind \in S \/ call \in Shows(kind) => Effect(call, kind, st, pa)
  PROVE  Effect(call, kind, st, pa)
BY DEF Apart, Effect


Silents == Calls \ ({"questions", "documents", "showQuestion", "showDocument", "taxonomy", "createQuestion", "createDocument",
                    "delete", "export", "poll"} \cup TenantCalls)

LEMMA OutcomeIs ==
  ASSUME NEW r, NEW outcome \in Outcomes(r)
  PROVE  /\ r.call = "questions" => outcome \in {<<state, shown>>, Deselect("question")}
         /\ r.call = "documents" => outcome \in {<<state, shown>>, Deselect("document")}
         /\ r.call = "showQuestion" => outcome = <<state, Show("question", r.id)>>
         /\ r.call = "showDocument" => outcome = <<state, Show("document", r.id)>>
         /\ r.call = "taxonomy" => outcome = <<state, Show("links", None)>>
         /\ r.call = "createQuestion" => outcome = Select("question", r.id)
         /\ r.call = "createDocument" => outcome = Select("document", r.id)
         /\ r.call = "delete" => outcome \in Deleted
         /\ r.call = "export" => outcome = <<[state EXCEPT !.export = r.id], Show("export", r.id)>>
         /\ r.call \in TenantCalls => outcome = <<state, Synced>>
         /\ r.call \in Silents => outcome = <<state, shown>>
<1> DEFINE c == r.call
<1>1. outcome \in CASE c = "questions" -> List("question", r)
    [] c = "documents" -> List("document", r)
    [] c = "showQuestion" -> {<<state, Show("question", r.id)>>}
    [] c = "showDocument" -> {<<state, Show("document", r.id)>>}
    [] c = "taxonomy" -> {<<state, Show("links", None)>>}
    [] c = "createQuestion" -> {Select("question", r.id)}
    [] c = "createDocument" -> {Select("document", r.id)}
    [] c = "delete" -> Deleted
    [] c = "export" -> {<<[state EXCEPT !.export = r.id], Show("export", r.id)>>}
    [] c \in TenantCalls -> {<<state, Synced>>}
    [] OTHER -> Same
  BY DEF Outcomes
<1> HIDE DEF c
<1>2. c = "questions" => outcome \in {<<state, shown>>, Deselect("question")}
  BY <1>1 DEF List, Same, TenantCalls
<1>3. c = "documents" => outcome \in {<<state, shown>>, Deselect("document")}
  BY <1>1 DEF List, Same, TenantCalls
<1>4. c = "showQuestion" => outcome = <<state, Show("question", r.id)>>
  BY <1>1 DEF TenantCalls
<1>5. c = "showDocument" => outcome = <<state, Show("document", r.id)>>
  BY <1>1 DEF TenantCalls
<1>6. c = "taxonomy" => outcome = <<state, Show("links", None)>>
  BY <1>1 DEF TenantCalls
<1>7. c = "createQuestion" => outcome = Select("question", r.id)
  BY <1>1 DEF TenantCalls
<1>8. c = "createDocument" => outcome = Select("document", r.id)
  BY <1>1 DEF TenantCalls
<1>9. c = "delete" => outcome \in Deleted
  BY <1>1 DEF TenantCalls
<1>10. c = "export" => outcome = <<[state EXCEPT !.export = r.id], Show("export", r.id)>>
  BY <1>1 DEF TenantCalls
<1>11. c \in TenantCalls => outcome = <<state, Synced>>
  BY <1>1 DEF TenantCalls
<1>12. c \in Silents => outcome = <<state, shown>>
  BY <1>1 DEF Silents, Same, TenantCalls
<1> QED BY <1>2, <1>3, <1>4, <1>5, <1>6, <1>7, <1>8, <1>9, <1>10, <1>11, <1>12 DEF c

LEMMA OutcomeEffect ==
  ASSUME Inv, NEW r, r.call \in Calls \ {"poll"}, NEW outcome \in Outcomes(r), NEW kind \in Kinds, Names(r, kind)
  PROVE  Effect(r.call, kind, outcome[1], outcome[2])
<1> DEFINE st == outcome[1]
           pa == outcome[2]
<1>1. \A c \in {"questions", "documents", "taxonomy", "createQuestion", "createDocument", "delete", "export"} \cup Silents :
        c \notin Shows(kind)
  BY DEF Shows, Silents, TenantCalls
<1>2. "question" \in Kinds \ {"tenant"} /\ "document" \in Kinds \ {"tenant"} /\ "links" \in Kinds \ {"tenant"} /\ "export" \in Kinds \ {"tenant"}
  BY DEF Kinds
<1>3. CASE r.call \in {"questions", "documents"}
  <2>1. CASE outcome = <<state, shown>>
    <3>1. Apart({}, st, pa)
      BY <2>1, SameApart
    <3> QED BY <1>1, <1>3, <3>1, ApartEffect
  <2>2. ASSUME NEW k \in {"question", "document"}, outcome = Deselect(k), \A x \in Panes(k) : x \in Touches(r.call)
        PROVE  Effect(r.call, kind, outcome[1], outcome[2])
    <3>1. Apart(Panes(k), st, pa) /\ \A x \in Panes(k) : Agrees(x, st, pa)
      BY <2>2, DeselectApart
    <3> HIDE DEF st, pa
    <3>2. kind \in Panes(k) => Effect(r.call, kind, st, pa)
      BY <2>2, <3>1 DEF Effect
    <3>3. Effect(r.call, kind, st, pa)
      BY <1>1, <1>3, <3>1, <3>2, ApartEffect
    <3> QED BY <3>3 DEF st, pa
  <2>3. \A x \in Panes("question") : x \in Touches("questions")
    BY DEF Panes, Touches, QuestionCalls, TenantCalls
  <2>4. \A x \in Panes("document") : x \in Touches("documents")
    BY DEF Panes, Touches, DocumentCalls, TenantCalls
  <2> QED BY <1>3, <2>1, <2>2, <2>3, <2>4, OutcomeIs
<1>4. CASE r.call \in {"showQuestion", "showDocument"}
  <2>1. ASSUME NEW k \in {"question", "document"}, outcome = <<state, Show(k, r.id)>>, Subject(r.call) = k,
               \A x \in Kinds : r.call \in Shows(x) => x \in Panes(k), \A x \in Panes(k) : x \in Touches(r.call)
        PROVE  Effect(r.call, kind, outcome[1], outcome[2])
    <3>1. Apart(Panes(k), st, pa) /\ \A x \in Panes(k) \cap Kinds : pa[x] = r.id
      BY <1>2, <2>1, ShowApart
    <3>2. st = state
      BY <2>1
    <3> HIDE DEF st, pa
    <3>3. kind \in Panes(k) => Agrees(kind, st, pa)
      BY <2>1, <3>1, <3>2 DEF Agrees, Names
    <3>4. kind \in Panes(k) => Effect(r.call, kind, st, pa)
      BY <2>1, <3>3 DEF Effect
    <3>5. Effect(r.call, kind, st, pa)
      BY <2>1, <3>1, <3>4, ApartEffect
    <3> QED BY <3>5 DEF st, pa
  <2>2. Subject("showQuestion") = "question" /\ Subject("showDocument") = "document"
    BY DEF Subject
  <2>3. /\ \A x \in Kinds : "showQuestion" \in Shows(x) => x \in Panes("question")
        /\ \A x \in Kinds : "showDocument" \in Shows(x) => x \in Panes("document")
    BY DEF Shows, Panes, Kinds, TenantCalls
  <2>4. /\ \A x \in Panes("question") : x \in Touches("showQuestion")
        /\ \A x \in Panes("document") : x \in Touches("showDocument")
    BY DEF Panes, Touches, QuestionCalls, DocumentCalls, TenantCalls
  <2> QED BY <1>4, <2>1, <2>2, <2>3, <2>4, OutcomeIs
<1>5. CASE r.call = "taxonomy"
  <2>1. outcome = <<state, Show("links", None)>>
    BY <1>5, OutcomeIs
  <2>2. Apart(Panes("links"), st, pa)
    BY <1>2, <2>1, ShowApart
  <2>3. kind \in Panes("links") => Effect("taxonomy", kind, st, pa)
    BY DEF Panes, Upsets, Effect
  <2> HIDE DEF st, pa
  <2>4. Effect(r.call, kind, st, pa)
    BY <1>1, <1>5, <2>2, <2>3, ApartEffect
  <2> QED BY <2>4 DEF st, pa
<1>6. CASE r.call \in {"createQuestion", "createDocument"}
  <2>1. ASSUME NEW k \in {"question", "document"}, outcome = Select(k, r.id), \A x \in Panes(k) : x \in Upsets(r.call)
        PROVE  Effect(r.call, kind, outcome[1], outcome[2])
    <3>1. Apart(Panes(k), st, pa)
      BY <2>1, SelectApart DEF Select
    <3> HIDE DEF st, pa
    <3>2. kind \in Panes(k) => Effect(r.call, kind, st, pa)
      BY <2>1 DEF Effect
    <3>3. Effect(r.call, kind, st, pa)
      BY <1>1, <1>6, <3>1, <3>2, ApartEffect
    <3> QED BY <3>3 DEF st, pa
  <2>2. /\ \A x \in Panes("question") : x \in Upsets("createQuestion")
        /\ \A x \in Panes("document") : x \in Upsets("createDocument")
    BY DEF Panes, Upsets
  <2> QED BY <1>6, <2>1, <2>2, OutcomeIs
<1>7. CASE r.call = "delete"
  <2>1. st = [state EXCEPT !.document = None, !.export = None] /\ pa = [Synced EXCEPT !.export = None]
    BY <1>7, OutcomeIs DEF Deleted
  <2>2. Synced \in PaneRecord /\ Synced.tenant = state.tenant /\ \A k \in Kinds \ {"tenant"} : Synced[k] = shown[k]
    BY SyncedParts
  <2>3. state \in StateRecord
    BY DEF Inv
  <2> HIDE DEF st, pa
  <2>4. /\ pa["export"] = None /\ pa["tenant"] = state.tenant
        /\ pa["question"] = shown["question"] /\ pa["links"] = shown["links"]
    BY <2>1, <2>2 DEF PaneRecord, Kinds
  <2>5. st.export = None /\ st.tenant = state.tenant /\ st.question = state.question
    BY <2>1, <2>3 DEF StateRecord
  <2>6. Agrees("export", st, pa) /\ Agrees("tenant", st, pa) /\ Stays("question", st, pa) /\ Stays("links", st, pa)
    BY <2>4, <2>5 DEF Agrees, Stays, SelectedIn
  <2>7. "export" \in Touches("delete") /\ "document" \in Upsets("delete")
    BY DEF Touches, Upsets, TenantCalls
  <2>8. Effect(r.call, kind, st, pa)
    BY <1>1, <1>7, <2>6, <2>7 DEF Effect, Kinds
  <2> QED BY <2>8 DEF st, pa
<1>8. CASE r.call = "export"
  <2>1. st = [state EXCEPT !.export = r.id] /\ pa = Show("export", r.id)
    BY <1>8, OutcomeIs
  <2>2. state \in StateRecord
    BY DEF Inv
  <2>3. pa["export"] = r.id /\ \A k \in Kinds \ {"export"} : pa[k] = shown[k]
    BY <2>1 DEF Show, Panes, Kinds
  <2>4. st.export = r.id /\ \A k \in Kinds \ {"export"} : SelectedIn(st, k) = SelectedIn(state, k)
    BY <2>1, <2>2 DEF StateRecord, SelectedIn, Kinds
  <2>5. "export" \in Touches("export")
    BY DEF Touches, ExportCalls, TenantCalls
  <2> HIDE DEF st, pa
  <2>6. Agrees("export", st, pa) /\ \A k \in Kinds \ {"export"} : Stays(k, st, pa)
    BY <2>3, <2>4 DEF Agrees, Stays, SelectedIn
  <2>7. Effect(r.call, kind, st, pa)
    BY <1>1, <1>8, <2>5, <2>6 DEF Effect
  <2> QED BY <2>7 DEF st, pa
<1>9. CASE r.call \in TenantCalls
  <2>1. st = state /\ pa = Synced
    BY <1>9, OutcomeIs
  <2>2. Synced.tenant = state.tenant /\ \A k \in Kinds \ {"tenant"} : Synced[k] = shown[k]
    BY SyncedParts
  <2> HIDE DEF st, pa
  <2>3. Agrees("tenant", st, pa) /\ \A k \in Kinds \ {"tenant"} : Stays(k, st, pa)
    BY <2>1, <2>2 DEF Agrees, Stays, SelectedIn
  <2>4. kind # "tenant" => r.call \notin Shows(kind)
    BY <1>9 DEF Shows, TenantCalls
  <2>5. Effect(r.call, kind, st, pa)
    BY <2>3, <2>4 DEF Effect
  <2> QED BY <2>5 DEF st, pa
<1>10. CASE r.call \in Silents
  <2>1. Apart({}, st, pa)
    BY <1>10, OutcomeIs, SameApart
  <2>2. r.call \notin Shows(kind)
    BY <1>1, <1>10
  <2> HIDE DEF st, pa
  <2>3. Effect(r.call, kind, st, pa)
    BY <2>1, <2>2, ApartEffect
  <2> QED BY <2>3 DEF st, pa
<1> QED BY <1>3, <1>4, <1>5, <1>6, <1>7, <1>8, <1>9, <1>10 DEF Silents



(* Answers keep the types and the tenant. *)
Belongs(kind, id) ==
  CASE kind \in {"question", "links"} -> id \in Questions \cup {None}
    [] kind = "document" -> id \in Documents \cup {None}
    [] OTHER -> id \in Jobs \cup {None}

LEMMA ShowTyped ==
  ASSUME Inv, NEW kind \in Kinds \ {"tenant"}, NEW id, Belongs(kind, id)
  PROVE  Show(kind, id) \in PaneRecord /\ Show(kind, id).tenant = shown.tenant
<1> DEFINE pa == Show(kind, id)
<1>1. shown \in PaneRecord
  BY DEF Inv
<1>2. pa \in [Kinds -> {pa[k] : k \in Kinds}] /\ \A k \in Kinds : pa[k] = IF k \in Panes(kind) THEN id ELSE shown[k]
  BY DEF Show
<1> HIDE DEF pa
<1>3. pa["tenant"] = shown["tenant"]
  BY <1>2 DEF Panes, Kinds
<1>4. /\ pa["question"] \in Questions \cup {None} /\ pa["links"] \in Questions \cup {None}
      /\ pa["document"] \in Documents \cup {None} /\ pa["export"] \in Jobs \cup {None}
  BY <1>1, <1>2, PaneNames DEF Panes, Kinds, Belongs
<1>5. pa \in PaneRecord
  BY <1>1, <1>2, <1>3, <1>4, PanesTyped, PaneNames
<1> QED BY <1>3, <1>5 DEF pa

LEMMA DeselectTyped ==
  ASSUME Inv, NEW kind \in {"question", "document"}
  PROVE  Deselect(kind)[1] \in StateRecord /\ Deselect(kind)[2] \in PaneRecord /\ Deselect(kind)[2].tenant = state.tenant
<1>1. Show(kind, None) \in PaneRecord
  BY ShowTyped DEF Belongs, Kinds
<1>2. state \in StateRecord
  BY DEF Inv
<1>3. [state EXCEPT ![kind] = None] \in StateRecord
  BY <1>2 DEF StateRecord
<1>4. /\ [Show(kind, None) EXCEPT !.tenant = state.tenant] \in PaneRecord
      /\ [Show(kind, None) EXCEPT !.tenant = state.tenant].tenant = state.tenant
  BY <1>1, <1>2 DEF StateRecord, PaneRecord
<1> QED BY <1>3, <1>4 DEF Deselect

Allowed(st, pa) == st \in StateRecord /\ pa \in PaneRecord /\ st.tenant = state.tenant

LEMMA SyncedAllowed ==
  ASSUME Inv
  PROVE  /\ Allowed(state, shown) /\ Allowed(state, Synced)
         /\ \A q \in Questions \cup {None} : Allowed([state EXCEPT !.question = q], Synced)
         /\ \A d \in Documents \cup {None} : Allowed([state EXCEPT !.document = d], Synced)
<1>1. state \in StateRecord /\ shown \in PaneRecord /\ Synced \in PaneRecord
  BY SyncedParts DEF Inv
<1>2. \A q \in Questions \cup {None} :
        [state EXCEPT !.question = q] \in StateRecord /\ [state EXCEPT !.question = q].tenant = state.tenant
  BY <1>1 DEF StateRecord
<1>3. \A d \in Documents \cup {None} :
        [state EXCEPT !.document = d] \in StateRecord /\ [state EXCEPT !.document = d].tenant = state.tenant
  BY <1>1 DEF StateRecord
<1> QED BY <1>1, <1>2, <1>3 DEF Allowed

LEMMA OutcomeAllowed ==
  ASSUME Inv, NEW r, r.call \in Calls \ {"poll"}, Named(r), NEW outcome \in Outcomes(r)
  PROVE  Allowed(outcome[1], outcome[2])
<1>1. state \in StateRecord /\ shown \in PaneRecord
  BY DEF Inv
<1>2. \A st, pa : outcome = <<st, pa>> => outcome[1] = st /\ outcome[2] = pa
  OBVIOUS
<1>3. ASSUME NEW kind \in Kinds \ {"tenant"}, NEW id, Belongs(kind, id) PROVE Allowed(state, Show(kind, id))
  BY <1>1, <1>3, ShowTyped DEF Allowed
<1>4. ASSUME NEW kind \in {"question", "document"} PROVE Allowed(Deselect(kind)[1], Deselect(kind)[2])
  <2>1. Deselect(kind)[1] \in StateRecord /\ Deselect(kind)[2] \in PaneRecord
    BY DeselectTyped
  <2>2. Deselect(kind)[1] = [state EXCEPT ![kind] = None]
    BY DEF Deselect
  <2>3. [state EXCEPT ![kind] = None].tenant = state.tenant
    BY <1>1 DEF StateRecord
  <2> QED BY <2>1, <2>2, <2>3 DEF Allowed
<1>5. CASE r.call \in {"questions", "documents"}
  <2>1. outcome = <<state, shown>> \/ outcome = Deselect("question") \/ outcome = Deselect("document")
    BY <1>5, OutcomeIs
  <2> QED BY <1>2, <1>4, <2>1, SyncedAllowed
<1>6. CASE r.call \in {"showQuestion", "showDocument", "taxonomy"}
  <2>1. /\ r.call = "showQuestion" => Belongs("question", r.id)
        /\ r.call = "showDocument" => Belongs("document", r.id)
    BY DEF Named, Belongs, Subject
  <2>2. Belongs("links", None)
    BY DEF Belongs
  <2> QED BY <1>2, <1>3, <1>6, <2>1, <2>2, OutcomeIs DEF Kinds
<1>7. CASE r.call \in {"createQuestion", "createDocument"}
  <2>1. r.call = "createQuestion" => r.id \in Questions \cup {None}
    BY DEF Named
  <2>2. r.call = "createDocument" => r.id \in Documents \cup {None}
    BY DEF Named
  <2>3. /\ r.call = "createQuestion" => outcome = <<[state EXCEPT !.question = r.id], Synced>>
        /\ r.call = "createDocument" => outcome = <<[state EXCEPT !.document = r.id], Synced>>
    BY OutcomeIs DEF Select
  <2> QED BY <1>2, <1>7, <2>1, <2>2, <2>3, SyncedAllowed
<1>8. CASE r.call = "delete"
  <2> DEFINE st == [state EXCEPT !.document = None, !.export = None]
             pa == [Synced EXCEPT !.export = None]
  <2>1. outcome = <<st, pa>>
    BY <1>8, OutcomeIs DEF Deleted
  <2>2. pa \in PaneRecord
    BY SyncedParts DEF PaneRecord
  <2>3. st \in StateRecord /\ st.tenant = state.tenant
    BY <1>1 DEF StateRecord
  <2> HIDE DEF st, pa
  <2>4. Allowed(st, pa)
    BY <2>2, <2>3 DEF Allowed
  <2> QED BY <1>2, <2>1, <2>4
<1>9. CASE r.call = "export"
  <2> DEFINE st == [state EXCEPT !.export = r.id]
             pa == Show("export", r.id)
  <2>1. outcome = <<st, pa>>
    BY <1>9, OutcomeIs
  <2>2. r.id \in Jobs \cup {None}
    BY <1>9 DEF Named
  <2>3. pa \in PaneRecord
    BY <2>2, ShowTyped DEF Belongs, Kinds
  <2>4. st \in StateRecord /\ st.tenant = state.tenant
    BY <1>1, <2>2 DEF StateRecord
  <2> HIDE DEF st, pa
  <2>5. Allowed(st, pa)
    BY <2>3, <2>4 DEF Allowed
  <2> QED BY <1>2, <2>1, <2>5
<1>10. CASE r.call \in TenantCalls \cup Silents
  BY <1>2, <1>10, SyncedAllowed, OutcomeIs
<1> QED BY <1>5, <1>6, <1>7, <1>8, <1>9, <1>10 DEF Silents



(* An answer is heard; what it makes whole, only it touched. *)
LEMMA Heard ==
  ASSUME Inv, NEW h \in Handlers, NEW r \in handler[h].sent
  PROVE  /\ handler[h] \in HandlerRecord /\ handler[h].todo \in Seq(SUBSET Calls) /\ handler[h].about \in Ids \cup {None}
         /\ Planned(handler[h]) /\ Plan(handler[h].todo)
         /\ r \in RequestRecord /\ r.call \in Calls /\ Named(r)
<1>1. handler[h] \in HandlerRecord /\ Planned(handler[h]) /\ Named(r)
  BY DEF Inv, Shaped
<1>2. handler[h].todo \in Seq(SUBSET Calls) /\ handler[h].about \in Ids \cup {None} /\ r \in RequestRecord
  BY <1>1 DEF HandlerRecord
<1>3. r.call \in Calls
  BY <1>2 DEF RequestRecord
<1> QED BY <1>1, <1>2, <1>3, PlannedPlan

WholeOf(r) ==
  CASE r.call = "showQuestion" /\ r.id = state.question -> {"question", "links"}
    [] r.call = "showDocument" /\ r.id = state.document -> {"document"}
    [] r.call = "poll" /\ r.id = state.export -> {"export"}
    [] r.call \in TenantCalls /\ r.tenant = state.tenant -> {"tenant"}
    [] OTHER -> {}

Heals(r, kind) ==
  \/ r.call = "poll" /\ kind = "export" /\ r.id = state.export
  \/ r.call # "poll" /\ r.call \in Shows(kind) /\ Names(r, kind) /\ kind \notin Upsets(r.call)

LEMMA WholeMeans ==
  ASSUME NEW h \in Handlers, NEW r, NEW kind \in Whole(h, r)
  PROVE  /\ kind \in Kinds /\ Heals(r, kind) /\ ~InScript(handler[h].todo, kind)
         /\ \A q \in handler[h].sent \ {r} : kind \notin Touches(q.call)
         /\ \A g \in Handlers \ {h} : ~Touching(handler[g], kind)
<1>1. /\ kind \in WholeOf(r) /\ kind \notin TouchedByOthers(h) /\ kind \notin Script(handler[h].todo)
      /\ \A q \in handler[h].sent \ {r} : kind \notin Touches(q.call)
  BY DEF Whole, WholeOf
<1>2. kind \in Kinds
  BY <1>1 DEF WholeOf, Kinds
<1>3. Heals(r, kind)
  <2> DEFINE c == r.call
  <2>1. \/ c = "showQuestion" /\ r.id = state.question /\ kind \in {"question", "links"}
        \/ c = "showDocument" /\ r.id = state.document /\ kind = "document"
        \/ c = "poll" /\ r.id = state.export /\ kind = "export"
        \/ c \in TenantCalls /\ kind = "tenant"
    BY <1>1 DEF WholeOf
  <2> HIDE DEF c
  <2>2. CASE c = "showQuestion" /\ r.id = state.question /\ kind \in {"question", "links"}
    <3>1. r.id = SelectedIn(state, kind)
      BY <2>2 DEF SelectedIn
    <3>2. c # "poll" /\ c \in Shows(kind) /\ kind \notin Upsets(c)
      BY <2>2 DEF Shows, Upsets, TenantCalls
    <3> QED BY <3>1, <3>2 DEF Heals, Names, c
  <2>3. CASE c = "showDocument" /\ r.id = state.document /\ kind = "document"
    <3>1. r.id = SelectedIn(state, kind)
      BY <2>3 DEF SelectedIn
    <3>2. c # "poll" /\ c \in Shows(kind) /\ kind \notin Upsets(c)
      BY <2>3 DEF Shows, Upsets, TenantCalls
    <3> QED BY <3>1, <3>2 DEF Heals, Names, c
  <2>4. CASE c \in TenantCalls /\ kind = "tenant"
    <3>1. kind \notin Panes(Subject(c))
      BY <2>4, NoneAssumption DEF Subject, Panes, Kinds, TenantCalls
    <3>2. c # "poll" /\ c \in Shows(kind) /\ kind \notin Upsets(c)
      BY <2>4 DEF Shows, Upsets, TenantCalls
    <3> QED BY <3>1, <3>2 DEF Heals, Names, c
  <2>5. CASE c = "poll" /\ r.id = state.export /\ kind = "export"
    BY <2>5 DEF Heals, c
  <2> QED BY <2>1, <2>2, <2>3, <2>4, <2>5
<1> QED BY <1>1, <1>2, <1>3, ScriptMeans, OthersMean

LEMMA AnswerReady ==
  ASSUME Inv, NEW h \in Handlers, NEW r \in handler[h].sent, r.call # "poll", NEW outcome \in Outcomes(r),
         NEW kind \in Kinds, kind \notin torn \ Whole(h, r), \A g \in Handlers \ {h} : ~Touching(handler[g], kind)
  PROVE  /\ Ordered(handler[h].todo, kind)
         /\ \/ Agrees(kind, outcome[1], outcome[2]) \/ ToShow(handler[h].todo, kind)
            \/ \E q \in handler[h].sent \ {r} : q.call \in Shows(kind)
<1>1. r.call \in Calls \ {"poll"}
  BY Heard
<1>2. CASE kind \in torn
  <2>1. kind \in Whole(h, r)
    BY <1>2
  <2>2. Heals(r, kind) /\ ~InScript(handler[h].todo, kind)
    BY <2>1, WholeMeans
  <2>3. Ordered(handler[h].todo, kind)
    BY <2>2, CallsTouch DEF Ordered, InScript
  <2>4. Effect(r.call, kind, outcome[1], outcome[2])
    BY <1>1, <2>2, OutcomeEffect DEF Heals
  <2> QED BY <2>2, <2>3, <2>4 DEF Effect, Heals
<1>3. CASE kind \notin torn
  <2>1. KeptIn(handler, state, shown, kind)
    BY <1>3 DEF Inv, Kept
  <2>2. Goes(handler[h], kind, state, shown)
    BY <2>1 DEF KeptIn
  <2>3. Ordered(handler[h].todo, kind) /\ Fits(r, handler[h].todo, kind, state, shown)
    BY <2>2 DEF Goes
  <2>4. Names(r, kind) /\ (kind \in Upsets(r.call) => ToShow(handler[h].todo, kind))
    BY <2>3 DEF Fits, Names
  <2>5. Effect(r.call, kind, outcome[1], outcome[2])
    BY <1>1, <2>4, OutcomeEffect
  <2>6. ASSUME Stays(kind, outcome[1], outcome[2]), r.call \notin Shows(kind)
        PROVE  \/ Agrees(kind, outcome[1], outcome[2]) \/ ToShow(handler[h].todo, kind)
               \/ \E q \in handler[h].sent \ {r} : q.call \in Shows(kind)
    <3>1. CASE shown[kind] = SelectedIn(state, kind)
      BY <2>6, <3>1 DEF Stays, Agrees
    <3>2. CASE shown[kind] # SelectedIn(state, kind)
      <4>1. \E g \in Handlers : WillShow(handler[g], kind)
        BY <2>1, <3>2 DEF KeptIn
      <4>2. WillShow(handler[h], kind)
        BY <4>1, UntouchedGoes
      <4> QED BY <2>6, <4>2 DEF WillShow
    <3> QED BY <3>1, <3>2
  <2> QED BY <2>3, <2>4, <2>5, <2>6 DEF Effect
<1> QED BY <1>2, <1>3

(* What others touch stays. *)
LEMMA AnswerAside ==
  ASSUME Inv, NEW h \in Handlers, NEW r \in handler[h].sent, r.call # "poll", NEW outcome \in Outcomes(r),
         NEW kind \in Kinds, kind \notin torn \ Whole(h, r), ~ \A g \in Handlers \ {h} : ~Touching(handler[g], kind)
  PROVE  /\ KeptIn(handler, state, shown, kind) /\ ~Touching(handler[h], kind)
         /\ \/ outcome[2][kind] = shown[kind] /\ SelectedIn(outcome[1], kind) = SelectedIn(state, kind)
            \/ kind = "tenant" /\ outcome[2][kind] = SelectedIn(outcome[1], kind)
<1>1. kind \notin Whole(h, r)
  BY WholeMeans
<1>2. KeptIn(handler, state, shown, kind)
  BY <1>1 DEF Inv, Kept
<1>3. ~Touching(handler[h], kind)
  BY <1>2 DEF KeptIn
<1>4. kind \notin Touches(r.call)
  BY <1>3 DEF Touching
<1>5. Names(r, kind) /\ kind \notin Upsets(r.call)
  BY <1>4, CallsTouch DEF Names
<1>6. Effect(r.call, kind, outcome[1], outcome[2])
  BY <1>5, Heard, OutcomeEffect
<1> QED BY <1>2, <1>3, <1>4, <1>5, <1>6 DEF Effect, Stays, Agrees



LEMMA AnswerHome ==
  ASSUME Inv, NEW h \in Handlers, NEW r \in handler[h].sent
  PROVE  /\ \A g \in Handlers \ {h} : \A q \in handler[g].sent : Home(q, torn \ Whole(h, r))
         /\ \A q \in handler[h].sent \ {r} : Home(q, torn \ Whole(h, r))
<1>1. \A g \in Handlers : \A q \in handler[g].sent : Home(q, torn)
  BY DEF Inv, Sent
<1>2. ASSUME NEW g \in Handlers \ {h}, NEW q \in handler[g].sent PROVE Home(q, torn \ Whole(h, r))
  <2>1. \A kind \in Whole(h, r) : kind \notin Touches(q.call)
    BY WholeMeans DEF Touching
  <2> QED BY <1>1, <2>1, HomeMore
<1>3. ASSUME NEW q \in handler[h].sent \ {r} PROVE Home(q, torn \ Whole(h, r))
  <2>1. \A kind \in Whole(h, r) : kind \notin Touches(q.call)
    BY WholeMeans
  <2> QED BY <1>1, <2>1, HomeMore
<1> QED BY <1>2, <1>3

(* A reorder goes to the document whose items were read. *)
LEMMA AnswerTaken ==
  ASSUME Inv, NEW h \in Handlers, NEW r \in handler[h].sent, r.call = "readItems" => r.id = handler[h].about,
         NEW outcome \in Outcomes(r)
  PROVE  Taken(handler[h].todo, outcome[1], handler[h].about, torn \ Whole(h, r))
<1>1. Planned(handler[h])
  BY Heard
<1>2. \A n \in DOMAIN handler[h].todo : \A c \in handler[h].todo[n] : Source(c) = None
  BY <1>1 DEF Planned
<1>3. ASSUME NEW n \in DOMAIN handler[h].todo, "reorder" \in handler[h].todo[n], "document" \notin torn \ Whole(h, r)
      PROVE  handler[h].about = outcome[1].document
  <2>1. r.call = "readItems"
    BY <1>1, <1>3 DEF Planned
  <2>2. outcome = <<state, shown>>
    BY <2>1, OutcomeIs DEF Silents, Calls, DocumentCalls, TenantCalls
  <2>3. "document" \notin Whole(h, r)
    <3>1. ~Heals(r, "document")
      BY <2>1 DEF Heals, Shows, TenantCalls
    <3> QED BY <3>1, WholeMeans
  <2>4. KeptIn(handler, state, shown, "document")
    BY <1>3, <2>3 DEF Inv, Kept, Kinds
  <2>5. Fits(r, handler[h].todo, "document", state, shown)
    BY <2>4 DEF KeptIn, Goes
  <2>6. "document" \in Panes(Subject(r.call))
    BY <2>1 DEF Subject, Panes
  <2>7. r.id = state.document
    BY <2>5, <2>6 DEF Fits, SelectedIn
  <2> QED BY <2>1, <2>2, <2>7
<1> QED BY <1>2, <1>3 DEF Taken

(* Under a blank tenant code, what others would list an answer leaves alone;  *)
(* the handler that lists has asked for nothing that selects or shows it.    *)
LEMMA AnswerUnder ==
  ASSUME Inv, NEW h \in Handlers, NEW r \in handler[h].sent, r.call # "poll", NEW outcome \in Outcomes(r),
         state.tenant = None, NEW kind \in Told, kind \notin torn \ Whole(h, r), NEW g \in Handlers, Waits(handler[g])
  PROVE  outcome[2][kind] = SelectedIn(outcome[1], kind) /\ (g # h => ~Touching(handler[h], kind))
<1>1. kind \in Kinds \ {"tenant"}
  BY DEF Told, Kinds
<1>2. kind \notin torn => shown[kind] = SelectedIn(state, kind)
  BY DEF Inv, Under
<1>3. Touching(handler[g], kind)
  BY WaitsTouch
<1>4. CASE g # h
  <2>1. kind \notin Whole(h, r)
    BY <1>3, <1>4, WholeMeans
  <2>2. /\ ~Touching(handler[h], kind)
        /\ outcome[2][kind] = shown[kind] /\ SelectedIn(outcome[1], kind) = SelectedIn(state, kind)
    BY <1>1, <1>3, <1>4, AnswerAside
  <2> QED BY <1>2, <2>1, <2>2
<1>5. CASE g = h
  <2>1. r.call \in Bare
    BY <1>5, Heard DEF Planned, Waits
  <2>2. kind \notin Whole(h, r)
    <3>1. ~Heals(r, kind)
      BY <1>1, <2>1 DEF Heals, Shows, Bare, TenantCalls, Kinds
    <3> QED BY <3>1, WholeMeans
  <2>3. outcome = <<state, shown>> \/ outcome = <<state, Synced>>
    BY <2>1, OutcomeIs DEF Bare, TenantCalls, Silents, Calls
  <2>4. Synced[kind] = shown[kind]
    BY <1>1, SyncedParts
  <2> QED BY <1>2, <1>5, <2>2, <2>3, <2>4
<1> QED BY <1>4, <1>5

LEMMA LastAnswer ==
  ASSUME Inv, NEW h \in Handlers, NEW r \in handler[h].sent, r.ok, r.call # "poll",
         r.call = "readItems" => r.id = handler[h].about, NEW outcome \in Outcomes(r), handler[h].sent = {r},
         GoOn(handler, h, outcome[1], outcome[2], handler[h].todo, handler[h].about, 0, torn \ Whole(h, r))
  PROVE  Inv'
<1> DEFINE st == outcome[1]
           pa == outcome[2]
           todo == handler[h].todo
           about == handler[h].about
           harm == torn \ Whole(h, r)
<1>1. /\ handler[h] \in HandlerRecord /\ todo \in Seq(SUBSET Calls) /\ about \in Ids \cup {None} /\ Plan(todo)
      /\ Planned(handler[h])
  BY Heard
<1>2. Allowed(st, pa)
  BY Heard, OutcomeAllowed
<1>3. Shaped(handler) /\ ServerOK /\ shown \in PaneRecord /\ 0 \in 0..(MaxPolls - 1) /\ handler \in [Handlers -> HandlerRecord]
  BY MaxPollsAssumption, InvHandlers DEF Inv
<1>4. \A kind \in Kinds : kind \notin harm /\ (\A g \in Handlers \ {h} : ~Touching(handler[g], kind)) =>
        Ordered(todo, kind) /\ (Agrees(kind, st, pa) \/ ToShow(todo, kind))
  BY AnswerReady
<1>5. \A kind \in Kinds : kind \notin harm /\ (~ \A g \in Handlers \ {h} : ~Touching(handler[g], kind)) =>
        /\ KeptIn(handler, state, shown, kind) /\ ~Touching(handler[h], kind)
        /\ \/ pa[kind] = shown[kind] /\ SelectedIn(st, kind) = SelectedIn(state, kind)
           \/ kind = "tenant" /\ pa[kind] = SelectedIn(st, kind)
  BY AnswerAside
<1>6. Taken(todo, st, about, harm)
  BY AnswerTaken
<1>7. \A g \in Handlers \ {h} : \A q \in handler[g].sent : Home(q, harm)
  BY AnswerHome
<1>8. GoOn(handler, h, st, pa, todo, about, 0, harm) /\ harm \in SUBSET Kinds
  BY DEF Inv
<1>9. \A n \in DOMAIN todo : "readItems" \notin todo[n]
  BY <1>1 DEF Planned
<1>10. \A kind : ~Touching(handler[h], kind) => ~InScript(todo, kind)
  BY DEF Touching
<1>a. \A kind \in Told, g \in Handlers : state.tenant = None /\ kind \notin harm /\ Waits(handler[g]) =>
        pa[kind] = SelectedIn(st, kind) /\ (g # h => ~Touching(handler[h], kind))
  BY AnswerUnder
<1>b. \A n \in DOMAIN todo : /\ todo[n] = Lists => Waits(handler[h])
                           /\ \A c \in todo[n] : c \notin TenantCalls
  BY <1>1 DEF Waits, Planned
<1> HIDE DEF st, pa, todo, about, harm
<1>c. harm \subseteq torn' /\ torn' \in SUBSET Kinds
  BY <1>1, <1>8, GoOnHarm
<1>d. st.tenant = state.tenant
  BY <1>2 DEF Allowed
<1>11. state' \in StateRecord /\ shown' \in PaneRecord /\ Shaped(handler') /\ ServerOK'
  BY <1>1, <1>2, <1>3, <1>8, GoOnShaped DEF Allowed
<1>12. Under(handler', state', shown', torn')
  <2>1. \A kind \in Told \ torn', g \in Handlers \ {h} : st.tenant = None /\ Waits(handler[g]) =>
          pa[kind] = SelectedIn(st, kind) /\ ~InScript(todo, kind)
    BY <1>10, <1>a, <1>c, <1>d
  <2>2. \A kind \in Told \ torn', n \in DOMAIN todo : st.tenant = None /\ todo[n] = Lists => pa[kind] = SelectedIn(st, kind)
    BY <1>a, <1>b, <1>c, <1>d
  <2> QED BY <1>1, <1>3, <1>8, <2>1, <2>2, GoOnUnder
<1>13. \A g \in Handlers : \A q \in handler'[g].sent : Home(q, harm)
  BY <1>1, <1>3, <1>6, <1>7, <1>8, GoOnHome
<1>14. \A g \in Handlers : \A q \in handler'[g].sent : Home(q, torn')
  BY <1>13, <1>c, HomeMore
<1>15. ASSUME NEW kind \in Kinds \ torn' PROVE KeptIn(handler', state', shown', kind)
  <2>1. kind \in Kinds /\ kind \notin harm
    BY <1>15, <1>c
  <2>2. ASSUME \A g \in Handlers \ {h} : ~Touching(handler[g], kind) PROVE KeptIn(handler', state', shown', kind)
    <3>1. Startable(todo, kind, st, pa)
      BY <1>4, <1>9, <2>1, <2>2 DEF Startable, Agrees
    <3>2. Dropped(st, todo) => pa[kind] = SelectedIn(st, kind)
      <4>1. kind \in Told \/ ~ToShow(todo, kind)
        BY <1>b DEF Told, Kinds, ToShow, Shows
      <4>2. CASE kind \in Told
        BY <1>a, <1>b, <1>d, <2>1, <4>2 DEF Dropped
      <4>3. CASE ~ToShow(todo, kind)
        BY <3>1, <4>3 DEF Startable
      <4> QED BY <4>1, <4>2, <4>3
    <3> QED BY <1>1, <1>3, <1>8, <2>1, <2>2, <3>1, <3>2, GoOnMine
  <2>3. ASSUME ~ \A g \in Handlers \ {h} : ~Touching(handler[g], kind) PROVE KeptIn(handler', state', shown', kind)
    <3>1. /\ KeptIn(handler, state, shown, kind) /\ ~Touching(handler[h], kind)
          /\ \/ pa[kind] = shown[kind] /\ SelectedIn(st, kind) = SelectedIn(state, kind)
             \/ kind = "tenant" /\ pa[kind] = SelectedIn(st, kind)
      BY <1>5, <2>1, <2>3
    <3>2. ~InScript(todo, kind)
      BY <1>10, <3>1
    <3> HIDE DEF KeptIn
    <3> QED BY <1>1, <1>3, <1>8, <2>1, <3>1, <3>2, GoOnOthers
  <2> QED BY <2>2, <2>3
<1> QED BY <1>11, <1>12, <1>14, <1>15, <1>c DEF Inv, Kept, Sent, Shaped



(* A handler leaves alone what the others are about. *)
Beside(kind, st, pa, st2, pa2) ==
  \/ pa2[kind] = pa[kind] /\ SelectedIn(st2, kind) = SelectedIn(st, kind)
  \/ kind = "tenant" /\ pa2[kind] = SelectedIn(st2, kind)

Others(h, hs, hs2) == \A g \in Handlers \ {h} : hs2[g] = hs[g]

LEMMA BesideKept ==
  ASSUME NEW hs, NEW hs2, NEW h \in Handlers, NEW kind \in Kinds, NEW st, NEW pa, NEW st2, NEW pa2,
         KeptIn(hs, st, pa, kind), ~Touching(hs[h], kind), ~Touching(hs2[h], kind), Others(h, hs, hs2),
         Beside(kind, st, pa, st2, pa2)
  PROVE  KeptIn(hs2, st2, pa2, kind)
BY OthersKept DEF Others, Beside

(* A handler comes to hd, and sends nothing. *)
LEMMA StillInv ==
  ASSUME Inv, NEW h \in Handlers, NEW hd \in HandlerRecord, handler' = [handler EXCEPT ![h] = hd], UNCHANGED server,
         Planned(hd), hd.sent \subseteq handler[h].sent, Allowed(state', shown'), torn' \in SUBSET Kinds,
         \A g \in Handlers \ {h} : \A q \in handler[g].sent : Home(q, torn'), \A q \in hd.sent : Home(q, torn'),
         \A kind \in Kinds \ torn' : KeptIn(handler', state', shown', kind),
         Under(handler', state', shown', torn')
  PROVE  Inv'
<1>1. handler'[h] = hd /\ \A g \in Handlers \ {h} : handler'[g] = handler[g]
  BY InvHandlers
<1>2. Shaped(handler')
  BY <1>1, InvHandlers DEF Inv, Shaped
<1>4. ServerOK'
  BY DEF Inv, ServerOK, server
<1>5. Sent'
  BY <1>1 DEF Sent
<1>6. state' \in StateRecord /\ shown' \in PaneRecord
  BY DEF Allowed
<1>7. Kept'
  BY DEF Kept
<1> QED BY <1>2, <1>4, <1>5, <1>6, <1>7 DEF Inv, Shaped

(* Nor does it do anything to what is listed later. *)
LEMMA StillUnder ==
  ASSUME Inv, NEW h \in Handlers, NEW hd, handler' = [handler EXCEPT ![h] = hd], ~Waits(hd), state' = state,
         \A kind \in Told \ torn' : kind \notin torn /\ shown'[kind] = shown[kind]
  PROVE  Under(handler', state', shown', torn')
<1>1. handler'[h] = hd /\ \A g \in Handlers \ {h} : handler'[g] = handler[g]
  BY InvHandlers
<1>2. Under(handler, state, shown, torn)
  BY DEF Inv
<1> QED BY <1>1, <1>2 DEF Under

LEMMA FewerPlanned ==
  ASSUME NEW hd \in HandlerRecord, Planned(hd), NEW r \in hd.sent, hd.sent # {r},
         NEW hd2, hd2 = [hd EXCEPT !.sent = @ \ {r}]
  PROVE  hd2 \in HandlerRecord /\ Planned(hd2) /\ hd2.todo = hd.todo /\ hd2.sent = hd.sent \ {r}
<1>1. hd2 \in HandlerRecord /\ hd2.todo = hd.todo /\ hd2.sent = hd.sent \ {r}
  BY DEF HandlerRecord
<1>2. hd2.sent # {} /\ hd2.sent \subseteq hd.sent
  BY <1>1
<1>3. Planned(hd2)
  BY <1>1, <1>2 DEF Planned
<1> QED BY <1>1, <1>3

LEMMA PartAnswer ==
  ASSUME Inv, NEW h \in Handlers, NEW r \in handler[h].sent, r.ok, r.call # "poll", NEW outcome \in Outcomes(r),
         handler[h].sent # {r}, state' = outcome[1], shown' = outcome[2], handler' = Without(h, r), UNCHANGED server,
         torn' = torn \ Whole(h, r)
  PROVE  Inv'
<1> DEFINE hd == [handler[h] EXCEPT !.sent = @ \ {r}]
<1>1. handler[h] \in HandlerRecord /\ Planned(handler[h])
  BY Heard
<1>2. hd \in HandlerRecord /\ Planned(hd) /\ hd.todo = handler[h].todo /\ hd.sent = handler[h].sent \ {r}
  BY <1>1, FewerPlanned
<1>3. handler' = [handler EXCEPT ![h] = hd]
  BY DEF Without
<1>4. Allowed(state', shown')
  BY Heard, OutcomeAllowed
<1> HIDE DEF hd
<1>5. handler'[h] = hd /\ \A g \in Handlers \ {h} : handler'[g] = handler[g]
  BY <1>3, InvHandlers
<1>6. \A q \in hd.sent : q.call \in Lists
  BY <1>1, <1>2 DEF Planned
<1>7. ASSUME NEW kind \in Kinds, kind \notin torn' PROVE KeptIn(handler', state', shown', kind)
  <2>1. ASSUME \A g \in Handlers \ {h} : ~Touching(handler[g], kind) PROVE KeptIn(handler', state', shown', kind)
    <3>1. /\ Ordered(hd.todo, kind)
          /\ Agrees(kind, state', shown') \/ ToShow(hd.todo, kind) \/ \E q \in hd.sent : q.call \in Shows(kind)
      BY <1>2, <1>7, <2>1, AnswerReady
    <3>2. ASSUME NEW q \in hd.sent PROVE Fits(q, hd.todo, kind, state', shown')
      <4>1. q.call # "readItems" /\ kind \notin Panes(Subject(q.call))
        <5>1. Subject(q.call) = None
          BY <1>6, <3>2 DEF Lists, Subject
        <5> QED BY <1>6, <5>1, NoneAssumption DEF Panes, Lists, Kinds
      <4>2. q \in handler[h].sent
        BY <1>2
      <4>3. kind \in Upsets(q.call) => ToShow(hd.todo, kind)
        <5>1. CASE kind \in torn
          <6>1. kind \in Whole(h, r)
            BY <1>7, <5>1
          <6>2. kind \notin Touches(q.call)
            BY <1>2, <6>1, WholeMeans
          <6> QED BY <6>2, CallsTouch
        <5>2. CASE kind \notin torn
          BY <1>2, <4>2, <5>2 DEF Inv, Kept, KeptIn, Goes, Fits
        <5> QED BY <5>1, <5>2
      <4> QED BY <4>1, <4>3 DEF Fits
    <3>3. Goes(hd, kind, state', shown') /\ (shown'[kind] = SelectedIn(state', kind) \/ WillShow(hd, kind))
      BY <3>1, <3>2 DEF Goes, Agrees, WillShow
    <3>4. Goes(handler'[h], kind, state', shown') /\ (shown'[kind] = SelectedIn(state', kind) \/ WillShow(handler'[h], kind))
      BY <1>5, <3>3
    <3>5. \A g \in Handlers \ {h} : handler'[g] = handler[g] /\ ~Touching(handler[g], kind)
      BY <1>5, <2>1
    <3> QED BY <3>4, <3>5, MineKept
  <2>2. ASSUME ~ \A g \in Handlers \ {h} : ~Touching(handler[g], kind) PROVE KeptIn(handler', state', shown', kind)
    <3>1. /\ KeptIn(handler, state, shown, kind) /\ ~Touching(handler[h], kind)
          /\ \/ shown'[kind] = shown[kind] /\ SelectedIn(state', kind) = SelectedIn(state, kind)
             \/ kind = "tenant" /\ shown'[kind] = SelectedIn(state', kind)
      BY <1>7, <2>2, AnswerAside
    <3>2. ~Touching(handler'[h], kind)
      BY <1>2, <1>5, <3>1 DEF Touching
    <3>3. \A g \in Handlers \ {h} : handler'[g] = handler[g]
      BY <1>5
    <3>4. KeptIn(handler, state, shown, kind)
      BY <3>1
    <3>5. ~Touching(handler[h], kind)
      BY <3>1
    <3>6. Beside(kind, state, shown, state', shown')
      BY <3>1 DEF Beside
    <3>7. Others(h, handler, handler')
      BY <3>3 DEF Others
    <3> QED BY <3>2, <3>4, <3>5, <3>6, <3>7, BesideKept
  <2> QED BY <2>1, <2>2
<1>8. torn' \in SUBSET Kinds
  BY DEF Inv
<1>9. (\A g \in Handlers \ {h} : \A q \in handler[g].sent : Home(q, torn')) /\ \A q \in hd.sent : Home(q, torn')
  BY <1>2, AnswerHome
<1>10. hd.sent \subseteq handler[h].sent /\ \A kind \in Kinds \ torn' : KeptIn(handler', state', shown', kind)
  BY <1>2, <1>7
<1>11. Under(handler', state', shown', torn')
  <2>1. state'.tenant = state.tenant
    BY <1>4 DEF Allowed
  <2>2. \A g \in Handlers : Waits(handler'[g]) => Waits(handler[g])
    BY <1>2, <1>5 DEF Waits
  <2>3. \A kind \in Told, g \in Handlers : state.tenant = None /\ kind \notin torn \ Whole(h, r) /\ Waits(handler[g]) =>
          shown'[kind] = SelectedIn(state', kind)
    BY AnswerUnder
  <2> QED BY <2>1, <2>2, <2>3 DEF Under
<1> QED BY <1>2, <1>3, <1>4, <1>8, <1>9, <1>10, <1>11, StillInv

LEMMA AnswerInv ==
  ASSUME Inv, NEW h \in Handlers, Answer(h)
  PROVE  Inv'
<1>1. PICK r \in handler[h].sent :
        /\ r.ok /\ r.call # "poll"
        /\ r.call = "readItems" => r.id = handler[h].about
        /\ \E outcome \in Outcomes(r) :
             IF handler[h].sent = {r} THEN
               GoOn(handler, h, outcome[1], outcome[2], handler[h].todo, handler[h].about, 0, torn \ Whole(h, r))
             ELSE
               /\ state' = outcome[1] /\ shown' = outcome[2]
               /\ handler' = Without(h, r)
               /\ torn' = torn \ Whole(h, r)
               /\ UNCHANGED server
  BY DEF Answer
<1>2. PICK outcome \in Outcomes(r) :
        IF handler[h].sent = {r} THEN
          GoOn(handler, h, outcome[1], outcome[2], handler[h].todo, handler[h].about, 0, torn \ Whole(h, r))
        ELSE
          /\ state' = outcome[1] /\ shown' = outcome[2]
          /\ handler' = Without(h, r)
          /\ torn' = torn \ Whole(h, r)
          /\ UNCHANGED server
  BY <1>1
<1>3. CASE handler[h].sent = {r}
  BY <1>1, <1>2, <1>3, LastAnswer
<1>4. CASE handler[h].sent # {r}
  BY <1>1, <1>2, <1>4, PartAnswer
<1> QED BY <1>3, <1>4



(* A handler that has been waiting goes on. *)
LEMMA WakeInv ==
  ASSUME Inv, NEW h \in Handlers, Wake(h)
  PROVE  Inv'
<1> DEFINE todo == handler[h].todo
           about == handler[h].about
           rounds == handler[h].rounds
<1>1. /\ handler[h].sent = {} /\ GoOn(handler, h, state, shown, todo, about, rounds, torn)
  BY DEF Wake
<1>2. handler[h] \in HandlerRecord /\ Planned(handler[h])
  BY InvHandlers
<1>3. /\ todo \in Seq(SUBSET Calls) /\ about \in Ids \cup {None} /\ rounds \in 0..(MaxPolls - 1) /\ Plan(todo)
  BY <1>2, PlannedPlan DEF HandlerRecord
<1>4. /\ \A n \in DOMAIN todo : \A c \in todo[n] : Source(c) = None /\ c \notin {"readItems", "reorder"}
  BY <1>1, <1>2 DEF Planned
<1>5. \A kind : ~Touching(handler[h], kind) => ~InScript(todo, kind)
  BY DEF Touching
<1>6. \A kind : Goes(handler[h], kind, state, shown) => Ordered(todo, kind)
  BY DEF Goes
<1>7. \A kind : WillShow(handler[h], kind) => ToShow(todo, kind)
  BY <1>1 DEF WillShow
<1>a. Listless(todo)
  BY <1>1, <1>2 DEF Planned, Listless
<1> HIDE DEF todo, about, rounds
<1>8. Shaped(handler) /\ ServerOK /\ state \in StateRecord /\ shown \in PaneRecord /\ handler \in [Handlers -> HandlerRecord]
      /\ Under(handler, state, shown, torn) /\ torn \in SUBSET Kinds
  BY InvHandlers DEF Inv
<1>b. torn \subseteq torn' /\ torn' \in SUBSET Kinds
  BY <1>1, <1>3, <1>8, GoOnHarm
<1>9. state' \in StateRecord /\ shown' \in PaneRecord /\ Shaped(handler') /\ ServerOK'
  BY <1>1, <1>3, <1>8, GoOnShaped
<1>10. Under(handler', state', shown', torn')
  <2>1. ASSUME NEW kind \in Told \ torn', NEW g \in Handlers \ {h}, state.tenant = None, Waits(handler[g])
        PROVE  shown[kind] = SelectedIn(state, kind) /\ ~InScript(todo, kind)
    <3>1. kind \in Told \ torn /\ kind \in Kinds \ torn
      BY <1>b DEF Told, Kinds
    <3>2. shown[kind] = SelectedIn(state, kind)
      BY <1>8, <2>1, <3>1 DEF Under
    <3>3. Touching(handler[g], kind)
      BY <2>1, WaitsTouch
    <3>4. ~Touching(handler[h], kind)
      BY <3>1, <3>3 DEF Inv, Kept, KeptIn
    <3> QED BY <1>5, <3>2, <3>4
  <2>2. \A kind \in Told \ torn', g \in Handlers \ {h} : state.tenant = None /\ Waits(handler[g]) =>
          shown[kind] = SelectedIn(state, kind) /\ ~InScript(todo, kind)
    BY <2>1
  <2>3. \A kind \in Told \ torn', n \in DOMAIN todo : state.tenant = None /\ todo[n] = Lists => shown[kind] = SelectedIn(state, kind)
    BY <1>a DEF Listless
  <2> QED BY <1>1, <1>3, <1>8, <2>2, <2>3, GoOnUnder
<1>11. Taken(todo, state, about, torn)
  BY <1>4 DEF Taken
<1>12. \A g \in Handlers : \A q \in handler'[g].sent : Home(q, torn)
  <2>1. \A g \in Handlers \ {h} : \A q \in handler[g].sent : Home(q, torn)
    BY DEF Inv, Sent
  <2> QED BY <1>1, <1>3, <1>8, <1>11, <2>1, GoOnHome
<1>13. \A g \in Handlers : \A q \in handler'[g].sent : Home(q, torn')
  BY <1>12, <1>b, HomeMore
<1>14. ASSUME NEW kind \in Kinds \ torn' PROVE KeptIn(handler', state', shown', kind)
  <2>1. KeptIn(handler, state, shown, kind)
    BY <1>b DEF Inv, Kept
  <2>2. ASSUME \A g \in Handlers \ {h} : ~Touching(handler[g], kind) PROVE KeptIn(handler', state', shown', kind)
    <3>1. Goes(handler[h], kind, state, shown)
      BY <2>1 DEF KeptIn
    <3>2. shown[kind] = SelectedIn(state, kind) \/ WillShow(handler[h], kind)
      BY <2>1, <2>2, UntouchedGoes DEF KeptIn
    <3>3. Startable(todo, kind, state, shown)
      BY <1>4, <1>6, <1>7, <3>1, <3>2 DEF Startable
    <3>4. ~Dropped(state, todo)
      BY <1>a DEF Listless, Dropped
    <3> QED BY <1>1, <1>3, <1>8, <2>2, <3>3, <3>4, GoOnMine
  <2>3. ASSUME NEW g \in Handlers \ {h}, Touching(handler[g], kind) PROVE KeptIn(handler', state', shown', kind)
    <3>1. ~Touching(handler[h], kind)
      BY <2>1, <2>3 DEF KeptIn
    <3>2. ~InScript(todo, kind)
      BY <1>5, <3>1
    <3> HIDE DEF KeptIn
    <3> QED BY <1>1, <1>3, <1>8, <2>1, <3>1, <3>2, GoOnOthers
  <2> QED BY <2>2, <2>3
<1> QED BY <1>9, <1>10, <1>13, <1>14, <1>b DEF Inv, Kept, Sent, Shaped

(* Reading the items alone moves nothing: the document is shown as it was. *)
LEMMA StayPutInv ==
  ASSUME Inv, NEW h \in Handlers, StayPut(h)
  PROVE  Inv'
<1>1. PICK r \in handler[h].sent : r.ok /\ r.call = "readItems"
  BY DEF StayPut
<1>2. handler' = [handler EXCEPT ![h] = IdleHandler] /\ state' = state /\ shown' = shown /\ UNCHANGED server /\ torn' = torn
  BY DEF StayPut
<1>3. handler[h] \in HandlerRecord /\ Planned(handler[h])
  BY InvHandlers
<1>4. handler'[h] = IdleHandler /\ \A g \in Handlers \ {h} : handler'[g] = handler[g]
  BY <1>2, InvHandlers
<1>5. \A kind : ~Touching(IdleHandler, kind)
  BY IdleShaped, IdleUntouching
<1>6. ASSUME NEW kind \in Kinds \ torn PROVE KeptIn(handler', state', shown', kind)
  <2>1. KeptIn(handler, state, shown, kind)
    BY DEF Inv, Kept
  <2>2. CASE ~Touching(handler[h], kind)
    <3>1. Beside(kind, state, shown, state', shown')
      BY <1>2 DEF Beside
    <3>2. Others(h, handler, handler')
      BY <1>4 DEF Others
    <3>3. ~Touching(handler'[h], kind)
      BY <1>4, <1>5
    <3> QED BY <2>1, <2>2, <3>1, <3>2, <3>3, BesideKept
  <2>3. CASE Touching(handler[h], kind)
    <3>1. \A q \in handler[h].sent : q = r
      BY <1>1, <1>3 DEF Planned, Lists
    <3>2. Touches("readItems") = {"document"}
      BY DEF Touches, QuestionCalls, DocumentCalls, ExportCalls, TenantCalls
    <3>3. kind = "document"
      BY <1>1, <1>3, <2>3, <3>1, <3>2 DEF Touching, Planned
    <3>4. Fits(r, handler[h].todo, kind, state, shown)
      BY <2>1 DEF KeptIn, Goes
    <3>5. shown'[kind] = SelectedIn(state', kind)
      BY <1>1, <1>2, <3>3, <3>4 DEF Fits
    <3>6. \A g \in Handlers \ {h} : handler'[g] = handler[g] /\ ~Touching(handler[g], kind)
      BY <1>4, <2>1, <2>3 DEF KeptIn
    <3>7. Goes(handler'[h], kind, state', shown')
      BY <1>4, <1>5, UntouchedGoes
    <3> QED BY <3>5, <3>6, <3>7, MineKept
  <2> QED BY <2>2, <2>3
<1>7. Allowed(state', shown')
  BY <1>2, SyncedAllowed
<1>8. IdleHandler \in HandlerRecord /\ Planned(IdleHandler) /\ IdleHandler.sent = {}
  BY IdleShaped
<1>9. (\A g \in Handlers \ {h} : \A q \in handler[g].sent : Home(q, torn')) /\ torn' \in SUBSET Kinds
  BY <1>2 DEF Inv, Sent
<1>10. Under(handler', state', shown', torn')
  <2>1. ~Waits(IdleHandler)
    BY IdleShaped DEF Waits
  <2> QED BY <1>2, <2>1, StillUnder
<1> QED BY <1>2, <1>6, <1>7, <1>8, <1>9, <1>10, StillInv

(* A failure tears what the handler was about. *)
LEMMA FailInv ==
  ASSUME Inv, NEW h \in Handlers, Fail(h)
  PROVE  Inv'
<1>1. PICK r \in {q \in handler[h].sent : q.call # "health"} :
        /\ handler' = [handler EXCEPT ![h] = [IdleHandler EXCEPT !.sent = handler[h].sent \ {r}]]
        /\ torn' = torn \cup TouchedBy(h) /\ state' = state /\ shown' = shown /\ UNCHANGED server
  BY DEF Fail
<1> DEFINE hd == [IdleHandler EXCEPT !.sent = handler[h].sent \ {r}]
<1>2. handler[h] \in HandlerRecord /\ Planned(handler[h])
  BY InvHandlers
<1>3. hd.todo = <<>> /\ hd.sent = handler[h].sent \ {r}
  BY DEF IdleHandler
<1>4. hd \in HandlerRecord
  <2>1. IdleHandler \in HandlerRecord
    BY IdleShaped
  <2> QED BY <1>2, <2>1 DEF HandlerRecord
<1> HIDE DEF hd
<1>5. Planned(hd)
  <2>1. Steps(<<>>) /\ \A kind : ~InScript(<<>>, kind)
    BY DEF Steps, InScript
  <2> QED BY <1>2, <1>3, <2>1 DEF Planned
<1>6. handler' = [handler EXCEPT ![h] = hd]
  BY <1>1 DEF hd
<1>7. handler'[h] = hd /\ \A g \in Handlers \ {h} : handler'[g] = handler[g]
  BY <1>6, InvHandlers
<1>8. \A kind : Touching(handler[h], kind) => kind \in torn'
  BY <1>1, TouchedMeans
<1>9. ASSUME NEW kind \in Kinds \ torn' PROVE KeptIn(handler', state', shown', kind)
  <2>1. KeptIn(handler, state, shown, kind)
    BY <1>1 DEF Inv, Kept
  <2>2. ~Touching(handler[h], kind)
    BY <1>8
  <2>3. Beside(kind, state, shown, state', shown')
    BY <1>1 DEF Beside
  <2>4. Others(h, handler, handler')
    BY <1>7 DEF Others
  <2>5. ~Touching(handler'[h], kind)
    BY <1>3, <1>7, <2>2 DEF Touching, InScript
  <2> QED BY <2>1, <2>2, <2>3, <2>4, <2>5, BesideKept
<1>10. Allowed(state', shown')
  BY <1>1, SyncedAllowed
<1>11. torn' \in SUBSET Kinds
  <2>1. TouchedBy(h) \subseteq Kinds
    BY TouchesKinds DEF TouchedBy, Script
  <2> QED BY <1>1, <2>1 DEF Inv
<1>12. \A g \in Handlers : \A q \in handler[g].sent : Home(q, torn')
  BY <1>1, HomeMore DEF Inv, Sent
<1>13. hd.sent \subseteq handler[h].sent /\ (\A q \in hd.sent : Home(q, torn'))
  BY <1>3, <1>12
<1>14. Under(handler', state', shown', torn')
  <2>1. ~Waits(hd)
    BY <1>3 DEF Waits
  <2> QED BY <1>1, <1>6, <2>1, StillUnder
<1> QED BY <1>1, <1>4, <1>5, <1>6, <1>9, <1>10, <1>11, <1>12, <1>13, <1>14, StillInv



(* The status of an export is shown if it is the one selected, or its kind   *)
(* torn and this answer does not make it whole.                             *)
LEMMA PollInv ==
  ASSUME Inv, NEW h \in Handlers, PollAnswer(h)
  PROVE  Inv'
<1>1. PICK r \in handler[h].sent :
        /\ r.ok /\ r.call = "poll" /\ shown' = Show("export", r.id) /\ torn' = torn \ Whole(h, r)
        /\ state' = state /\ UNCHANGED server
        /\ \/ handler' = [handler EXCEPT ![h] = IdleHandler]
           \/ /\ handler[h].rounds + 1 < MaxPolls
              /\ handler' = [handler EXCEPT ![h] = [handler[h] EXCEPT !.todo = <<{"poll"}>>, !.sent = {}, !.rounds = @ + 1]]
  BY DEF PollAnswer
<1>2. handler[h] \in HandlerRecord /\ Planned(handler[h])
  BY InvHandlers
<1>3. handler[h].todo = <<>> /\ handler[h].sent = {r}
  BY <1>1, <1>2 DEF Planned, Lists
<1>4. \A kind : ToShow(<<{"poll"}>>, kind) = FALSE /\ Ordered(<<{"poll"}>>, kind)
  BY DEF ToShow, Shows, Ordered, Upsets, TenantCalls
<1>5. Touches("poll") = {"export"}
  BY DEF Touches, QuestionCalls, DocumentCalls, ExportCalls, TenantCalls
<1>6. PICK hd \in HandlerRecord :
        /\ handler' = [handler EXCEPT ![h] = hd] /\ Planned(hd) /\ hd.sent = {}
        /\ hd.todo = <<>> \/ hd.todo = <<{"poll"}>>
  <2>1. CASE handler' = [handler EXCEPT ![h] = IdleHandler]
    BY <2>1, IdleShaped
  <2>2. CASE /\ handler[h].rounds + 1 < MaxPolls
             /\ handler' = [handler EXCEPT ![h] = [handler[h] EXCEPT !.todo = <<{"poll"}>>, !.sent = {}, !.rounds = @ + 1]]
    <3> DEFINE hd == [handler[h] EXCEPT !.todo = <<{"poll"}>>, !.sent = {}, !.rounds = @ + 1]
    <3>1. handler' = [handler EXCEPT ![h] = hd]
      BY <2>2
    <3>2. handler[h].rounds + 1 \in 0..(MaxPolls - 1)
      BY <1>2, <2>2, MaxPollsAssumption DEF HandlerRecord
    <3>3. <<{"poll"}>> \in Seq(SUBSET Calls)
      BY DEF Calls, ExportCalls, TenantCalls
    <3>4. hd.todo = <<{"poll"}>> /\ hd.sent = {} /\ hd \in HandlerRecord
      BY <1>2, <3>2, <3>3 DEF HandlerRecord
    <3> HIDE DEF hd
    <3>5. DOMAIN <<{"poll"}>> = {1} /\ <<{"poll"}>>[1] = {"poll"} /\ Len(<<{"poll"}>>) = 1
      OBVIOUS
    <3>6. Source("poll") = None
      BY DEF Source
    <3>7. Steps(hd.todo)
      BY <3>4, <3>5 DEF Steps
    <3>9. {"poll"} # Lists /\ "poll" \notin TenantCalls
      BY DEF Lists, TenantCalls
    <3>8. Planned(hd)
      BY <3>4, <3>5, <3>6, <3>7, <3>9 DEF Planned
    <3> QED BY <3>1, <3>4, <3>8
  <2> QED BY <1>1, <2>1, <2>2
<1>7. handler'[h] = hd /\ \A g \in Handlers \ {h} : handler'[g] = handler[g]
  BY <1>6, InvHandlers
<1>8. \A kind : InScript(hd.todo, kind) => kind = "export"
  BY <1>5, <1>6 DEF InScript
<1>9. \A kind \in Kinds : kind # "export" => ~Touching(hd, kind) /\ ~Touching(handler[h], kind)
  BY <1>1, <1>3, <1>5, <1>6, <1>8 DEF Touching, InScript
<1>10. shown'["export"] = r.id /\ \A kind \in Kinds \ {"export"} : shown'[kind] = shown[kind]
  BY <1>1 DEF Show, Panes, Kinds
<1>11. ASSUME NEW kind \in Kinds \ torn', kind # "export" PROVE KeptIn(handler', state', shown', kind)
  <2>1. kind \notin torn
    <3>1. ~Heals(r, kind)
      BY <1>1, <1>11 DEF Heals
    <3>2. kind \notin Whole(h, r)
      BY <3>1, WholeMeans
    <3> QED BY <1>1, <3>2
  <2>2. KeptIn(handler, state, shown, kind)
    BY <2>1 DEF Inv, Kept
  <2>3. Beside(kind, state, shown, state', shown')
    BY <1>1, <1>10, <1>11 DEF Beside
  <2>4. Others(h, handler, handler')
    BY <1>7 DEF Others
  <2>5. ~Touching(handler[h], kind) /\ ~Touching(handler'[h], kind)
    BY <1>7, <1>9, <1>11
  <2> QED BY <2>2, <2>3, <2>4, <2>5, BesideKept
<1>12. ASSUME "export" \notin torn' PROVE KeptIn(handler', state', shown', "export")
  <2>1. /\ r.id = SelectedIn(state, "export")
        /\ \A g \in Handlers \ {h} : ~Touching(handler[g], "export")
    <3>1. CASE "export" \in Whole(h, r)
      <4>1. Heals(r, "export") /\ \A g \in Handlers \ {h} : ~Touching(handler[g], "export")
        BY <3>1, WholeMeans
      <4> QED BY <1>1, <4>1 DEF Heals, SelectedIn
    <3>2. CASE "export" \notin Whole(h, r)
      <4>1. KeptIn(handler, state, shown, "export")
        BY <1>1, <1>12, <3>2 DEF Inv, Kept, Kinds
      <4>2. Touching(handler[h], "export")
        BY <1>1, <1>5 DEF Touching
      <4>3. Fits(r, handler[h].todo, "export", state, shown)
        BY <4>1 DEF KeptIn, Goes
      <4>4. "export" \in Panes(Subject(r.call))
        BY <1>1 DEF Panes, Subject
      <4> QED BY <4>1, <4>2, <4>3, <4>4 DEF KeptIn, Fits
    <3> QED BY <3>1, <3>2
  <2>2. Goes(hd, "export", state', shown')
    <3>1. Ordered(hd.todo, "export")
      BY <1>4, <1>6 DEF Ordered
    <3> QED BY <1>6, <3>1 DEF Goes
  <2>3. shown'["export"] = SelectedIn(state', "export")
    BY <1>1, <1>10, <2>1
  <2>4. Goes(handler'[h], "export", state', shown')
    BY <1>7, <2>2
  <2>5. \A g \in Handlers \ {h} : handler'[g] = handler[g] /\ ~Touching(handler[g], "export")
    BY <1>7, <2>1
  <2>6. "export" \in Kinds
    BY DEF Kinds
  <2> QED BY <2>3, <2>4, <2>5, <2>6, MineKept
<1>13. Allowed(state', shown')
  <2>1. r.id \in Jobs \cup {None}
    BY <1>1, Heard DEF Named, Subject
  <2>2. shown' \in PaneRecord /\ shown'.tenant = shown.tenant
    BY <1>1, <2>1, ShowTyped DEF Belongs, Kinds
  <2> QED BY <1>1, <2>2, SyncedAllowed DEF Allowed
<1>14. torn' \in SUBSET Kinds
  BY <1>1 DEF Inv
<1>15. (\A g \in Handlers \ {h} : \A q \in handler[g].sent : Home(q, torn')) /\ (\A q \in hd.sent : Home(q, torn'))
  BY <1>1, <1>6, AnswerHome
<1>16. \A kind \in Kinds \ torn' : KeptIn(handler', state', shown', kind)
  BY <1>11, <1>12
<1>17. Under(handler', state', shown', torn')
  <2>1. ~Waits(hd)
    <3>1. <<{"poll"}>>[1] # Lists /\ DOMAIN <<{"poll"}>> = {1}
      BY DEF Lists
    <3> QED BY <1>6, <3>1 DEF Waits
  <2>2. ASSUME NEW kind \in Told PROVE kind \notin Whole(h, r) /\ shown'[kind] = shown[kind]
    <3>1. kind \in Kinds \ {"export"}
      BY DEF Told, Kinds
    <3>2. ~Heals(r, kind)
      BY <1>1, <3>1 DEF Heals
    <3> QED BY <1>10, <3>1, <3>2, WholeMeans
  <2> QED BY <1>1, <1>6, <2>1, <2>2, StillUnder
<1> QED BY <1>1, <1>6, <1>13, <1>14, <1>15, <1>16, <1>17, StillInv



-------------------------------------------------------------------------------
(* A page that loads reads everything again. *)
LEMMA RefreshTail == Tail(Refresh) = SubSeq(Refresh, 2, Len(Refresh)) /\ Refresh \in Seq(SUBSET Calls)
                     /\ DOMAIN Refresh = 1..4 /\ Len(Refresh) = 4 /\ Refresh[1] = {"health"}
<1>1. Refresh \in Seq(SUBSET Calls) /\ DOMAIN Refresh = 1..4
  BY RefreshSpelt, Groups DEF Grouped
<1>2. Len(Refresh) = 4 /\ Refresh[1] = {"health"}
  BY RefreshSpelt DEF Is, Spelt
<1>3. Tail(Refresh) = SubSeq(Refresh, 2, Len(Refresh))
  <2> DEFINE S == SUBSET Calls
  <2>1. Refresh \in Seq(S) /\ Refresh # <<>>
    BY <1>1, <1>2
  <2> HIDE DEF S
  <2> QED BY <2>1, TailIsSubSeq
<1> QED BY <1>1, <1>2, <1>3

LEMMA InitGoing ==
  /\ [todo |-> Tail(Refresh), sent |-> {Request(state, "health", None, None)}, rounds |-> 0, about |-> None]
       = Going(state, Refresh, None, 0, 1, {"health"}, None)
  /\ StopsAt(state, Refresh, 1, {"health"})
<1>1. StopsAt(state, Refresh, 1, {"health"})
  <2>1. ~Silent(state, "health")
    BY DEF Silent
  <2> QED BY <2>1, RefreshTail DEF StopsAt
<1>2. Going(state, Refresh, None, 0, 1, {"health"}, None)
        = [todo |-> SubSeq(Refresh, 2, Len(Refresh)), sent |-> {Request(state, call, None, None) : call \in {"health"}},
           rounds |-> 0, about |-> None]
  <2>1. 1 + 1 = 2
    OBVIOUS
  <2> QED BY <2>1 DEF Going
<1>3. {Request(state, call, None, None) : call \in {"health"}} = {Request(state, "health", None, None)}
  OBVIOUS
<1> QED BY <1>1, <1>2, <1>3, RefreshTail

LEMMA InitTypes ==
  ASSUME Init
  PROVE  /\ state \in StateRecord /\ shown \in PaneRecord /\ ServerOK
         /\ shown["tenant"] = state.tenant /\ state.export = None
         /\ \A kind \in Kinds \ {"tenant"} : shown[kind] = None
<1>1. state \in StateRecord /\ state.export = None
  BY DEF Init, StateRecord
<1>2. shown["tenant"] = state.tenant /\ (\A kind \in Kinds \ {"tenant"} : shown[kind] = None)
      /\ shown \in [Kinds -> {shown[kind] : kind \in Kinds}]
  BY DEF Init, NothingShown, Kinds
<1>3. shown \in PaneRecord
  BY <1>1, <1>2, PanesTyped DEF Kinds, StateRecord
<1>4. ServerOK
  <2>1. PICK ids \in SUBSET (Questions \cup Documents) : Rows \in [ids -> Tenants]
    BY RowsAssumption
  <2>2. \A id \in DOMAIN Rows : Rows[id] \in Tenants
    BY <2>1
  <2> QED BY <2>2 DEF Init, ServerOK
<1> QED BY <1>1, <1>2, <1>3, <1>4

LEMMA InitInv ==
  ASSUME Init
  PROVE  Inv
<1> DEFINE hd == Going(state, Refresh, None, 0, 1, {"health"}, None)
           hs == [h \in Handlers |-> IdleHandler]
<1>1. /\ state \in StateRecord /\ shown \in PaneRecord /\ ServerOK
      /\ shown["tenant"] = state.tenant /\ state.export = None
      /\ \A kind \in Kinds \ {"tenant"} : shown[kind] = None
  BY InitTypes
<1>2. torn = (IF state.tenant = None THEN Untold(state) ELSE {}) /\ torn \in SUBSET Kinds
  BY DEF Init, Untold, Kinds
<1>3. \A g \in Handlers : hs[g] = IdleHandler /\ \A kind : ~Touching(hs[g], kind)
  BY IdleShaped, IdleUntouching
<1>4. CASE state.tenant = None
  <2>1. handler = hs
    BY <1>4 DEF Init
  <2>2. \A kind \in Kinds \ torn : shown[kind] = SelectedIn(state, kind)
    BY <1>1, <1>2, <1>4 DEF SelectedIn, Kinds, Untold
  <2> HIDE DEF hs
  <2>3. \A g \in Handlers : handler[g] = IdleHandler /\ \A kind : ~Touching(handler[g], kind)
    BY <1>3, <2>1
  <2>4. \A kind \in Kinds \ torn : KeptIn(handler, state, shown, kind)
    BY <2>2, <2>3, UntouchedGoes DEF KeptIn
  <2>5. Shaped(handler)
    <3>1. handler \in [Handlers -> HandlerRecord]
      BY <2>1, IdleShaped DEF hs
    <3> QED BY <2>3, <3>1, IdleShaped DEF Shaped
  <2>6. Under(handler, state, shown, torn) /\ Sent
    BY <2>3, IdleShaped DEF Under, Waits, Sent
  <2> QED BY <1>1, <1>2, <2>4, <2>5, <2>6 DEF Inv, Kept
<1>5. CASE state.tenant # None
  <2>1. StopsAt(state, Refresh, 1, {"health"}) /\ \E g \in Handlers : handler = [h \in Handlers |-> IF h = g THEN hd ELSE IdleHandler]
    <3>1. /\ [todo |-> Tail(Refresh), sent |-> {Request(state, "health", None, None)}, rounds |-> 0, about |-> None] = hd
          /\ StopsAt(state, Refresh, 1, {"health"})
      BY InitGoing
    <3> HIDE DEF hd
    <3> QED BY <1>5, <3>1 DEF Init
  <2>2. PICK g \in Handlers : handler = [h \in Handlers |-> IF h = g THEN hd ELSE IdleHandler]
    BY <2>1
  <2>3. Refresh \in Seq(SUBSET Calls) /\ 1 \in 0..Len(Refresh) /\ {"health"} \in SUBSET Calls
    BY RefreshTail DEF Calls
  <2>4. Plan(Refresh) /\ Unread(Refresh) /\ (\A kind \in Kinds : Ordered(Refresh, kind))
    BY RefreshSound DEF Sound
  <2>5. hd = Going(state, Refresh, None, 0, 1, {"health"}, None)
    OBVIOUS
  <2>6. /\ hd.sent = {Request(state, "health", None, None)}
        /\ hd = [todo |-> SubSeq(Refresh, 2, Len(Refresh)), sent |-> hd.sent, rounds |-> 0, about |-> None]
    <3>1. 1 + 1 = 2 /\ {Request(state, call, None, None) : call \in {"health"}} = {Request(state, "health", None, None)}
      OBVIOUS
    <3> QED BY <3>1 DEF Going
  <2> HIDE DEF hd, hs
  <2>7. Planned(hd)
    BY <2>1, <2>3, <2>4, <2>5, GoingPlanned
  <2>8. New({"health"}, None)
    BY DEF New, Fresh
  <2>9. Request(state, "health", None, None) \in RequestRecord /\ Named(Request(state, "health", None, None))
    <3>1. "health" \notin Creates
      BY DEF Creates
    <3> QED BY <1>1, <2>3, <2>8, <3>1, RequestNamed
  <2>10. hd.sent \in SUBSET RequestRecord /\ \A r \in hd.sent : Named(r)
    BY <2>6, <2>9
  <2>11. hd \in HandlerRecord
    <3>1. SubSeq(Refresh, 2, Len(Refresh)) \in Seq(SUBSET Calls)
      BY RefreshTail
    <3>2. 0 \in 0..(MaxPolls - 1) /\ None \in Ids \cup {None}
      BY MaxPollsAssumption
    <3> DEFINE t == SubSeq(Refresh, 2, Len(Refresh))
    <3>3. t \in Seq(SUBSET Calls) /\ hd = [todo |-> t, sent |-> hd.sent, rounds |-> 0, about |-> None]
      BY <2>6, <3>1
    <3> HIDE DEF t
    <3> QED BY <2>10, <3>2, <3>3 DEF HandlerRecord
  <2>12. handler[g] = hd /\ \A h \in Handlers \ {g} : handler[h] = IdleHandler
    BY <2>2
  <2>13. Shaped(handler)
    <3>1. handler \in [Handlers -> HandlerRecord]
      BY <2>2, <2>11, IdleShaped
    <3> QED BY <2>7, <2>10, <2>12, <3>1, IdleShaped DEF Shaped
  <2>14. Under(handler, state, shown, torn)
    BY <1>5 DEF Under
  <2>15. Sent
    <3>1. Source("health") = None
      BY DEF Source
    <3>2. Request(state, "health", None, None).from = Request(state, "health", None, None).id
      BY <3>1 DEF Request
    <3> QED BY <2>6, <2>12, <3>2, IdleShaped DEF Sent, Home
  <2>16. ASSUME NEW kind \in Kinds PROVE KeptIn(handler, state, shown, kind)
    <3>1. \A n \in DOMAIN Refresh : "readItems" \notin Refresh[n]
      BY <2>4 DEF Unread
    <3>2. ToShow(Refresh, kind) \/ shown[kind] = SelectedIn(state, kind)
      BY <1>1, RefreshSound DEF SelectedIn, Kinds
    <3>3. Startable(Refresh, kind, state, shown)
      BY <2>4, <3>1, <3>2 DEF Startable
    <3>4. ~Cleared(state, Refresh, 1, kind)
      BY RefreshTail DEF Cleared
    <3>5. Repainted(state, Refresh, 1, kind, shown, shown)
      BY <3>4 DEF Repainted
    <3>6. Well(hd, kind, state, shown)
      BY <2>1, <2>3, <2>5, <3>3, <3>4, <3>5, GoingWell
    <3>7. \A h \in Handlers \ {g} : handler[h] = hs[h] /\ ~Touching(hs[h], kind)
      BY <1>3, <2>12 DEF hs
    <3>8. Goes(handler[g], kind, state, shown) /\ (shown[kind] = SelectedIn(state, kind) \/ WillShow(handler[g], kind))
      BY <2>12, <3>6 DEF Well
    <3> QED BY <3>7, <3>8, MineKept
  <2> QED BY <1>1, <1>2, <2>13, <2>14, <2>15, <2>16 DEF Inv, Kept
<1> QED BY <1>4, <1>5

(* An unchanged state keeps it. *)
LEMMA SameInv ==
  ASSUME Inv, UNCHANGED <<state, shown, handler, home, gone, torn>>
  PROVE  Inv'
BY DEF Inv, Shaped, ServerOK, Under, Kept, KeptIn, Goes, Fits, Sent

LEMMA NextInv ==
  ASSUME Inv, clicks \in 0..MaxClicks, [Next]_vars
  PROVE  Inv' /\ clicks' \in 0..MaxClicks
<1>1. CASE UNCHANGED vars
  BY <1>1, SameInv DEF vars, server
<1>2. CASE Next
  <2>1. PICK h \in Handlers :
          \/ clicks < MaxClicks /\ (Start(h) \/ ReloadPage(h)) /\ clicks' = clicks + 1
          \/ Continue(h) /\ UNCHANGED clicks
    BY <1>2 DEF Next
  <2>2. clicks' \in 0..MaxClicks
    BY <2>1, MaxClicksAssumption
  <2>3. ASSUME Start(h) PROVE Inv'
    BY <2>3, PlainStarts, TenantStarts, SelectStarts, TaxonomyStarts DEF Start
  <2>4. ASSUME Continue(h) PROVE Inv'
    BY <2>4, AnswerInv, StayPutInv, PollInv, WakeInv, FailInv DEF Continue
  <2> QED BY <2>1, <2>2, <2>3, <2>4, ReloadKeeps
<1> QED BY <1>1, <1>2

LEMMA Invariant == Spec => [](Inv /\ clicks \in 0..MaxClicks)
<1>1. Init => Inv /\ clicks \in 0..MaxClicks
  <2>1. Init => clicks \in 0..MaxClicks
    <3>1. Init => clicks = 0
      BY DEF Init
    <3>2. 0 \in 0..MaxClicks
      BY MaxClicksAssumption
    <3> QED BY <3>1, <3>2
  <2> QED BY <2>1, InitInv
<1>2. Inv /\ clicks \in 0..MaxClicks /\ [Next]_vars => (Inv /\ clicks \in 0..MaxClicks)'
  BY NextInv
<1> QED BY <1>1, <1>2, PTL DEF Spec

-------------------------------------------------------------------------------
(* Everything has its type; no handler asks for an export more often than it *)
(* may, the panes show what there is or was, what is deleted was there.      *)
THEOREM TypeCorrect == Spec => []TypeOK
<1>1. ASSUME Inv, clicks \in 0..MaxClicks PROVE TypeOK
  <2>1. \A h \in Handlers : handler[h] \in HandlerRecord
    BY <1>1, InvHandlers
  <2>2. ASSUME NEW h \in Handlers
        PROVE  /\ handler[h].todo \in Seq(SUBSET Calls) /\ \A r \in handler[h].sent : r \in RequestRecord
               /\ handler[h].rounds \in 0..(MaxPolls - 1) /\ handler[h].about \in Ids \cup {None}
    <3>1. handler[h] \in HandlerRecord
      BY <2>1
    <3>2. handler[h].sent \in SUBSET RequestRecord
      BY <3>1 DEF HandlerRecord
    <3>3. /\ handler[h].todo \in Seq(SUBSET Calls)
          /\ handler[h].rounds \in 0..(MaxPolls - 1) /\ handler[h].about \in Ids \cup {None}
      BY <3>1 DEF HandlerRecord
    <3> QED BY <3>2, <3>3
  <2>3. state \in StateRecord /\ shown \in PaneRecord /\ ServerOK /\ torn \subseteq Kinds
    BY <1>1 DEF Inv
  <2> QED BY <1>1, <2>2, <2>3 DEF TypeOK, StateRecord, PaneRecord, ServerOK
<1> QED BY <1>1, Invariant, PTL

(* What the deck and the panes show is what is selected, whenever nothing that *)
(* touches it is under way or has been torn by overlapping handlers, a failure *)
(* or a blank tenant code.                                                 *)
THEOREM ShownAsSelected == Spec => []ShownIsSelected
<1>1. ASSUME Inv PROVE ShownIsSelected
  BY <1>1, AloneShown, SelectedMeans, TouchedMeans DEF ShownIsSelected
<1> QED BY <1>1, Invariant, PTL

(* What is sent goes to the thing it comes from, unless overlapping handlers, *)
(* a failure or a blank tenant code have torn them apart.                   *)
THEOREM GoesHome == Spec => []SentGoesHome
<1>1. ASSUME Inv PROVE SentGoesHome
  BY <1>1 DEF Inv, Sent, Home, SentGoesHome
<1> QED BY <1>1, Invariant, PTL

================================================================================
