------------------------------ MODULE AdminConsole ------------------------------
(***************************************************************************)
(* The operator's console, public/admin/app.js: one page, many handlers.    *)
(* A handler runs from one await to the next; between them other clicks     *)
(* start handlers, which read and write the same state object and the same  *)
(* panes.  Requests name what is selected when they are sent; what they     *)
(* carry comes from what the panes show.                                   *)
(*                                                                         *)
(* A handler is what it still has to do: groups of calls, those of a group  *)
(* sent together (Promise.all).  The server has dealt with a request when   *)
(* it is sent; its answer comes later, in any order, or never.             *)
(*                                                                         *)
(* Left out: the token, which once there stays, layout elements, assets and *)
(* audit logs (calls that change nothing modelled here), and the options of *)
(* the taxonomy lists.                                                     *)
(***************************************************************************)
EXTENDS Naturals, Sequences, FiniteSets

CONSTANTS
  Tenants, Questions, Documents, Jobs,
  Rows,     \* the server's rows at first: ids with their tenants
  Handlers, \* handlers that run at the same time
  MaxPolls, \* how often an export is asked for
  MaxClicks, \* bound: clicks, reloads of the page included
  None      \* nothing selected, nothing shown, a blank tenant code

ASSUME RowsAssumption == \E ids \in SUBSET (Questions \cup Documents) : Rows \in [ids -> Tenants]
ASSUME MaxPollsAssumption == MaxPolls \in Nat \ {0}
ASSUME MaxClicksAssumption == MaxClicks \in Nat

Ids == Questions \cup Documents \cup Jobs

VARIABLES
  state,   \* the object of that name: what is selected
  shown,   \* what the panes are about
  handler, \* what runs
  home,    \* the server's rows: their tenant; None for ids still to come
  gone,    \* documents that have been deleted
  torn,    \* history: what failures, overlaps and a blank tenant code may have torn apart
  clicks   \* history: their number

server == <<home, gone>>
vars == <<state, shown, handler, server, torn, clicks>>

-------------------------------------------------------------------------------
(***************************************************************************)
(* Calls.  Links are the question form's tags and taxonomy: the lists they  *)
(* are marked in are built anew, with nothing marked, by "taxonomy".        *)
(***************************************************************************)
QuestionCalls == {"questions", "showQuestion", "createQuestion", "save", "saveLinks"}
DocumentCalls == {"documents", "showDocument", "createDocument", "rename", "delete", "addItem",
                  "readItems", "reorder", "removeItem"}
ExportCalls == {"export", "poll", "download"}
TenantCalls == {"join", "createTenant"}
Calls == QuestionCalls \cup DocumentCalls \cup ExportCalls \cup TenantCalls \cup {"health", "taxonomy", "change"}

Kinds == {"tenant", "question", "links", "document", "export"}

ASSUME NoneAssumption == None \notin Tenants \cup Ids \cup Kinds

(* The kinds of things a call selects or shows. *)
Touches(call) ==
  UNION {IF call \in QuestionCalls THEN {"question", "links"} ELSE {},
         IF call = "taxonomy" THEN {"links"} ELSE {},
         IF call \in DocumentCalls THEN {"document"} ELSE {},
         IF call \in ExportCalls \cup {"delete"} THEN {"export"} ELSE {},
         IF call \in TenantCalls THEN {"tenant"} ELSE {}}

Script(todo) == UNION {UNION {Touches(call) : call \in todo[n]} : n \in DOMAIN todo}

Busy(h) == handler[h].todo # <<>> \/ handler[h].sent # {}

TouchedBy(h) == Script(handler[h].todo) \cup UNION {Touches(r.call) : r \in handler[h].sent}

(* What is acted on. *)
SelectedIn(st, kind) == IF kind = "links" THEN st.question ELSE st[kind]
Selected(kind) == SelectedIn(state, kind)

IdleHandler == [todo |-> <<>>, sent |-> {}, rounds |-> 0, about |-> None]

NothingShown == [kind \in Kinds |-> None]

-------------------------------------------------------------------------------
(***************************************************************************)
(* Sending.                                                                *)
(***************************************************************************)
Exists(id, tenant) == id \in Ids /\ tenant # None /\ home[id] = tenant /\ id \notin gone

Subject(call) ==
  CASE call \in {"save", "saveLinks", "showQuestion"} -> "question"
    [] call \in {"showDocument", "rename", "delete", "addItem", "readItems", "reorder", "removeItem"} -> "document"
    [] call \in {"poll", "download"} -> "export"
    [] OTHER -> None

(* The pane what is sent comes from; reorder sends what readItems has read. *)
Source(call) ==
  CASE call = "save" -> "question"
    [] call = "saveLinks" -> "links"
    [] call \in {"rename", "delete", "removeItem"} -> "document"
    [] call = "download" -> "export"
    [] OTHER -> None

Fresh(call) ==
  {id \in (CASE call = "createQuestion" -> Questions [] call = "createDocument" -> Documents
             [] call = "export" -> Jobs [] OTHER -> {}) : home[id] = None}

(* A request; the server accepts it (ok) if it knows what it names, and a   *)
(* blank tenant is unknown to it.  Lists carry what there is by then.       *)
Request(st, call, about, new) ==
  LET id == IF Subject(call) # None THEN st[Subject(call)] ELSE new
      from == CASE Source(call) # None -> shown[Source(call)]
                [] call \in {"reorder", "export"} -> about
                [] OTHER -> id
  IN [call |-> call, tenant |-> st.tenant, id |-> id, from |-> from,
      listed |-> IF call \in {"questions", "documents"} THEN {i \in Ids : Exists(i, st.tenant)} ELSE {},
      ok |-> /\ call # "health" => st.tenant # None
             /\ Subject(call) # None => Exists(id, st.tenant)
             /\ call \in {"createQuestion", "createDocument", "export"} => new # None
             /\ call \in {"reorder", "removeItem"} => from = id
             /\ call = "export" => Exists(about, st.tenant)]

(* Calls that return before they send anything: nobody has joined a tenant,  *)
(* or nothing is selected.                                                  *)
Silent(st, call) ==
  \/ call \in {"questions", "documents", "taxonomy", "showQuestion", "showDocument"} /\ st.tenant = None
  \/ call = "showQuestion" /\ st.question = None
  \/ call = "showDocument" /\ st.document = None

(* refreshAll: the state of the server, which may fail; then, if a tenant    *)
(* has been joined, the lists and what is selected of them.                 *)
Lists == {"questions", "documents", "taxonomy"}
Refresh == <<{"health"}, Lists, {"showDocument"}, {"showQuestion"}>>

LeftToDo(st, todo) == IF todo # <<>> /\ Head(todo) = Lists /\ st.tenant = None THEN <<>> ELSE todo

(***************************************************************************)
(* Of the handlers hs, h goes on in state st with panes pa: up to the first *)
(* group that sends something.  Showing nothing is done at once; it tears   *)
(* apart (harm: what else does) what is selected under a blank tenant.      *)
(***************************************************************************)
GoOn(hs, h, st, pa, script, about, rounds, harm) ==
  LET todo == LeftToDo(st, script)
      loud == {n \in DOMAIN todo : \E call \in todo[n] : ~Silent(st, call)}
      stop == IF loud = {} THEN Len(todo) ELSE CHOOSE n \in loud : \A k \in loud : n <= k
      group == IF loud = {} THEN {} ELSE {call \in todo[stop] : ~Silent(st, call)}
      silent == UNION {{call \in todo[n] : Silent(st, call)} : n \in 1..stop}
      cleared == UNION {Touches(call) : call \in silent \cap {"showQuestion", "showDocument"}}
      news == UNION {Fresh(call) : call \in group}
  IN \E new \in IF news = {} THEN {None} ELSE news :
       LET sent == {Request(st, call, about, new) : call \in group} IN
         /\ state' = st
         /\ shown' = [kind \in Kinds |-> IF kind \in cleared THEN None ELSE pa[kind]]
         /\ torn' = harm \cup {kind \in cleared : SelectedIn(st, kind) # None}
         /\ handler' = [hs EXCEPT ![h] =
              IF group = {} THEN IdleHandler
              ELSE [todo |-> SubSeq(todo, stop + 1, Len(todo)), sent |-> sent, rounds |-> rounds, about |-> about]]
         /\ home' = [id \in Ids |-> IF id = new /\ \E r \in sent : r.ok THEN st.tenant ELSE home[id]]
         /\ gone' = gone \cup {r.id : r \in {q \in sent : q.call = "delete" /\ q.ok}}

TouchedByOthers(h) == UNION {TouchedBy(g) : g \in Handlers \ {h}}

(* A click tears what other handlers are about to touch as well; all they     *)
(* touch when the tenant code is blank, for they read it too.               *)
Overlap(h, st, todo) == IF st.tenant = None THEN TouchedByOthers(h) ELSE Script(todo) \cap TouchedByOthers(h)

(* A click starts a handler, which has set st and pa.                       *)
Run(h, st, pa, todo, about) ==
  /\ ~Busy(h)
  /\ GoOn(handler, h, st, pa, todo, about, 0, torn \cup Overlap(h, st, todo))

Click(h, st, todo, about) == Run(h, st, shown, todo, about)

(* persistState and syncInputs: all of state goes to localStorage and to the *)
(* deck.                                                                   *)
Synced == [shown EXCEPT !.tenant = state.tenant]

(* The kinds in which the page shows nothing of what is selected. *)
Untold(st) == {kind \in {"question", "links", "document"} : SelectedIn(st, kind) # None}

(* The page is loaded, with what localStorage holds of an earlier visit; if  *)
(* it holds a tenant, all is read again.                                    *)
Init ==
  /\ home = [id \in Ids |-> IF id \in DOMAIN Rows THEN Rows[id] ELSE None]
  /\ gone = {}
  /\ state \in [tenant : Tenants \cup {None}, question : (Questions \cap DOMAIN Rows) \cup {None},
               document : (Documents \cap DOMAIN Rows) \cup {None}, export : {None}]
  /\ shown = [NothingShown EXCEPT !.tenant = state.tenant]
  /\ LET refreshing == [todo |-> Tail(Refresh), sent |-> {Request(state, "health", None, None)},
                        rounds |-> 0, about |-> None] IN
       \E g \in Handlers :
         handler = [h \in Handlers |-> IF h = g /\ state.tenant # None THEN refreshing ELSE IdleHandler]
  /\ torn = IF state.tenant = None THEN Untold(state) ELSE {}
  /\ clicks = 0

-------------------------------------------------------------------------------
(***************************************************************************)
(* Clicks.                                                                 *)
(***************************************************************************)
(* The tenant is in state before the server has been asked; the field it is  *)
(* read from may be blank.                                                  *)
JoinTenant(h) ==
  \E t \in Tenants \cup {None} : Click(h, [state EXCEPT !.tenant = t], <<{"join"}>> \o Refresh, None)

CreateTenant(h) ==
  \E t \in Tenants \cup {None} : Click(h, [state EXCEPT !.tenant = t], <<{"createTenant"}>>, None)

(* A registration or login has been answered, or a layout element selected.  *)
Sync(h) == Run(h, state, Synced, <<>>, None)

Load(h) ==
  \E todo \in {Refresh, <<{"questions"}>>, <<{"documents"}>>, <<{"showDocument"}>>, <<{"showQuestion"}>>} :
    Click(h, state, todo, None)

(* Mutant: what has been created is selected, not shown. *)
CreateQuestionOnly(h) == Click(h, state, <<{"createQuestion"}, {"questions"}>>, None)

CreateQuestion(h) == Click(h, state, <<{"createQuestion"}, {"questions"}, {"showQuestion"}>>, None)

CreateDocument(h) == Click(h, state, <<{"createDocument"}, {"documents"}, {"showDocument"}>>, None)

(* What is clicked has been listed, for whatever tenant.                    *)
SelectQuestion(h) ==
  \E q \in Questions :
    /\ home[q] # None
    /\ Run(h, [state EXCEPT !.question = q], Synced, <<{"questions"}, {"showQuestion"}>>, None)

(* Select, or select and export.                                            *)
SelectDocument(h) ==
  \E d \in Documents, export \in {<<>>, <<{"export"}, {"poll"}>>} :
    /\ home[d] # None
    /\ Run(h, [state EXCEPT !.document = d], Synced, <<{"documents"}, {"showDocument"}>> \o export, d)

(* Basics, content, explanation, source, answer; tags and taxonomy.         *)
SaveQuestion(h) ==
  /\ state.question # None
  /\ \E save \in {"save", "saveLinks"}, list \in {<<>>, <<{"questions"}>>} :
       Click(h, state, <<{save}>> \o list \o <<{"showQuestion"}>>, None)

AddItem(h) ==
  /\ state.document # None /\ state.question # None
  /\ Click(h, state, <<{"addItem"}, {"showDocument"}>>, None)

(* Prompt and confirmation name the document that is shown.                 *)
RenameDocument(h) ==
  /\ state.document # None
  /\ Click(h, state, <<{"rename"}, {"documents"}, {"showDocument"}>>, None)

DeleteDocument(h) ==
  /\ state.document # None
  /\ Click(h, state, <<{"delete"}, {"documents"}, {"showDocument"}>>, None)

(* An item of the document that is shown is moved in the one selected.      *)
MoveItem(h) ==
  /\ state.document # None /\ shown.document # None
  /\ Click(h, state, <<{"readItems"}, {"reorder"}, {"showDocument"}, {"documents"}>>, shown.document)

RemoveItem(h) ==
  /\ state.document # None /\ shown.document # None
  /\ Click(h, state, <<{"removeItem"}, {"showDocument"}, {"documents"}>>, None)

ExportSelected(h) ==
  /\ state.document # None
  /\ Click(h, state, <<{"export"}, {"poll"}>>, state.document)

Download(h) ==
  /\ state.export # None
  /\ Click(h, state, <<{"download"}>>, None)

(* Stages, grades, textbooks, chapters and tags are created, or just read    *)
(* again: the question form is left with nothing marked.                    *)
ReloadTaxonomy(h) ==
  \E change \in {<<>>, <<{"change"}>>} :
    /\ ~Busy(h)
    /\ GoOn(handler, h, state, shown, change \o <<{"taxonomy"}>>, None, 0, torn \cup {"links"})

(* Mutant: the question is not shown again. *)
DeleteTagOnly(h) == Click(h, state, <<{"change"}, {"taxonomy"}, {"questions"}>>, None)

DeleteTag(h) == Click(h, state, <<{"change"}, {"taxonomy"}, {"showQuestion"}, {"questions"}>>, None)

-------------------------------------------------------------------------------
(***************************************************************************)
(* Answers.                                                                *)
(***************************************************************************)

(* The outcomes of an answer: what state and the panes are then.            *)
Same == {<<state, shown>>}

Panes(kind) == IF kind = "question" THEN {"question", "links"} ELSE {kind}

Show(kind, id) == [k \in Kinds |-> IF k \in Panes(kind) THEN id ELSE shown[k]]

Select(kind, id) == <<[state EXCEPT ![kind] = id], Synced>>

(* Mutant: the pane keeps what it shows. *)
DeselectOnly(kind) == Select(kind, None)

Deselect(kind) == <<[state EXCEPT ![kind] = None], [Show(kind, None) EXCEPT !.tenant = state.tenant]>>

(* A list clears what is selected and not on its page; pages and filters may *)
(* leave out what there is.                                                 *)
List(kind, r) ==
  (IF state[kind] \in r.listed \cup {None} THEN Same ELSE {})
  \cup (IF state[kind] # None THEN {Deselect(kind)} ELSE {})

(* The document is gone, and with it the export that was followed.          *)
Deleted ==
  {<<[state EXCEPT !.document = None, !.export = None],
     [Synced EXCEPT !.export = None]>>}

Outcomes(r) ==
  CASE r.call = "questions" -> List("question", r)
    [] r.call = "documents" -> List("document", r)
    [] r.call = "showQuestion" -> {<<state, Show("question", r.id)>>}
    [] r.call = "showDocument" -> {<<state, Show("document", r.id)>>}
    [] r.call = "taxonomy" -> {<<state, Show("links", None)>>}
    [] r.call = "createQuestion" -> {Select("question", r.id)}
    [] r.call = "createDocument" -> {Select("document", r.id)}
    [] r.call = "delete" -> Deleted
    [] r.call = "export" -> {<<[state EXCEPT !.export = r.id], Show("export", r.id)>>}
    [] r.call \in TenantCalls -> {<<state, Synced>>}
    [] OTHER -> Same

Without(h, r) == [handler EXCEPT ![h].sent = @ \ {r}]

(* What is torn is whole again when an answer shows what is selected and     *)
(* nothing else is under way that touches it.                               *)
Whole(h, r) ==
  LET kinds == CASE r.call = "showQuestion" /\ r.id = state.question -> {"question", "links"}
                 [] r.call = "showDocument" /\ r.id = state.document -> {"document"}
                 [] r.call = "poll" /\ r.id = state.export -> {"export"}
                 [] r.call \in TenantCalls /\ r.tenant = state.tenant -> {"tenant"}
                 [] OTHER -> {}
      rest == Script(handler[h].todo) \cup UNION {Touches(q.call) : q \in handler[h].sent \ {r}}
  IN kinds \ (rest \cup TouchedByOthers(h))

Answer(h) ==
  \E r \in handler[h].sent :
    /\ r.ok /\ r.call # "poll"
    /\ r.call = "readItems" => r.id = handler[h].about
    /\ \E outcome \in Outcomes(r) :
         IF handler[h].sent = {r} THEN
           GoOn(handler, h, outcome[1], outcome[2], handler[h].todo, handler[h].about, 0, torn \ Whole(h, r))
         ELSE
           /\ state' = outcome[1] /\ shown' = outcome[2]
           /\ handler' = Without(h, r)
           /\ torn' = torn \ Whole(h, r)
           /\ UNCHANGED server

(* The item is not among those read, or at the end already.                 *)
StayPut(h) ==
  /\ \E r \in handler[h].sent : r.ok /\ r.call = "readItems"
  /\ handler' = [handler EXCEPT ![h] = IdleHandler]
  /\ UNCHANGED <<state, shown, server, torn>>

(* Mutant: the rounds are not counted to the end. *)
PollForever(h) ==
  \E r \in handler[h].sent :
    /\ r.ok /\ r.call = "poll"
    /\ shown' = Show("export", r.id)
    /\ handler' = [handler EXCEPT ![h] = [handler[h] EXCEPT !.todo = <<{"poll"}>>, !.sent = {}, !.rounds = @ + 1]]
    /\ torn' = torn \ Whole(h, r)
    /\ UNCHANGED <<state, server>>

(* The status of the job is shown; until it is final the handler sleeps and  *)
(* asks again, so many times.                                               *)
PollAnswer(h) ==
  \E r \in handler[h].sent :
    /\ r.ok /\ r.call = "poll"
    /\ shown' = Show("export", r.id)
    /\ \/ handler' = [handler EXCEPT ![h] = IdleHandler]
       \/ /\ handler[h].rounds + 1 < MaxPolls
          /\ handler' = [handler EXCEPT ![h] = [handler[h] EXCEPT !.todo = <<{"poll"}>>, !.sent = {}, !.rounds = @ + 1]]
    /\ torn' = torn \ Whole(h, r)
    /\ UNCHANGED <<state, server>>

(* The job asked for is the one in state by now.                            *)
Wake(h) ==
  /\ handler[h].sent = {} /\ handler[h].todo # <<>>
  /\ GoOn(handler, h, state, shown, handler[h].todo, handler[h].about, handler[h].rounds, torn)

(* The server refuses, or the answer is lost: the handler ends with an       *)
(* unhandled rejection, while the rest of its group goes on.  refreshHealth  *)
(* catches its own.                                                        *)
Fail(h) ==
  \E r \in {q \in handler[h].sent : q.call # "health"} :
    /\ handler' = [handler EXCEPT ![h] = [IdleHandler EXCEPT !.sent = handler[h].sent \ {r}]]
    /\ torn' = torn \cup TouchedBy(h)
    /\ UNCHANGED <<state, shown, server>>

(* The page is loaded again, from what localStorage holds.                  *)
ReloadPage(h) ==
  GoOn([g \in Handlers |-> IdleHandler], h,
       [state EXCEPT !.tenant = shown.tenant, !.export = None],
       [NothingShown EXCEPT !.tenant = shown.tenant],
       IF shown.tenant = None THEN <<>> ELSE Refresh, None, 0,
       IF shown.tenant = None THEN Untold(state) ELSE {})

-------------------------------------------------------------------------------
Start(h) ==
  \/ JoinTenant(h) \/ CreateTenant(h) \/ Sync(h) \/ Load(h) \/ CreateQuestion(h) \/ CreateDocument(h)
  \/ SelectQuestion(h) \/ SelectDocument(h) \/ SaveQuestion(h) \/ AddItem(h)
  \/ RenameDocument(h) \/ DeleteDocument(h) \/ MoveItem(h) \/ RemoveItem(h)
  \/ ExportSelected(h) \/ Download(h) \/ ReloadTaxonomy(h) \/ DeleteTag(h)

Continue(h) == Answer(h) \/ StayPut(h) \/ PollAnswer(h) \/ Wake(h) \/ Fail(h)

Next ==
  \E h \in Handlers :
    \/ clicks < MaxClicks /\ (Start(h) \/ ReloadPage(h)) /\ clicks' = clicks + 1
    \/ Continue(h) /\ UNCHANGED clicks

Spec == Init /\ [][Next]_vars

-------------------------------------------------------------------------------
(***************************************************************************)
(* Properties.                                                             *)
(***************************************************************************)
RequestRecord == [call : Calls, tenant : Tenants \cup {None}, id : Ids \cup {None},
                  from : Ids \cup {None}, listed : SUBSET Ids, ok : BOOLEAN]

(* Every variable has its type; the panes show what there is or was; no       *)
(* handler asks for an export more often than it may.                       *)
TypeOK ==
  /\ state \in [tenant : Tenants \cup {None}, question : Questions \cup {None},
                document : Documents \cup {None}, export : Jobs \cup {None}]
  /\ shown \in [tenant : Tenants \cup {None}, question : Questions \cup {None}, links : Questions \cup {None},
                document : Documents \cup {None}, export : Jobs \cup {None}]
  /\ \A h \in Handlers :
       /\ handler[h].todo \in Seq(SUBSET Calls) /\ \A r \in handler[h].sent : r \in RequestRecord
       /\ handler[h].rounds \in 0..(MaxPolls - 1) /\ handler[h].about \in Ids \cup {None}
  /\ home \in [Ids -> Tenants \cup {None}]
  /\ gone \subseteq {d \in Documents : home[d] # None}
  /\ torn \subseteq Kinds
  /\ clicks \in 0..MaxClicks

(* What the deck and the panes show is what is selected, whenever nothing    *)
(* that touches it is under way or has been torn: after any sequence of      *)
(* clicks on any tenants, and again after one undisturbed refresh.  Reading  *)
(* the taxonomy again by itself tears the question form's links; under a     *)
(* blank tenant code what is selected is not shown.                         *)
ShownIsSelected ==
  \A kind \in Kinds \ torn :
    (\A h \in Handlers : kind \notin TouchedBy(h)) => shown[kind] = Selected(kind)

(* What is sent goes to the thing it comes from: a form to the question it   *)
(* was filled from, an order to the document it was read of, a confirmed     *)
(* deletion to the document it named, a download to the job whose status is   *)
(* shown; unless overlapping handlers, a failure or a blank tenant code have *)
(* torn them apart.                                                         *)
SentGoesHome ==
  \A h \in Handlers : \A r \in handler[h].sent :
    r.from # r.id /\ r.call # "export" => torn \cap Touches(r.call) # {}
=================================================================================
