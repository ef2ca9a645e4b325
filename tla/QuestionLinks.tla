----------------------------- MODULE QuestionLinks -----------------------------
(***************************************************************************)
(* The tags and the place in the taxonomy of one question.  PUT            *)
(* /questions/:id/tags and .../taxonomy replace all link rows at once:     *)
(* deleteMany, then createMany with skipDuplicates (INSERT ... ON CONFLICT *)
(* DO NOTHING), while others replace them too, delete a tag or the         *)
(* question.                                                               *)
(*                                                                         *)
(* Postgres at READ COMMITTED: a DELETE finds the rows that are committed  *)
(* when it starts, waits for those another transaction has locked and      *)
(* skips those that are gone by then, even if an equal row has been        *)
(* inserted since; an INSERT waits for a transaction that has written a    *)
(* row with its key or deletes a row its foreign keys name.  Stages and    *)
(* grades are linked as textbooks are, with no rule of their own.          *)
(***************************************************************************)
EXTENDS Naturals, Sequences, FiniteSets

CONSTANTS
  Tags,     \* question tags
  Books,    \* textbooks (and stages and grades)
  Chapters, \* chapters
  BookOf,   \* the textbook of a chapter
  Clients,  \* requests the API is handling at the same time
  None,     \* no request, no tag
  Faults    \* {"db"}: a statement may fail

ASSUME BookOfAssumption == BookOf \in [Chapters -> Books]
ASSUME NoneAssumption == None \notin {"tags", "taxonomy", "dropTag", "dropQuestion"}
ASSUME KindsAssumption == Tags \cap (Books \cup Chapters) = {} /\ Books \cap Chapters = {}
ASSUME FiniteAssumption ==
  IsFiniteSet(Tags) /\ IsFiniteSet(Books) /\ IsFiniteSet(Chapters) /\ IsFiniteSet(Clients)

VARIABLES
  question,   \* there is a question
  tags,       \* the tags there are
  links,      \* QuestionTagging, QuestionTextbook and QuestionChapter rows, committed
  req,        \* the API's requests
  overlapped  \* history: two requests have been under way at the same time

table == <<question, tags, links>>
vars == <<table, req, overlapped>>

Targets == Tags \cup Books \cup Chapters
Ops == {"tags", "taxonomy", "dropTag", "dropQuestion"}
ReqPcs == {"idle", "find", "erase", "insert", "drop"}

(***************************************************************************)
(* want: the links asked for, in the order of the request; tag: the one to *)
(* delete; tables: link tables still to be cleared; todo: the rows left to *)
(* delete, or to insert; erased, added: rows the transaction has deleted   *)
(* and inserted, not yet committed.                                        *)
(***************************************************************************)
IdleReq == [pc |-> "idle", op |-> None, want |-> <<>>, tag |-> None, tables |-> <<>>,
            todo |-> <<>>, erased |-> {}, added |-> {}]

Busy(p) == req[p].pc # "idle"
Asked(p, k) == \E n \in DOMAIN req[p].want : req[p].want[n] = k

Init ==
  /\ question = TRUE
  /\ tags = Tags
  /\ links = {}
  /\ req = [p \in Clients |-> IdleReq]
  /\ overlapped = FALSE

(* Mutant: a handler that ends leaves its transaction open. *)
ReplyHolding(p) == req' = [req EXCEPT ![p].pc = "idle"]

(* The handler returns or throws; its transaction lets go of its locks.     *)
Reply(p) == req' = [req EXCEPT ![p] = IdleReq]

Proceed(p, pc) == req' = [req EXCEPT ![p].pc = pc]

(* All members of S in some order. *)
Lists(S) ==
  {s \in [1..Cardinality(S) -> S] : \A a, b \in DOMAIN s : s[a] = s[b] => a = b}

Begin(p, r) ==
  /\ ~Busy(p)
  /\ req' = [req EXCEPT ![p] = r]
  /\ overlapped' = (overlapped \/ \E q \in Clients \ {p} : Busy(q))
  /\ UNCHANGED table

-------------------------------------------------------------------------------
(***************************************************************************)
(* Handlers of one statement; the ids are new.                             *)
(***************************************************************************)
CreateQuestion ==
  /\ ~question
  /\ \A p \in Clients : ~Busy(p)
  /\ question' = TRUE
  /\ UNCHANGED <<tags, links, req, overlapped>>

CreateTag(t) ==
  /\ t \notin tags
  /\ \A p \in Clients : req[p].tag # t /\ ~Asked(p, t)
  /\ tags' = tags \cup {t}
  /\ UNCHANGED <<question, links, req, overlapped>>

-------------------------------------------------------------------------------
(***************************************************************************)
(* setTags and setTaxonomy.                                                *)
(***************************************************************************)
SetTags(p, want) ==
  Begin(p, [IdleReq EXCEPT !.pc = "find", !.op = "tags", !.want = want, !.tables = <<Tags>>])

(* Mutant: chapters are accepted whatever their textbooks. *)
SetTaxonomyUnchecked(p, books, chapters) ==
  Begin(p, [IdleReq EXCEPT !.pc = "find", !.op = "taxonomy", !.want = books \o chapters,
                           !.tables = <<Books, Chapters>>])

(* Mutant: the old chapters are not deleted. *)
SetTaxonomyKeepingChapters(p, books, chapters) ==
  /\ books # <<>> => \A n \in DOMAIN chapters : \E m \in DOMAIN books : books[m] = BookOf[chapters[n]]
  /\ Begin(p, [IdleReq EXCEPT !.pc = "find", !.op = "taxonomy", !.want = books \o chapters,
                              !.tables = <<Books>>])

(* The chapters asked for belong to the textbooks asked for, if any are; a  *)
(* request that says otherwise is refused.                                 *)
SetTaxonomy(p, books, chapters) ==
  /\ books # <<>> => \A n \in DOMAIN chapters : \E m \in DOMAIN books : books[m] = BookOf[chapters[n]]
  /\ Begin(p, [IdleReq EXCEPT !.pc = "find", !.op = "taxonomy", !.want = books \o chapters,
                              !.tables = <<Books, Chapters>>])

(* The transaction finds the question and all tags asked for.               *)
Find(p) ==
  /\ req[p].pc = "find"
  /\ IF question /\ \A t \in Tags : Asked(p, t) => t \in tags THEN Proceed(p, "erase") ELSE Reply(p)
  /\ UNCHANGED <<table, overlapped>>

(* The deleteMany of the next table finds its rows.                         *)
Clear(p) ==
  /\ req[p].pc = "erase" /\ req[p].todo = <<>> /\ req[p].tables # <<>>
  /\ \E s \in Lists(links \cap Head(req[p].tables)) :
       req' = [req EXCEPT ![p].todo = s, ![p].tables = Tail(@)]
  /\ UNCHANGED <<table, overlapped>>

Writes(q, k) == k \in req[q].erased \cup req[q].added

(* q has deleted the question or tag k refers to, and not committed it.     *)
Drops(q, k) ==
  /\ req[q].pc = "erase"
  /\ \/ req[q].op = "dropQuestion"
     \/ req[q].op = "dropTag" /\ req[q].tag = k

(* p waits for q to end.  A link that is inserted locks what it refers to.  *)
WaitsFor(p, q) ==
  /\ p # q
  /\ LET next == Head(req[p].todo) IN
       \/ req[p].pc = "erase" /\ req[p].todo # <<>> /\ next \in req[q].erased
       \/ req[p].pc = "insert" /\ req[p].todo # <<>> /\ (Writes(q, next) \/ Drops(q, next))
       \/ /\ req[p].pc = "drop" /\ req[p].op = "dropTag"
          /\ req[p].tag \in req[q].added \/ (Drops(q, req[p].tag) /\ req[q].op = "dropTag")
       \/ /\ req[p].pc = "drop" /\ req[p].op = "dropQuestion"
          /\ req[q].added # {} \/ (req[q].pc = "erase" /\ req[q].op = "dropQuestion")

Unhindered(p) == \A q \in Clients : ~WaitsFor(p, q)

Erase(p) ==
  /\ req[p].pc = "erase" /\ req[p].todo # <<>>
  /\ Unhindered(p)
  /\ req' = [req EXCEPT ![p].todo = Tail(@), ![p].erased = @ \cup {Head(req[p].todo)}]
  /\ UNCHANGED <<table, overlapped>>

Cleared(p) ==
  /\ req[p].pc = "erase" /\ req[p].todo = <<>> /\ req[p].tables = <<>>
  /\ req[p].op \in {"tags", "taxonomy"}
  /\ req' = [req EXCEPT ![p].pc = "insert", ![p].todo = req[p].want]
  /\ UNCHANGED <<table, overlapped>>

(* Mutant: links that were there before are not inserted. *)
InsertMissing(p) ==
  /\ req[p].pc = "insert" /\ req[p].todo # <<>>
  /\ Unhindered(p)
  /\ LET k == Head(req[p].todo) IN
       IF ~question \/ k \in Tags \ tags THEN Reply(p)
       ELSE req' = [req EXCEPT ![p].todo = Tail(@), ![p].added = IF k \in links THEN @ ELSE @ \cup {k}]
  /\ UNCHANGED <<table, overlapped>>

(* The createManys: a key that is taken is skipped; a foreign key to what   *)
(* is gone is an error.                                                    *)
Insert(p) ==
  /\ req[p].pc = "insert" /\ req[p].todo # <<>>
  /\ Unhindered(p)
  /\ LET k == Head(req[p].todo)
         taken == k \in links \ req[p].erased IN
       IF ~question \/ k \in Tags \ tags THEN Reply(p)
       ELSE req' = [req EXCEPT ![p].todo = Tail(@), ![p].added = IF taken THEN @ ELSE @ \cup {k}]
  /\ UNCHANGED <<table, overlapped>>

(* s without the members of gone. *)
Without(s, gone) ==
  LET left[n \in 0..Len(s)] ==
        IF n = 0 THEN <<>>
        ELSE IF s[n] \in gone THEN left[n - 1] ELSE Append(left[n - 1], s[n])
  IN  left[Len(s)]

(* The rows p has deleted are gone for the deleteManys under way.           *)
Commit(p) ==
  /\ req[p].todo = <<>>
  /\ req[p].pc = "insert" \/ (req[p].pc = "erase" /\ req[p].op \in {"dropTag", "dropQuestion"})
  /\ links' = (links \ req[p].erased) \cup req[p].added
  /\ tags' = IF req[p].op = "dropTag" THEN tags \ {req[p].tag} ELSE tags
  /\ question' = (question /\ req[p].op # "dropQuestion")
  /\ req' = [q \in Clients |->
               IF q = p THEN IdleReq
               ELSE IF req[q].pc = "erase" THEN [req[q] EXCEPT !.todo = Without(@, req[p].erased)]
               ELSE req[q]]
  /\ UNCHANGED overlapped

-------------------------------------------------------------------------------
(***************************************************************************)
(* DELETE /question-tags/:id and /questions/:id: the row, then its links    *)
(* (ON DELETE CASCADE).                                                    *)
(***************************************************************************)
RemoveTag(p, t) == Begin(p, [IdleReq EXCEPT !.pc = "drop", !.op = "dropTag", !.tag = t])

RemoveQuestion(p) == Begin(p, [IdleReq EXCEPT !.pc = "drop", !.op = "dropQuestion"])

(* Mutant: the foreign keys do not cascade. *)
DropOnly(p) ==
  /\ req[p].pc = "drop"
  /\ Unhindered(p)
  /\ LET there == IF req[p].op = "dropTag" THEN req[p].tag \in tags ELSE question IN
       IF there THEN Proceed(p, "erase") ELSE Reply(p)
  /\ UNCHANGED <<table, overlapped>>

Drop(p) ==
  /\ req[p].pc = "drop"
  /\ Unhindered(p)
  /\ LET there == IF req[p].op = "dropTag" THEN req[p].tag \in tags ELSE question
         mine == IF req[p].op = "dropTag" THEN {req[p].tag} ELSE Targets IN
       \/ ~there /\ Reply(p)
       \/ there /\ \E s \in Lists(links \cap mine) : req' = [req EXCEPT ![p].pc = "erase", ![p].todo = s]
  /\ UNCHANGED <<table, overlapped>>

(* p is one of some that wait for each other in a circle.                   *)
InCircle(p) ==
  \E circle \in SUBSET Clients :
    /\ p \in circle
    /\ \A q \in circle : \E r \in circle : WaitsFor(q, r)
    /\ \A r \in circle : \E q \in circle : WaitsFor(q, r)

(* Postgres aborts one of the transactions that wait in a circle.           *)
Deadlock(p) ==
  /\ InCircle(p)
  /\ Reply(p)
  /\ UNCHANGED <<table, overlapped>>

(* A statement fails: the handler throws, its transaction is rolled back.   *)
StatementFails(p) ==
  /\ "db" \in Faults
  /\ Busy(p)
  /\ Reply(p)
  /\ UNCHANGED <<table, overlapped>>

-------------------------------------------------------------------------------
Wants(S) == UNION {Lists(T) : T \in SUBSET S}

Start(p) ==
  \/ \E want \in Wants(Tags) : SetTags(p, want)
  \/ \E books \in Wants(Books), chapters \in Wants(Chapters) : SetTaxonomy(p, books, chapters)
  \/ \E t \in tags : RemoveTag(p, t)
  \/ question /\ RemoveQuestion(p)

Continue(p) ==
  \/ Find(p) \/ Clear(p) \/ Erase(p) \/ Cleared(p) \/ Insert(p)
  \/ Drop(p) \/ Commit(p) \/ Deadlock(p)

Next ==
  \/ CreateQuestion
  \/ \E t \in Tags : CreateTag(t)
  \/ \E p \in Clients : Start(p) \/ Continue(p) \/ StatementFails(p)

Spec == Init /\ [][Next]_vars

-------------------------------------------------------------------------------
(***************************************************************************)
(* Properties.                                                             *)
(***************************************************************************)

ReqRecord == [pc : ReqPcs, op : Ops \cup {None}, want : Seq(Targets), tag : Tags \cup {None},
              tables : Seq(SUBSET Targets), todo : Seq(Targets), erased : SUBSET Targets, added : SUBSET Targets]

(* Every variable has its type, and every link refers to what there is.     *)
TypeOK ==
  /\ question \in BOOLEAN
  /\ tags \subseteq Tags
  /\ links \subseteq tags \cup Books \cup Chapters
  /\ links # {} => question
  /\ req \in [Clients -> ReqRecord]
  /\ overlapped \in BOOLEAN

(* As long as no two requests have overlapped, a question that has           *)
(* textbooks has only chapters of theirs.                                   *)
ChaptersFit ==
  ~overlapped /\ links \cap Books # {} => \A c \in links \cap Chapters : BookOf[c] \in links

(* ... and what setTags or setTaxonomy leaves is what it was asked for, or   *)
(* what was there before.                                                  *)
ReplacesAll ==
  [][~overlapped /\ links' # links =>
       \A p \in Clients : Busy(p) =>
         /\ req[p].op = "tags" => links' = (links \ Tags) \cup {k \in Targets : Asked(p, k)}
         /\ req[p].op = "taxonomy" => links' = (links \cap Tags) \cup {k \in Targets : Asked(p, k)}]_vars

(* Whatever overlaps, a link comes only from a request that asks for it, and *)
(* goes only with one that ends without asking for it: a tag that all        *)
(* requests want is never lost between their deletes and inserts.           *)
LinksChangeAsAsked ==
  [][\A k \in Targets :
       (k \in links) # (k \in links') =>
         \E p \in Clients : Busy(p) /\ ~Busy(p)' /\ (k \in links' <=> Asked(p, k))]_vars

(* A request can go on: nobody holds what it needs next, or it is one that   *)
(* Postgres may abort.                                                      *)
Ready(p) == Busy(p) /\ (Unhindered(p) \/ InCircle(p))

(* Nobody waits for ever: while requests are under way one of them can go    *)
(* on, in whatever order they name and lock the same rows; nobody waits for  *)
(* a transaction that is over.                                              *)
NobodyIsStuck == (\E p \in Clients : Busy(p)) => \E p \in Clients : Ready(p)
================================================================================
