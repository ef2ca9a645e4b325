------------------------- MODULE TenantMembers_proofs -------------------------
(***************************************************************************)
(* Theorems about TenantMembers, for any users, row ids and requests.      *)
(***************************************************************************)
EXTENDS TenantMembers, FiniteSetTheorems, TLAPS

-------------------------------------------------------------------------------
(* Type correctness.  It needs to know what a request holds where it is.    *)

JoinPcs == {"joinRead", "joinAuthorize", "upsert", "upsertUpdate", "upsertInsert", "joinFallback"}

RowPcs == {"find", "count", "write"}

Answers == {"none", "ok", "denied", "missing", "lastOwner", "error"}

(* A join asks for a role and a status, the others found a row by its id;   *)
(* only owners change roles and grant more than member.                    *)
Shape(r) ==
  /\ r \in ReqRecord
  /\ r.pc = "idle" => r.op = None
  /\ r.pc # "idle" => r.actor \in Users /\ r.target \in Users
  /\ r.pc \in JoinPcs => r.op \in {"join", "invite"} /\ r.role \in Roles /\ r.status \in Statuses
  /\ r.pc \in RowPcs => r.op \in {"role", "status", "resend", "remove"} /\ r.id \in Ids
  /\ r.pc = "upsertUpdate" => r.id \in Ids
  /\ r.op = "role" => r.role \in Roles /\ r.was = "owner"
  /\ r.op = "status" => r.status \in Statuses
  /\ r.op = "invite" /\ r.pc # "joinAuthorize" /\ r.role # "member" => r.was = "owner"

Shapes == \A p \in Clients : Shape(req[p])

TypeInv == TableOK /\ req \in [Clients -> ReqRecord] /\ Shapes

(* A step of a request replaces its record and leaves the others alone. *)
LEMMA ReplacedShape ==
  ASSUME TypeInv, NEW p \in Clients, NEW r, Shape(r), req' = [req EXCEPT ![p] = r]
  PROVE  req' \in [Clients -> ReqRecord] /\ Shapes'
BY DEF TypeInv, Shapes, Shape

LEMMA ReplyShape ==
  ASSUME TypeInv, NEW p \in Clients, NEW a \in Answers, Reply(p, a)
  PROVE  req' \in [Clients -> ReqRecord] /\ Shapes'
<1>1. Shape([IdleReq EXCEPT !.reply = a])
  BY NoneAssumption DEF Shape, IdleReq, ReqRecord, ReqPcs, AllOps, Answers, JoinPcs, RowPcs
<1> QED BY <1>1, ReplacedShape DEF Reply

LEMMA ProceedShape ==
  ASSUME TypeInv, NEW p \in Clients, NEW pc \in ReqPcs \ {"idle", "upsertUpdate", "joinAuthorize"},
         \/ req[p].pc \in JoinPcs \ {"joinAuthorize"} /\ pc \in JoinPcs
         \/ req[p].pc \in RowPcs /\ pc \in RowPcs,
         Proceed(p, pc)
  PROVE  req' \in [Clients -> ReqRecord] /\ Shapes'
<1>1. Shape(req[p])
  BY DEF TypeInv, Shapes
<1>2. Shape([req[p] EXCEPT !.pc = pc])
  BY <1>1 DEF Shape, ReqRecord, ReqPcs, JoinPcs, RowPcs
<1>3. req' = [req EXCEPT ![p] = [req[p] EXCEPT !.pc = pc]]
  BY DEF Proceed, TypeInv
<1> QED BY <1>2, <1>3, ReplacedShape

LEMMA InitType == Init => TypeInv
BY NoneAssumption
DEF Init, TypeInv, TableOK, Shapes, Shape, IdleReq, ReqRecord, ReqPcs, AllOps, Roles,
    Statuses, JoinPcs, RowPcs

LEMMA StartType ==
  ASSUME TypeInv, NEW p \in Clients, Start(p)
  PROVE  TypeInv'
<1>0. UNCHANGED table /\ \E r : Shape(r) /\ req' = [req EXCEPT ![p] = r]
  <2>1. PICK u \in Users :
          \/ \E r \in Roles : Join(p, u, r)
          \/ \E v \in Users :
               \/ \E r \in Roles, st \in {"active", "invited"} : JoinNamed(p, u, v, r, st)
               \/ \E r \in Roles : UpdateRole(p, u, v, r)
               \/ \E st \in {"active", "disabled"} : UpdateStatus(p, u, v, st)
               \/ ResendInvite(p, u, v)
               \/ Remove(p, u, v)
    BY DEF Start
  <2>2. CASE \E r \in Roles : Join(p, u, r)
    <3>1. PICK r \in Roles : Join(p, u, r)
      BY <2>2
    <3>2. \A e \in BOOLEAN : Shape([IdleReq EXCEPT !.pc = "joinRead", !.op = "join",
                !.actor = u, !.target = u, !.role = r, !.status = "active", !.empty = e])
      BY NoneAssumption, ZenonT(60) DEF Shape, IdleReq, ReqRecord, ReqPcs, AllOps, Roles, Statuses, JoinPcs, RowPcs
    <3>3. PICK e \in BOOLEAN : req' = [req EXCEPT ![p] = [IdleReq EXCEPT !.pc = "joinRead",
                !.op = "join", !.actor = u, !.target = u, !.role = r, !.status = "active", !.empty = e]]
      BY <3>1 DEF Join
    <3> QED BY <3>1, <3>2, <3>3 DEF Join
  <2>3. ASSUME NEW v \in Users, NEW r \in Roles, NEW st \in {"active", "invited"},
               JoinNamed(p, u, v, r, st)
        PROVE  UNCHANGED table /\ \E x : Shape(x) /\ req' = [req EXCEPT ![p] = x]
    <3>1. Shape([IdleReq EXCEPT !.pc = "joinAuthorize", !.op = "invite",
                !.actor = u, !.target = v, !.role = r, !.status = st])
      BY NoneAssumption DEF Shape, IdleReq, ReqRecord, ReqPcs, AllOps, Roles, Statuses, JoinPcs, RowPcs
    <3> QED BY <2>3, <3>1 DEF JoinNamed
  <2>4. ASSUME NEW v \in Users, NEW op \in {"role", "status", "resend", "remove"},
               NEW r \in Roles \cup {None}, NEW st \in Statuses \cup {None},
               Begin(p, op, u, v, r, st),
               op = "role" => r \in Roles /\ role[u] = "owner",
               op = "status" => st \in Statuses
        PROVE  UNCHANGED table /\ \E x : Shape(x) /\ req' = [req EXCEPT ![p] = x]
    <3>1. row[v] \in Ids /\ role[u] \in Roles \cup {None}
      BY <2>4 DEF Begin, TypeInv, TableOK

    <3>2. \A w \in Roles \cup {None}, i \in Ids :
            (op = "role" => w = "owner") =>
              Shape([IdleReq EXCEPT !.pc = "find", !.op = op, !.actor = u, !.was = w,
                                    !.target = v, !.id = i, !.role = r, !.status = st])
      <4> TAKE w \in Roles \cup {None}, i \in Ids
      <4> HAVE op = "role" => w = "owner"
      <4> DEFINE new == [IdleReq EXCEPT !.pc = "find", !.op = op, !.actor = u, !.was = w,
                                        !.target = v, !.id = i, !.role = r, !.status = st]
      <4>1. /\ new.pc = "find" /\ new.op = op /\ new.actor = u /\ new.target = v /\ new.id = i
            /\ new.role = r /\ new.status = st /\ new.was = w
        BY DEF IdleReq
      <4>2. new \in ReqRecord
        BY DEF IdleReq, ReqRecord, ReqPcs, AllOps
      <4> HIDE DEF new
      <4>3. Shape(new)
        BY <2>4, <4>1, <4>2, NoneAssumption DEF Shape, AllOps, JoinPcs, RowPcs
      <4> QED BY <4>3 DEF new
    <3> QED BY <2>4, <3>1, <3>2 DEF Begin
  <2>5. CASE \E v \in Users, r \in Roles : UpdateRole(p, u, v, r)
    BY <2>4, <2>5 DEF UpdateRole
  <2>6. CASE \E v \in Users, st \in {"active", "disabled"} : UpdateStatus(p, u, v, st)
    BY <2>4, <2>6 DEF UpdateStatus, Statuses
  <2>7. CASE \E v \in Users : ResendInvite(p, u, v) \/ Remove(p, u, v)
    BY <2>4, <2>7 DEF ResendInvite, Remove
  <2> QED BY <2>1, <2>2, <2>3, <2>5, <2>6, <2>7
<1> QED BY <1>0, ReplacedShape DEF TypeInv, TableOK, table

LEMMA FindType ==
  ASSUME TypeInv, NEW p \in Clients, NEW op, NEW denied, NEW counts, Find(p, op, denied, counts)
  PROVE  TypeInv'
BY ReplyShape, ProceedShape
DEF Find, TypeInv, TableOK, table, RowPcs, ReqPcs, Answers

LEMMA ContinueType ==
  ASSUME TypeInv, NEW p \in Clients, Continue(p)
  PROVE  TypeInv'
<1>0. Shape(req[p])
  BY DEF TypeInv, Shapes
<1>1. CASE JoinRead(p)
  BY <1>1, ReplyShape, ProceedShape
  DEF JoinRead, TypeInv, TableOK, table, JoinPcs, ReqPcs, Answers
<1>2. CASE JoinAuthorize(p)
  <2>1. CASE Reply(p, "denied")
    BY <1>2, <2>1, ReplyShape DEF JoinAuthorize, TypeInv, TableOK, table, Answers
  <2>2. CASE ~Reply(p, "denied")
    <3> DEFINE new == [req[p] EXCEPT !.pc = "upsert", !.was = role[req[p].actor]]
    <3>1. /\ req' = [req EXCEPT ![p] = new]
          /\ role[req[p].actor] \in Roles
          /\ role[req[p].actor] = "owner" \/ req[p].role = "member"
      BY <1>2, <2>2, <1>0 DEF JoinAuthorize, TypeInv, Roles
    <3>2. Shape(new)
      BY <1>0, <1>2, <3>1 DEF Shape, ReqRecord, ReqPcs, JoinPcs, RowPcs, JoinAuthorize
    <3> QED BY <1>2, <3>1, <3>2, ReplacedShape DEF JoinAuthorize, TypeInv, TableOK, table
  <2> QED BY <2>1, <2>2
<1>3. CASE UpsertRead(p)
  <2> DEFINE new == [req[p] EXCEPT
                       !.pc = IF row[req[p].target] = None THEN "upsertInsert" ELSE "upsertUpdate",
                       !.id = row[req[p].target]]
  <2>1. req' = [req EXCEPT ![p] = new]
    BY <1>3 DEF UpsertRead, TypeInv
  <2>2. row[req[p].target] \in Ids \cup {None}
    BY <1>0, <1>3 DEF Shape, UpsertRead, TypeInv, TableOK
  <2>3. Shape(new)
    BY <1>0, <1>3, <2>2, ZenonT(60) DEF Shape, ReqRecord, ReqPcs, JoinPcs, RowPcs, UpsertRead
  <2> QED BY <1>3, <2>1, <2>3, ReplacedShape DEF UpsertRead, TypeInv, TableOK, table
<1>4. CASE UpsertUpdate(p)
  <2>1. req' \in [Clients -> ReqRecord] /\ Shapes'
    BY <1>4, ReplyShape, ProceedShape DEF UpsertUpdate, JoinPcs, ReqPcs, Answers
  <2>2. TableOK'
    BY <1>0, <1>4, NoneAssumption
    DEF UpsertUpdate, WriteRow, Shape, JoinPcs, TypeInv, TableOK, Roles, Statuses
  <2> QED BY <2>1, <2>2 DEF TypeInv
<1>5. CASE UpsertInsert(p)
  <2>1. req' \in [Clients -> ReqRecord] /\ Shapes'
    BY <1>5, ReplyShape, ProceedShape DEF UpsertInsert, JoinPcs, ReqPcs, Answers
  <2>2. TableOK'
    BY <1>0, <1>5, NoneAssumption
    DEF UpsertInsert, WriteRow, Shape, JoinPcs, TypeInv, TableOK, table, Roles, Statuses
  <2> QED BY <2>1, <2>2 DEF TypeInv
<1>6. CASE JoinFallback(p)
  BY <1>6, ReplyShape DEF JoinFallback, TypeInv, TableOK, table, Answers
<1>7. CASE FindForRole(p) \/ FindForStatus(p) \/ FindForResend(p) \/ FindForRemove(p)
  BY <1>7, FindType, Zenon DEF FindForRole, FindForStatus, FindForResend, FindForRemove
<1>8. CASE CountOwners(p)
  BY <1>8, ReplyShape, ProceedShape
  DEF CountOwners, TypeInv, TableOK, table, RowPcs, ReqPcs, Answers
<1>9. CASE WriteRole(p) \/ WriteStatus(p) \/ WriteInvited(p) \/ DeleteRow(p)
  <2>1. req' \in [Clients -> ReqRecord] /\ Shapes'
    BY <1>9, ReplyShape DEF WriteRole, WriteStatus, WriteInvited, DeleteRow, Write, Answers
  <2>2. TableOK'
    BY <1>0, <1>9, NoneAssumption
    DEF WriteRole, WriteStatus, WriteInvited, DeleteRow, Write, Shape, RowPcs,
        TypeInv, TableOK, table, Roles, Statuses
  <2> QED BY <2>1, <2>2 DEF TypeInv
<1> QED BY <1>1, <1>2, <1>3, <1>4, <1>5, <1>6, <1>7, <1>8, <1>9 DEF Continue

LEMMA TypeStep == TypeInv /\ [Next]_vars => TypeInv'
<1> SUFFICES ASSUME TypeInv, [Next]_vars PROVE TypeInv'
  OBVIOUS
<1>1. CASE Next
  BY <1>1, StartType, ContinueType DEF Next
<1>2. CASE UNCHANGED vars
  BY <1>2 DEF vars, table, TypeInv, TableOK, Shapes
<1> QED BY <1>1, <1>2

LEMMA TypeInvariant == Spec => []TypeInv
BY InitType, TypeStep, PTL DEF Spec

(* Only a write makes others stale: those whose rows it changes.            *)
LEMMA StartKeepsRows ==
  ASSUME NEW p \in Clients, Start(p)
  PROVE  UNCHANGED table /\ stale' = stale \ {p}
BY ZenonT(60) DEF Start, Join, JoinNamed, UpdateRole, UpdateStatus, ResendInvite, Remove, Begin

LEMMA ContinueStale ==
  ASSUME NEW p \in Clients, Continue(p)
  PROVE  (UNCHANGED table /\ UNCHANGED stale) \/ UNCHANGED <<role, status, stale>> \/ Overtake(p)
BY Zenon DEF Continue, JoinRead, JoinAuthorize, UpsertRead, UpsertUpdate, UpsertInsert,
       JoinFallback, FindForRole, FindForStatus, FindForResend, FindForRemove, Find,
       CountOwners, WriteRole, WriteStatus, WriteInvited, DeleteRow, Write

LEMMA StaleType == Spec => [](stale \subseteq Clients)
<1>1. Init => stale \subseteq Clients
  BY DEF Init
<1>2. stale \subseteq Clients /\ [Next]_vars => (stale \subseteq Clients)'
  BY StartKeepsRows, ContinueStale DEF Next, vars, Overtake
<1> QED BY <1>1, <1>2, PTL DEF Spec

(* Every variable keeps its type in every reachable state. *)
THEOREM TypeCorrect == Spec => []TypeOK
<1>1. TypeInv /\ stale \subseteq Clients => TypeOK
  BY DEF TypeInv, TypeOK
<1> QED BY <1>1, TypeInvariant, StaleType, PTL

(* A step is one request's. *)
LEMMA OthersWait ==
  ASSUME TypeInv, NEW p \in Clients, Start(p) \/ Continue(p)
  PROVE  \A q \in Clients \ {p} : req'[q] = req[q]
<1>1. CASE Start(p)
  BY <1>1, ZenonT(60) DEF Start, Join, JoinNamed, UpdateRole, UpdateStatus, ResendInvite, Remove, Begin,
              TypeInv
<1>2. CASE Continue(p)
  BY <1>2 DEF Continue, JoinRead, JoinAuthorize, UpsertRead, UpsertUpdate, UpsertInsert,
              JoinFallback, FindForRole, FindForStatus, FindForResend, FindForRemove, Find,
              CountOwners, WriteRole, WriteStatus, WriteInvited, DeleteRow, Write, Reply, Proceed,
              TypeInv
<1> QED BY <1>1, <1>2

-------------------------------------------------------------------------------
(* Without removals no request fails: a row that was found stays.           *)

Holds(r) ==
  /\ r.op # "remove" /\ r.reply # "error"
  /\ r.pc \in RowPcs \cup {"upsertUpdate"} => row[r.target] = r.id
  /\ r.pc = "joinFallback" => row[r.target] # None

FoundInv == \A p \in Clients : Holds(req[p])

LEMMA FoundInit == Init => FoundInv
BY NoneAssumption DEF Init, FoundInv, Holds, IdleReq, RowPcs, AllOps

LEMMA RowsStay ==
  ASSUME TypeInv, FoundInv, NEW p \in Clients, Start(p) \/ Continue(p)
  PROVE  \A u \in Users : row[u] # None => row'[u] = row[u]
<1>1. CASE Start(p)
  BY <1>1, ZenonT(60) DEF Start, Join, JoinNamed, UpdateRole, UpdateStatus, ResendInvite, Remove, Begin, table
<1>2. CASE UpsertInsert(p)
  BY <1>2 DEF UpsertInsert, TypeInv, TableOK, table
<1>3. CASE DeleteRow(p)
  BY <1>3 DEF DeleteRow, Write, FoundInv, Holds
<1>4. CASE Continue(p) /\ ~UpsertInsert(p) /\ ~DeleteRow(p)
  BY <1>4 DEF Continue, JoinRead, JoinAuthorize, UpsertRead, UpsertUpdate, JoinFallback,
              FindForRole, FindForStatus, FindForResend, FindForRemove, Find,
              CountOwners, WriteRole, WriteStatus, WriteInvited, Write, table
<1> QED BY <1>1, <1>2, <1>3, <1>4

LEMMA FoundStep ==
  ASSUME "remove" \notin Ops
  PROVE  TypeInv /\ FoundInv /\ [Next]_vars => FoundInv'
<1> SUFFICES ASSUME TypeInv, FoundInv, [Next]_vars PROVE FoundInv'
  OBVIOUS
<1>1. ASSUME NEW p \in Clients, Start(p) \/ Continue(p)
      PROVE  FoundInv'
  <2>0. Shape(req[p]) /\ Holds(req[p])
    BY DEF TypeInv, Shapes, FoundInv
  <2>1. \A q \in Clients \ {p} : Holds(req[q])'
    BY <1>1, OthersWait, RowsStay, NoneAssumption
    DEF FoundInv, Holds, TypeInv, Shapes, Shape, RowPcs
  <2>2. ASSUME NEW a \in Answers \ {"error"}, Reply(p, a)
        PROVE  Holds(req[p])'
    BY <2>2, NoneAssumption DEF Reply, IdleReq, Holds, RowPcs, AllOps, TypeInv
  <2>3. ASSUME NEW pc, Proceed(p, pc), pc \notin {"upsertUpdate", "joinFallback"},
               req[p].pc \in RowPcs \/ pc \notin RowPcs, UNCHANGED row
        PROVE  Holds(req[p])'
    BY <2>0, <2>3 DEF Proceed, Holds, RowPcs, TypeInv
  <2>4. Holds(req[p])'
    <3>1. CASE Start(p)
      <4>1. ASSUME NEW u \in Users, NEW v \in Users, NEW op, NEW r, NEW st, Begin(p, op, u, v, r, st)
            PROVE  Holds(req[p])'
        BY <4>1 DEF Begin, IdleReq, Holds, RowPcs, TypeInv, table
      <4>2. ASSUME NEW u \in Users, NEW r, Join(p, u, r)
            PROVE  Holds(req[p])'
        <5>1. PICK e : req' = [req EXCEPT ![p] = [IdleReq EXCEPT !.pc = "joinRead", !.op = "join",
                  !.actor = u, !.target = u, !.role = r, !.status = "active", !.empty = e]]
          BY <4>2, Zenon DEF Join
        <5> QED BY <5>1 DEF IdleReq, Holds, RowPcs, TypeInv
      <4>3. ASSUME NEW u \in Users, NEW v \in Users, NEW r, NEW st, JoinNamed(p, u, v, r, st)
            PROVE  Holds(req[p])'
        BY <4>3 DEF JoinNamed, IdleReq, Holds, RowPcs, TypeInv
      <4> QED BY <3>1, <4>1, <4>2, <4>3 DEF Start, UpdateRole, UpdateStatus, ResendInvite, Remove
    <3>2. CASE JoinRead(p)
      BY <3>2, <2>2, <2>3 DEF JoinRead, table, RowPcs, Answers
    <3>3. CASE JoinAuthorize(p)
      <4>1. CASE req' = [req EXCEPT ![p].pc = "upsert", ![p].was = role[req[p].actor]]
        BY <4>1, <2>0 DEF Holds, RowPcs, TypeInv
      <4> QED BY <3>3, <4>1, <2>2 DEF JoinAuthorize, Answers
    <3>4. CASE UpsertRead(p)
      BY <3>4, <2>0, NoneAssumption DEF UpsertRead, Holds, RowPcs, TypeInv, table
    <3>5. CASE UpsertUpdate(p)
      BY <3>5, <2>0, <2>2 DEF UpsertUpdate, Holds, Answers
    <3>6. CASE UpsertInsert(p)
      <4>1. CASE row[req[p].target] # None /\ UNCHANGED table /\ Proceed(p, "joinFallback")
        BY <4>1, <2>0 DEF Holds, Proceed, RowPcs, TypeInv, table
      <4> QED BY <3>6, <4>1, <2>2 DEF UpsertInsert, Answers
    <3>7. CASE JoinFallback(p)
      BY <3>7, <2>0, <2>2 DEF JoinFallback, Holds, Answers
    <3>8. ASSUME NEW op, NEW denied, NEW counts, Find(p, op, denied, counts)
          PROVE  Holds(req[p])'
      BY <3>8, <2>2, <2>3 DEF Find, RowPcs, Answers, table
    <3>9. CASE FindForRole(p) \/ FindForStatus(p) \/ FindForResend(p) \/ FindForRemove(p)
      BY <3>8, <3>9, Zenon DEF FindForRole, FindForStatus, FindForResend, FindForRemove
    <3>10. CASE CountOwners(p)
      BY <3>10, <2>2, <2>3 DEF CountOwners, RowPcs, Answers, table
    <3>11. CASE WriteRole(p) \/ WriteStatus(p) \/ WriteInvited(p) \/ DeleteRow(p)
      BY <3>11, <2>0, <2>2
      DEF WriteRole, WriteStatus, WriteInvited, DeleteRow, Write, Holds, RowPcs, Answers
    <3> QED BY <1>1, <3>1, <3>2, <3>3, <3>4, <3>5, <3>6, <3>7, <3>9, <3>10, <3>11 DEF Continue
  <2> QED BY <2>1, <2>4 DEF FoundInv
<1>2. CASE UNCHANGED vars
  BY <1>2 DEF vars, table, FoundInv, Holds
<1> QED BY <1>1, <1>2 DEF Next

(* While nobody is removed, no request ends with an error: concurrent joins  *)
(* converge through the fallback, and what was found by its id is there.    *)
THEOREM JoinsConverge ==
  ASSUME "remove" \notin Ops
  PROVE  Spec => []NoRequestFails
<1>1. FoundInv => NoRequestFails
  BY DEF FoundInv, Holds, NoRequestFails
<1> QED BY <1>1, FoundInit, FoundStep, TypeInvariant, PTL DEF Spec

-------------------------------------------------------------------------------
(* A request no other overtakes keeps an active owner: what it has checked   *)
(* still holds when it writes, and the owner who acts is never the one who   *)
(* is demoted, disabled or removed.                                        *)

Checked(r) ==
  /\ r.pc \in JoinPcs /\ "rejoin" \notin Ops => ~Active(r.target)
  /\ r.pc \in RowPcs => Active(r.actor) /\ role[r.actor] = r.was
  /\ r.pc \in {"count", "write"} =>
       /\ r.op = "role" /\ r.actor = r.target => r.role = "owner"
       /\ r.op = "status" /\ r.actor = r.target => r.status = "active"
       /\ r.op = "remove" => r.actor # r.target
       /\ r.op \in {"status", "remove"} /\ role[r.target] = "owner" => r.was = "owner"
       /\ r.op = "resend" => status[r.target] = "invited"

CheckedInv == \A p \in Clients \ stale : Checked(req[p])

LEMMA CheckedInit == Init => CheckedInv
BY DEF Init, CheckedInv, Checked, IdleReq, JoinPcs, RowPcs

LEMMA CheckedStart ==
  ASSUME TypeInv, NEW p \in Clients, Start(p)
  PROVE  Checked(req[p])'
<1>1. ASSUME NEW u \in Users, NEW v \in Users, NEW op, NEW r, NEW st, Begin(p, op, u, v, r, st)
      PROVE  Checked(req[p])'
  BY <1>1 DEF Begin, IdleReq, Checked, Active, RowPcs, JoinPcs, TypeInv, table
<1>2. ASSUME NEW u \in Users, NEW r, Join(p, u, r)
      PROVE  Checked(req[p])'
  <2>1. PICK e : req' = [req EXCEPT ![p] = [IdleReq EXCEPT !.pc = "joinRead", !.op = "join",
            !.actor = u, !.target = u, !.role = r, !.status = "active", !.empty = e]]
    BY <1>2, Zenon DEF Join
  <2> QED BY <1>2, <2>1 DEF Join, IdleReq, Checked, Active, JoinPcs, RowPcs, TypeInv, table
<1>3. ASSUME NEW u \in Users, NEW v \in Users, NEW r, NEW st, JoinNamed(p, u, v, r, st)
      PROVE  Checked(req[p])'
  BY <1>3 DEF JoinNamed, IdleReq, Checked, Active, JoinPcs, RowPcs, TypeInv, table
<1> QED BY <1>1, <1>2, <1>3 DEF Start, UpdateRole, UpdateStatus, ResendInvite, Remove

LEMMA CheckedContinue ==
  ASSUME TypeInv, NEW p \in Clients, Checked(req[p]), Continue(p)
  PROVE  Checked(req[p])'
<1>0. Shape(req[p])
  BY DEF TypeInv, Shapes
<1>1. ASSUME NEW a, Reply(p, a)
      PROVE  Checked(req[p])'
  BY <1>1 DEF Reply, IdleReq, Checked, JoinPcs, RowPcs, TypeInv
<1>2. ASSUME UNCHANGED <<role, status>>, req[p].pc \in JoinPcs, req'[p].pc \in JoinPcs,
             req'[p].target = req[p].target
      PROVE  Checked(req[p])'
  BY <1>2 DEF Checked, Active, JoinPcs, RowPcs
<1>3. CASE JoinRead(p)
  BY <1>1, <1>2, <1>3 DEF JoinRead, Proceed, JoinPcs, TypeInv, ReqRecord, table
<1>4. CASE JoinAuthorize(p)
  BY <1>1, <1>2, <1>4 DEF JoinAuthorize, JoinPcs, TypeInv, ReqRecord, table
<1>5. CASE UpsertRead(p)
  BY <1>2, <1>5 DEF UpsertRead, JoinPcs, TypeInv, ReqRecord, table
<1>6. CASE UpsertUpdate(p)
  BY <1>1, <1>2, <1>6 DEF UpsertUpdate, Proceed, JoinPcs, TypeInv, ReqRecord, table
<1>7. CASE UpsertInsert(p)
  BY <1>1, <1>2, <1>7 DEF UpsertInsert, Proceed, JoinPcs, TypeInv, ReqRecord, table
<1>8. CASE JoinFallback(p)
  BY <1>1, <1>8 DEF JoinFallback
<1>9. ASSUME UNCHANGED table, NEW pc \in {"count", "write"}, Proceed(p, pc), req[p].pc \in RowPcs,
             req[p].op = "role" /\ req[p].actor = req[p].target => req[p].role = "owner",
             req[p].op = "status" /\ req[p].actor = req[p].target => req[p].status = "active",
             req[p].op = "remove" => req[p].actor # req[p].target,
             req[p].op \in {"status", "remove"} /\ role[req[p].target] = "owner" => req[p].was = "owner",
             req[p].op = "resend" => status[req[p].target] = "invited"
      PROVE  Checked(req[p])'
  BY <1>9 DEF Proceed, Checked, Active, JoinPcs, RowPcs, TypeInv, table
<1>10. CASE FindForRole(p)
  <2>1. role[req[p].actor] = "owner"
    BY <1>0, <1>10 DEF FindForRole, Find, Checked, Shape, RowPcs
  <2> QED BY <1>1, <1>9, <1>10, <2>1 DEF FindForRole, Find, SelfJoin, RowPcs
<1>11. CASE FindForStatus(p)
  BY <1>1, <1>9, <1>11 DEF FindForStatus, Find, SelfJoin, Outranked, RowPcs
<1>12. CASE FindForResend(p)
  BY <1>1, <1>9, <1>12 DEF FindForResend, Find, RowPcs
<1>13. CASE FindForRemove(p)
  BY <1>1, <1>9, <1>13 DEF FindForRemove, Find, SelfJoin, Outranked, RowPcs
<1>14. CASE CountOwners(p)
  BY <1>1, <1>9, <1>14 DEF CountOwners, Checked, RowPcs
<1>15. CASE WriteRole(p) \/ WriteStatus(p) \/ WriteInvited(p) \/ DeleteRow(p)
  BY <1>1, <1>15 DEF WriteRole, WriteStatus, WriteInvited, DeleteRow, Write
<1> QED BY <1>3, <1>4, <1>5, <1>6, <1>7, <1>8, <1>10, <1>11, <1>12, <1>13, <1>14, <1>15 DEF Continue

(* What a request that is not overtaken knows of two rows stays true.       *)
LEMMA CheckedOthers ==
  ASSUME TypeInv, NEW p \in Clients, Start(p) \/ Continue(p), NEW q \in Clients \ {p},
         q \notin stale', Checked(req[q])
  PROVE  Checked(req[q])'
<1>1. req'[q] = req[q] /\ Shape(req[q])
  BY OthersWait DEF TypeInv, Shapes
<1>2. CASE req[q].pc = "idle"
  BY <1>1, <1>2 DEF Checked, JoinPcs, RowPcs
<1>3. CASE UNCHANGED <<role, status>>
  BY <1>1, <1>3 DEF Checked, Active
<1>4. CASE Overtake(p) /\ req[q].pc # "idle" /\ Continue(p)
  <2>1. req[p].target \notin {req[q].actor, req[q].target}
    BY <1>4 DEF Overtake
  <2>2. \A u \in Users \ {req[p].target} : role'[u] = role[u] /\ status'[u] = status[u]
    BY <1>4 DEF Continue, JoinRead, JoinAuthorize, UpsertRead, UpsertUpdate, UpsertInsert, WriteRow,
       JoinFallback, FindForRole, FindForStatus, FindForResend, FindForRemove, Find,
       CountOwners, WriteRole, WriteStatus, WriteInvited, DeleteRow, Write, TypeInv, TableOK, table
  <2>3. req[q].actor \in Users /\ req[q].target \in Users
    BY <1>1, <1>4 DEF Shape
  <2>4. /\ role'[req[q].actor] = role[req[q].actor] /\ status'[req[q].actor] = status[req[q].actor]
        /\ role'[req[q].target] = role[req[q].target] /\ status'[req[q].target] = status[req[q].target]
    BY <2>1, <2>2, <2>3
  <2> QED BY <1>1, <2>4 DEF Checked, Active
<1> QED BY <1>2, <1>3, <1>4, StartKeepsRows, ContinueStale DEF table

LEMMA CheckedStep == TypeInv /\ CheckedInv /\ [Next]_vars => CheckedInv'
<1> SUFFICES ASSUME TypeInv, CheckedInv, [Next]_vars PROVE CheckedInv'
  OBVIOUS
<1>1. ASSUME NEW p \in Clients, Start(p) \/ Continue(p)
      PROVE  CheckedInv'
  <2>1. p \notin stale' => Checked(req[p])'
    BY <1>1, CheckedStart, CheckedContinue, ContinueStale DEF CheckedInv, Overtake
  <2>2. ASSUME NEW q \in Clients \ {p}, q \notin stale'
        PROVE  Checked(req[q])'
    <3>1. q \notin stale
      BY <1>1, <2>2, StartKeepsRows, ContinueStale DEF Overtake
    <3> QED BY <1>1, <2>2, <3>1, CheckedOthers DEF CheckedInv
  <2> QED BY <2>1, <2>2 DEF CheckedInv
<1>2. CASE UNCHANGED vars
  BY <1>2 DEF vars, table, CheckedInv, Checked, Active
<1> QED BY <1>1, <1>2 DEF Next

Rejoins(r) == "rejoin" \in Ops /\ r.op \in {"join", "invite"}

(* A step leaves every active owner one, or the owner it acts for. *)
LEMMA OwnerStep ==
  ASSUME TypeInv, NEW p \in Clients, Checked(req[p]), ~Rejoins(req[p]), Start(p) \/ Continue(p),
         ActiveOwners # {}
  PROVE  ActiveOwners' # {}
<1>0. Shape(req[p]) /\ Checked(req[p])
  BY DEF TypeInv, Shapes
<1> USE DEF ActiveOwners, ActiveOwner, Active
<1>1. CASE UpsertUpdate(p) \/ UpsertInsert(p)
  BY <1>0, <1>1 DEF UpsertUpdate, UpsertInsert, WriteRow, Checked, Shape, Rejoins, JoinPcs,
                    TypeInv, TableOK, table
<1>2. ASSUME ActiveOwner(req[p].actor), req[p].actor \in Users, req[p].actor # req[p].target,
             \A u \in Users \ {req[p].target} : role'[u] = role[u] /\ status'[u] = status[u]
      PROVE  ActiveOwners' # {}
  BY <1>2
<1>3. CASE WriteRole(p)
  BY <1>0, <1>2, <1>3 DEF WriteRole, Write, Checked, Shape, RowPcs, TypeInv, TableOK, table
<1>4. CASE WriteStatus(p)
  BY <1>0, <1>2, <1>4 DEF WriteStatus, Write, Checked, Shape, RowPcs, TypeInv, TableOK, table
<1>5. CASE WriteInvited(p)
  BY <1>0, <1>5 DEF WriteInvited, Write, Checked, RowPcs, TypeInv, TableOK, table
<1>6. CASE DeleteRow(p)
  BY <1>0, <1>2, <1>6 DEF DeleteRow, Write, Checked, Shape, RowPcs, TypeInv, TableOK, table
<1>7. CASE UNCHANGED table
  BY <1>7 DEF table
<1>8. Start(p) => UNCHANGED table
  BY ZenonT(60) DEF Start, Join, JoinNamed, UpdateRole, UpdateStatus, ResendInvite, Remove, Begin
<1> QED BY <1>1, <1>3, <1>4, <1>5, <1>6, <1>7, <1>8
        DEF Continue, JoinRead, JoinAuthorize, UpsertRead, JoinFallback, FindForRole, FindForStatus,
            FindForResend, FindForRemove, Find, CountOwners

(* A step that writes ends its request. *)
LEMMA WriteEnds ==
  ASSUME TypeInv, NEW p \in Clients, Start(p) \/ Continue(p), req'[p] = req[p]
  PROVE  UNCHANGED table
<1>1. CASE Start(p)
  BY <1>1, StartKeepsRows
<1>2. ASSUME NEW a, Reply(p, a), req[p].pc # "idle"
      PROVE  req'[p] # req[p]
  BY <1>2 DEF Reply, IdleReq, TypeInv
<1>3. CASE Continue(p)
  BY <1>2, <1>3 DEF Continue, JoinRead, JoinAuthorize, UpsertRead, UpsertUpdate, UpsertInsert,
       JoinFallback, FindForRole, FindForStatus, FindForResend, FindForRemove, Find,
       CountOwners, WriteRole, WriteStatus, WriteInvited, DeleteRow, Write, table
<1> QED BY <1>1, <1>3

(* Whatever requests overlap, the last active owner goes only by one whose   *)
(* actor or target another has written to since it began, or by one that     *)
(* joins an active member anew.                                            *)
THEOREM LastOwnerIsRaced == Spec => LastOwnerGoesStale
<1>1. ASSUME TypeInv, CheckedInv, [Next]_vars
      PROVE  [ActiveOwners # {} /\ ActiveOwners' = {} =>
                \E p \in Clients :
                  /\ req'[p] # req[p]
                  /\ p \in stale \/ ("rejoin" \in Ops /\ req[p].op \in {"join", "invite"})]_vars
  <2>1. ASSUME NEW p \in Clients, Start(p) \/ Continue(p), ActiveOwners # {}, ActiveOwners' = {}
        PROVE  req'[p] # req[p] /\ (p \in stale \/ Rejoins(req[p]))
    <3>1. UNCHANGED table => ActiveOwners' = ActiveOwners
      BY DEF ActiveOwners, ActiveOwner, Active, table
    <3>2. req'[p] # req[p]
      BY <1>1, <2>1, <3>1, WriteEnds
    <3>3. p \in stale \/ Rejoins(req[p])
      BY <1>1, <2>1, OwnerStep DEF CheckedInv
    <3> QED BY <3>2, <3>3
  <2> QED BY <1>1, <2>1 DEF Next, Rejoins
<1> QED BY <1>1, CheckedInit, CheckedStep, TypeInvariant, PTL DEF Spec, LastOwnerGoesStale

(* One request is overtaken by none ... *)
OneRequest == \A p, q \in Clients : p = q

LEMMA OneIsNotOvertaken ==
  ASSUME OneRequest
  PROVE  Spec => [](stale = {})
<1>1. Init => stale = {}
  BY DEF Init
<1>2. stale = {} /\ [Next]_vars => (stale = {})'
  BY StartKeepsRows, ContinueStale DEF Next, vars, Overtake, OneRequest
<1> QED BY <1>1, <1>2, PTL DEF Spec

(* ... so requests that do not overlap, and do not join an active member     *)
(* anew, never take the last active owner from the tenant.                 *)
THEOREM SequentialOwner ==
  ASSUME OneRequest, "rejoin" \notin Ops
  PROVE  Spec => AnOwnerRemains
<1>1. stale = {} /\ TypeInv /\ CheckedInv /\ [Next]_vars
        => [ActiveOwners # {} => ActiveOwners' # {}]_vars
  BY OwnerStep DEF Next, CheckedInv, Rejoins
<1> QED BY <1>1, CheckedInit, CheckedStep, TypeInvariant, OneIsNotOvertaken, PTL DEF Spec, AnOwnerRemains

-------------------------------------------------------------------------------
(* Owners come from owners: in an orphaned tenant no step makes an owner,    *)
(* activates one, or leaves a request that could.                          *)

LEMMA OrphanedTable ==
  ASSUME TypeInv, Orphaned, NEW p \in Clients, Start(p) \/ Continue(p), NEW u \in Users,
         role'[u] = "owner"
  PROVE  role[u] = "owner" /\ row'[u] = row[u] /\ status'[u] # "active"
<1>0. Shape(req[p]) /\ ~MayCrown(p)
  BY DEF TypeInv, Shapes, Orphaned
<1>1. role[u] = "owner" => status[u] # "active"
  BY DEF Orphaned, ActiveOwners, ActiveOwner, Active
<1>2. CASE UpsertUpdate(p) \/ UpsertInsert(p)
  <2>1. req[p].role # "owner"
    BY <1>0, <1>2 DEF UpsertUpdate, UpsertInsert, Shape, MayCrown, JoinPcs
  <2> QED BY <1>0, <1>1, <1>2, <2>1
          DEF UpsertUpdate, UpsertInsert, WriteRow, TypeInv, TableOK, table
<1>3. CASE WriteRole(p)
  BY <1>0, <1>3 DEF WriteRole, Write, Shape, MayCrown, RowPcs
<1>4. CASE WriteStatus(p)
  BY <1>0, <1>1, <1>4 DEF WriteStatus, Write, MayCrown, TypeInv, TableOK, table
<1>5. CASE WriteInvited(p)
  BY <1>1, <1>5 DEF WriteInvited, Write, TypeInv, TableOK, table
<1>6. CASE DeleteRow(p)
  BY <1>1, <1>6, NoneAssumption DEF DeleteRow, Write, TypeInv, TableOK, table, Roles
<1>7. CASE UNCHANGED table
  BY <1>1, <1>7 DEF table
<1>8. Start(p) => UNCHANGED table
  BY ZenonT(60) DEF Start, Join, JoinNamed, UpdateRole, UpdateStatus, ResendInvite, Remove, Begin
<1> QED BY <1>2, <1>3, <1>4, <1>5, <1>6, <1>7, <1>8
        DEF Continue, JoinRead, JoinAuthorize, UpsertRead, JoinFallback, FindForRole, FindForStatus,
            FindForResend, FindForRemove, Find, CountOwners

LEMMA OrphanedStart ==
  ASSUME TypeInv, Orphaned, NEW p \in Clients, Start(p)
  PROVE  ~MayCrown(p)'
<1>1. ASSUME NEW u \in Users, NEW v \in Users, NEW op, NEW r, NEW st, Begin(p, op, u, v, r, st),
             op # "join"
      PROVE  ~MayCrown(p)'
  <2>1. role[u] # "owner"
    BY <1>1 DEF Begin, Orphaned, ActiveOwners, ActiveOwner
  <2> QED BY <1>1, <2>1 DEF Begin, IdleReq, MayCrown, TypeInv
<1>2. ASSUME NEW u \in Users, NEW r, Join(p, u, r)
      PROVE  ~MayCrown(p)'
  <2>1. PICK e : /\ req' = [req EXCEPT ![p] = [IdleReq EXCEPT !.pc = "joinRead", !.op = "join",
                       !.actor = u, !.target = u, !.role = r, !.status = "active", !.empty = e]]
                 /\ e = (Members = {})
    BY <1>2, Zenon DEF Join
  <2>2. e = FALSE
    BY <2>1 DEF Orphaned
  <2> QED BY <2>1, <2>2, NoneAssumption DEF IdleReq, MayCrown, Roles, TypeInv
<1>3. ASSUME NEW u \in Users, NEW v \in Users, NEW r, NEW st, JoinNamed(p, u, v, r, st)
      PROVE  ~MayCrown(p)'
  BY <1>3, NoneAssumption DEF JoinNamed, IdleReq, MayCrown, Roles, TypeInv
<1> QED BY <1>1, <1>2, <1>3 DEF Start, UpdateRole, UpdateStatus, ResendInvite, Remove

LEMMA OrphanedContinue ==
  ASSUME TypeInv, Orphaned, NEW p \in Clients, Continue(p)
  PROVE  ~MayCrown(p)'
<1>0. Shape(req[p]) /\ ~MayCrown(p)
  BY DEF TypeInv, Shapes, Orphaned
<1>1. ASSUME NEW a, Reply(p, a)
      PROVE  ~MayCrown(p)'
  BY <1>1, NoneAssumption DEF Reply, IdleReq, MayCrown, AllOps, TypeInv
<1>2. ASSUME req[p].pc # "idle", req'[p].was = req[p].was, req'[p].op = req[p].op,
             req'[p].role = req[p].role, req'[p].empty = req[p].empty, req'[p].pc # "write",
             req'[p].pc \in {"upsert", "upsertUpdate", "upsertInsert"} =>
               req[p].pc \in {"upsert", "upsertUpdate", "upsertInsert"}
      PROVE  ~MayCrown(p)'
  BY <1>0, <1>2 DEF MayCrown
<1>3. CASE JoinRead(p)
  <2>1. CASE Proceed(p, "upsert")
    <3>1. req[p].op = "join" => req[p].role # "owner"
      BY <1>0, <1>3, <2>1
      DEF JoinRead, Proceed, Reply, MayCrown, Shape, JoinPcs, Orphaned, ActiveOwners, IdleReq, TypeInv
    <3> QED BY <1>0, <1>3, <2>1, <3>1 DEF JoinRead, Proceed, MayCrown, TypeInv
  <2> QED BY <1>1, <1>3, <2>1 DEF JoinRead
<1>4. CASE JoinAuthorize(p)
  <2>1. CASE req' = [req EXCEPT ![p].pc = "upsert", ![p].was = role[req[p].actor]] /\ ~Reply(p, "denied")
    <3>1. role[req[p].actor] = "admin" /\ req[p].role = "member"
      BY <1>0, <1>4, <2>1 DEF JoinAuthorize, Shape, Orphaned, ActiveOwners, ActiveOwner
    <3> QED BY <1>0, <1>4, <2>1, <3>1 DEF JoinAuthorize, MayCrown, TypeInv
  <2> QED BY <1>1, <1>4, <2>1 DEF JoinAuthorize
<1>5. CASE UpsertRead(p)
  BY <1>2, <1>5 DEF UpsertRead, TypeInv, ReqRecord
<1>6. CASE UpsertUpdate(p) \/ UpsertInsert(p)
  BY <1>1, <1>2, <1>6 DEF UpsertUpdate, UpsertInsert, Proceed, TypeInv, ReqRecord
<1>7. CASE JoinFallback(p)
  BY <1>1, <1>7 DEF JoinFallback
<1>8. ASSUME NEW op, NEW denied, NEW counts, Find(p, op, denied, counts),
             op = "status" /\ req[p].status = "active" /\ role[req[p].target] = "owner" => denied
      PROVE  ~MayCrown(p)'
  <2>1. CASE Proceed(p, "write") \/ Proceed(p, "count")
    <3>1. CASE Reply(p, "missing") \/ Reply(p, "denied")
      BY <1>1, <3>1
    <3>2. CASE ~Reply(p, "missing") /\ ~Reply(p, "denied")
      BY <1>0, <1>8, <2>1, <3>2 DEF Find, Proceed, MayCrown, TypeInv, ReqRecord, table
    <3> QED BY <3>1, <3>2
  <2> QED BY <1>1, <1>8, <2>1 DEF Find
<1>9. CASE FindForRole(p) \/ FindForResend(p) \/ FindForRemove(p)
  BY <1>8, <1>9 DEF FindForRole, FindForResend, FindForRemove
<1>10. CASE FindForStatus(p)
  <2>1. role[req[p].target] = "owner" => Outranked(p)
    BY <1>0, <1>10 DEF FindForStatus, Find, Outranked, MayCrown
  <2> QED BY <1>8, <1>10, <2>1 DEF FindForStatus
<1>11. CASE CountOwners(p)
  <2>1. Cardinality(ActiveOwners) = 0
    BY FS_EmptySet DEF Orphaned
  <2> QED BY <1>1, <1>11, <2>1 DEF CountOwners
<1>12. CASE WriteRole(p) \/ WriteStatus(p) \/ WriteInvited(p) \/ DeleteRow(p)
  BY <1>1, <1>12 DEF WriteRole, WriteStatus, WriteInvited, DeleteRow, Write
<1> QED BY <1>3, <1>4, <1>5, <1>6, <1>7, <1>9, <1>10, <1>11, <1>12 DEF Continue

LEMMA OrphanedStep ==
  ASSUME TypeInv, Orphaned, NEW p \in Clients, Start(p) \/ Continue(p), Members' # {}
  PROVE  Orphaned'
<1>1. ActiveOwners' = {}
  BY OrphanedTable DEF ActiveOwners, ActiveOwner, Active
<1>2. ~MayCrown(p)'
  BY OrphanedStart, OrphanedContinue
<1>3. ASSUME NEW q \in Clients \ {p}, MayCrown(q)'
      PROVE  FALSE
  <2>1. req'[q] = req[q] /\ Shape(req[q]) /\ ~MayCrown(q)
    BY OthersWait DEF TypeInv, Shapes, Orphaned
  <2>2. req[q].op = "status" /\ req[q].pc = "write" => req[q].target \in Users
    BY <2>1 DEF Shape
  <2> QED BY <1>3, <2>1, <2>2, OrphanedTable DEF MayCrown
<1> QED BY <1>1, <1>2, <1>3 DEF Orphaned

(* A tenant without an active owner gets none from its members, whichever of *)
(* their requests overlap.                                                 *)
THEOREM OwnersAreAppointed == Spec => OwnersComeFromOwners
<1>1. TypeInv /\ [Next]_vars => [Orphaned => Orphaned' \/ Members' = {}]_vars
  BY OrphanedStep DEF Next
<1> QED BY <1>1, TypeInvariant, PTL DEF Spec, OwnersComeFromOwners
===============================================================================
