---------------------------- MODULE TenantMembers ----------------------------
(***************************************************************************)
(* The members of one tenant: TenantMembersController.  Every handler that *)
(* writes checks first and writes last, each in a withTenant transaction   *)
(* of its own, so its guards speak about a table that may have changed by  *)
(* the time it writes.  Every transaction is one action, and so is every   *)
(* statement of Prisma's upsert, which selects and then inserts or updates *)
(* (it includes the user, so it is no single INSERT ... ON CONFLICT).      *)
(*                                                                         *)
(* Requests the first guard refuses change nothing and are left out, so    *)
(* are audit records, user names and what the handlers return of a row.    *)
(***************************************************************************)
EXTENDS Naturals, FiniteSets

CONSTANTS
  Users,    \* users who may act and be members
  Ids,      \* ids of TenantMember rows
  Clients,  \* requests the API is handling at the same time
  None,     \* no row, nothing read
  Ops       \* the requests clients make

(***************************************************************************)
(* "join"   one joins the tenant who is not active in it; "invite" an      *)
(* admin or owner adds one who is not active in it; "rejoin" either of the *)
(* two for an active member.  The others are named for their handlers.     *)
(***************************************************************************)
AllOps == {"join", "invite", "rejoin", "role", "status", "resend", "remove"}

ASSUME OpsAssumption == Ops \subseteq AllOps

VARIABLES
  row,     \* id of the user's TenantMember row: (tenantId, userId) is unique
  role,    \* its role
  status,  \* its status
  req,     \* the API's requests
  stale    \* history: requests another has overtaken (below)

table == <<row, role, status>>
vars == <<table, req, stale>>

Roles == {"member", "admin", "owner"}
Statuses == {"active", "invited", "disabled"}

ASSUME NoneAssumption == None \notin Users \cup Ids \cup Roles \cup Statuses \cup AllOps

Active(u) == status[u] = "active"
ActiveOwner(u) == role[u] = "owner" /\ Active(u)
ActiveOwners == {u \in Users : ActiveOwner(u)}
Members == {u \in Users : row[u] # None}

ReqPcs == {"idle", "joinRead", "joinAuthorize", "upsert", "upsertUpdate",
           "upsertInsert", "joinFallback", "find", "count", "write"}

(***************************************************************************)
(* target, id: whose row the request is about; role, status: what it asks  *)
(* for; was: the role its actor was seen to have as an active member;      *)
(* empty: whether the tenant was seen without members; reply: the answer   *)
(* to the last request.                                                    *)
(***************************************************************************)
IdleReq == [pc |-> "idle", op |-> None, actor |-> None, target |-> None, id |-> None,
            role |-> None, status |-> None, was |-> None, empty |-> FALSE, reply |-> "none"]

Init ==
  /\ row = [u \in Users |-> None]
  /\ role = [u \in Users |-> None]
  /\ status = [u \in Users |-> None]
  /\ req = [p \in Clients |-> IdleReq]
  /\ stale = {}

Reply(p, answer) == req' = [req EXCEPT ![p] = [IdleReq EXCEPT !.reply = answer]]

Proceed(p, pc) == req' = [req EXCEPT ![p].pc = pc]

(***************************************************************************)
(* stale is read by the properties only: the requests whose actor's or     *)
(* target's row another request has written since they began.              *)
(***************************************************************************)
Overtake(p) ==
  stale' = stale \cup {q \in Clients \ {p} : /\ req[q].pc # "idle"
                                            /\ req[p].target \in {req[q].actor, req[q].target}}

-------------------------------------------------------------------------------
(***************************************************************************)
(* POST /tenant-members, by the one who joins or, with a user name, by an  *)
(* admin or owner.                                                         *)
(***************************************************************************)
SelfJoin(p) == req[p].actor = req[p].target

(* The first transaction counts the members. *)
Join(p, u, r) ==
  /\ (IF Active(u) THEN "rejoin" ELSE "join") \in Ops
  /\ req[p].pc = "idle"
  /\ req' = [req EXCEPT ![p] = [IdleReq EXCEPT !.pc = "joinRead", !.op = "join", !.actor = u,
                !.target = u, !.role = r, !.status = "active", !.empty = Members = {}]]
  /\ UNCHANGED table /\ stale' = stale \ {p}

(* With a user name what the first two transactions read is not used. *)
JoinNamed(p, u, v, r, st) ==
  /\ (IF Active(v) THEN "rejoin" ELSE "invite") \in Ops
  /\ req[p].pc = "idle"
  /\ req' = [req EXCEPT ![p] = [IdleReq EXCEPT !.pc = "joinAuthorize", !.op = "invite",
                !.actor = u, !.target = v, !.role = r, !.status = st]]
  /\ UNCHANGED table /\ stale' = stale \ {p}

(* Mutant: the current role counts whatever the membership's status is. *)
JoinReadAnyStatus(p) ==
  /\ req[p].pc = "joinRead"
  /\ LET allowed == req[p].empty \/ req[p].role = "member" \/ role[req[p].actor] = "owner" IN
       \/ allowed /\ Proceed(p, "upsert")
       \/ ~allowed /\ Reply(p, "denied")
  /\ UNCHANGED table /\ UNCHANGED stale

(* The second reads the caller's own membership. *)
JoinRead(p) ==
  /\ req[p].pc = "joinRead"
  /\ LET allowed == req[p].empty \/ req[p].role = "member" \/ ActiveOwner(req[p].actor) IN
       \/ allowed /\ Proceed(p, "upsert")
       \/ ~allowed /\ Reply(p, "denied")
  /\ UNCHANGED table /\ UNCHANGED stale

(* requireTenantRole admin or owner; only owners grant more than member. *)
JoinAuthorize(p) ==
  /\ req[p].pc = "joinAuthorize"
  /\ LET u == req[p].actor
         allowed == /\ Active(u)
                    /\ role[u] = "owner" \/ (role[u] = "admin" /\ req[p].role = "member") IN
       \/ allowed /\ req' = [req EXCEPT ![p].pc = "upsert", ![p].was = role[u]]
       \/ ~allowed /\ Reply(p, "denied")
  /\ UNCHANGED table /\ UNCHANGED stale

(* Mutant: the SELECT is satisfied with any member of the tenant. *)
UpsertReadAnyMember(p) ==
  /\ req[p].pc = "upsert"
  /\ req' = [req EXCEPT ![p].pc = IF Members = {} THEN "upsertInsert" ELSE "upsertUpdate",
                        ![p].id = row[req[p].target]]
  /\ UNCHANGED table /\ UNCHANGED stale

(* upsert: its SELECT ... *)
UpsertRead(p) ==
  /\ req[p].pc = "upsert"
  /\ LET found == row[req[p].target] IN
       req' = [req EXCEPT ![p].pc = IF found = None THEN "upsertInsert" ELSE "upsertUpdate",
                          ![p].id = found]
  /\ UNCHANGED table /\ UNCHANGED stale

WriteRow(p) ==
  /\ role' = [role EXCEPT ![req[p].target] = req[p].role]
  /\ status' = [status EXCEPT ![req[p].target] = req[p].status]

(* ... its UPDATE of the row it saw, which fails if the row is gone ...    *)
UpsertUpdate(p) ==
  /\ req[p].pc = "upsertUpdate"
  /\ \/ /\ row[req[p].target] = req[p].id
        /\ WriteRow(p) /\ Reply(p, "ok") /\ Overtake(p)
     \/ /\ row[req[p].target] # req[p].id
        /\ UNCHANGED <<role, status>> /\ Proceed(p, "joinFallback") /\ UNCHANGED stale
  /\ UNCHANGED row

FreshId(i) == (\A u \in Users : row[u] # i) /\ (\A p \in Clients : req[p].id # i)

(* Mutant: a unique violation is not caught. *)
UpsertInsertUncaught(p) ==
  /\ req[p].pc = "upsertInsert"
  /\ \/ row[req[p].target] # None /\ UNCHANGED table /\ Reply(p, "error") /\ UNCHANGED stale
     \/ /\ row[req[p].target] = None
        /\ \E i \in Ids : FreshId(i) /\ row' = [row EXCEPT ![req[p].target] = i]
        /\ WriteRow(p) /\ Reply(p, "ok") /\ Overtake(p)

(* ... or its INSERT, which fails if there is a row by now. *)
UpsertInsert(p) ==
  /\ req[p].pc = "upsertInsert"
  /\ \/ /\ row[req[p].target] # None
        /\ UNCHANGED table /\ Proceed(p, "joinFallback") /\ UNCHANGED stale
     \/ /\ row[req[p].target] = None
        /\ \E i \in Ids : FreshId(i) /\ row' = [row EXCEPT ![req[p].target] = i]
        /\ WriteRow(p) /\ Reply(p, "ok") /\ Overtake(p)

(* Whatever failed: if the user is a member by now, that is the answer. *)
JoinFallback(p) ==
  /\ req[p].pc = "joinFallback"
  /\ Reply(p, IF row[req[p].target] = None THEN "error" ELSE "ok")
  /\ UNCHANGED table /\ UNCHANGED stale

-------------------------------------------------------------------------------
(***************************************************************************)
(* The handlers that name a row by its id.  Their first transaction is     *)
(* requireTenantRole.                                                      *)
(***************************************************************************)
Begin(p, op, u, v, r, st) ==
  /\ op \in Ops
  /\ req[p].pc = "idle"
  /\ Active(u)
  /\ row[v] # None
  /\ req' = [req EXCEPT ![p] = [IdleReq EXCEPT !.pc = "find", !.op = op, !.actor = u, !.was = role[u],
                                  !.target = v, !.id = row[v], !.role = r, !.status = st]]
  /\ UNCHANGED table /\ stale' = stale \ {p}

UpdateRole(p, u, v, r) == role[u] = "owner" /\ Begin(p, "role", u, v, r, None)

UpdateStatus(p, u, v, st) == role[u] \in {"admin", "owner"} /\ Begin(p, "status", u, v, None, st)

ResendInvite(p, u, v) == role[u] \in {"admin", "owner"} /\ Begin(p, "resend", u, v, None, None)

Remove(p, u, v) == role[u] \in {"admin", "owner"} /\ Begin(p, "remove", u, v, None, None)

(* The second transaction finds the row; then the guards on what it says.   *)
Find(p, op, denied, countOwners) ==
  /\ req[p].pc = "find" /\ req[p].op = op
  /\ \/ row[req[p].target] # req[p].id /\ Reply(p, "missing")
     \/ row[req[p].target] = req[p].id /\ denied /\ Reply(p, "denied")
     \/ /\ row[req[p].target] = req[p].id /\ ~denied
        /\ Proceed(p, IF countOwners THEN "count" ELSE "write")
  /\ UNCHANGED table /\ UNCHANGED stale

(* Only owners touch an admin or owner. *)
Outranked(p) == role[req[p].target] # "member" /\ req[p].was # "owner"

(* Mutant: owners may step down while others are counted. *)
FindForRoleOfOneself(p) ==
  LET demotes == role[req[p].target] = "owner" /\ req[p].role # "owner"
  IN Find(p, "role", FALSE, demotes)

FindForRole(p) ==
  LET demotes == role[req[p].target] = "owner" /\ req[p].role # "owner"
  IN Find(p, "role", SelfJoin(p) /\ demotes, demotes)

FindForStatus(p) ==
  LET disables == req[p].status # "active"
  IN Find(p, "status", Outranked(p) \/ (SelfJoin(p) /\ disables),
             role[req[p].target] = "owner" /\ disables)

FindForResend(p) ==
  Find(p, "resend", status[req[p].target] # "invited" \/ Outranked(p), FALSE)

FindForRemove(p) ==
  Find(p, "remove", Outranked(p) \/ SelfJoin(p), role[req[p].target] = "owner")

(* The third counts the active owners, whoever they are. *)
CountOwners(p) ==
  /\ req[p].pc = "count"
  /\ LET last == Cardinality(ActiveOwners) <= 1 IN
       \/ last /\ Reply(p, "lastOwner")
       \/ ~last /\ Proceed(p, "write")
  /\ UNCHANGED table /\ UNCHANGED stale

(* The last one writes, by the row's id and nothing else: it fails if the   *)
(* row is gone.                                                            *)
Write(p, op, change) ==
  /\ req[p].pc = "write" /\ req[p].op = op
  /\ \/ row[req[p].target] = req[p].id /\ change /\ Reply(p, "ok") /\ Overtake(p)
     \/ row[req[p].target] # req[p].id /\ UNCHANGED table /\ Reply(p, "error") /\ UNCHANGED stale

WriteRole(p) ==
  Write(p, "role", role' = [role EXCEPT ![req[p].target] = req[p].role] /\ UNCHANGED <<row, status>>)

WriteStatus(p) ==
  Write(p, "status", status' = [status EXCEPT ![req[p].target] = req[p].status] /\ UNCHANGED <<row, role>>)

WriteInvited(p) ==
  Write(p, "resend", status' = [status EXCEPT ![req[p].target] = "invited"] /\ UNCHANGED <<row, role>>)

DeleteRow(p) ==
  Write(p, "remove", /\ row' = [row EXCEPT ![req[p].target] = None]
                     /\ role' = [role EXCEPT ![req[p].target] = None]
                     /\ status' = [status EXCEPT ![req[p].target] = None])

-------------------------------------------------------------------------------
Start(p) ==
  \E u \in Users :
    \/ \E r \in Roles : Join(p, u, r)
    \/ \E v \in Users :
         \/ \E r \in Roles, st \in {"active", "invited"} : JoinNamed(p, u, v, r, st)
         \/ \E r \in Roles : UpdateRole(p, u, v, r)
         \/ \E st \in {"active", "disabled"} : UpdateStatus(p, u, v, st)
         \/ ResendInvite(p, u, v)
         \/ Remove(p, u, v)

Continue(p) ==
  \/ JoinRead(p) \/ JoinAuthorize(p)
  \/ UpsertRead(p) \/ UpsertUpdate(p) \/ UpsertInsert(p) \/ JoinFallback(p)
  \/ FindForRole(p) \/ FindForStatus(p) \/ FindForResend(p) \/ FindForRemove(p)
  \/ CountOwners(p)
  \/ WriteRole(p) \/ WriteStatus(p) \/ WriteInvited(p) \/ DeleteRow(p)

Next == \E p \in Clients : Start(p) \/ Continue(p)

Spec == Init /\ [][Next]_vars

-------------------------------------------------------------------------------
(***************************************************************************)
(* Properties.                                                             *)
(***************************************************************************)

ReqRecord == [pc : ReqPcs, op : AllOps \cup {None}, actor : Users \cup {None},
              target : Users \cup {None}, id : Ids \cup {None}, role : Roles \cup {None},
              status : Statuses \cup {None}, was : Roles \cup {None}, empty : BOOLEAN,
              reply : {"none", "ok", "denied", "missing", "lastOwner", "error"}]

TableOK ==
  /\ row \in [Users -> Ids \cup {None}]
  /\ role \in [Users -> Roles \cup {None}]
  /\ status \in [Users -> Statuses \cup {None}]
  /\ \A u \in Users : row[u] = None <=> role[u] = None
  /\ \A u \in Users : row[u] = None <=> status[u] = None

(* Every variable has its type; a role and a status are those of a row.     *)
TypeOK == TableOK /\ req \in [Clients -> ReqRecord] /\ stale \subseteq Clients

(* A request under way that may still leave the tenant with an owner: an    *)
(* owner's own, one that saw the tenant empty, one that activates a row it  *)
(* checked before the row became an owner's.                               *)
MayCrown(p) ==
  \/ req[p].pc # "idle" /\ req[p].was = "owner"
  \/ /\ req[p].op = "join" /\ req[p].role = "owner"
     /\ req[p].empty \/ req[p].pc \in {"upsert", "upsertUpdate", "upsertInsert"}
  \/ /\ req[p].op = "status" /\ req[p].pc = "write" /\ req[p].status = "active"
     /\ role[req[p].target] = "owner" /\ row[req[p].target] = req[p].id

Orphaned == Members # {} /\ ActiveOwners = {} /\ \A p \in Clients : ~MayCrown(p)

(* A tenant that has lost its last active owner gets none again, whatever   *)
(* its members send: owners come from owners or from the first join (join,  *)
(* updateRole and updateStatus together).                                  *)
OwnersComeFromOwners == [][Orphaned => Orphaned' \/ Members' = {}]_vars

(* While nobody is removed, no request fails half-way: concurrent joins of  *)
(* a user all end with the one membership (the fallback of join), and a row *)
(* found by its id is still there when it is written.                      *)
NoRequestFails == \A p \in Clients : req[p].reply # "error"

(* The last active owner goes only by a request that another has overtaken, *)
(* writing its actor's or its target's row after it began, or by one that   *)
(* joins the last owner anew: what each handler checks protects the owners  *)
(* from all else, however many requests are under way.                     *)
LastOwnerGoesStale ==
  [][ActiveOwners # {} /\ ActiveOwners' = {} =>
       \E p \in Clients :
         /\ req'[p] # req[p]
         /\ p \in stale \/ ("rejoin" \in Ops /\ req[p].op \in {"join", "invite"})]_vars

(* Requests that do not overlap keep an active owner, as long as nobody who *)
(* is active is joined anew.                                               *)
AnOwnerRemains == [][ActiveOwners # {} => ActiveOwners' # {}]_vars
===============================================================================
