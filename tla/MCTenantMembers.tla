---------------------------- MODULE MCTenantMembers ----------------------------
(***************************************************************************)
(* TenantMembers for TLC: users, row ids and requests are only compared.   *)
(***************************************************************************)
EXTENDS TenantMembers, TLC

Symmetry == Permutations(Users) \cup Permutations(Ids) \cup Permutations(Clients)

(* A tenant that all users have come to own, one after the other: the first  *)
(* joined it empty and invited the others as owners.                        *)
OwnedInit ==
  /\ row \in [Users -> Ids] /\ \A u, v \in Users : row[u] = row[v] => u = v
  /\ role = [u \in Users |-> "owner"]
  /\ status = [u \in Users |-> "active"]
  /\ req = [p \in Clients |-> IdleReq]
  /\ stale = {}

OwnedSpec == OwnedInit /\ [][Next]_vars
================================================================================
