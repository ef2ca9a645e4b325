---------------------------- MODULE MCAdminConsole ----------------------------
(***************************************************************************)
(* AdminConsole for TLC: one tenant has two questions and a document, the   *)
(* other nothing; one more of each may be created.  Ids are only compared.  *)
(***************************************************************************)
EXTENDS AdminConsole, TLC

CONSTANTS a, b, q1, q2, d1

MCRows == q1 :> a @@ q2 :> a @@ d1 :> a

Symmetry ==
  Permutations({q1, q2}) \cup Permutations(Handlers)
===============================================================================
