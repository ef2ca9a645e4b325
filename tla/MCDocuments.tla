------------------------------ MODULE MCDocuments ------------------------------
(***************************************************************************)
(* Documents for TLC.                                                      *)
(***************************************************************************)
EXTENDS Documents, TLC

Symmetry == Permutations(Items) \cup Permutations(Clients)
================================================================================
