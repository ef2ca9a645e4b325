--------------------------- MODULE MCAssetReferences ---------------------------
(***************************************************************************)
(* AssetReferences for TLC: assets, holders and requests are only compared. *)
(***************************************************************************)
EXTENDS AssetReferences, TLC

Symmetry ==
  Permutations(Assets) \cup Permutations(Parts) \cup Permutations(Layouts) \cup Permutations(Clients)
================================================================================
