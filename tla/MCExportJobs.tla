---------------------------- MODULE MCExportJobs ----------------------------
(***************************************************************************)
(* ExportJobs for TLC.  Jobs, assets, requests and attempts are only        *)
(* compared, so any permutation of them is a symmetry; a run that checks a  *)
(* liveness property uses none.                                            *)
(***************************************************************************)
EXTENDS ExportJobs, TLC

Symmetry ==
  Permutations(Jobs) \cup Permutations(Assets) \cup Permutations(Clients) \cup Permutations(Slots)
=============================================================================
