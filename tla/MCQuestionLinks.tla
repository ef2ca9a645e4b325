---------------------------- MODULE MCQuestionLinks ----------------------------
(***************************************************************************)
(* QuestionLinks for TLC.  Chapters have the textbooks given here.         *)
(***************************************************************************)
EXTENDS QuestionLinks, TLC

CONSTANTS b1, c1

MCBookOf == c1 :> b1

Symmetry == Permutations(Tags) \cup Permutations(Clients)
================================================================================
