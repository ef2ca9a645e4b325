---------------------------- MODULE MCQuestionImport ----------------------------
(***************************************************************************)
(* QuestionImport for TLC: imports that name the same tags in either order, *)
(* in one item or in two, with and without lookups.                        *)
(***************************************************************************)
EXTENDS QuestionImport, TLC

CONSTANTS x, y

Entry(lookup, names) == [lookup |-> lookup, tags |-> names]

MCBatches == {<<Entry(TRUE, <<x>>)>>, <<Entry(FALSE, <<x, y>>)>>,
              <<Entry(FALSE, <<y>>), Entry(TRUE, <<x>>)>>}
=================================================================================
