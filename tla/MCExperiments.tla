--------------------------- MODULE MCExperiments ---------------------------
(***************************************************************************)
(* Values of the constants of Experiments that a configuration cannot      *)
(* write.                                                                  *)
(***************************************************************************)
EXTENDS Experiments

MCTexts == {<<"1">>, <<"0">>, <<"0", "1">>}
MCTimeouts == {-1, 0, 2}
MCMinutes == {-1, 0, 1, 2}
MCGarbage == {<<>>, <<5, Unreadable>>}
=============================================================================
