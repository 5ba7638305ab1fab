---------------------------- MODULE MCIntentApply ---------------------------
(***************************************************************************)
(* Instances of IntentApply for TLC.                                       *)
(***************************************************************************)
EXTENDS IntentApply

\* A final report, alone or after a refused delegation; a continuation that a
\* leftover process may extend; a file that does not parse.
HardFiles == {<<"done">>, <<"delegate", "blocked">>, <<"continue">>, <<"continue", "delegate">>,
              <<"bad">>}

\* Nothing, a final report, a continuation or progress, with or without a
\* refused row.
PlainFiles == {<<"done">>, <<"continue">>, <<"continue", "bad_ref">>, <<"progress">>, <<"bad_ref">>}
=============================================================================
