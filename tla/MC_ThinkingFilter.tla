-------------------------- MODULE MC_ThinkingFilter --------------------------
(***************************************************************************)
(* An instance of ThinkingFilter for TLC: two tags of which one begins     *)
(* like the other, single characters and whole pieces as deltas, among     *)
(* them one that closes a block and opens the next.                        *)
(***************************************************************************)
EXTENDS ThinkingFilter

mc_Char == {"<", "/", ">", " ", "t", "n"}

mc_Tags == {<<"t">>, <<"t", "n">>}

mc_Deltas == {<<"<">>, <<"t">>, <<"n", ">">>, <<">">>, <<"/">>, <<" ">>,
              <<"<", "t", ">">>, <<"<", "/", "t", ">">>,
              <<"n", "<", "/", " ", "t", ">", "<", "t", "n", ">">>}
=============================================================================
