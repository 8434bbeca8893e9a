---------------------------- MODULE MC_RunEvents ----------------------------
(***************************************************************************)
(* Instances of RunEvents for TLC: a fresh conversation, which cannot be   *)
(* continued, and one that ends with a tool result, which can.             *)
(***************************************************************************)
EXTENDS RunEvents

Contexts == {<<>>, <<"calls", "results">>}

Plain(contexts, tools, eagers, nudges) ==
  [context : contexts, tool : tools, eager : eagers, nudge : nudges]

\* The fallback after narrowing only, the eager one, and the nudge.
mc_Setups == Plain(Contexts, {TRUE}, {FALSE}, {FALSE})
        \cup Plain({<<>>}, {TRUE}, {TRUE}, BOOLEAN)
=============================================================================
