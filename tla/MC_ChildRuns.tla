---------------------------- MODULE MC_ChildRuns ----------------------------
(***************************************************************************)
(* Instances of ChildRuns for TLC: three generations or a pair of          *)
(* siblings, a plugin that opts in and one that does not, a tool and its   *)
(* replacement, a setting of every kind of option, and an id of the host's.*)
(***************************************************************************)
EXTENDS ChildRuns

Guard == [name |-> "guard", caps |-> {"before_tool_call", "event_observer"}, heritable |-> TRUE]
Pruner == [name |-> "pruner", caps |-> {"event_observer"}, heritable |-> FALSE]
Tracer == [name |-> "tracer", caps |-> {"event_observer"}, heritable |-> TRUE]

mc_Plugins == {Guard, Pruner, Tracer}

mc_Entries == {<<"tool_gate", Guard>>, <<"before_tool_call", Pruner>>}

mc_HostIds == {-1}

mc_Tools == {[name |-> "read", version |-> 1], [name |-> "read", version |-> 2],
             [name |-> "send", version |-> 1]}

mc_Settings ==
  {<<"stream", "s">>, <<"max_tool_calls_per_turn", 0>>, <<"fallback_tool", "send">>,
   <<"fallback_eager", TRUE>>, <<"fallback_eager_nudge", TRUE>>, <<"event_sink", "sink">>}
=============================================================================
