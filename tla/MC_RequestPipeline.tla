------------------------- MODULE MC_RequestPipeline -------------------------
(***************************************************************************)
(* The instance of RequestPipeline for TLC: two batches of up to two calls,*)
(* with ids that clash within a batch, between batches and with generated  *)
(* ids, sizes on both sides of the caps and the budget, an orphan result   *)
(* and a transcript that ends with the user, a result or the model.        *)
(***************************************************************************)
EXTENDS RequestPipeline

mc_Uncapped == 99
mc_ClipMarker == 2
mc_ClipFrame == 4
mc_Trigger == 12
mc_MarkerSize == 1
mc_MaxSuffix == 6

User == [kind |-> "user", id |-> 0, size |-> 1, form |-> "full", cap |-> 0, answers |-> 0]
Assistant == [User EXCEPT !.kind = "assistant"]
Call(id) == [User EXCEPT !.kind = "call", !.id = id, !.size = 0]
Result(id, size, form, cap, call) ==
  [kind |-> "result", id |-> id, size |-> size, form |-> form, cap |-> cap, answers |-> call]

\* -1 is an id of the provider's own; 1 and 2 look generated.
mc_Ids == {-1, 1, 2}

\* How big a result is, whether it already holds a marker, what its tool's cap is.
mc_Contents == {<<1, "full", 5>>, <<7, "full", 5>>, <<7, "full", 3>>, <<7, "full", 1>>,
                <<7, "clipped", 5>>, <<7, "full", 99>>, <<1, "marker", 5>>}

Of(id, content, call) == Result(id, content[1], content[2], content[3], call)

\* The model calls twice, then once or twice, and every call is answered in order.
Full(i, j, k, c, d) ==
  <<User, Assistant, Call(i), Call(j), Of(i, c, 3), Of(j, d, 4),
    Assistant, Call(k), Of(k, c, 8)>>

Wide(i, j, c, d) ==
  <<Assistant, Call(i), Of(i, c, 2), Assistant, Call(i), Call(j), Call(j),
    Of(i, c, 5), Of(j, d, 6), Of(j, c, 7)>>

\* A result whose call has been cut away, before calls that reuse its id.
Orphaned(i, j, c, d) ==
  <<Of(i, c, 0), User, Assistant, Call(j), Of(j, d, 4), Assistant, Call(j), Of(j, c, 7), User>>

Pair == mc_Contents \X {<<1, "full", 5>>, <<7, "full", 5>>}

mc_Transcripts ==
  {Full(i, j, k, p[1], p[2]) : i \in mc_Ids, j \in mc_Ids, k \in mc_Ids, p \in Pair}
    \cup {Wide(i, j, p[1], p[2]) : i \in mc_Ids, j \in mc_Ids, p \in Pair}
    \cup {Orphaned(i, j, p[1], p[2]) : i \in mc_Ids, j \in mc_Ids, p \in Pair}

mc_Pipelines == {<<"ids", "cap", "trim">>, <<"trim", "ids">>, <<"cap", "trim">>}
=============================================================================
