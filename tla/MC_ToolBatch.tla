---------------------------- MODULE MC_ToolBatch ----------------------------
(***************************************************************************)
(* Instances of ToolBatch for TLC.  One name per kind of tool:             *)
(*   work   ordinary: counts toward the limit and in the vote              *)
(*   gate   its failure makes sibling work meaningless                     *)
(*   note   progress note: no slot, no vote                                *)
(*   read   parallel-safe read: no slot                                    *)
(*   shell  needs the exclusive sandbox                                    *)
(*   ghost  a name no tool is registered under                             *)
(***************************************************************************)
EXTENDS ToolBatch

CONSTANTS work, gate, note, read, shell, ghost

mc_Names == {work, gate, note, read, shell, ghost}
mc_Registered == {work, gate, note, read, shell}
mc_LimitCounted == {work, gate, read, shell}
mc_ParallelSafe == {read}
mc_Voting == {work, gate, read, shell}
mc_AbortsSiblings == {gate}
mc_Exclusive == {shell}

\* Batches run in parallel, batches that share the exclusive sandbox (and so
\* run one call at a time), and batches the limit cuts.
Parallel == {<<gate, work, work>>, <<work, gate, gate>>, <<note, gate, ghost>>}
Shared == {<<gate, shell, gate>>, <<note, shell, ghost>>, <<gate, ghost, shell>>}
Cut == {<<work, work, note>>, <<work, read, work>>, <<ghost, work, gate>>, <<gate, shell, work>>}

Under(batches, allowlists, limits, modes) ==
  [calls : batches, allow : allowlists, limit : limits, mode : modes]

\* With and without a gate that hides the ordinary tools.
Gated == {Unrestricted, {gate, note, read}}

mc_Jobs ==
       Under(Parallel \cup Shared, Gated, {Unlimited}, {"parallel"})
  \cup Under(Parallel, {Unrestricted}, {Unlimited}, {"sequential"})
  \cup Under(Cut, {Unrestricted}, {0, 2}, {"parallel"})

NoDecision == [result |-> Keep, mark |-> Keep, term |-> Keep]
Deliver == [result |-> [error |-> FALSE, term |-> TRUE], mark |-> Keep, term |-> Keep]
Condemn == [result |-> Keep, mark |-> TRUE, term |-> FALSE]

mc_Hooks == {NoDecision, Deliver, Condemn}
=============================================================================
