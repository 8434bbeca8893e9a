--------------------------- MODULE MC_ToolUpdates ---------------------------
(***************************************************************************)
(* The instance of ToolUpdates for TLC: a queue of two, and enough updates *)
(* to overflow it while one is being shown and others trail the end.       *)
(***************************************************************************)
EXTENDS ToolUpdates

mc_Capacity == 2
mc_MaxUpdates == 5
=============================================================================
