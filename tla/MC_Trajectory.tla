---------------------------- MODULE MC_Trajectory ----------------------------
(***************************************************************************)
(* The instances of Trajectory for TLC: a run with two children that a     *)
(* parallel batch spawns, and a later run, without an identity, that uses  *)
(* the recorder of the first again.                                        *)
(***************************************************************************)
EXTENDS Trajectory, TLC

CONSTANTS main, left, right, later, r1, r2, r3

mc_Runs == {main, left, right, later}
mc_Parent == (left :> main) @@ (right :> main) @@ (main :> NoRun) @@ (later :> NoRun)
mc_Recorders == {r1, r2, r3}
mc_Own == (main :> r1) @@ (left :> r2) @@ (right :> r3) @@ (later :> r1)
mc_Identified == {main, left}
mc_NotSharing == {}

\* For SharedAreDistinguishable: a child that inherits the recorder of its parent.
mc_Pair == {main, left}
mc_PairParent == (main :> NoRun) @@ (left :> main)
mc_Inherited == (main :> r1) @@ (left :> r1)
mc_Sharing == {left}
=============================================================================
