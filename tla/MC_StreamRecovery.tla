-------------------------- MODULE MC_StreamRecovery --------------------------
(***************************************************************************)
(* Instances of StreamRecovery for TLC: three-bit caps, one of them a      *)
(* power of two and one not, and an effort on either side of the step that *)
(* a zero-output retry takes.                                              *)
(***************************************************************************)
EXTENDS StreamRecovery

mc_Caps == {NoCap, 0, 2, 3, CapMax}
mc_Efforts == {"none", "high"}
=============================================================================
