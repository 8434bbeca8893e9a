---------------------------- MODULE MC_ToolGates ----------------------------
(***************************************************************************)
(* Instances of ToolGates for TLC: two registered tools and a name that is *)
(* not, gates of every class with equal and different priorities.          *)
(***************************************************************************)
EXTENDS ToolGates

mc_Names == {"work", "deliver", "unknown"}

Tools == {"work", "deliver"}

\* A required gate, an advisory one, and a required owner of a repair.
Required(name, priority) ==
  [name |-> name, priority |-> priority, advisory |-> FALSE, owner |-> FALSE,
   opening |-> FALSE, list |-> {}]

Advisory(name, priority) == [Required(name, priority) EXCEPT !.advisory = TRUE]

Repair(name, priority) == [Required(name, priority) EXCEPT !.owner = TRUE]

Opening(list) == [Required(9, 0) EXCEPT !.opening = TRUE, !.list = list]

Run(gates) == [tools |-> Tools, gates |-> gates, past |-> 0]

mc_Setups ==
  { Run(<<>>),
    Run(<<Opening({"unknown"})>>),
    Run(<<Opening({"deliver", "unknown"}), Required(1, 0)>>),
    Run(<<Advisory(2, 0), Repair(1, 1)>>),
    Run(<<Advisory(1, 1), Required(2, 0), Repair(3, 1)>>),
    Run(<<Required(1, 0), Advisory(1, 0)>>) }

\* For OpeningTurnIsNarrowed: the opening gate by itself.
mc_OpeningOnly == {Run(<<Opening({"unknown"})>>), Run(<<Opening({"deliver"})>>)}
=============================================================================
