CONSTANTS
  Names <- mc_Names
  Setups <- mc_Setups
  MaxTurns = 2
  Strongest = 1
SPECIFICATION Spec
INVARIANTS
  RanWasAdvertised
  OverruledByPriority
  OrderIsIrrelevant
