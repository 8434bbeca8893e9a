CONSTANTS
  Capacity <- mc_Capacity
  MaxUpdates <- mc_MaxUpdates
SPECIFICATION FairSpec
INVARIANTS
  ShownInOrder
PROPERTIES
  ReturnsAreSettled
