CONSTANTS
  Setups <- mc_Setups
  MaxTurns = 3
  MaxSteer = 2
  MaxFollowUp = 1
SPECIFICATION FairSpec
INVARIANTS
  RequestIsValid
  SteeringConserved
PROPERTIES
  TerminatorIsLast
  CancelEndsRun
