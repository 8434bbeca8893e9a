CONSTANTS
  Setups <- mc_Setups
  MaxTurns = 2
  MaxSteer = 1
  MaxFollowUp = 1
  MaxCalls = 2
SPECIFICATION EvFairSpec
INVARIANTS
  TurnEndsTellAll
  EndIsAnnounced
PROPERTIES
  FollowsGrammar
  CancelEndsRun
