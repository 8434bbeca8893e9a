CONSTANTS
  CapMax = 7
  NoCap = NoCap
  Caps <- mc_Caps
  Efforts <- mc_Efforts
  HasRecovery = TRUE
  MaxSize = 3
SPECIFICATION FairSpec
INVARIANTS
  TruncatedOnlyAtCeiling
  OneLateRequest
PROPERTIES
  ImplementsContract
  CancelEndsCall
  OnlyRetriesGoOn
