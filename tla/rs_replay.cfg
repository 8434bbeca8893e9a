CONSTANTS
  Absent = Absent
  Messages <- mc_Messages
  Providers <- mc_Providers
  IndexModulus = 4
  MaxRebuilds = 2
SPECIFICATION ReplaySpec
INVARIANTS
  TypedRoundTripIsStable
  WellFormedSurvives
  AuditForetells
