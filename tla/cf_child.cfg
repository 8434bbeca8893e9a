CONSTANTS
  Unset = Unset
  Plugins <- mc_Plugins
  Tools <- mc_Tools
  Settings <- mc_Settings
  Entries <- mc_Entries
  HostIds <- mc_HostIds
  MaxRuns = 3
  MaxCalls = 4
SPECIFICATION ChildSpec
INVARIANTS
  SameShape
  ParentOnlyStays
  LineageIsTraceable
CHECK_DEADLOCK FALSE
