CONSTANTS
  main = main
  left = left
  right = right
  later = later
  r1 = r1
  r2 = r2
  r3 = r3
  NoRun = NoRun
  Runs <- mc_Runs
  Parent <- mc_Parent
  Recorders <- mc_Recorders
  RecorderOf <- mc_Own
  Identified <- mc_Identified
  Sharing <- mc_NotSharing
  MaxRecords = 2
SPECIFICATION Spec
INVARIANTS
  Attributed
  Ordered
