CONSTANTS
  Char <- mc_Char
  Tags <- mc_Tags
  Deltas <- mc_Deltas
  MaxFeeds = 5
SPECIFICATION Spec
INVARIANTS
  VisibleTagHasCause
  ThoughtsAreWhole
  PlainTextPasses
