CONSTANTS
  Transcripts <- mc_Transcripts
  Pipelines <- mc_Pipelines
  Uncapped <- mc_Uncapped
  ClipMarker <- mc_ClipMarker
  ClipFrame <- mc_ClipFrame
  Trigger <- mc_Trigger
  MarkerSize <- mc_MarkerSize
  MaxSuffix <- mc_MaxSuffix
SPECIFICATION Spec
INVARIANTS
  UniqueIds
  ResultsMatch
  TrimmedAsNeeded
