CONSTANTS
  ToolTypes <- mc_ToolTypes
  Emitted <- mc_Emitted
SPECIFICATION ArgSpec
INVARIANTS
  SchemaAdmitsVariants
  RunsWhatWasMeant
