\* The compute kernel with all that can be fused into it.
SPECIFICATION FusedSpec
CONSTANTS
  FusedPrograms <- MCFusedPrograms
  NotWritten = NotWritten
INVARIANTS
  FusedTypeOK
  NoLiveStripOverwritten
  LeavesOnlyOutput
  NoCircularWait
PROPERTIES
  ImplementsOutputBlocks
  FusedTermination
