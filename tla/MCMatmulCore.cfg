\* The matmul kernels of one core on the small programs of MCMatmulCore.
SPECIFICATION Spec
CONSTANTS
  Programs <- MCPrograms
  NotWritten = NotWritten
INVARIANTS
  TypeOK
  SharedMemoryExclusive
  OperandsPaired
  PartialsFindOutputDrained
  LeavesBuffersEmpty
  NoCircularWait
PROPERTIES
  ImplementsOutputBlocks
  Termination
