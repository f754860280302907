\* L1 tensors on columns of cores of different widths.
SPECIFICATION GridSpec
CONSTANTS
  TileSide = 2
  Launches <- MCL1Launches
  NotWritten = NotWritten
INVARIANT ReadbackExact
