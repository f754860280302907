\* The writers of a grid of cores and the read-back.
SPECIFICATION GridSpec
CONSTANTS
  TileSide = 2
  Launches <- MCLaunches
  NotWritten = NotWritten
INVARIANTS
  EachTileWrittenOnce
  ProductComplete
  ReadbackExact
