\* The host's sizing of all small launches, from an L1 too small for anything
\* to one that holds the largest of them in a single block.
SPECIFICATION SetupSpec
CONSTANTS
  MaxTiles = 6
  Budgets = {6, 7, 12, 16, 23, 32, 48, 80, 160}
  TileSide = 1
  Launches <- MCLaunches
INVARIANTS
  SetupTypeOK
  BuffersFitL1
  ZerosInsideCB2
  DramRefusedOnlyForTinyL1
