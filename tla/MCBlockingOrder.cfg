\* The claim that blocks are tried from the largest to the smallest.
SPECIFICATION SetupSpec
CONSTANTS
  MaxTiles = 4
  Budgets = {12, 16}
  TileSide = 1
  Launches <- MCLaunches
INVARIANT LargestBlockChosen
