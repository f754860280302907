\* The reference the result is validated against, with K in mid-tile.
SPECIFICATION GridSpec
CONSTANTS
  TileSide = 2
  Launches <- MCUnalignedLaunches
  NotWritten = NotWritten
INVARIANT ReferenceIsProduct
