\* Launches whose edge core has fewer tiles than its interior outer blocks.
SPECIFICATION GridSpec
CONSTANTS
  TileSide = 2
  Launches <- MCEdgeLaunches
  NotWritten = NotWritten
INVARIANT ProductComplete
