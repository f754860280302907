\* The claim that the zone around ReadShard bounds the whole transfer.
SPECIFICATION Spec
CONSTANTS
  MaxIters = 1
  QueueDepth = 2
  MaxFaults = 0
  Jobs <- MCJobs
INVARIANT ReadZoneBoundsTransfer
