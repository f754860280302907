\* Every test with up to three iterations, and up to two calls that throw.
SPECIFICATION Spec
CONSTANTS
  MaxIters = 3
  QueueDepth = 2
  MaxFaults = 2
  Jobs <- MCJobs
INVARIANTS
  MeasuredOpsExact
  ValidationSeesFinalOutput
  DirectAccessOnlyWhenIdle
  TraceCleanedUp
PROPERTY ReleasedAfterItsReplays
