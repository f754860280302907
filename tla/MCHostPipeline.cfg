\* Both host pipelines; a queue that may hold all the commands that test 3 enqueues
\* before it waits, and up to two faults.
SPECIFICATION Spec
CONSTANTS
  MaxIters = 3
  QueueDepth = 2
  MaxFaults = 2
  Jobs <- MCJobs
INVARIANTS
  VectorsOutliveTransfers
  CreditedBytesMoved
  FailsOnlyOnFault
PROPERTY PassMeansFirstIntact
