\* Test 2 with every division of the rows of cores and of the matrix.
SPECIFICATION SubSpec
CONSTANTS
  TileSide = 2
  MaxRows = 10
  MaxCores = 5
  Budgets = {6, 12, 24, 48}
  Launches <- MCLaunches
  Jobs <- MCJobs
INVARIANTS
  GroupsPartitionJob
  BlockAlwaysFound
  BuffersFitL1
