SPECIFICATION FairSpec
CONSTANTS
  Dim = 8
  BufRows <- MCRows
  HelperJobs <- MCHelperJobs
  SfuJobs <- MCSfuJobs
  MaxRow = 16
  MaxOps = 2
INVARIANTS AccessInBounds HelperResult SfuResult
PROPERTIES OperationEnds
CHECK_DEADLOCK FALSE
