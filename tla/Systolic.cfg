SPECIFICATION FairSpec
CONSTANTS
  Dim = 4
  Jobs <- MCJobs
  DstRows <- MCRows
  MaxJobs = 2
  MaxLost = 0
INVARIANTS DrainedComplete ProductStored
PROPERTIES OnlyDestination MatmulEnds
