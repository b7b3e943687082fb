SPECIFICATION Spec
CONSTANTS
  Dim = 4
  Jobs <- MCJobs
  DstRows <- MCRows
  MaxJobs = 1
  MaxLost = 1
INVARIANTS ProductStored
