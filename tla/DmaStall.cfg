SPECIFICATION Spec
CONSTANTS
  Buffers = {"ABUF", "ACCUM"}
  Rows <- MCRows
  DramWords = 5
  MaxBurst = 2
  Jobs <- MCJobs
  ResetBuf = "ABUF"
  WStalls = TRUE
  MaxTransfers = 1
INVARIANTS StoredWordIsSource
