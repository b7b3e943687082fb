SPECIFICATION FairSpec
CONSTANTS
  Buffers = {"ABUF", "ACCUM"}
  Rows <- MCRows
  DramWords = 5
  MaxBurst = 2
  Jobs <- MCJobs
  ResetBuf = "ABUF"
  WStalls = FALSE
  MaxTransfers = 2
INVARIANTS AccessInBounds
PROPERTIES ImplementsBlockTransfer TransferEnds
