SPECIFICATION ProgramSpec
CONSTANTS
  TILE = 2
  UNIT = 2
  ImmBits = 11
  OffBits = 5
  AbufSize = 136
  WbufSize = 220
  AccumSize = 64
  WeightBudget = 40
  AttnScale = 3
  Insns = {}
  MaxLen = 0
  Jobs <- CarryJobs
  Fills = {0}
INVARIANT AddressExact
