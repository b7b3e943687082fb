SPECIFICATION ProgramSpec
CONSTANTS
  TILE = 2
  UNIT = 2
  ImmBits = 16
  OffBits = 5
  AbufSize = 136
  WbufSize = 220
  AccumSize = 64
  WeightBudget = 40
  AttnScale = 3
  Insns = {}
  MaxLen = 0
  Jobs <- ModelJobs
  Fills = {0, 127}
INVARIANTS
  LogitsExact
  AddressExact
  CleanStop
  ImageIntact
  InputsResident
  NoLeak
  ProgramDisciplined
  CoverKept
