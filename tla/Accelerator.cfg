SPECIFICATION ObsFairSpec
CONSTANTS
  Insns <- MCInsns
  Tiles = {t1}
  NoTile = NoTile
  MaxPC = 4
  Empty = Empty
INVARIANTS
  NoForbiddenOverlap SyncBarrier SyncedHaltIsClean FaultCodeTruthful NoLostWork
  IInv
  RetiredCountExact ObsAgreesWithControl FaultAttributed
PROPERTIES
  HelperInputsStable
  ImplementsIssueOrder
  EventuallyTerminal
