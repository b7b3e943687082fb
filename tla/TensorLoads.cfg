SPECIFICATION LoadsSpec
CONSTANTS
  Regs = {r0}
  Half = 2
  Window = 2
  None = None
  Walking = TRUE
  Names = {a, b, c}
  Capacity = 5
  Sizes = {1, 2, 4}
SYMMETRY AnyName
INVARIANTS TensorsIntact Partition RefusedOnlyWhenFull CacheExact AccessHits
