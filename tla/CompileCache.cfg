SPECIFICATION Spec
CONSTANTS
  Procs = {p, q, r}
  Inodes = {1, 2, 3, 4, 5}
  Full = 2
  None = None
  OneCompiler = TRUE
INVARIANTS CacheWhole
