SPECIFICATION Spec
CONSTANTS
  Procs = {p, q}
  Inodes = {1, 2, 3, 4}
  Full = 2
  None = None
  OneCompiler = FALSE
INVARIANTS CacheWhole
