SPECIFICATION FairSpec
CONSTANTS
  MaxBurst = 3
  MaxBeats = 8
INVARIANTS OwnersAgree BoundedBypass
PROPERTIES RequestsServed
