SPECIFICATION SweepSpec
CONSTANTS
  Tenants = {t1, t2}
  Cleaners = {w1, w2}
  MaxThreads = 3
  None = None
SYMMETRY SweepSymmetry
INVARIANTS
  CleanupBreaksNothing
CHECK_DEADLOCK FALSE
