SPECIFICATION MemorySpec
CONSTANTS
  Threads = {t1, t2}
  Buffers = {b1, b2}
  MaxAttempts = 3
  MaxSize = 2
  MaxPins = 2
  Whole = {b1}
CHECK_DEADLOCK FALSE
SYMMETRY MemorySymmetry
INVARIANTS MemoryTypeOK RegistryAgrees NothingPinnedIsFreed TokenCovered LazilyRegistered
