SPECIFICATION Spec
CONSTANTS
  Threads = {t1, t2, t3}
  Buffers = {b1, b2, b3}
  SizeClasses <- MCSizeClasses
  MaxPerClass = 1
  Sizes = {1, 2, 3, 4}
  NoBuf = NoBuf
SYMMETRY PoolSymmetry
INVARIANTS TypeOK ExclusiveOwner LeaseUsable NoDanglingNoLeak CacheBounded
  LateReturnsDestroyed
PROPERTIES ImplementsLeasing
