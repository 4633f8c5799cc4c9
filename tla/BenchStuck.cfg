SPECIFICATION BenchFairSpec
CONSTANTS
  Threads = {w1, w2}
  Buffers = {b1, b2}
  MaxAttempts = 1
  MaxSize = 1
  MaxPins = 2
  Whole = {b1, b2}
  MaxCount = 1
  MaxWarmup = 0
CHECK_DEADLOCK FALSE
PROPERTY AlwaysReports
