SPECIFICATION BenchFairSpec
CONSTANTS
  Threads = {w1, w2}
  Buffers = {b1, b2}
  MaxAttempts = 2
  MaxSize = 1
  MaxPins = 2
  Whole = {b1, b2}
  MaxCount = 3
  MaxWarmup = 1
CHECK_DEADLOCK FALSE
INVARIANTS ClientOutlivesCalls ReportComplete
PROPERTIES UsesManager BenchEnds
