SPECIFICATION TimingSpec
CONSTANTS
  RequestTimeouts = {0, 1, 4, 9}
  OwnTimeouts <- MCOwnTimeouts
  IntRange = 16
  MaxAttempts = 3
  InitialBackoff = 2
  MaxBackoff = 3
  MaxLong = 127
  MaxLocal = 1
  MaxWait = 2
INVARIANT OverrunBounded
PROPERTY PutReturns
