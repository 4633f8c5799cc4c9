SPECIFICATION TimingSpec
CONSTANTS
  RequestTimeouts = {2}
  OwnTimeouts = {6}
  IntRange = 16
  MaxAttempts = 3
  InitialBackoff = 2
  MaxBackoff = 40
  MaxLong = 127
  MaxLocal = 0
  MaxWait = 0
INVARIANT WithinRequestTimeout
