SPECIFICATION Spec
CONSTANTS
  Workers = {w1, w2}
  ClientIds = {s1}
  Reports = {r1, r2}
  Empty = Empty
  Torn = Torn
  Nobody = Nobody
  Ttl = 0
  MaxSeq = 0
  MaxTime = 0
  Resent = {s1}
INVARIANTS EtagAlwaysReported
