SPECIFICATION FairSpec
CONSTANTS
  Workers = {w1, w2}
  ClientIds = {s1}
  Reports = {r1}
  Empty = Empty
  Torn = Torn
  Nobody = Nobody
  Ttl = 0
  MaxSeq = 0
  MaxTime = 1
  Resent = {s1}
PROPERTIES ExpiredIsRefused
