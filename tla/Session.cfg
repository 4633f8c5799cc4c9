SPECIFICATION Spec
CONSTANTS
  Workers = {w1, w2, w3}
  ClientIds = {s1}
  Reports = {r1, r2}
  Empty = Empty
  Torn = Torn
  Nobody = Nobody
  Ttl = 0
  MaxSeq = 2
  MaxTime = 1
  Resent = {s1}
SYMMETRY SessionSymmetry
INVARIANTS TypeOK SessionsConsistent AutoIdFresh PointerStaysValid EtagReported
PROPERTIES ImplementsDirectory
