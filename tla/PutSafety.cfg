SPECIFICATION Spec
CONSTANTS
  Clients = {c1}
  MaxAttempts = 2
  Copies = {k1, k2}
  Verify = TRUE
  ComputeCrc = TRUE
SYMMETRY PutSymmetry
INVARIANTS TypeOK VerifiedIntact CompletedHasTransfer
