SPECIFICATION CrcSpec
CONSTANTS
  Messages <- MCMessages
  Flips <- MCFlips
INVARIANTS StreamIsCrc BurstDetected
