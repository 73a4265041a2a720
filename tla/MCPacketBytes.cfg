\* A byte of four values: 24 bits hold 64, 32 bits hold 256.
CONSTANTS
  BYTE = 4
  Fragments <- MCFragments
  CodecSizes = {0, 2}
SPECIFICATION Spec
INVARIANTS
  SameBytes
  PlayerReads
CHECK_DEADLOCK FALSE
