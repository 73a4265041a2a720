\* A byte of sixteen values and a letter of eight; 32 bits hold 65536.
CONSTANTS
  BYTE = 16
  QUARTER = 2
  Tables <- MCTables
SPECIFICATION MSpec
INVARIANT ReaderFindsRows
CHECK_DEADLOCK FALSE
