\* Sizes of 16 bits: two of the files are at that limit.
CONSTANTS
  MaxTables = 3
  Files <- MCFiles
  U32 = 65536
SPECIFICATION Spec
INVARIANTS
  TypeOK
  KeepsPlace
  TablesLoaded
  Configured
  Accepted
PROPERTY
  Terminates
CHECK_DEADLOCK FALSE
