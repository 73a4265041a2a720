\* U16 = 4: one index has a source with five fragments, another a fragment of
\* five samples, so that the counts of both wrap.
CONSTANTS
  U16 = 4
  U32 = 1024
  Worlds <- MCWorlds
  Requests <- MCRequests
SPECIFICATION Spec
INVARIANTS
  TypeOK
  AlignedReads
  NeverOverrun
  ReleasedOnce
PROPERTIES
  ImplementsService
CHECK_DEADLOCK FALSE
