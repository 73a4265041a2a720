\* The same worlds and requests as MCFragmentServer.cfg.
CONSTANTS
  U16 = 4
  U32 = 1024
  Worlds <- MCWorlds
  Requests <- MCRequests
SPECIFICATION Spec
INVARIANT ReadmeNumbering
CHECK_DEADLOCK FALSE
