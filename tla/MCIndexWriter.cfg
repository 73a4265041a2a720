\* U16 = 4 makes a count of four or five fragments or samples wrap, U32 = 1024
\* the place of the third and later samples of a fragment, and the size of one
\* of four samples or more.
CONSTANTS
  U16 = 4
  U32 = 1024
  MediaLists <- MCMediaLists
SPECIFICATION Spec
INVARIANTS
  TypeOK
  PassesAgree
  IndexDescribes
CHECK_DEADLOCK FALSE
