CONSTANTS
  MAX_ATOM_SIZE = 20
  Formats <- AllFormats
  BufSizes <- MCBufSizes
  VaShared = TRUE
SPECIFICATION Spec
INVARIANTS TypeOK WritesInBounds ReturnContract NothingDropped
PROPERTY RetriesEnd
CHECK_DEADLOCK FALSE
