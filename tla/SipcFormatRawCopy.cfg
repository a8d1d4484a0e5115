CONSTANTS
  MAX_ATOM_SIZE = 20
  Formats <- CopyFormats
  BufSizes <- MCBufSizes
  VaShared = TRUE
SPECIFICATION Spec
INVARIANT ReadsOwnArgs
CHECK_DEADLOCK FALSE
