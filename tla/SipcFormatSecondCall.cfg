CONSTANTS
  MAX_ATOM_SIZE = 20
  Formats <- ScalarFormats
  BufSizes <- MCBufSizes
  VaShared = TRUE
SPECIFICATION Spec
INVARIANT SecondCallFits
CHECK_DEADLOCK FALSE
