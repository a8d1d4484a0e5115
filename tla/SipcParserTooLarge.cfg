CONSTANTS
  W = 12
  IntMax = 15
  Stale <- MCStale
  Messages <- AtomMessages
  MaxDepth = 16
  FlagBits = 32
  FracBits = 7
  GoDepth = 16
SPECIFICATION Spec
INVARIANT TooLargeRejected
