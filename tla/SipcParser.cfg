CONSTANTS
  W = 12
  IntMax = 15
  Stale <- MCStale
  Messages <- AllMessages
  MaxDepth = 16
  FlagBits = 32
  FracBits = 7
  GoDepth = 16
SPECIFICATION Spec
INVARIANTS TypeOK ReadsInBounds ViewsInBounds LengthsExact AnyAgreesWithGetters WalkAgrees GoAgrees GoEnds
PROPERTY MessagesEnd NestingKept
