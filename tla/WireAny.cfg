CONSTANTS
  W = 20
  IntMax = 300
  Stale = {0, 1}
  FracBits = 10
  HexBuffer = 3
  GoDepth = 16
  Values <- FewValues
  Dirt <- MCDirt
  Byte <- MCByte
  Sendable = {}
  MaxStream = 30
SPECIFICATION Spec
INVARIANT AnyWrittenBack
