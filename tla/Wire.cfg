CONSTANTS
  W = 20
  IntMax = 300
  Stale = {0, 1}
  FracBits = 10
  HexBuffer = 3
  GoDepth = 16
  Values <- MCValues
  Dirt <- MCDirt
  Byte <- MCByte
  Sendable <- MCSendable
  MaxStream = 30
SPECIFICATION Spec
INVARIANTS TypeOK FramesExact RoundTrip DoublesNearest
PROPERTY FramesRead
