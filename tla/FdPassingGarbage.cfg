SPECIFICATION Spec
CONSTANTS
  c1 = c1
  c2 = c2
  Clients = {c1, c2}
  TopFd = 7
  Garbage <- Harmful
  MayDie = {}
INVARIANT AnswersDelivered
CHECK_DEADLOCK FALSE
