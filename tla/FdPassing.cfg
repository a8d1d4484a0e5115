SPECIFICATION Spec
CONSTANTS
  c1 = c1
  c2 = c2
  Clients = {c1, c2}
  TopFd = 6
  Garbage <- Harmless
  MayDie = {c1, c2}
INVARIANTS TypeOK OwnDescriptors AnswersDelivered
PROPERTIES ClientsEnd NothingLeft HandoverKept
CHECK_DEADLOCK FALSE
