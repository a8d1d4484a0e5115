SPECIFICATION Spec
CONSTANTS
  c1 = c1
  c2 = c2
  g1 = g1
  g2 = g2
  r1 = r1
  CClients = {c1, c2}
  GoClients = {g1, g2}
  RcClients = {r1}
  Requests = 2
  MayDie = {c1, g1, r1}
  AtMost = 2
INVARIANTS TypeOK HandlesKnown AnswersDelivered RepliesMatch
PROPERTIES HandoverKept ServerStays ServerListens ClientsEnd ConnectionsClosed
CHECK_DEADLOCK FALSE
