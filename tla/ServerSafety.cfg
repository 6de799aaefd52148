CONSTANTS
  c1 = c1
  c2 = c2
  NoConn = NoConn
  Conns = {c1, c2}
  MaxRequests = 2
  SendBuffer = 1
  Backlog = 2
  CustomServer = TRUE
  Pipelining = TRUE
SPECIFICATION Spec
CHECK_DEADLOCK FALSE
INVARIANTS TypeOK LockDiscipline SocketsAccounted PassIsStable BusyIsServed OneReplyPerQuery ReplyDoesNotBlock
PROPERTIES ClosedForCause ImplementsService
