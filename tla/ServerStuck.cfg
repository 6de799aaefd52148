CONSTANTS
  c1 = c1
  c2 = c2
  NoConn = NoConn
  Conns = {c1}
  MaxRequests = 3
  SendBuffer = 2
  Backlog = 1
  CustomServer = FALSE
  Pipelining = TRUE
SPECIFICATION FairSpec
PROPERTIES WaitIsReset
