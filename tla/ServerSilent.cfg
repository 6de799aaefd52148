CONSTANTS
  c1 = c1
  c2 = c2
  NoConn = NoConn
  Conns = {c1, c2}
  MaxRequests = 1
  SendBuffer = 2
  Backlog = 1
  CustomServer = FALSE
  Pipelining = FALSE
SPECIFICATION SilentSpec
PROPERTIES QueriesAnswered
