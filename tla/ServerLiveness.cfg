CONSTANTS
  c1 = c1
  c2 = c2
  NoConn = NoConn
  Conns = {c1, c2}
  MaxRequests = 2
  SendBuffer = 2
  Backlog = 1
  CustomServer = TRUE
  Pipelining = FALSE
SPECIFICATION FairSpec
CHECK_DEADLOCK FALSE
PROPERTIES QueriesAnswered LostClientsReaped ConnectionsAdmitted ShutdownCompletes
