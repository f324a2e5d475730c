CONSTANTS
  e = e
  f = f
  h1 = h1
  h2 = h2
  EchoClients = {e}
  FileClients = {f}
  HostClients = {h1, h2}
  PortOf <- MCPortOf
  NumSocket = 2
  MsgLen = 2
  MaxClients = 1
  NoConn = NoConn
SPECIFICATION ServiceSpec
INVARIANT OwnReply
PROPERTY EveryClientEnds
CHECK_DEADLOCK FALSE
