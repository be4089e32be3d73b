SPECIFICATION FairSpec
CONSTANTS
  ListAPIMethod = ListAPIMethod
  open = open
  reserved = reserved
  h1 = h1
  h2 = h2
  w1 = w1
  w2 = w2
  m1 = m1
  m2 = m2
  HttpRequest = {}
  WsRequest = {w1, w2}
  Channel <- Channels
  Scope <- Scopes
  ListAPI = ListAPIMethod
  Module = {m1, m2}
  Methods <- ModuleMethods
  Queries <- WsQueries
  MaxFailures = 2
  None = None
INVARIANTS
  AnsweredOnce
  EntriesAccounted
PROPERTIES
  WsAnswered
  ImplementsForwarding
CHECK_DEADLOCK FALSE
