SPECIFICATION FairSpec
CONSTANTS
  ListAPIMethod = ListAPIMethod
  open = open
  reserved = reserved
  h1 = h1
  h2 = h2
  w1 = w1
  w2 = w2
  m1 = m1
  m2 = m2
  HttpRequest = {h1, h2}
  WsRequest = {w1}
  Channel <- Channels
  Scope <- Scopes
  ListAPI = ListAPIMethod
  Module = {m1}
  Methods <- ModuleMethods
  Queries <- HttpQueries
  MaxFailures = 0
  None = None
INVARIANTS
  HttpAnswersOwn
PROPERTIES
  HttpReturns
CHECK_DEADLOCK FALSE
