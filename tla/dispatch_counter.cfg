SPECIFICATION Spec
CONSTANTS
  GetConsolidatedAPI = GetConsolidatedAPI
  RegisterAPI = RegisterAPI
  noMethod = noMethod
  c1 = c1
  c2 = c2
  i1 = i1
  i2 = i2
  Client = {c1, c2}
  MessageID = {i1, i2}
  MessageIDsOf <- OwnIDs
  Method = {GetConsolidatedAPI, RegisterAPI, noMethod}
  Invokable = {GetConsolidatedAPI, RegisterAPI}
  Deferred = {RegisterAPI}
  MinEvent <- MinEvents
  MinPeriod <- MinPeriods
  EventMethod = {GetConsolidatedAPI}
  Counters = {0, 1, 2}
  Periods = {0, 1}
  MethodSets <- OneMethod
  MaxEvents = 4
  MaxRequests = 2
  None = None
INVARIANTS
  CounterHonoured
CHECK_DEADLOCK FALSE
