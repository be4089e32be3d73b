SPECIFICATION FairSpec
CONSTANTS
  storage = storage
  ledger = ledger
  managerUrl = managerUrl
  url1 = url1
  url2 = url2
  Role = {storage, ledger}
  serviceManager = serviceManager
  Address = {managerUrl, url1, url2}
  managerAddress = managerUrl
  Compatible = {storage, serviceManager}
  MaxFailures = 3
  None = None
INVARIANTS
  ActiveIsNegotiated
  RegisteredOnce
  NothingGivenUp
PROPERTIES
  EventuallyRegistered
  EventuallyConnected
CHECK_DEADLOCK FALSE
