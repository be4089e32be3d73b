SPECIFICATION FairSpec
CONSTANTS
  block = block
  transaction = transaction
  connector = connector
  rBlock = rBlock
  rTransaction = rTransaction
  Module = {block, transaction, connector}
  NoModule = NoModule
  Conn = {c1, c2, c3}
  Role = {rBlock, rTransaction}
  ModuleRoles <- Offers
  Dependencies <- CyclicDependencies
  RetryLimit = 2
  MessageID = {i1}
  EventCounter = {1, 2}
  NoRequest = NoRequest
  CanStall = FALSE
PROPERTIES
  ImplementsRegistry
  SatisfiedBecomesActive
CHECK_DEADLOCK FALSE
