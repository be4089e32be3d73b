SPECIFICATION Spec
CONSTANTS
  block = block
  transaction = transaction
  connector = connector
  rBlock = rBlock
  rTransaction = rTransaction
  Module = {block, transaction, connector}
  NoModule = NoModule
  Conn = {c1, c2, c3, c4}
  Role = {rBlock, rTransaction}
  ModuleRoles <- Offers
  Dependencies <- ChainDependencies
  RetryLimit = 2
  MessageID = {i1, i2}
  EventCounter = {1, 2}
  NoRequest = NoRequest
  CanStall = TRUE
SYMMETRY Symmetry
INVARIANTS
  TypeOK
  RegistryHasNoGhosts
  ActiveDependenciesRegistered
  ToldProvidersRegistered
  SubscribersUpToDate
PROPERTIES
  OnlyDependentsClosed
CHECK_DEADLOCK FALSE
