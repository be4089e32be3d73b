SPECIFICATION FairSpec
CONSTANTS
  Disks <- Installations
  AppDomain = "Nulstar"
  AppName = "NulstarMain"
  ServiceManager = "ServiceManager"
  MaxShutdowns = 3
  MaxEnds = 1
  Empty = Empty
  NoVersion = NoVersion
INVARIANTS
  TypeOK
  OneProcess
  ConfigurationRead
PROPERTIES
  ShutdownStops
CHECK_DEADLOCK FALSE
