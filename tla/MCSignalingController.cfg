SPECIFICATION Spec
CONSTANTS
  QueueCapacity = 2
  NumRetries = 2
  CredLife = 2
  CredGrace = 1
  IceTtl = 1
  IceGrace = 0
  PingInterval = 2
  MaxTime = 2
  MaxFaults = 2
  MaxInbound = 2
  MaxCalls = 2
  Configs <- MCConfigs
INVARIANTS
    TypeOK
    NothingOutlived
    ConnectionsAccounted
PROPERTIES
    ServicePromise
    ConnectsAlways
