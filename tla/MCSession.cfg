SPECIFICATION SessionSpec
CONSTANTS
  Configs <- AllConfigs
  WordCount = 2
  Waits <- MCWaits
  DefaultBurst = 2
  DefaultIdle = 3
  MaxFloat64 = 100
  Policies <- MCPolicies
  OutDir = "out"
INVARIANTS
  SessionTypeOK
  WithinConfiguration
  BurstsApart
  SameButTiers
  NoSilentMix
  RefusedBeforeExport
PROPERTIES
  SessionEnds
CHECK_DEADLOCK FALSE
