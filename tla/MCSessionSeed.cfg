SPECIFICATION SessionSpec
CONSTANTS
  Configs <- SeededConfigs
  WordCount = 2
  Waits <- MCWaits
  DefaultBurst = 2
  DefaultIdle = 3
  MaxFloat64 = 100
  Policies <- MCPolicies
  OutDir = "out"
INVARIANT SeedDeterminesWorkload
CHECK_DEADLOCK FALSE
