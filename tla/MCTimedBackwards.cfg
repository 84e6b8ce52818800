SPECIFICATION TimedSpec
CONSTANTS
  a1 = a1
  c1 = c1
  e1 = e1
  e2 = e2
  p1 = p1
  free = free
  pro = pro
  NoPrefix = NoPrefix
  Requests <- BackwardsRequests
  Workers <- OneWorker
  PrefixIDs <- MCPrefixIDs
  ContextTokens <- BackwardsContext
  OutputTokens <- BackwardsOutput
  PrefixID <- BackwardsPrefix
  MaxBatchSize = 2
  MemoryTokens = 16
  PagedAttention = TRUE
  TierOrder <- MCTierOrder
  Tier <- BackwardsTier
  TierPriority <- MCPriority
  TierCost <- MCCost
  SLATTFTMs <- MCSLA
  SLATotalMs <- TimedSLATotal
  ArrivalMs <- BackwardsArrival
  SkipPenalty = 10
  MaxVT = 20
  WorkerOrder <- OneWorkerOrder
  PolicyChoice = {"fifo"}
  TimingChoice <- BackwardsTiming
  TimeScale = 2
  SampleIntervalMs = 0
  DurationMs = 4
PROPERTY
  ClockMonotone
CHECK_DEADLOCK FALSE
