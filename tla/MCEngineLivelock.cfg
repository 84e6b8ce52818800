SPECIFICATION FairSpec
CONSTANTS
  a1 = a1
  a2 = a2
  b1 = b1
  c1 = c1
  c2 = c2
  d1 = d1
  e1 = e1
  e2 = e2
  p1 = p1
  free = free
  pro = pro
  NoPrefix = NoPrefix
  Requests <- WideRequests
  Workers <- OneWorker
  PrefixIDs <- SharedPrefixIDs
  ContextTokens <- WideContext
  OutputTokens <- WideOutput
  PrefixID <- WidePrefix
  MaxBatchSize = 2
  MemoryTokens = 8
  PagedAttention = TRUE
  TierOrder <- MCTierOrder
  Tier <- WideTier
  TierPriority <- MCPriority
  TierCost <- MCCost
  SLATTFTMs <- MCSLA
  ArrivalMs <- WideArrival
  SkipPenalty = 10
  MaxVT = 20
  WorkerOrder <- OneWorkerOrder
  PolicyChoice = {"fifo"}
PROPERTIES
  RunTerminates
CHECK_DEADLOCK FALSE
