SPECIFICATION FairSpec
CONSTANTS
  a1 = a1
  a2 = a2
  b1 = b1
  c1 = c1
  c2 = c2
  d1 = d1
  e1 = e1
  e2 = e2
  p1 = p1
  free = free
  pro = pro
  NoPrefix = NoPrefix
  Requests <- SharedRequests
  Workers <- MCWorkers
  PrefixIDs <- SharedPrefixIDs
  ContextTokens <- SharedContext
  OutputTokens <- SharedOutput
  PrefixID <- SharedPrefix
  MaxBatchSize = 2
  MemoryTokens = 8
  PagedAttention = TRUE
  TierOrder <- MCTierOrder
  Tier <- SharedTier
  TierPriority <- MCPriority
  TierCost <- MCCost
  SLATTFTMs <- MCSLA
  ArrivalMs <- SharedArrival
  SkipPenalty = 10
  MaxVT = 20
  WorkerOrder <- MCWorkerOrder
  PolicyChoice = {"fifo", "priority", "srtf", "dynbatch"}
INVARIANTS
  TypeOK
PROPERTIES
  ImplementsServing
  AllServed
CHECK_DEADLOCK FALSE
