SPECIFICATION Spec
CONSTANTS
  a1 = a1
  a2 = a2
  b1 = b1
  c1 = c1
  c2 = c2
  d1 = d1
  e1 = e1
  e2 = e2
  p1 = p1
  free = free
  pro = pro
  NoPrefix = NoPrefix
  Requests <- PlainRequests
  Workers <- MCWorkers
  PrefixIDs = {}
  ContextTokens <- PlainContext
  OutputTokens <- PlainOutput
  PrefixID <- PlainPrefix
  MaxBatchSize = 2
  MemoryTokens = 8
  PagedAttention = FALSE
  TierOrder <- MCTierOrder
  Tier <- PlainTier
  TierPriority <- MCPriority
  TierCost <- MCCost
  SLATTFTMs <- MCSLA
  ArrivalMs <- PlainArrival
  SkipPenalty = 10
  MaxVT = 20
  WorkerOrder <- MCWorkerOrder
  PolicyChoice = {"wfq"}
INVARIANTS
  NoTierStarves
CHECK_DEADLOCK FALSE
