SPECIFICATION TimedSpec
CONSTANTS
  a1 = a1
  c1 = c1
  e1 = e1
  e2 = e2
  p1 = p1
  free = free
  pro = pro
  NoPrefix = NoPrefix
  Requests <- MixedRequests
  Workers <- MCWorkers
  PrefixIDs <- MCPrefixIDs
  ContextTokens <- MixedContext
  OutputTokens <- MixedOutput
  PrefixID <- MixedPrefix
  MaxBatchSize = 2
  MemoryTokens = 8
  PagedAttention = TRUE
  TierOrder <- MCTierOrder
  Tier <- MixedTier
  TierPriority <- MCPriority
  TierCost <- MCCost
  SLATTFTMs <- TimedSLA
  SLATotalMs <- TimedSLATotal
  ArrivalMs <- MixedArrival
  SkipPenalty = 10
  MaxVT = 20
  WorkerOrder <- MCWorkerOrder
  PolicyChoice = {"fifo", "priority", "srtf", "dynbatch"}
  TimingChoice <- MixedTiming
  TimeScale = 2
  SampleIntervalMs = 3
  DurationMs = 4
INVARIANTS
  TimedTypeOK
  BusyWithinElapsed
  TimestampsOrdered
  TokensTakeTime
  DurationAccounted
  PercentilesSplit
  SLAMatchesPercentiles
  DelaysOrdered
  ThroughputWithinCapacity
PROPERTIES
  ImplementsFairEngine
  ImplementsEventBag
  SimulationEnds
CHECK_DEADLOCK FALSE
