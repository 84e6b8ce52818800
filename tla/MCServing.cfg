SPECIFICATION Spec
CONSTANTS
  r1 = r1
  r2 = r2
  r3 = r3
  r4 = r4
  p1 = p1
  NoPrefix = NoPrefix
  Requests <- MCRequests
  PrefixIDs <- MCPrefixIDs
  Workers = {w1, w2}
  ContextTokens <- MCContext
  OutputTokens <- MCOutput
  PrefixID <- MCPrefix
  MaxBatchSize = 2
  MemoryTokens = 8
  PagedAttention = TRUE
INVARIANTS
  TypeOK
  ExactlyOnePlace
  StepPerBusyWorker
  CompletedOnce
  BatchWithinLimit
  PrefixRefsExact
  TokenAccounting
  PagedMemoryBound
PROPERTIES
  ProgressSurvives
CHECK_DEADLOCK FALSE
