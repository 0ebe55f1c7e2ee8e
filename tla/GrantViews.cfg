SPECIFICATION ViewsSpec
CONSTANTS
  Scenarios <- MCScenarios
  Milestones = 1
  LastGrantId = 3
  MaxGrantId = 2
  Concurrency = 1
  FailedBatchAbort = 2
  PageLimit = 2
  Window = 1
  Readers = {loop, user}
  Loop = loop
  MaxLedger = 1
  MaxFetches = 1
  None = None
  Missing = Missing
  Failed = Failed
INVARIANTS
  NothingInvented
  ReadyMeansComplete
PROPERTY PollingConverges
CHECK_DEADLOCK FALSE
