\* One crash, one failure in a row, one telemetry request, a node that sends one
\* event again, and a page that listens.
SPECIFICATION IndexerFairSpec
CONSTANTS
  None = None
  Ledger <- MCLedger
  Activity = {1, 2, 4}
  StartLedger = 1
  Backlog = 9
  PageLimit = 2
  MAX_PUBLIC_ACTIVITY = 3
  MAX_CONTRACT_EVENTS = 2
  MAX_DEDUPE_IDS = 3
  MaxReadyLag = 0
  Overlap = 1
  MaxLedger = 2
  MaxMetrics = 1
  MaxFailures = 1
  MaxCrashes = 1
INVARIANTS
  IndexedOnce
  NothingSkipped
  AcknowledgedIsDurable
  ReadyMeansCaughtUp
  StreamGapFree
PROPERTIES
  CursorNeverBack
  EventuallyIndexed
