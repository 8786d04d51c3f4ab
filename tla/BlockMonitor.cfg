\* Batches of 2 blocks, a node that lags, two restarts, a failed call.
SPECIFICATION FairSpec
CONSTANTS
  None = None
  Confirmations = 1
  MaxBatch = 2
  DefaultGate = 1
  Gates = {2}
  Values = {1}
  StartOutcomes = {"restored", "unavailable", "get_failed"}
  FirstHead = 4
  HeadLag = 1
  MaxHead = 6
  MaxStarts = 3
  MaxFaults = 1
INVARIANTS
  TypeOK
  NoGapBelowCursor
  OnlyFreshStartsSkip
  NoReplayWithinSession
  OnlyConfirmed
PROPERTIES
  ImplementsFeed
  CatchesUp
