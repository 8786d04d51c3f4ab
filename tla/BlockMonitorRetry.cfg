\* Are failed get_logs calls made again?  (violated)
SPECIFICATION Spec
CONSTANTS
  None = None
  Confirmations = 1
  MaxBatch = 2
  DefaultGate = 1
  Gates = {2}
  Values = {1}
  StartOutcomes = {"restored", "unavailable"}
  FirstHead = 4
  HeadLag = 1
  MaxHead = 6
  MaxStarts = 1
  MaxFaults = 1
INVARIANTS
  FailedFetchesAreRetried
