\* Is every whale the cursor has passed told to its users?  (violated)
SPECIFICATION PipelineSpec
CONSTANTS
  None = None
  Confirmations = 1
  MaxBatch = 1
  DefaultGate = 1
  Gates = {2}
  Values = {2}
  StartOutcomes = {"restored"}
  FirstHead = 4
  HeadLag = 0
  MaxHead = 5
  MaxStarts = 1
  MaxFaults = 0
  Worker = worker
  Tasks = {celery}
  Rules = {r1}
  Users = {u1}
  Owner <- OneOwner
  Asks <- OneAsk
  Worth <- OneWhale
  Matching <- AllMatch
  Replies = {"ok"}
  MaxRuns = 2
  MaxPolls = 1
  MaxAborts = 0
  MaxEdits = 0
INVARIANTS EveryWhaleIsTold
CHECK_DEADLOCK FALSE
