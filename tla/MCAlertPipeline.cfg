\* A worker that may crash, a Celery task, a rule, a whale behind the first block.
\* Deadlock: the model stops when the chain is at its end and all is done.
SPECIFICATION FairPipeline
CONSTANTS
  None = None
  Confirmations = 1
  MaxBatch = 1
  DefaultGate = 1
  Gates = {2}
  Values = {2}
  StartOutcomes = {"restored"}
  FirstHead = 4
  HeadLag = 0
  MaxHead = 5
  MaxStarts = 2
  MaxFaults = 1
  Worker = worker
  Tasks = {celery}
  Rules = {r1}
  Users = {u1}
  Owner <- OneOwner
  Asks <- OneAsk
  Worth <- OneWhale
  Matching <- AllMatch
  Replies = {"ok"}
  MaxRuns = 2
  MaxPolls = 1
  MaxAborts = 1
  MaxEdits = 1
INVARIANTS PassedIsDecided InterruptedIsReplayed
CHECK_DEADLOCK FALSE
PROPERTIES EveryWhaleIsDecided ImplementsMonitor
