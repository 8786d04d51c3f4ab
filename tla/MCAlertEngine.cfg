\* A worker with a notifier and a Celery process without one, same database.
\* Deadlock: the engines stop once each has begun MaxRuns transactions.
SPECIFICATION FairSpec
CONSTANTS
  Engines = {worker, celery}
  Notifying = {worker}
  Rules = {r1, r2}
  Users = {u1}
  Whales = {w1}
  Owner <- OneOwner
  Matching <- AllMatch
  None = None
  Replies = {"ok", "refused", "unsure"}
  MaxRuns = 2
  MaxAborts = 1
  MaxEdits = 1
INVARIANTS TypeOK OneRowPerKey DuplicatesOnlyAfterRollback
PROPERTIES CommitDecidesEveryMatch QuietUsersStayQuiet ImplementsLedger EveryWhaleEnds
CHECK_DEADLOCK FALSE
