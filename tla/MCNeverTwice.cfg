\* Can a message be sent twice for one key?  (violated)
SPECIFICATION Spec
CONSTANTS
  Engines = {worker, celery}
  Notifying = {worker}
  Rules = {r1, r2}
  Users = {u1}
  Whales = {w1}
  Owner <- OneOwner
  Matching <- AllMatch
  None = None
  Replies = {"ok", "refused", "unsure"}
  MaxRuns = 2
  MaxAborts = 1
  MaxEdits = 0
INVARIANTS NeverFiresTwice
CHECK_DEADLOCK FALSE
