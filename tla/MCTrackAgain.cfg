\* Is a rule that is tracked again stored?  (violated)
\* Deadlock: every session is idle once MaxRequests requests were made.
SPECIFICATION Spec
CONSTANTS
  Bots = {bot}
  Apis = {api}
  a1 = a1
  a2 = a2
  b1 = b1
  Slots <- ThreeSlots
  SameToken <- TwoTokens
  Thresholds = {1, 2}
  MaxAlerts = 1
  Account = Account
  None = None
  MaxRequests = 2
  MaxFails = 0
PROPERTIES TrackAgainIsStored
CHECK_DEADLOCK FALSE
