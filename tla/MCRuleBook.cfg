\* The bot and one API request at a time, on three slots of two tokens.
\* Deadlock: every session is idle once MaxRequests requests were made.
SPECIFICATION FairSpec
CONSTANTS
  Bots = {bot}
  Apis = {api}
  a1 = a1
  a2 = a2
  b1 = b1
  Slots <- ThreeSlots
  SameToken <- TwoTokens
  Thresholds = {1, 2}
  MaxAlerts = 1
  Account = Account
  None = None
  MaxRequests = 4
  MaxFails = 1
INVARIANTS TypeOK CeilingPassedByRacersOnly NewRowsAreUnique
PROPERTIES CommitsTakeEffect EveryRequestEnds
CHECK_DEADLOCK FALSE
