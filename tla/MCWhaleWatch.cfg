\* Two logs, an edit, a restart, and the clock reaches the end of the time to live.
SPECIFICATION FairSpec
CONSTANTS
  None = None
  mnt = mnt usdc = usdc pair = pair r1 = r1 r2 = r2
  Symbols = {"MNT", "USDC", "LP", "0X"}
  KnownSymbols = {"MNT", "USDC"}
  Listed <- OneLive
  StaticEnabled = TRUE
  StaticPrice <- Fallback
  Quotes = {0, 1}
  Ttl = 1
  MaxTime = 1
  Tokens = {mnt, usdc}
  Pairs = {pair}
  SymbolOf <- TokenSymbols
  FallbackSymbol <- Hex
  DecimalsOf <- TokenDecimals
  DefaultDecimals = 1
  Logs <- MCLogs
  Rules = {r1, r2}
  RuleSymbol <- RuleTokens
  RuleEvent <- RuleEvents
  Thresholds = {2, 4}
  MinThreshold = 2
  MaxLogs = 2
  MaxEdits = 1
  MaxRestarts = 1
INVARIANTS TypeOK FreshPrices StaticIsLastResort SteadyRulesFire NoFalseAlarm
PROPERTIES EveryLogIsJudged
