\* One swap is enough.
SPECIFICATION Spec
CONSTANTS
  None = None
  mnt = mnt usdc = usdc pair = pair r1 = r1 r2 = r2
  Symbols = {"MNT", "USDC", "LP", "0X"}
  KnownSymbols = {"MNT", "USDC"}
  Listed <- OneLive
  StaticEnabled = TRUE
  StaticPrice <- Fallback
  Quotes = {0, 1}
  Ttl = 1
  MaxTime = 0
  Tokens = {mnt, usdc}
  Pairs = {pair}
  SymbolOf <- TokenSymbols
  FallbackSymbol <- Hex
  DecimalsOf <- TokenDecimals
  DefaultDecimals = 1
  Logs <- MCLogs
  Rules = {r1, r2}
  RuleSymbol <- RuleTokens
  RuleEvent <- RuleEvents
  Thresholds = {2, 4}
  MinThreshold = 2
  MaxLogs = 1
  MaxEdits = 0
  MaxRestarts = 0
INVARIANTS SwapsAreValued
