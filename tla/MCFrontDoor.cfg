\* Three requests of two users, messages of up to three words, two windows.
\* Deadlock: the bot is idle once MaxAsked requests were made.
SPECIFICATION Spec
CONSTANTS
  None = None
  Garbled = Garbled
  u1 = u1 u2 = u2
  Users = {u1, u2}
  MaxServed = 2
  Window = 2
  MaxAsked = 3
  MaxTime = 3
  Words = {"track", "stop", "tracking", "status", "mETH", "foo", "system", "tenk", "fifty", "buys"}
  Typed = {"track", "stop", "status", "mETH", "foo", "system", "tenk", "fifty", "buys"}
  Lexicon <- MCLexicon
  KnownTokens <- MCKnown
  NotTokens = {"TRACK", "ABOVE", "WHALE", "OVER", "WHEN", "BUYS", "STOP"}
  Symbols = {"-", "METH", "FOO", "TRACK", "STOP", "TRACKING", "ACKING",
    "STATUS", "SYSTEM", "BUYS", "10K", "50"}
  ValidSymbols = {"METH", "FOO", "TRACK", "STOP", "TRACKING", "ACKING",
    "STATUS", "SYSTEM", "BUYS", "10K", "50"}
  Amounts = {1, 10, 50, 9000}
  Multiplier <- MCMultiplier
  MinThreshold = 10
  DefaultThreshold = 40
  MaxThreshold = 8000
  MaxWords = 3
  TrackPrefix <- MCTrack
  StopPrefix <- MCStop
  LlmAvailable = TRUE
  AllowFallback = TRUE
CHECK_DEADLOCK FALSE
SYMMETRY Symmetry
INVARIANTS TypeOK WindowBound RefusedOnlyWhenFull OrdersAreSound
  FallbackReadsRequests SlashAgreesWithText
