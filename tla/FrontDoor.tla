----------------------------- MODULE FrontDoor -----------------------------
(***************************************************************************)
(* The way of a message through the Telegram bot (backend/bot/handlers.py):*)
(* rate limiter, command arguments or intent engine, AlertService's        *)
(* validation.  What it orders is where RuleBook's requests begin.         *)
(*                                                                         *)
(* The bot handles one update after the other.  /start, /help, /myalerts,  *)
(* /history, /status, /settings and /stop pass no limiter and order        *)
(* nothing.  Each action is the code between two awaits.                   *)
(***************************************************************************)
EXTENDS RateLimiter, IntentEngine

CONSTANTS
  Typed,          \* the words users type
  MaxWords,       \* bound on the words of a message
  TrackPrefix, StopPrefix,  \* what the handlers put before loose arguments
  LlmAvailable,   \* an OPENAI_API_KEY is set
  AllowFallback   \* settings.LLM_ALLOW_RULE_FALLBACK

TypedMessages == BoundedSeq(Typed, MaxWords)

ASSUME FrontAssumption ==
  /\ Typed \subseteq Words /\ MaxWords \in Nat
  /\ TrackPrefix \in Seq(Words) /\ StopPrefix \in Seq(Words)
  /\ {LlmAvailable, AllowFallback} \subseteq BOOLEAN

VARIABLES
  pc,             \* "idle", "model", "validate", "dispatch" or "answered"
  message,        \* the words the keyword parser reads or has read
  intent,         \* the intent extracted from them
  order           \* what AlertService has been told, or that it refused

messageVars == <<message, intent, order>>
vars == <<limiterVars, pc, messageVars>>

Init ==
  /\ LimiterInit
  /\ pc = "idle" /\ message = <<>> /\ intent = None /\ order = None

-----------------------------------------------------------------------------
(* AlertService                                                            *)

Refused == [op |-> "refused", token |-> None, event |-> "any", threshold |-> None]
Nothing == [Refused EXCEPT !.op = "nothing"]

AnyAmount(threshold) == threshold >= MinThreshold                  \* mutant
ValidAmount(threshold) == threshold \in MinThreshold..MaxThreshold

CreateRule(token, event, threshold) ==
  IF token \in ValidSymbols /\ ValidAmount(threshold)
  THEN [op |-> "track", token |-> token, event |-> event, threshold |-> threshold]
  ELSE Refused

RemoveToken(token) ==
  IF token \in ValidSymbols THEN [Refused EXCEPT !.op = "untrack", !.token = token] ELSE Refused

OrderFor(i) ==
  CASE i.intent \in {"create_alert", "modify_alert"} -> CreateRule(i.token, i.event, i.threshold)
    [] i.intent = "delete_alert" -> RemoveToken(i.token)
    [] OTHER -> Nothing

-----------------------------------------------------------------------------
(* The handlers                                                            *)

Deny(u) ==
  /\ pc = "idle"
  /\ Allow(u, FALSE)
  /\ UNCHANGED <<pc, messageVars>>

\* extract: sanitized, screened, and given to the model if there is one.
Extract(msg) ==
  /\ message' = msg
  /\ IF LooksLikeInjection(msg) \/ ~LlmAvailable
     THEN pc' = "dispatch" /\ intent' = RuleBased(msg)
     ELSE pc' = "model" /\ UNCHANGED intent
  /\ UNCHANGED order

Order(msg, o) ==
  /\ pc' = "answered" /\ message' = msg /\ order' = o
  /\ UNCHANGED intent

Text(u) ==
  /\ pc = "idle"
  /\ Allow(u, TRUE)
  /\ \E msg \in TypedMessages \ {<<>>} : Extract(msg)

ParsedNumber(word) == Lexicon[word].number                         \* mutant
ParsedAmount(word) ==
  IF Lexicon[word].number = None THEN None
  ELSE Lexicon[word].number * Multiplier[Lexicon[word].suffix]

Structured(args) == Len(args) >= 2 /\ ParsedAmount(args[2]) # None

\* A command without arguments is answered with its usage.
TrackCommand(u) ==
  /\ pc = "idle"
  /\ Allow(u, TRUE)
  /\ \E args \in TypedMessages :
       \/ /\ Structured(args)
          /\ Order(args, CreateRule(Lexicon[args[1]].symbol, "any", ParsedAmount(args[2])))
       \/ /\ ~Structured(args) /\ args # <<>>
          /\ Extract(TrackPrefix \o args)
       \/ /\ args = <<>>
          /\ UNCHANGED <<pc, messageVars>>

NamesToken(args) == args # <<>> /\ Lexicon[args[1]].symbol \in ValidSymbols

UntrackCommand(u) ==
  /\ pc = "idle"
  /\ Allow(u, TRUE)
  /\ \E args \in TypedMessages :
       \/ /\ NamesToken(args)
          /\ Order(args, RemoveToken(Lexicon[args[1]].symbol))
       \/ /\ ~NamesToken(args) /\ args # <<>>
          /\ Extract(StopPrefix \o args)
       \/ /\ args = <<>>
          /\ UNCHANGED <<pc, messageVars>>

\* complete_json returns: the words are only kept as raw_text from here on.
ModelAnswers ==
  /\ pc = "model"
  /\ pc' = "validate" /\ message' = <<>>
  /\ UNCHANGED <<limiterVars, intent, order>>

ValidateAnswer ==
  /\ pc = "validate"
  /\ pc' = "dispatch"
  /\ \E raw \in Answers : intent' = Validate(raw)
  /\ UNCHANGED <<limiterVars, message, order>>

\* complete_json raises LLMError.
ModelFails ==
  /\ pc = "model"
  /\ pc' = "dispatch"
  /\ intent' = IF AllowFallback THEN RuleBased(message) ELSE Plain("unknown")
  /\ UNCHANGED <<limiterVars, message, order>>

\* No choice in the answer, or JSON that is no object: not an LLMError, so the
\* update ends in the error handler and is not answered.
ModelBreaks ==
  /\ pc \in {"model", "validate"}
  /\ pc' = "idle" /\ message' = <<>>
  /\ UNCHANGED <<limiterVars, intent, order>>

DispatchIntent ==
  /\ pc = "dispatch"
  /\ pc' = "answered" /\ order' = OrderFor(intent)
  /\ UNCHANGED <<limiterVars, message, intent>>

Reply ==
  /\ pc = "answered"
  /\ pc' = "idle" /\ message' = <<>> /\ intent' = None /\ order' = None
  /\ UNCHANGED limiterVars

\* Nothing reads the clock while an update is worked on.
TimePasses ==
  /\ pc = "idle"
  /\ Tick
  /\ UNCHANGED <<bucket, asked, pc, messageVars>>

Next ==
  \/ TimePasses
  \/ \E u \in Users : Deny(u) \/ Text(u) \/ TrackCommand(u) \/ UntrackCommand(u)
  \/ ModelAnswers
  \/ ValidateAnswer
  \/ ModelFails
  \/ ModelBreaks
  \/ DispatchIntent
  \/ Reply

Spec == Init /\ [][Next]_vars

-----------------------------------------------------------------------------

\* Every value of every variable.
TypeOK ==
  /\ LimiterTypeOK
  /\ pc \in {"idle", "model", "validate", "dispatch", "answered"}
  /\ message \in Seq(Words)
  /\ intent \in ExtractedIntent \cup {None}
  /\ order = None \/ order.op \in {"track", "untrack", "refused", "nothing"}

\* Whatever the model answers, whatever is typed: a rule is ordered only for a
\* symbol and a threshold the store accepts, and rules are only removed for a symbol.
OrdersAreSound ==
  order # None =>
    /\ order.op \in {"track", "untrack"} => order.token \in ValidSymbols
    /\ order.op = "track" =>
         order.threshold \in MinThreshold..MaxThreshold /\ order.event \in Events

WordsWith(msg, field) == {i \in DOMAIN msg : Lexicon[msg[i]][field] # None}

\* A request to track as the README gives examples of: one known token, at most one
\* event and one amount, no other keyword, nothing after the amount that reads as a suffix.
WellFormed(msg) ==
  /\ {Lexicon[msg[i]].keyword : i \in WordsWith(msg, "keyword")} = {"track"}
  /\ Cardinality(WordsWith(msg, "known")) = 1
  /\ Cardinality(WordsWith(msg, "event")) <= 1
  /\ Cardinality(WordsWith(msg, "number")) <= 1
  /\ \A i \in WordsWith(msg, "number") :
       Lexicon[msg[i]].suffix # "" \/ i = Len(msg) \/ Lexicon[msg[i + 1]].initial = ""

MeantBy(msg, i) ==
  /\ i.intent = "create_alert"
  /\ \A n \in WordsWith(msg, "known") : i.token = Lexicon[msg[n]].known
  /\ \A n \in WordsWith(msg, "event") : i.event = Lexicon[msg[n]].event
  /\ WordsWith(msg, "event") = {} => i.event = "any"
  /\ \A n \in WordsWith(msg, "number") :
       LET amount == ParsedAmount(msg[n])
       IN  i.threshold = IF amount < MinThreshold THEN MinThreshold ELSE amount
  /\ WordsWith(msg, "number") = {} => i.threshold = DefaultThreshold

\* The parser that stands in for the model reads a well-formed request as it is
\* meant, wherever its words stand: known tokens go before anything else that looks
\* like a symbol, and the amount is the number with its own suffix.
FallbackReadsRequests ==
  pc = "dispatch" /\ message # <<>> /\ WellFormed(message) => MeantBy(message, intent)

\* "Natural language and slash commands share one rule engine" (README.md:73): what
\* /track <token> <amount> orders is what the same words would order as a message.
SlashAgreesWithText ==
  pc = "answered" /\ intent = None /\ order.op = "track" /\ Len(message) = 2
    /\ Lexicon[message[1]].known # None
  => OrderFor(RuleBased(TrackPrefix \o message)) = order

\* The words of a structured /track read as a request when "track" is put before
\* them, and name the token the command takes: a vocabulary of plain arguments.
PlainArguments ==
  \A args \in TypedMessages :
    Len(args) = 2 /\ Structured(args) /\ Lexicon[args[1]].known # None =>
      LET msg == TrackPrefix \o args IN
      /\ WellFormed(msg) /\ WordsWith(msg, "event") = {}
      /\ \E n \in WordsWith(msg, "known") : Lexicon[msg[n]].known = Lexicon[args[1]].symbol
      /\ \E n \in WordsWith(msg, "number") : msg[n] = args[2]
=============================================================================
