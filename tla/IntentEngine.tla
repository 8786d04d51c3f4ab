---------------------------- MODULE IntentEngine ----------------------------
(***************************************************************************)
(* backend/ai/intent.py: from a message to an intent, by the model's JSON  *)
(* or by keywords, and what AlertService makes of it.                      *)
(*                                                                         *)
(* A message is a sequence of words.  Lexicon holds what the regular       *)
(* expressions see in a word; a word may stand for a phrase.  Confidence   *)
(* is only logged, notes and raw_text are only shown: both are left out.   *)
(***************************************************************************)
EXTENDS Integers, SequencesExt

CONSTANTS
  None, Garbled,  \* a missing field, one that does not parse
  Words, Lexicon, \* vocabulary, [Words -> LexiconEntry]
  KnownTokens,    \* the symbols _find_token prefers, in its order
  NotTokens,      \* the words it refuses as symbols
  Symbols,        \* other strings that may be taken for symbols
  ValidSymbols,   \* those _SYMBOL_RE accepts
  Amounts,        \* amounts a word or a model's answer may hold
  Multiplier,     \* _SUFFIX_MULT
  MinThreshold, DefaultThreshold, MaxThreshold

Keywords == {"stop", "list", "history", "status", "help", "track"}
Events   == {"buy", "sell", "swap", "transfer", "any"}
Units == {"", "k", "m", "b"}
Intents  == {"create_alert", "delete_alert", "modify_alert", "list_alerts",
             "show_history", "show_status", "help", "unknown"}

LexiconEntry ==
  [keyword : Keywords \cup {None},    \* the pattern of _rule_based it matches
   hijack  : BOOLEAN,                 \* one of _INJECTION_PATTERNS matches
   known   : Symbols \cup {None},     \* the known token it names
   ticker  : Symbols \cup {None},     \* its first 2 to 6 letters before a word's end
   symbol  : Symbols,                 \* the whole of it, as a command's argument
   event   : Events \cup {None},      \* the pattern of _find_event it matches
   number  : Amounts \cup {None},     \* its digits
   suffix  : Units,                \* what follows them at the end of the word
   initial : Units]                \* its first letter, when that is a suffix

ExtractedIntent == [intent : Intents, token : Symbols \cup {None}, event : Events,
                    threshold : Nat \cup {None}]

ASSUME IntentAssumption ==
  /\ Lexicon \in [Words -> LexiconEntry]
  /\ ValidSymbols \subseteq Symbols /\ KnownTokens \in Seq(ValidSymbols)
  /\ Amounts \subseteq Nat
  /\ Multiplier \in [Units -> Nat \ {0}] /\ Multiplier[""] = 1
  /\ {MinThreshold, DefaultThreshold, MaxThreshold} \subseteq Nat
  /\ MinThreshold <= DefaultThreshold /\ DefaultThreshold <= MaxThreshold
  /\ \A S \in {Words, Symbols, Amounts, Keywords, Events, Intents} :
       {None, Garbled} \cap S = {}
  /\ None \notin Nat /\ None \notin ExtractedIntent
  /\ \A w \in Words : Lexicon[w].known # None =>
       \E i \in DOMAIN KnownTokens : KnownTokens[i] = Lexicon[w].known

Intent(intent, token, event, threshold) ==
  [intent |-> intent, token |-> token, event |-> event, threshold |-> threshold]
Plain(intent) == Intent(intent, None, "any", None)

-----------------------------------------------------------------------------
(* _post_validate                                                          *)

Clamp(threshold) ==
  IF threshold = None THEN DefaultThreshold
  ELSE IF threshold < MinThreshold THEN MinThreshold ELSE threshold

PostValidate(i) ==
  CASE i.token = None /\ i.intent \in {"create_alert", "modify_alert", "delete_alert"} ->
         [i EXCEPT !.intent = "unknown"]
    [] i.token # None /\ i.intent \in {"create_alert", "modify_alert"} ->
         [i EXCEPT !.threshold = Clamp(i.threshold)]
    [] OTHER -> i

-----------------------------------------------------------------------------
(* The model's JSON, each field of which may be missing or meaningless.    *)

Answers ==
  [intent    : Intents \cup {Garbled},
   token     : Symbols \cup {None},
   event     : Events \cup {Garbled},
   threshold : Amounts \cup {None, Garbled}]

ValidateKeepsEvent(raw) ==                                          \* mutant
  PostValidate(Intent("create_alert", raw.token, raw.event, None))
Validate(raw) ==
  PostValidate(Intent(
    IF raw.intent = Garbled THEN "unknown" ELSE raw.intent,
    raw.token,
    IF raw.event = Garbled THEN "any" ELSE raw.event,
    IF raw.threshold = Garbled THEN None ELSE raw.threshold))

-----------------------------------------------------------------------------
(* The keyword parser.                                                     *)

Says(msg, k) == \E i \in DOMAIN msg : Lexicon[msg[i]].keyword = k
Mentions(msg, s) == \E i \in DOMAIN msg : Lexicon[msg[i]].known = s

\* The first entry of a sequence that passes a test.
FirstThat(seq, Test(_)) ==
  LET i == SelectInSeq(seq, Test) IN IF i = 0 THEN None ELSE seq[i]

\* Only the first run of letters is looked at, even when it is no token.
FirstTicker(msg) ==
  LET word == FirstThat(msg, LAMBDA w : Lexicon[w].ticker # None)
  IN  IF word = None \/ Lexicon[word].ticker \in NotTokens THEN None ELSE Lexicon[word].ticker

FindTokenFirstWord(msg) == FirstTicker(msg)                         \* mutant
FindToken(msg) ==
  LET known == FirstThat(KnownTokens, LAMBDA s : Mentions(msg, s))
  IN  IF known = None THEN FirstTicker(msg) ELSE known

\* The pattern skips blanks: the next word's first letter may be read as the suffix.
SuffixAt(msg, i) ==
  LET word == Lexicon[msg[i]]
  IN  IF word.suffix # "" \/ i = Len(msg) THEN word.suffix ELSE Lexicon[msg[i + 1]].initial

FindAmount(msg) ==
  LET i == SelectInSeq(msg, LAMBDA w : Lexicon[w].number # None)
  IN  IF i = 0 THEN None ELSE Lexicon[msg[i]].number * Multiplier[SuffixAt(msg, i)]

\* Buy before sell before swap before transfer, wherever they stand.
FindEvent(msg) ==
  LET found == FirstThat(<<"buy", "sell", "swap", "transfer">>,
                         LAMBDA e : \E i \in DOMAIN msg : Lexicon[msg[i]].event = e)
  IN  IF found = None THEN "any" ELSE found

\* The patterns are tried in this order.
KeywordOf(msg) ==
  FirstThat(<<"stop", "list", "history", "status", "help", "track">>,
            LAMBDA k : Says(msg, k))

RuleBased(msg) ==
  CASE KeywordOf(msg) = "stop"    ->
         PostValidate(Intent("delete_alert", FindToken(msg), "any", None))
    [] KeywordOf(msg) = "list"    -> Plain("list_alerts")
    [] KeywordOf(msg) = "history" -> Plain("show_history")
    [] KeywordOf(msg) = "status"  -> Plain("show_status")
    [] KeywordOf(msg) = "help"    -> Plain("help")
    [] KeywordOf(msg) = "track"   ->
         PostValidate(Intent("create_alert", FindToken(msg), FindEvent(msg), FindAmount(msg)))
    [] KeywordOf(msg) = None      -> Plain("unknown")

LooksLikeInjection(msg) == \E i \in DOMAIN msg : Lexicon[msg[i]].hijack
=============================================================================
