-------------------------- MODULE FrontDoorProofs --------------------------
(***************************************************************************)
(* Theorems about the way of a message through the bot, for any vocabulary *)
(* and lexicon, any answers of the model, any users, limit and window.     *)
(***************************************************************************)
EXTENDS FrontDoor, RateLimiterProofs

-----------------------------------------------------------------------------
(* The limiter inside the bot is the limiter alone.                        *)

LEMMA LimiterMoves ==
  ASSUME [Next]_vars
  PROVE  [LimiterNext]_limiterVars
<1>1. CASE TimePasses
  BY <1>1 DEF TimePasses, LimiterNext
<1>2. ASSUME NEW u \in Users, Deny(u) \/ Text(u) \/ TrackCommand(u) \/ UntrackCommand(u)
      PROVE  LimiterNext
  BY <1>2 DEF Deny, Text, TrackCommand, UntrackCommand, LimiterNext
<1>3. CASE ModelAnswers \/ ValidateAnswer \/ ModelFails \/ ModelBreaks
           \/ DispatchIntent \/ Reply
  BY <1>3 DEF ModelAnswers, ValidateAnswer, ModelFails, ModelBreaks,
     DispatchIntent, Reply
<1>4. CASE UNCHANGED vars
  BY <1>4 DEF vars
<1>5. QED
  BY <1>1, <1>2, <1>3, <1>4 DEF Next

LEMMA LimiterInside == Spec => LimiterSpec
<1>1. Init => LimiterInit
  BY DEF Init
<1>2. [Next]_vars => [LimiterNext]_limiterVars
  BY LimiterMoves
<1>3. QED
  BY <1>1, <1>2, PTL DEF Spec, LimiterSpec

(* The limits hold for the bot: nothing a handler does goes round them.    *)
THEOREM BotLimits == Spec => [](WindowBound /\ RefusedOnlyWhenFull)
BY LimiterInside, LimitHolds, RefusalIsEarned, PTL

-----------------------------------------------------------------------------
(* What the intent engine returns.                                         *)

LEMMA PostValidated ==
  ASSUME NEW i \in ExtractedIntent
  PROVE  PostValidate(i) \in ExtractedIntent
<1>1. Clamp(i.threshold) \in Nat
  BY IntentAssumption DEF IntentAssumption, Clamp, ExtractedIntent
<1>2. "unknown" \in Intents
  BY DEF Intents
<1>3. QED
  BY <1>1, <1>2 DEF PostValidate, ExtractedIntent

LEMMA ModelIsTypable ==
  ASSUME NEW raw \in Answers
  PROVE  Validate(raw) \in ExtractedIntent
<1> DEFINE i == Intent(
    IF raw.intent = Garbled THEN "unknown" ELSE raw.intent,
    raw.token,
    IF raw.event = Garbled THEN "any" ELSE raw.event,
    IF raw.threshold = Garbled THEN None ELSE raw.threshold)
<1>1. i \in ExtractedIntent
  BY IntentAssumption
  DEF IntentAssumption, Answers, Intent, ExtractedIntent, Intents, Events
<1>2. QED
  BY <1>1, PostValidated DEF Validate

\* A set of naturals with an element has a least one.
LEMMA LeastExists ==
  ASSUME NEW I \in SUBSET Nat, I # {}
  PROVE  Min(I) \in I /\ \A i \in I : Min(I) <= i
<1>1. PICK x \in I : \A y \in I : ~(<<y, x>> \in OpToRel(<, Nat))
  BY WFMin, NatLessThanWellFounded
<1>2. ASSUME NEW y \in I
      PROVE  x <= y
  <2>1. x \in Nat /\ y \in Nat
    OBVIOUS
  <2>2. ~(y < x)
    BY <1>1, <2>1 DEF OpToRel
  <2>3. QED
    BY <2>1, <2>2
<1>3. QED
  BY <1>2 DEF Min

LEMMA WordsOf ==
  ASSUME NEW S, NEW seq \in Seq(S), NEW i \in 1 .. Len(seq)
  PROVE  seq[i] \in S
BY ElementOfSeq

LEMMA AmountIsNat ==
  ASSUME NEW msg \in Seq(Words)
  PROVE  FindAmount(msg) \in Nat \cup {None}
<1> DEFINE I == {i \in 1 .. Len(msg) : Lexicon[msg[i]].number # None}
           i == IF I # {} THEN Min(I) ELSE 0
<1>1. I # {} => i \in I
  <2>1. I \in SUBSET Nat
    OBVIOUS
  <2>2. QED
    BY <2>1, LeastExists
<1>2. CASE i = 0
  BY <1>2 DEF FindAmount, SelectInSeq
<1>3. CASE i # 0
  <2>1. i \in 1 .. Len(msg) /\ Lexicon[msg[i]].number # None
    BY <1>1, <1>3
  <2>2. \A n \in 1 .. Len(msg) : Lexicon[msg[n]] \in LexiconEntry
    BY WordsOf, IntentAssumption DEF IntentAssumption
  <2>3. Lexicon[msg[i]].number \in Nat
    BY <2>1, <2>2, IntentAssumption DEF IntentAssumption, LexiconEntry
  <2>4. SuffixAt(msg, i) \in Units
    <3>1. ASSUME NEW n \in 1 .. Len(msg)
          PROVE  /\ Lexicon[msg[n]].suffix \in Units
                 /\ Lexicon[msg[n]].initial \in Units
      BY <2>2 DEF LexiconEntry
    <3>2. i = Len(msg) \/ i + 1 \in 1 .. Len(msg)
      BY <2>1
    <3>3. QED
      BY <2>1, <3>1, <3>2 DEF SuffixAt
  <2>5. Multiplier[SuffixAt(msg, i)] \in Nat
    BY <2>4, IntentAssumption DEF IntentAssumption
  <2>6. \A a, b \in Nat : a * b \in Nat
    OBVIOUS
  <2>7. FindAmount(msg) = Lexicon[msg[i]].number * Multiplier[SuffixAt(msg, i)]
    BY <1>3 DEF FindAmount, SelectInSeq
  <2>8. QED
    BY <2>3, <2>5, <2>6, <2>7
<1>4. QED
  BY <1>2, <1>3

LEMMA TickerIsSymbol ==
  ASSUME NEW msg \in Seq(Words)
  PROVE  FirstTicker(msg) \in Symbols \cup {None}
<1> DEFINE I == {i \in 1 .. Len(msg) : Lexicon[msg[i]].ticker # None}
           word == IF Min(I) = 0 THEN None ELSE msg[Min(I)]
<1>1. CASE I = {}
  BY <1>1 DEF FirstTicker, FirstThat, SelectInSeq
<1>2. CASE I # {}
  <2>1. I \in SUBSET Nat
    OBVIOUS
  <2>2. Min(I) \in I
    BY <1>2, <2>1, LeastExists
  <2>3. Lexicon[msg[Min(I)]].ticker \in Symbols \cup {None}
    <3>1. msg[Min(I)] \in Words
      BY <2>2, WordsOf
    <3>2. Lexicon[msg[Min(I)]] \in LexiconEntry
      BY <3>1, IntentAssumption DEF IntentAssumption
    <3>3. QED
      BY <3>2 DEF LexiconEntry
  <2>4. Min(I) # 0
    BY <2>2
  <2>5. FirstThat(msg, LAMBDA w : Lexicon[w].ticker # None) = msg[Min(I)]
    BY <1>2, <2>4 DEF FirstThat, SelectInSeq
  <2>6. QED
    BY <2>3, <2>5 DEF FirstTicker
<1>3. QED
  BY <1>1, <1>2

LEMMA TokenIsSymbol ==
  ASSUME NEW msg \in Seq(Words)
  PROVE  FindToken(msg) \in Symbols \cup {None}
<1> DEFINE I == {i \in 1 .. Len(KnownTokens) : Mentions(msg, KnownTokens[i])}
           known == FirstThat(KnownTokens, LAMBDA s : Mentions(msg, s))
<1>1. known \in Symbols \cup {None}
  <2>1. CASE I = {}
    BY <2>1 DEF FirstThat, SelectInSeq
  <2>2. CASE I # {}
    <3>1. I \in SUBSET Nat
      OBVIOUS
    <3>2. Min(I) \in I
      BY <2>2, <3>1, LeastExists
    <3>3. KnownTokens[Min(I)] \in ValidSymbols
      BY <3>2, WordsOf, IntentAssumption DEF IntentAssumption
    <3>4. known = KnownTokens[Min(I)]
      BY <2>2, <3>2 DEF FirstThat, SelectInSeq
    <3>5. QED
      BY <3>3, <3>4, IntentAssumption DEF IntentAssumption
  <2>3. QED
    BY <2>1, <2>2
<1>2. QED
  BY <1>1, TickerIsSymbol DEF FindToken

LEMMA EventIsEvent ==
  ASSUME NEW msg
  PROVE  FindEvent(msg) \in Events
<1> DEFINE kinds == <<"buy", "sell", "swap", "transfer">>
           Test(e) == \E i \in DOMAIN msg : Lexicon[msg[i]].event = e
           I == {i \in 1 .. Len(kinds) : Test(kinds[i])}
<1>1. CASE I = {}
  BY <1>1 DEF FindEvent, FirstThat, SelectInSeq, Events
<1>2. CASE I # {}
  <2>1. I \in SUBSET Nat
    OBVIOUS
  <2>2. Min(I) \in 1 .. 4
    BY <1>2, <2>1, LeastExists
  <2>3. kinds[Min(I)] \in Events
    BY <2>2 DEF Events
  <2>4. QED
    BY <1>2, <2>2, <2>3 DEF FindEvent, FirstThat, SelectInSeq, Events
<1>3. QED
  BY <1>1, <1>2

LEMMA WordsAreTypable ==
  ASSUME NEW msg \in Seq(Words)
  PROVE  RuleBased(msg) \in ExtractedIntent
<1>1. \A k \in Intents : Plain(k) \in ExtractedIntent
  BY DEF Plain, Intent, ExtractedIntent, Events
<1>2. PostValidate(Intent("delete_alert", FindToken(msg), "any", None)) \in ExtractedIntent
  <2>1. Intent("delete_alert", FindToken(msg), "any", None) \in ExtractedIntent
    BY TokenIsSymbol DEF Intent, ExtractedIntent, Intents, Events
  <2>2. QED
    BY <2>1, PostValidated
<1>3. PostValidate(Intent("create_alert", FindToken(msg), FindEvent(msg),
                          FindAmount(msg))) \in ExtractedIntent
  <2>1. Intent("create_alert", FindToken(msg), FindEvent(msg), FindAmount(msg))
          \in ExtractedIntent
    BY TokenIsSymbol, EventIsEvent, AmountIsNat DEF Intent, ExtractedIntent, Intents
  <2>2. QED
    BY <2>1, PostValidated
<1>4. KeywordOf(msg) \in {"stop", "list", "history", "status", "help", "track", None}
  <2> DEFINE kinds == <<"stop", "list", "history", "status", "help", "track">>
             I == {i \in 1 .. Len(kinds) : Says(msg, kinds[i])}
  <2>1. CASE I = {}
    BY <2>1 DEF KeywordOf, FirstThat, SelectInSeq
  <2>2. CASE I # {}
    <3>1. I \in SUBSET Nat
      OBVIOUS
    <3>2. Min(I) \in 1 .. 6
      BY <2>2, <3>1, LeastExists
    <3>3. KeywordOf(msg) = kinds[Min(I)]
      BY <2>2, <3>2 DEF KeywordOf, FirstThat, SelectInSeq
    <3>4. QED
      BY <3>2, <3>3
  <2>3. QED
    BY <2>1, <2>2
<1>5. {"list_alerts", "show_history", "show_status", "help", "unknown"} \subseteq Intents
  BY DEF Intents
<1>6. CASE KeywordOf(msg) = None
  <2>1. None \notin Keywords
    BY IntentAssumption DEF IntentAssumption
  <2>2. RuleBased(msg) = Plain("unknown")
    BY <1>6, <2>1 DEF RuleBased, Keywords
  <2>3. QED
    BY <1>1, <1>5, <2>2
<1>7. CASE KeywordOf(msg) # None
  BY <1>1, <1>2, <1>3, <1>4, <1>5, <1>7 DEF RuleBased
<1>8. QED
  BY <1>6, <1>7

-----------------------------------------------------------------------------
(* What AlertService is told.                                              *)

IntentInv == /\ intent \in ExtractedIntent \cup {None}
             /\ pc = "dispatch" => intent \in ExtractedIntent
             /\ message \in Seq(Words)

LEMMA TypedIsWords ==
  ASSUME NEW msg \in TypedMessages
  PROVE  msg \in Seq(Words)
BY FrontAssumption
DEF FrontAssumption, TypedMessages, BoundedSeq, SeqOf

LEMMA ExtractTypes ==
  ASSUME NEW msg \in Seq(Words), Extract(msg), IntentInv
  PROVE  IntentInv'
BY WordsAreTypable DEF Extract, IntentInv

Ops == {"track", "untrack", "refused", "nothing"}

Ordered(o) == /\ o.op \in Ops
              /\ o.op \in {"track", "untrack"} => o.token \in ValidSymbols
              /\ o.op = "track" =>
                   o.threshold \in MinThreshold..MaxThreshold /\ o.event \in Events

LEMMA RuleIsOrdered ==
  ASSUME NEW token, NEW event \in Events, NEW threshold
  PROVE  Ordered(CreateRule(token, event, threshold))
BY DEF CreateRule, ValidAmount, Refused, Ordered, Ops

LEMMA RemovalIsOrdered ==
  ASSUME NEW token
  PROVE  Ordered(RemoveToken(token))
BY DEF RemoveToken, Refused, Ordered, Ops

LEMMA IntentIsOrdered ==
  ASSUME NEW i \in ExtractedIntent
  PROVE  Ordered(OrderFor(i))
<1>1. i.event \in Events
  BY DEF ExtractedIntent
<1>2. Ordered(Nothing)
  BY DEF Nothing, Refused, Ordered, Ops
<1>3. QED
  BY <1>1, <1>2, RuleIsOrdered, RemovalIsOrdered DEF OrderFor

DoorInv == /\ pc \in {"idle", "model", "validate", "dispatch", "answered"}
           /\ IntentInv
           /\ order # None => Ordered(order)

LEMMA DoorStep ==
  ASSUME DoorInv, [Next]_vars
  PROVE  DoorInv'
<1> USE DEF DoorInv
<1>1. ASSUME UNCHANGED messageVars, pc' = pc
      PROVE  DoorInv'
  BY <1>1 DEF messageVars, IntentInv
<1>2. ASSUME NEW msg \in Seq(Words), Extract(msg)
      PROVE  DoorInv'
  BY <1>2, ExtractTypes DEF Extract
<1>3. ASSUME NEW msg \in Seq(Words), NEW o, Order(msg, o), Ordered(o)
      PROVE  DoorInv'
  BY <1>3 DEF Order, IntentInv
<1>4. CASE TimePasses
  BY <1>1, <1>4 DEF TimePasses
<1>5. ASSUME NEW u \in Users, Deny(u)
      PROVE  DoorInv'
  BY <1>1, <1>5 DEF Deny
<1>6. ASSUME NEW u \in Users, Text(u)
      PROVE  DoorInv'
  BY <1>2, <1>6, TypedIsWords DEF Text
<1>7. ASSUME NEW u \in Users, TrackCommand(u)
      PROVE  DoorInv'
  <2>1. PICK args \in TypedMessages :
          \/ Order(args, CreateRule(Lexicon[args[1]].symbol, "any",
                                    ParsedAmount(args[2])))
          \/ Extract(TrackPrefix \o args)
          \/ UNCHANGED <<pc, messageVars>>
    BY <1>7 DEF TrackCommand
  <2>2. args \in Seq(Words) /\ TrackPrefix \o args \in Seq(Words)
    BY TypedIsWords, FrontAssumption DEF FrontAssumption
  <2>3. "any" \in Events
    BY DEF Events
  <2>4. QED
    BY <1>1, <1>2, <1>3, <2>1, <2>2, <2>3, RuleIsOrdered
<1>8. ASSUME NEW u \in Users, UntrackCommand(u)
      PROVE  DoorInv'
  <2>1. PICK args \in TypedMessages :
          \/ Order(args, RemoveToken(Lexicon[args[1]].symbol))
          \/ Extract(StopPrefix \o args)
          \/ UNCHANGED <<pc, messageVars>>
    BY <1>8 DEF UntrackCommand
  <2>2. args \in Seq(Words) /\ StopPrefix \o args \in Seq(Words)
    BY TypedIsWords, FrontAssumption DEF FrontAssumption
  <2>3. QED
    BY <1>1, <1>2, <1>3, <2>1, <2>2, RemovalIsOrdered
<1>9. CASE ModelAnswers \/ ModelBreaks
  <2>1. /\ pc' \in {"idle", "validate"} /\ message' = <<>>
        /\ intent' = intent /\ order' = order
    BY <1>9 DEF ModelAnswers, ModelBreaks
  <2>2. <<>> \in Seq(Words)
    OBVIOUS
  <2>3. QED
    BY <2>1, <2>2 DEF IntentInv, Ordered
<1>10. CASE ValidateAnswer
  BY <1>10, ModelIsTypable DEF ValidateAnswer, IntentInv
<1>11. CASE ModelFails
  <2>1. Plain("unknown") \in ExtractedIntent
    BY DEF Plain, Intent, ExtractedIntent, Intents, Events
  <2>2. RuleBased(message) \in ExtractedIntent
    BY WordsAreTypable DEF IntentInv
  <2>3. QED
    BY <1>11, <2>1, <2>2 DEF ModelFails, IntentInv
<1>12. CASE DispatchIntent
  <2>1. Ordered(OrderFor(intent))
    BY <1>12, IntentIsOrdered DEF DispatchIntent, IntentInv
  <2>2. QED
    BY <1>12, <2>1 DEF DispatchIntent, IntentInv
<1>13. CASE Reply
  BY <1>13 DEF Reply, IntentInv
<1>14. CASE UNCHANGED vars
  BY <1>1, <1>14 DEF vars
<1>15. QED
  BY <1>4, <1>5, <1>6, <1>7, <1>8, <1>9, <1>10, <1>11, <1>12, <1>13, <1>14 DEF Next

LEMMA DoorInvariant == Spec => []DoorInv
<1>1. Init => DoorInv
  BY DEF Init, DoorInv, IntentInv
<1>2. DoorInv /\ [Next]_vars => DoorInv'
  BY DoorStep
<1>3. QED
  BY <1>1, <1>2, PTL DEF Spec

(* The bot's variables keep the types the code gives them.                 *)
THEOREM TypeCorrect == Spec => []TypeOK
<1>1. DoorInv /\ LimiterTypeOK => TypeOK
  BY DEF DoorInv, IntentInv, Ordered, Ops, ExtractedIntent, TypeOK
<1>2. QED
  BY <1>1, DoorInvariant, LimiterInside, LimiterTypeCorrect, PTL

(* Whatever the model answers and whatever is typed, AlertService is told  *)
(* to make a rule only for a symbol and a threshold it accepts: arguments, *)
(* keywords and the model's JSON all pass the same checks.                 *)
THEOREM OrdersSound == Spec => []OrdersAreSound
<1>1. DoorInv => OrdersAreSound
  BY DEF DoorInv, Ordered, OrdersAreSound
<1>2. QED
  BY <1>1, DoorInvariant, PTL

-----------------------------------------------------------------------------
(* The keyword parser on a well-formed request.                            *)

LEMMA EntriesOf ==
  ASSUME NEW msg \in Seq(Words)
  PROVE  \A i \in DOMAIN msg : Lexicon[msg[i]] \in LexiconEntry
<1>1. \A i \in DOMAIN msg : msg[i] \in Words
  BY WordsOf
<1>2. QED
  BY <1>1, IntentAssumption DEF IntentAssumption

LEMMA OneWord ==
  ASSUME NEW msg \in Seq(Words), NEW field,
         Cardinality(WordsWith(msg, field)) <= 1
  PROVE  WordsWith(msg, field) = {} \/ \E n \in DOMAIN msg : WordsWith(msg, field) = {n}
<1> DEFINE W == WordsWith(msg, field)
<1>1. W \subseteq DOMAIN msg /\ IsFiniteSet(DOMAIN msg)
  BY FS_Interval DEF WordsWith
<1>2. IsFiniteSet(W)
  BY <1>1, FS_Subset
<1>3. Cardinality(W) = 0 \/ Cardinality(W) = 1
  BY <1>2, FS_CardinalityType
<1>4. W = {} \/ \E n : W = {n}
  BY <1>2, <1>3, FS_EmptySet, FS_Singleton
<1>5. QED
  BY <1>1, <1>4

LEMMA RequestIsTrack ==
  ASSUME NEW msg \in Seq(Words), WellFormed(msg)
  PROVE  KeywordOf(msg) = "track"
<1> DEFINE kinds == <<"stop", "list", "history", "status", "help", "track">>
           I == {i \in 1 .. Len(kinds) : Says(msg, kinds[i])}
<1>1. "track" # None
  BY IntentAssumption DEF IntentAssumption, Keywords
<1>2. {Lexicon[msg[i]].keyword : i \in WordsWith(msg, "keyword")} = {"track"}
  BY DEF WellFormed
<1>3. ASSUME NEW k \in Keywords
      PROVE  Says(msg, k) <=> k = "track"
  <2>1. k # None
    BY IntentAssumption DEF IntentAssumption
  <2>2. Says(msg, k) <=> k \in {Lexicon[msg[i]].keyword : i \in WordsWith(msg, "keyword")}
    BY <2>1 DEF Says, WordsWith
  <2>3. QED
    BY <1>2, <2>2
<1>4. \A i \in 1 .. 6 : kinds[i] \in Keywords /\ (kinds[i] = "track" <=> i = 6)
  BY DEF Keywords
<1>5. I = {6}
  BY <1>3, <1>4
<1>6. Min(I) = 6
  <2>1. I \in SUBSET Nat /\ I # {}
    BY <1>5
  <2>2. Min(I) \in I
    BY <2>1, LeastExists
  <2>3. QED
    BY <1>5, <2>2
<1>7. QED
  BY <1>5, <1>6 DEF KeywordOf, FirstThat, SelectInSeq

LEMMA TokenIsRead ==
  ASSUME NEW msg \in Seq(Words), WellFormed(msg)
  PROVE  /\ FindToken(msg) # None
         /\ \A n \in WordsWith(msg, "known") : FindToken(msg) = Lexicon[msg[n]].known
<1> DEFINE I == {i \in 1 .. Len(KnownTokens) : Mentions(msg, KnownTokens[i])}
           known == FirstThat(KnownTokens, LAMBDA s : Mentions(msg, s))
<1>1. PICK n \in DOMAIN msg : WordsWith(msg, "known") = {n}
  <2>1. Cardinality(WordsWith(msg, "known")) = 1
    BY DEF WellFormed
  <2>2. WordsWith(msg, "known") # {}
    <3>1. Cardinality({}) = 0
      BY FS_EmptySet
    <3>2. WordsWith(msg, "known") = {} => Cardinality(WordsWith(msg, "known")) = 0
      BY <3>1, Zenon
    <3>3. QED
      BY <2>1, <3>2
  <2>3. Cardinality(WordsWith(msg, "known")) <= 1
    BY <2>1
  <2>4. QED
    BY <2>2, <2>3, OneWord
<1>2. Lexicon[msg[n]].known # None
  BY <1>1 DEF WordsWith
<1>3. I # {}
  <2>1. msg[n] \in Words
    BY <1>1, WordsOf
  <2>2. PICK i \in DOMAIN KnownTokens : KnownTokens[i] = Lexicon[msg[n]].known
    BY <1>2, <2>1, IntentAssumption DEF IntentAssumption
  <2>3. Mentions(msg, KnownTokens[i])
    BY <1>1, <2>2 DEF Mentions
  <2>4. i \in 1 .. Len(KnownTokens)
    <3>1. KnownTokens \in Seq(ValidSymbols)
      BY IntentAssumption DEF IntentAssumption
    <3>2. QED
      BY <2>2, <3>1
  <2>5. QED
    BY <2>3, <2>4
<1>4. Min(I) \in I
  <2>1. I \in SUBSET Nat
    OBVIOUS
  <2>2. QED
    BY <1>3, <2>1, LeastExists
<1>5. known = KnownTokens[Min(I)]
  BY <1>3, <1>4 DEF FirstThat, SelectInSeq
<1>6. known # None
  <2>1. KnownTokens[Min(I)] \in ValidSymbols
    BY <1>4, WordsOf, IntentAssumption DEF IntentAssumption
  <2>2. QED
    BY <1>5, <2>1, IntentAssumption DEF IntentAssumption
<1>7. known = Lexicon[msg[n]].known
  <2>1. PICK m \in DOMAIN msg : Lexicon[msg[m]].known = known
    BY <1>4, <1>5 DEF Mentions
  <2>2. m \in WordsWith(msg, "known")
    BY <1>6, <2>1 DEF WordsWith
  <2>3. QED
    BY <1>1, <2>1, <2>2
<1>8. FindToken(msg) = known
  BY <1>6 DEF FindToken
<1>9. QED
  BY <1>1, <1>6, <1>7, <1>8

LEMMA EventIsRead ==
  ASSUME NEW msg \in Seq(Words), WellFormed(msg)
  PROVE  /\ \A n \in WordsWith(msg, "event") : FindEvent(msg) = Lexicon[msg[n]].event
         /\ WordsWith(msg, "event") = {} => FindEvent(msg) = "any"
<1> DEFINE kinds == <<"buy", "sell", "swap", "transfer">>
           Test(e) == \E i \in DOMAIN msg : Lexicon[msg[i]].event = e
           I == {i \in 1 .. Len(kinds) : Test(kinds[i])}
<1>1. \A i \in 1 .. 4 : kinds[i] \in Events /\ kinds[i] # None /\ kinds[i] # "any"
  <2>1. \A i \in 1 .. 4 : kinds[i] \in Events /\ kinds[i] # "any"
    BY DEF Events
  <2>2. None \notin Events
    BY IntentAssumption DEF IntentAssumption
  <2>3. QED
    BY <2>1, <2>2
<1>2. ASSUME NEW e \in Events
      PROVE  Test(e) <=> \E n \in WordsWith(msg, "event") : Lexicon[msg[n]].event = e
  <2>1. e # None
    BY IntentAssumption DEF IntentAssumption
  <2>2. QED
    BY <2>1 DEF WordsWith
<1>3. CASE WordsWith(msg, "event") = {}
  <2>1. I = {}
    BY <1>1, <1>2, <1>3
  <2>2. QED
    BY <1>3, <2>1 DEF FindEvent, FirstThat, SelectInSeq
<1>4. CASE WordsWith(msg, "event") # {}
  <2>1. PICK n \in DOMAIN msg : WordsWith(msg, "event") = {n}
    BY <1>4, OneWord DEF WellFormed
  <2> DEFINE e == Lexicon[msg[n]].event
  <2>2. e \in Events
    <3>1. e # None
      BY <2>1 DEF WordsWith
    <3>2. QED
      BY <2>1, <3>1, EntriesOf DEF LexiconEntry
  <2>3. \A i \in 1 .. 4 : Test(kinds[i]) <=> kinds[i] = e
    BY <1>1, <1>2, <2>1
  <2>4. CASE e = "any"
    <3>1. I = {}
      BY <1>1, <2>3, <2>4
    <3>2. QED
      BY <2>1, <2>4, <3>1 DEF FindEvent, FirstThat, SelectInSeq
  <2>5. CASE e # "any"
    <3>1. \E i \in 1 .. 4 : kinds[i] = e
      BY <2>2, <2>5 DEF Events
    <3>2. I # {} /\ I \in SUBSET Nat
      BY <2>3, <3>1
    <3>3. Min(I) \in I
      BY <3>2, LeastExists
    <3>4. kinds[Min(I)] = e
      BY <2>3, <3>3
    <3>5. FindEvent(msg) = e
      BY <1>1, <3>2, <3>3, <3>4 DEF FindEvent, FirstThat, SelectInSeq
    <3>6. QED
      BY <2>1, <3>5
  <2>6. QED
    BY <2>4, <2>5
<1>5. QED
  BY <1>3, <1>4

LEMMA AmountIsRead ==
  ASSUME NEW msg \in Seq(Words), WellFormed(msg)
  PROVE  /\ \A n \in WordsWith(msg, "number") : FindAmount(msg) = ParsedAmount(msg[n])
         /\ WordsWith(msg, "number") = {} => FindAmount(msg) = None
<1> DEFINE I == {i \in 1 .. Len(msg) : Lexicon[msg[i]].number # None}
<1>1. I = WordsWith(msg, "number")
  BY DEF WordsWith
<1>2. CASE I = {}
  BY <1>1, <1>2 DEF FindAmount, SelectInSeq
<1>3. CASE I # {}
  <2>1. PICK n \in DOMAIN msg : I = {n}
    BY <1>1, <1>3, OneWord DEF WellFormed
  <2>2. n \in 1 .. Len(msg) /\ Lexicon[msg[n]].number # None
    BY <2>1
  <2>3. Min(I) = n
    <3>1. I \in SUBSET Nat
      OBVIOUS
    <3>2. QED
      BY <2>1, <3>1, LeastExists
  <2>4. \/ Lexicon[msg[n]].suffix # "" \/ n = Len(msg)
        \/ Lexicon[msg[n + 1]].initial = ""
    BY <1>1, <2>1 DEF WellFormed
  <2>5. SuffixAt(msg, n) = Lexicon[msg[n]].suffix
    BY <2>4 DEF SuffixAt
  <2>6. FindAmount(msg) = Lexicon[msg[n]].number * Multiplier[SuffixAt(msg, n)]
    BY <1>3, <2>2, <2>3 DEF FindAmount, SelectInSeq
  <2>7. FindAmount(msg) = ParsedAmount(msg[n])
    BY <2>2, <2>5, <2>6 DEF ParsedAmount
  <2>8. QED
    BY <1>1, <2>1, <2>7
<1>4. QED
  BY <1>2, <1>3

LEMMA RequestIsRead ==
  ASSUME NEW msg \in Seq(Words), WellFormed(msg)
  PROVE  MeantBy(msg, RuleBased(msg))
<1> DEFINE t == FindToken(msg)
           v == FindEvent(msg)
           a == FindAmount(msg)
           i == RuleBased(msg)
<1>1. i = Intent("create_alert", t, v, Clamp(a))
  <2>1. RuleBased(msg) = PostValidate(Intent("create_alert", t, v, a))
    BY RequestIsTrack, IntentAssumption DEF RuleBased, IntentAssumption, Keywords
  <2>2. t # None
    BY TokenIsRead
  <2>3. QED
    BY <2>1, <2>2 DEF PostValidate, Intent
<1>2. i.intent = "create_alert" /\ i.token = t /\ i.event = v /\ i.threshold = Clamp(a)
  BY <1>1 DEF Intent
<1>3. ASSUME NEW n \in WordsWith(msg, "number")
      PROVE  LET amount == ParsedAmount(msg[n])
             IN  i.threshold = IF amount < MinThreshold THEN MinThreshold ELSE amount
  <2>1. a = ParsedAmount(msg[n])
    BY <1>3, AmountIsRead
  <2>2. a # None
    <3>1. n \in DOMAIN msg /\ Lexicon[msg[n]].number # None
      BY <1>3 DEF WordsWith
    <3>2. Lexicon[msg[n]].number \in Nat /\ Lexicon[msg[n]].suffix \in Units
      BY <3>1, EntriesOf, IntentAssumption DEF IntentAssumption, LexiconEntry
    <3>3. Multiplier[Lexicon[msg[n]].suffix] \in Nat
      BY <3>2, IntentAssumption DEF IntentAssumption
    <3>4. \A x, y \in Nat : x * y \in Nat
      OBVIOUS
    <3>5. ParsedAmount(msg[n]) \in Nat
      BY <3>1, <3>2, <3>3, <3>4 DEF ParsedAmount
    <3>6. QED
      BY <2>1, <3>5, IntentAssumption DEF IntentAssumption
  <2>3. QED
    BY <1>2, <2>1, <2>2 DEF Clamp
<1>4. WordsWith(msg, "number") = {} => i.threshold = DefaultThreshold
  BY <1>2, AmountIsRead DEF Clamp
<1>5. QED
  BY <1>2, <1>3, <1>4, TokenIsRead, EventIsRead DEF MeantBy

\* Words are kept for as long as the parser's intent comes from them.
WordsInv == /\ pc = "validate" => message = <<>>
            /\ pc = "dispatch" /\ message # <<>> => intent = RuleBased(message)

LEMMA WordsStep ==
  ASSUME AllowFallback, WordsInv, [Next]_vars
  PROVE  WordsInv'
<1> USE DEF WordsInv
<1>1. ASSUME UNCHANGED messageVars, pc' = pc
      PROVE  WordsInv'
  BY <1>1 DEF messageVars
<1>2. ASSUME NEW msg, Extract(msg)
      PROVE  WordsInv'
  BY <1>2 DEF Extract
<1>3. ASSUME NEW msg, NEW o, Order(msg, o)
      PROVE  WordsInv'
  BY <1>3 DEF Order
<1>4. CASE TimePasses
  BY <1>1, <1>4 DEF TimePasses
<1>5. ASSUME NEW u \in Users, Deny(u) \/ Text(u) \/ TrackCommand(u) \/ UntrackCommand(u)
      PROVE  WordsInv'
  BY <1>1, <1>2, <1>3, <1>5 DEF Deny, Text, TrackCommand, UntrackCommand
<1>6. CASE ModelAnswers \/ ValidateAnswer \/ ModelFails \/ ModelBreaks
           \/ DispatchIntent \/ Reply
  BY <1>6 DEF ModelAnswers, ValidateAnswer, ModelFails, ModelBreaks,
     DispatchIntent, Reply
<1>7. CASE UNCHANGED vars
  BY <1>1, <1>7 DEF vars
<1>8. QED
  BY <1>4, <1>5, <1>6, <1>7 DEF Next

(* For every vocabulary and whatever a word looks like to the patterns: if  *)
(* the fallback is on, the parser that stands in for the model reads each   *)
(* well-formed request as it is meant, wherever its words stand.            *)
THEOREM RequestsAreRead == AllowFallback => (Spec => []FallbackReadsRequests)
<1> SUFFICES ASSUME AllowFallback PROVE Spec => []FallbackReadsRequests
  OBVIOUS
<1>1. Init => WordsInv
  BY DEF Init, WordsInv
<1>2. WordsInv /\ [Next]_vars => WordsInv'
  BY WordsStep
<1>3. DoorInv /\ WordsInv => FallbackReadsRequests
  BY RequestIsRead DEF DoorInv, IntentInv, WordsInv, FallbackReadsRequests
<1>4. QED
  BY <1>1, <1>2, <1>3, DoorInvariant, PTL DEF Spec

-----------------------------------------------------------------------------
(* Commands and messages.                                                  *)

\* An order without an intent is that of a command's arguments.
CommandInv ==
  /\ pc = "dispatch" => intent # None
  /\ pc = "answered" /\ intent = None /\ order.op = "track" =>
       /\ message \in TypedMessages /\ Structured(message)
       /\ order = CreateRule(Lexicon[message[1]].symbol, "any", ParsedAmount(message[2]))

LEMMA CommandStep ==
  ASSUME DoorInv, DoorInv', CommandInv, [Next]_vars
  PROVE  CommandInv'
<1> USE DEF CommandInv
<1>0. pc' = "dispatch" => intent' # None
  BY IntentAssumption DEF IntentAssumption, DoorInv, IntentInv
<1>1. ASSUME UNCHANGED messageVars, pc' = pc
      PROVE  CommandInv'
  BY <1>0, <1>1 DEF messageVars
<1>2. ASSUME NEW msg, Extract(msg)
      PROVE  CommandInv'
  BY <1>0, <1>2 DEF Extract
<1>3. CASE TimePasses
  BY <1>1, <1>3 DEF TimePasses
<1>4. ASSUME NEW u \in Users, Deny(u)
      PROVE  CommandInv'
  BY <1>1, <1>4 DEF Deny
<1>5. ASSUME NEW u \in Users, Text(u)
      PROVE  CommandInv'
  BY <1>2, <1>5 DEF Text
<1>6. ASSUME NEW u \in Users, TrackCommand(u)
      PROVE  CommandInv'
  <2>1. PICK args \in TypedMessages :
          \/ /\ Structured(args)
             /\ Order(args, CreateRule(Lexicon[args[1]].symbol, "any",
                                       ParsedAmount(args[2])))
          \/ Extract(TrackPrefix \o args)
          \/ UNCHANGED <<pc, messageVars>>
    BY <1>6 DEF TrackCommand
  <2>2. CASE /\ Structured(args)
             /\ Order(args, CreateRule(Lexicon[args[1]].symbol, "any",
                                       ParsedAmount(args[2])))
    <3>1. /\ pc' = "answered" /\ message' = args
          /\ order' = CreateRule(Lexicon[args[1]].symbol, "any", ParsedAmount(args[2]))
      BY <2>2 DEF Order
    <3>2. QED
      BY <2>2, <3>1 DEF Structured, CreateRule, ParsedAmount, ValidAmount
  <2>3. QED
    BY <1>1, <1>2, <2>1, <2>2
<1>7. ASSUME NEW u \in Users, UntrackCommand(u)
      PROVE  CommandInv'
  <2>1. PICK args \in TypedMessages :
          \/ Order(args, RemoveToken(Lexicon[args[1]].symbol))
          \/ Extract(StopPrefix \o args)
          \/ UNCHANGED <<pc, messageVars>>
    BY <1>7 DEF UntrackCommand
  <2>2. CASE Order(args, RemoveToken(Lexicon[args[1]].symbol))
    BY <2>2 DEF Order, RemoveToken, Refused
  <2>3. QED
    BY <1>1, <1>2, <2>1, <2>2
<1>8. CASE ModelAnswers \/ ValidateAnswer \/ ModelFails \/ ModelBreaks
  BY <1>0, <1>8 DEF ModelAnswers, ValidateAnswer, ModelFails, ModelBreaks
<1>9. CASE DispatchIntent \/ Reply
  BY <1>9 DEF DispatchIntent, Reply
<1>10. CASE UNCHANGED vars
  BY <1>1, <1>10 DEF vars
<1>11. QED
  BY <1>3, <1>4, <1>5, <1>6, <1>7, <1>8, <1>9, <1>10 DEF Next

LEMMA ArgumentsAgree ==
  ASSUME PlainArguments,
         NEW args \in TypedMessages, Len(args) = 2, Structured(args),
         Lexicon[args[1]].known # None,
         NEW o, o.op = "track",
         o = CreateRule(Lexicon[args[1]].symbol, "any", ParsedAmount(args[2]))
  PROVE  OrderFor(RuleBased(TrackPrefix \o args)) = o
<1> DEFINE msg == TrackPrefix \o args
           i == RuleBased(msg)
           amount == ParsedAmount(args[2])
<1>1. /\ WellFormed(msg) /\ WordsWith(msg, "event") = {}
      /\ \E n \in WordsWith(msg, "known") : Lexicon[msg[n]].known = Lexicon[args[1]].symbol
      /\ \E n \in WordsWith(msg, "number") : msg[n] = args[2]
  BY DEF PlainArguments
<1>2. msg \in Seq(Words)
  BY TypedIsWords, FrontAssumption DEF FrontAssumption
<1>3. MeantBy(msg, i)
  BY <1>1, <1>2, RequestIsRead
<1>4. i.intent = "create_alert" /\ i.token = Lexicon[args[1]].symbol /\ i.event = "any"
  BY <1>1, <1>3 DEF MeantBy
<1>5. amount \in MinThreshold .. MaxThreshold
  BY DEF CreateRule, ValidAmount, Refused
<1>6. i.threshold = amount
  <2>1. i.threshold = IF amount < MinThreshold THEN MinThreshold ELSE amount
    BY <1>1, <1>3 DEF MeantBy
  <2>2. ~(amount < MinThreshold)
    <3>1. MinThreshold \in Nat
      BY IntentAssumption DEF IntentAssumption
    <3>2. QED
      BY <1>5, <3>1
  <2>3. QED
    BY <2>1, <2>2
<1>7. OrderFor(i) = CreateRule(i.token, i.event, i.threshold)
  BY <1>4 DEF OrderFor
<1>8. QED
  BY <1>4, <1>6, <1>7

(* For every vocabulary of plain arguments, /track and a message share one  *)
(* reading: a structured command orders what its words would order as text. *)
THEOREM SlashAgrees == PlainArguments => (Spec => []SlashAgreesWithText)
<1> SUFFICES ASSUME PlainArguments PROVE Spec => []SlashAgreesWithText
  OBVIOUS
<1>1. Init => CommandInv
  BY DEF Init, CommandInv
<1>2. DoorInv /\ DoorInv' /\ CommandInv /\ [Next]_vars => CommandInv'
  BY CommandStep
<1>3. CommandInv => SlashAgreesWithText
  BY ArgumentsAgree DEF CommandInv, SlashAgreesWithText
<1>4. QED
  BY <1>1, <1>2, <1>3, DoorInvariant, PTL DEF Spec
=============================================================================
