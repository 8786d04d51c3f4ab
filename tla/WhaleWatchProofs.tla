-------------------------- MODULE WhaleWatchProofs --------------------------
(***************************************************************************)
(* Theorems about WhaleWatch, for every list of providers, set of tokens,  *)
(* pairs, logs, rules and thresholds, time to live and bound.              *)
(***************************************************************************)
EXTENDS WhaleWatch, TLAPS

-----------------------------------------------------------------------------
(* Types.                                                                  *)

WatchTypeOK ==
  /\ active \subseteq Rules
  /\ threshold \in [Rules -> Thresholds]
  /\ pc \in {"idle", "range", "decimals", "symbol", "price", "matching"}
  /\ gate \in Thresholds \cup {MinThreshold}
  /\ log \in Logs \cup {None}
  /\ decimalsCache \in [Addresses -> Nat \cup {None}]
  /\ symbolCache \in [Addresses -> Symbols \cup {None}]
  /\ steady \subseteq Rules
  /\ logs \in 0..MaxLogs /\ edits \in 0..MaxEdits /\ restarts \in 0..MaxRestarts

\* Where the task is says which parts of the event are known.
EventInv ==
  /\ pc \in {"decimals", "symbol", "price", "matching"} => log \in Logs
  /\ pc = "decimals" => log.kind = "transfer"
  /\ pc \in {"symbol", "price", "matching"} /\ log.kind = "transfer" =>
       decimalsCache[log.address] # None
  /\ pc \in {"price", "matching"} => symbolCache[log.address] # None
  /\ lookup # "none" => pc = "price" /\ key = EventSymbol

\* What the client's caches may hold.
MetadataInv ==
  \A a \in Addresses :
    /\ symbolCache[a] \in {None, SymbolOf[a], FallbackSymbol[a]}
    /\ a \in Tokens => decimalsCache[a] \in {None, DecimalsOf[a], DefaultDecimals}

LEMMA ProvidersFacts ==
  /\ Providers \in Seq(Names)
  /\ Len(Providers) = Len(Listed) + (IF StaticEnabled THEN 1 ELSE 0)
  /\ \A i \in 1..Len(Listed) : Providers[i] = Listed[i]
  /\ StaticEnabled => Providers[Len(Providers)] = Static
  /\ ~StaticEnabled => Providers = Listed \o <<>>
<1>1. CASE StaticEnabled
  <2>1. Providers = Listed \o <<Static>>
    BY <1>1 DEF Providers
  <2>2. Listed \in Seq(Names) /\ <<Static>> \in Seq(Names)
    BY PriceAssumption DEF PriceAssumption, Names
  <2> QED BY <1>1, <2>1, <2>2
<1>2. CASE ~StaticEnabled
  <2>1. Providers = Listed \o <<>>
    BY <1>2 DEF Providers
  <2>2. Listed \in Seq(Names) /\ <<>> \in Seq(Names)
    BY PriceAssumption DEF PriceAssumption
  <2> QED BY <1>2, <2>1, <2>2
<1> QED BY <1>1, <1>2

LEMMA LogFacts ==
  ASSUME NEW l \in Logs
  PROVE  /\ l.kind \in {"transfer", "swap"}
         /\ l.address \in Addresses /\ l.token \in Tokens
         /\ l.raw \in Nat
         /\ l.kind = "transfer" =>
              l.address \in Tokens /\ l.address = l.token /\ l.way \in Ways
         /\ l.kind = "swap" => l.address \in Pairs /\ l.way = "swap"
         /\ l # None
BY WatchAssumption DEF WatchAssumption, LogSpace, Addresses

LEMMA PriceInitType == PriceInit => PriceTypeOK
BY PriceAssumption DEF PriceInit, PriceTypeOK, NoSource, Unasked, Outcomes, Attempts

LEMMA OfferFacts ==
  ASSUME PriceTypeOK, Asking, NEW price \in Offers(Asked), Usable(price)
  PROVE  price \in Prices /\ key \in KnownSymbols
<1>1. Asked \in Names
  BY ProvidersFacts DEF Asking, Asked, PriceTypeOK
<1>2. key \in KnownSymbols
  BY DEF Offers, Usable
<1>3. CASE Asked = Static
  BY <1>2, <1>3, PriceAssumption DEF Offers, Usable, Prices, PriceAssumption
<1>4. CASE Asked # Static
  <2>1. price \in Quotes \cup {None}
    BY <1>2, <1>4 DEF Offers
  <2>2. price \in Nat /\ price > 0
    BY <2>1, PriceAssumption DEF Usable, PriceAssumption
  <2> QED BY <1>2, <2>2 DEF Prices
<1> QED BY <1>2, <1>3, <1>4

\* When a cached price was stored, and that only known symbols have one.
PricedAt(s) ==
  /\ s \in KnownSymbols
  /\ source[s].stored <= now
  /\ cache[s].expires = source[s].stored + Ttl

LookupInv ==
  /\ lookup = "none" => found = None
  /\ found # None => /\ at <= Len(Providers)
                     /\ key \in KnownSymbols
                     /\ lookup = "closing"
  /\ lookup # "none" => key \in Symbols
  /\ lookup = "asking" /\ StaticEnabled /\ key \in KnownSymbols => at <= Len(Providers)
  /\ lookup = "closing" /\ StaticEnabled /\ key \in KnownSymbols => found # None

CacheInv == \A s \in Symbols : cache[s] # None => PricedAt(s)

PriceInv == PriceTypeOK /\ LookupInv /\ CacheInv

PriceStep ==
  \/ UNCHANGED <<now, priceVars>>
  \/ Tick
  \/ \E s \in Symbols : Miss(s)
  \/ AnswerPrice \/ AnswerNothing \/ Raise \/ ListExhausted
  \/ ReturnFetched
  \/ PriceReset

LEMMA PriceStepType == PriceInv /\ PriceStep => PriceTypeOK'
<1> SUFFICES ASSUME PriceInv, PriceStep PROVE PriceTypeOK'
  OBVIOUS
<1>a. None \notin Nat /\ Ttl \in Nat
  BY PriceAssumption DEF PriceAssumption
<1>b. Unasked \in [Names -> Outcomes]
  BY DEF Unasked, Outcomes
<1>c. NoSource \in [provider : Names \cup {None}, stored : Nat,
                   answers : [Names -> Outcomes]]
  BY <1>b DEF NoSource
<1>d. PriceTypeOK
  BY DEF PriceInv
<1>e. Asking => Asked \in Names
  BY <1>d, ProvidersFacts DEF Asking, Asked, PriceTypeOK
<1>1. CASE UNCHANGED <<now, priceVars>>
  BY <1>d, <1>1 DEF PriceTypeOK, priceVars
<1>2. CASE Tick
  BY <1>d, <1>2 DEF PriceTypeOK, priceVars, Tick
<1>3. ASSUME NEW s \in Symbols, Miss(s) PROVE PriceTypeOK'
  <2>1. cache' \in [Symbols -> [price : Prices, expires : Nat] \cup {None}]
    BY <1>d, <1>3 DEF PriceTypeOK, Miss
  <2>2. source' \in [Symbols -> [provider : Names \cup {None}, stored : Nat,
                                answers : [Names -> Outcomes]]]
    BY <1>c, <1>d, <1>3 DEF PriceTypeOK, Miss
  <2>3. lookup' = "asking" /\ key' \in Symbols /\ at' = 1 /\ attempt' = 1
        /\ found' = None /\ answers' = Unasked /\ now' = now
    BY <1>3 DEF Miss
  <2> QED BY <1>b, <1>d, <2>1, <2>2, <2>3 DEF PriceTypeOK, Attempts
<1>4. CASE AnswerPrice
  <2>1. found' \in Prices
    BY <1>d, <1>4, OfferFacts DEF AnswerPrice
  <2> QED BY <1>d, <1>4, <2>1 DEF PriceTypeOK, AnswerPrice
<1>5. CASE AnswerNothing
  <2>1. answers' \in [Names -> Outcomes]
    BY <1>d, <1>5 DEF PriceTypeOK, AnswerNothing, Note, Outcomes
  <2>2. at' \in Nat \ {0} /\ attempt' \in 1..Attempts
    <3>1. at \in Nat /\ at' = at + 1 /\ attempt' = 1 /\ Attempts = 2
      BY <1>d, <1>5 DEF PriceTypeOK, AnswerNothing, NextProvider, Attempts
    <3> QED BY <3>1
  <2> QED BY <1>d, <1>5, <2>1, <2>2 DEF PriceTypeOK, AnswerNothing
<1>6. CASE Raise
  <2>1. answers' \in [Names -> Outcomes]
    BY <1>d, <1>6 DEF PriceTypeOK, Raise, Note, Outcomes
  <2>2. at \in Nat \ {0} /\ attempt \in 1..2 /\ Attempts = 2
    BY <1>d DEF PriceTypeOK, Attempts
  <2>3. at' \in Nat \ {0} /\ attempt' \in 1..Attempts
    <3>1. \/ attempt < 2 /\ attempt' = attempt + 1 /\ at' = at
          \/ attempt' = 1 /\ at' = at + 1
      BY <1>6, <2>2 DEF Raise, NextProvider
    <3> QED BY <2>2, <3>1
  <2> QED BY <1>d, <1>6, <2>1, <2>3 DEF PriceTypeOK, Raise
<1>7. CASE ListExhausted
  BY <1>d, <1>7 DEF PriceTypeOK, ListExhausted
<1>8. CASE ReturnFetched
  <2>1. lookup' = "none" /\ key' = None /\ at' = 1 /\ attempt' = 1 /\ found' = None
        /\ answers' = Unasked /\ now' = now
    BY <1>8 DEF ReturnFetched
  <2>2. CASE found = None
    BY <1>b, <1>d, <1>8, <2>1, <2>2 DEF PriceTypeOK, ReturnFetched, Attempts
  <2>3. CASE found # None
    <3>1. Asked \in Names /\ found \in Prices /\ now + Ttl \in Nat
      BY <1>a, <1>d, <2>3, ProvidersFacts DEF PriceTypeOK, PriceInv, LookupInv, Asked
    <3>2. cache' \in [Symbols -> [price : Prices, expires : Nat] \cup {None}]
      BY <1>d, <1>8, <2>3, <3>1 DEF PriceTypeOK, ReturnFetched
    <3>3. source' \in [Symbols -> [provider : Names \cup {None}, stored : Nat,
                                  answers : [Names -> Outcomes]]]
      <4> DEFINE a == IF Asked = Static THEN answers ELSE Unasked
      <4>1. a \in [Names -> Outcomes] /\ now \in Nat
        BY <1>b, <1>d DEF PriceTypeOK
      <4>2. source' = [source EXCEPT ![key] =
               [provider |-> Asked, stored |-> now, answers |-> a]]
        BY <1>8, <2>3 DEF ReturnFetched
      <4> QED BY <1>d, <3>1, <4>1, <4>2 DEF PriceTypeOK
    <3> QED BY <1>b, <1>d, <2>1, <3>2, <3>3 DEF PriceTypeOK, Attempts
  <2> QED BY <2>2, <2>3
<1>9. CASE PriceReset
  BY <1>b, <1>c, <1>d, <1>9 DEF PriceTypeOK, PriceReset, Attempts
<1> QED BY <1>1, <1>2, <1>3, <1>4, <1>5, <1>6, <1>7, <1>8, <1>9 DEF PriceStep

\* The table stands at the end of the list, so a lookup of a known symbol that
\* gets there is answered when the table is enabled.
LEMMA LookupStep == PriceInv /\ PriceStep => LookupInv'
<1> SUFFICES ASSUME PriceInv, PriceStep PROVE LookupInv'
  OBVIOUS
<1>t. PriceTypeOK /\ LookupInv
  BY DEF PriceInv
<1>n. at \in Nat \ {0} /\ Len(Providers) \in Nat
  BY <1>t, ProvidersFacts DEF PriceTypeOK
<1>1. CASE UNCHANGED <<now, priceVars>>
  BY <1>t, <1>1 DEF LookupInv, priceVars
<1>2. CASE Tick
  BY <1>t, <1>2 DEF LookupInv, priceVars, Tick
<1>3. ASSUME NEW s \in Symbols, Miss(s) PROVE LookupInv'
  <2>1. StaticEnabled => Len(Providers) >= 1
    BY ProvidersFacts, PriceAssumption DEF PriceAssumption
  <2>2. lookup' = "asking" /\ found' = None /\ key' = s /\ at' = 1
    BY <1>3 DEF Miss
  <2> QED BY <2>1, <2>2 DEF LookupInv
<1>4. CASE AnswerPrice
  <2>1. key \in KnownSymbols
    BY <1>t, <1>4, OfferFacts DEF AnswerPrice
  <2>2. found' \in Prices /\ None \notin Prices
    BY <1>t, <1>4, OfferFacts, PriceAssumption DEF AnswerPrice, PriceAssumption, Prices
  <2>3. lookup = "asking" /\ at <= Len(Providers) /\ lookup' = "closing"
        /\ UNCHANGED <<key, at>>
    BY <1>4 DEF AnswerPrice, Asking
  <2> QED BY <1>t, <2>1, <2>2, <2>3 DEF LookupInv
<1>5. CASE AnswerNothing
  <2>1. lookup = "asking" /\ at <= Len(Providers) /\ at' = at + 1
        /\ UNCHANGED <<key, found, lookup>>
    BY <1>5 DEF AnswerNothing, Asking, NextProvider
  <2>2. CASE StaticEnabled /\ key \in KnownSymbols
    <3>1. Asked # Static
      <4> SUFFICES ASSUME Asked = Static PROVE FALSE
        OBVIOUS
      <4>1. Offers(Asked) = {StaticPrice[key]}
        BY <2>2 DEF Offers
      <4>2. StaticPrice[key] \in Nat \ {0} /\ None \notin Nat
        BY <2>2, PriceAssumption DEF PriceAssumption
      <4>3. StaticPrice[key] # None /\ StaticPrice[key] > 0
        BY <4>2
      <4>4. PICK price \in Offers(Asked) : ~Usable(price)
        BY <1>5 DEF AnswerNothing
      <4> QED BY <4>1, <4>3, <4>4 DEF Usable
    <3>2. at # Len(Providers)
      BY <2>2, <3>1, ProvidersFacts DEF Asked
    <3> QED BY <1>t, <1>n, <2>1, <3>2 DEF LookupInv
  <2>3. CASE ~(StaticEnabled /\ key \in KnownSymbols)
    BY <1>t, <2>1, <2>3 DEF LookupInv
  <2> QED BY <2>2, <2>3
<1>6. CASE Raise
  <2>1. lookup = "asking" /\ at <= Len(Providers) /\ at' \in {at, at + 1}
        /\ Asked \in Live /\ UNCHANGED <<key, found, lookup>>
    BY <1>6 DEF Raise, Asking, NextProvider
  <2>2. CASE StaticEnabled
    <3>1. at # Len(Providers)
      BY <2>1, <2>2, ProvidersFacts DEF Asked, Live, Static
    <3> QED BY <1>t, <1>n, <2>1, <3>1 DEF LookupInv
  <2>3. CASE ~StaticEnabled
    BY <1>t, <2>1, <2>3 DEF LookupInv
  <2> QED BY <2>2, <2>3
<1>7. CASE ListExhausted
  BY <1>t, <1>n, <1>7 DEF LookupInv, ListExhausted
<1>8. CASE ReturnFetched
  BY <1>8 DEF LookupInv, ReturnFetched
<1>9. CASE PriceReset
  BY <1>9 DEF LookupInv, PriceReset
<1> QED BY <1>1, <1>2, <1>3, <1>4, <1>5, <1>6, <1>7, <1>8, <1>9 DEF PriceStep

LEMMA CacheStep == PriceInv /\ PriceStep => CacheInv'
<1> SUFFICES ASSUME PriceInv, PriceStep, NEW s \in Symbols, cache'[s] # None
             PROVE  PricedAt(s)'
  BY DEF CacheInv
<1>t. PriceTypeOK /\ LookupInv /\ now \in Nat /\ Ttl \in Nat
  BY PriceAssumption DEF PriceInv, PriceTypeOK, PriceAssumption
<1>c. cache[s] # None => PricedAt(s)
  BY DEF PriceInv, CacheInv
<1>s. source[s].stored \in Nat
  BY <1>t DEF PriceTypeOK
<1>1. CASE now' \in {now, now + 1} /\ cache'[s] = cache[s] /\ source'[s] = source[s]
  BY <1>t, <1>c, <1>s, <1>1 DEF PricedAt
<1>2. CASE UNCHANGED <<now, cache, source>>
  BY <1>1, <1>2
<1>3. CASE UNCHANGED <<now, priceVars>>
  BY <1>2, <1>3 DEF priceVars
<1>4. CASE Tick
  BY <1>1, <1>4 DEF Tick, priceVars
<1>5. ASSUME NEW t \in Symbols, Miss(t) PROVE PricedAt(s)'
  <2>1. s # t
    BY <1>t, <1>5 DEF Miss, PriceTypeOK
  <2> QED BY <1>t, <1>1, <1>5, <2>1 DEF Miss, PriceTypeOK
<1>6. CASE AnswerPrice \/ AnswerNothing \/ Raise \/ ListExhausted
  BY <1>2, <1>6 DEF AnswerPrice, AnswerNothing, Raise, ListExhausted
<1>7. CASE ReturnFetched
  <2>1. CASE found # None /\ s = key
    <3>1. cache'[s].expires = now + Ttl /\ source'[s].stored = now /\ now' = now
      BY <1>t, <1>7, <2>1 DEF ReturnFetched, PriceTypeOK
    <3> QED BY <1>t, <2>1, <3>1 DEF PricedAt, LookupInv
  <2>2. CASE ~(found # None /\ s = key)
    BY <1>t, <1>1, <1>7, <2>2 DEF ReturnFetched, PriceTypeOK
  <2> QED BY <2>1, <2>2
<1>8. CASE PriceReset
  BY <1>8 DEF PriceReset
<1> QED BY <1>3, <1>4, <1>5, <1>6, <1>7, <1>8 DEF PriceStep

LEMMA PriceInvStep == PriceInv /\ PriceStep => PriceInv'
BY PriceStepType, LookupStep, CacheStep DEF PriceInv

TypeInv == PriceInv /\ WatchTypeOK /\ EventInv /\ MetadataInv

Others == \/ \E l \in Logs : TakeLog(l)
          \/ EndRange
          \/ \E r \in Rules : EditRule(r)
          \/ Time
          \/ Restart
          \/ UNCHANGED vars

LEMMA NextIsPriceStep == TypeInv /\ [Next]_vars => PriceStep
<1> SUFFICES ASSUME TypeInv, [Next]_vars PROVE PriceStep
  OBVIOUS
<1>1. CASE ReadGate \/ GateFails \/ GetDecimals \/ GetSymbol \/ Match
  BY <1>1 DEF ReadGate, GateFails, SetGate, GetDecimals, GetSymbol, Match, PriceStep
<1>2. CASE EvaluateCached
  BY <1>2 DEF EvaluateCached, ReturnCached, PriceStep
<1>3. CASE AskProviders
  <2>1. EventSymbol \in Symbols
    BY <1>3, LogFacts DEF AskProviders, TypeInv, WatchTypeOK, EventInv, EventSymbol
  <2> QED BY <1>3, <2>1 DEF AskProviders, PriceStep
<1>4. CASE AwaitProviders \/ EvaluateFetched
  BY <1>4 DEF AwaitProviders, EvaluateFetched, PriceStep
<1>5. CASE Others
  BY <1>5 DEF Others, TakeLog, EndRange, EditRule, Time, Restart, vars, PriceStep
<1> QED BY <1>1, <1>2, <1>3, <1>4, <1>5 DEF Next, Step, Others

LEMMA MetadataStep == TypeInv /\ [Next]_vars => MetadataInv'
<1> SUFFICES ASSUME TypeInv, [Next]_vars PROVE MetadataInv'
  OBVIOUS
<1>1. CASE UNCHANGED cacheVars
  BY <1>1 DEF MetadataInv, TypeInv, cacheVars
<1>2. CASE GetDecimals
  <2>1. log \in Logs /\ log.address \in Addresses
    BY <1>2, LogFacts DEF GetDecimals, TypeInv, EventInv
  <2>2. PICK d \in Metadata(decimalsCache[log.address], DecimalsOf[log.address],
                            DefaultDecimals) :
          decimalsCache' = [decimalsCache EXCEPT ![log.address] = d]
    BY <1>2 DEF GetDecimals
  <2>3. d \in {decimalsCache[log.address], DecimalsOf[log.address], DefaultDecimals}
    BY <2>2 DEF Metadata
  <2>4. symbolCache' = symbolCache
    BY <1>2 DEF GetDecimals
  <2> QED BY <2>1, <2>2, <2>3, <2>4 DEF MetadataInv, TypeInv, WatchTypeOK
<1>3. CASE GetSymbol
  <2>1. log \in Logs /\ log.address \in Addresses
    BY <1>3, LogFacts DEF GetSymbol, TypeInv, EventInv
  <2>2. PICK d \in Metadata(symbolCache[log.address], SymbolOf[log.address],
                            FallbackSymbol[log.address]) :
          symbolCache' = [symbolCache EXCEPT ![log.address] = d]
    BY <1>3 DEF GetSymbol
  <2>3. d \in {symbolCache[log.address], SymbolOf[log.address],
               FallbackSymbol[log.address]}
    BY <2>2 DEF Metadata
  <2>4. decimalsCache' = decimalsCache
    BY <1>3 DEF GetSymbol
  <2> QED BY <2>1, <2>2, <2>3, <2>4 DEF MetadataInv, TypeInv, WatchTypeOK
<1>4. CASE Restart
  BY <1>4 DEF MetadataInv, Restart
<1>5. CASE ~(GetDecimals \/ GetSymbol \/ Restart)
  <2>1. UNCHANGED cacheVars
    BY <1>5 DEF Next, Step, vars, ReadGate, GateFails, SetGate, EvaluateCached, Judged,
       AskProviders, AwaitProviders, Undecided, EvaluateFetched, Match, TakeLog, EndRange,
       EditRule, Time, cacheVars
  <2> QED BY <1>1, <2>1
<1> QED BY <1>2, <1>3, <1>4, <1>5

\* What a judgement leaves behind, whatever the price.
LEMMA JudgeFacts ==
  ASSUME NEW price, NEW stored, Judge(price, stored), TypeInv, pc = "price"
  PROVE  /\ pc' \in {"range", "matching"}
         /\ log' \in Logs \cup {None}
         /\ pc' = "matching" => log' = log
BY DEF Judge, TypeInv, EventInv

LEMMA MetadataTypes ==
  ASSUME NEW l \in Logs
  PROVE  /\ SymbolOf[l.address] \in Symbols /\ SymbolOf[l.address] # None
         /\ FallbackSymbol[l.address] \in Symbols /\ FallbackSymbol[l.address] # None
         /\ l.kind = "transfer" => DecimalsOf[l.address] \in Nat
         /\ DefaultDecimals \in Nat /\ None \notin Nat
<1>1. l.address \in Addresses /\ (l.kind = "transfer" => l.address \in Tokens)
  BY LogFacts
<1>2. SymbolOf[l.address] \in Symbols /\ FallbackSymbol[l.address] \in Symbols
  BY <1>1, WatchAssumption DEF WatchAssumption
<1>3. None \notin Symbols /\ None \notin Nat
  BY PriceAssumption DEF PriceAssumption
<1> QED BY <1>1, <1>2, <1>3, WatchAssumption DEF WatchAssumption

LEMMA WatchTypeStep == TypeInv /\ [Next]_vars => WatchTypeOK'
<1> SUFFICES ASSUME TypeInv, [Next]_vars PROVE WatchTypeOK'
  OBVIOUS
<1>t. WatchTypeOK /\ EventInv
  BY DEF TypeInv
<1>1. CASE ReadGate \/ GateFails
  BY <1>t, <1>1 DEF WatchTypeOK, ReadGate, GateFails, SetGate, cacheVars, ruleVars, counters
<1>2. CASE GetDecimals
  <2>1. log \in Logs /\ log.kind = "transfer"
    BY <1>t, <1>2 DEF GetDecimals, EventInv
  <2>2. Metadata(decimalsCache[log.address], DecimalsOf[log.address], DefaultDecimals)
          \subseteq Nat
    BY <1>t, <2>1, LogFacts, MetadataTypes DEF Metadata, WatchTypeOK
  <2>3. decimalsCache' \in [Addresses -> Nat \cup {None}]
    BY <1>t, <1>2, <2>1, <2>2 DEF GetDecimals, WatchTypeOK
  <2> QED BY <1>t, <1>2, <2>3 DEF GetDecimals, WatchTypeOK, ruleVars, counters
<1>3. CASE GetSymbol
  <2>1. log \in Logs
    BY <1>t, <1>3 DEF GetSymbol, EventInv
  <2>2. Metadata(symbolCache[log.address], SymbolOf[log.address],
                 FallbackSymbol[log.address]) \subseteq Symbols
    BY <1>t, <2>1, LogFacts, MetadataTypes DEF Metadata, WatchTypeOK
  <2>3. symbolCache' \in [Addresses -> Symbols \cup {None}]
    BY <1>t, <1>3, <2>1, <2>2 DEF GetSymbol, WatchTypeOK
  <2> QED BY <1>t, <1>3, <2>3 DEF GetSymbol, WatchTypeOK, ruleVars, counters
<1>4. CASE EvaluateCached \/ EvaluateFetched
  BY <1>t, <1>4, JudgeFacts DEF EvaluateCached, EvaluateFetched, Judged, WatchTypeOK, ruleVars,
     cacheVars, counters
<1>5. CASE AskProviders \/ AwaitProviders
  BY <1>t, <1>5 DEF AskProviders, AwaitProviders, Undecided, WatchTypeOK, ruleVars, cacheVars,
     counters
<1>6. CASE Match
  BY <1>t, <1>6 DEF Match, WatchTypeOK, ruleVars, cacheVars, counters
<1>7. ASSUME NEW l \in Logs, TakeLog(l) PROVE WatchTypeOK'
  BY <1>t, <1>7, WatchAssumption DEF TakeLog, WatchTypeOK, WatchAssumption, ruleVars, cacheVars
<1>8. CASE EndRange \/ Time \/ UNCHANGED vars
  BY <1>t, <1>8 DEF EndRange, Time, vars, WatchTypeOK, ruleVars, cacheVars, counters
<1>9. ASSUME NEW r \in Rules, EditRule(r) PROVE WatchTypeOK'
  BY <1>t, <1>9, WatchAssumption DEF EditRule, WatchTypeOK, WatchAssumption, cacheVars
<1>10. CASE Restart
  BY <1>t, <1>10, WatchAssumption DEF Restart, WatchTypeOK, WatchAssumption, ruleVars
<1> QED BY <1>1, <1>2, <1>3, <1>4, <1>5, <1>6, <1>7, <1>8, <1>9, <1>10 DEF Next, Step

LEMMA EventStep == TypeInv /\ [Next]_vars => EventInv'
<1> SUFFICES ASSUME TypeInv, [Next]_vars PROVE EventInv'
  OBVIOUS
<1>t. WatchTypeOK /\ EventInv
  BY DEF TypeInv
<1>1. CASE ReadGate \/ GateFails
  BY <1>t, <1>1 DEF EventInv, ReadGate, GateFails, SetGate, priceVars, cacheVars
<1>2. CASE GetDecimals
  <2>1. log \in Logs /\ log.kind = "transfer" /\ lookup = "none"
    BY <1>t, <1>2 DEF GetDecimals, EventInv
  <2>2. Metadata(decimalsCache[log.address], DecimalsOf[log.address], DefaultDecimals)
          \cap {None} = {}
    BY <1>t, <2>1, MetadataTypes DEF Metadata
  <2>3. decimalsCache'[log.address] # None
    BY <1>t, <1>2, <2>1, <2>2, LogFacts DEF GetDecimals, WatchTypeOK
  <2> QED BY <1>2, <2>1, <2>3 DEF GetDecimals, EventInv, priceVars
<1>3. CASE GetSymbol
  <2>1. log \in Logs /\ lookup = "none"
    BY <1>t, <1>3 DEF GetSymbol, EventInv
  <2>2. Metadata(symbolCache[log.address], SymbolOf[log.address],
                 FallbackSymbol[log.address]) \cap {None} = {}
    BY <1>t, <2>1, MetadataTypes DEF Metadata
  <2>3. symbolCache'[log.address] # None
    BY <1>t, <1>3, <2>1, <2>2, LogFacts DEF GetSymbol, WatchTypeOK
  <2> QED BY <1>t, <1>3, <2>1, <2>3 DEF GetSymbol, EventInv, priceVars
<1>4. CASE EvaluateCached \/ EvaluateFetched
  <2>1. lookup' = "none" /\ pc = "price" /\ UNCHANGED cacheVars
    BY <1>4 DEF EvaluateCached, EvaluateFetched, ReturnCached, ReturnFetched, priceVars, Judged
  <2>2. pc' \in {"range", "matching"} /\ (pc' = "matching" => log' = log)
    BY <1>4, <2>1, JudgeFacts DEF EvaluateCached, EvaluateFetched
  <2> QED BY <1>t, <2>1, <2>2 DEF EventInv, cacheVars
<1>5. CASE AskProviders
  BY <1>t, <1>5 DEF AskProviders, Miss, Undecided, EventInv, EventSymbol, cacheVars
<1>6. CASE AwaitProviders
  <2>1. key' = key /\ lookup = "asking" /\ lookup' # "none"
    BY <1>6 DEF AwaitProviders, AnswerPrice, AnswerNothing, Raise, ListExhausted, Asking
  <2>2. UNCHANGED <<pc, log, cacheVars>>
    BY <1>6 DEF AwaitProviders, Undecided
  <2> QED BY <1>t, <2>1, <2>2 DEF EventInv, EventSymbol, cacheVars
<1>7. CASE Match
  BY <1>t, <1>7 DEF Match, EventInv, priceVars
<1>8. ASSUME NEW l \in Logs, TakeLog(l) PROVE EventInv'
  BY <1>t, <1>8, LogFacts DEF TakeLog, EventInv, priceVars
<1>9. CASE EndRange
  BY <1>t, <1>9 DEF EndRange, EventInv, priceVars
<1>10. CASE Time \/ UNCHANGED vars
  BY <1>t, <1>10 DEF Time, Tick, vars, EventInv, EventSymbol, priceVars, cacheVars
<1>11. ASSUME NEW r \in Rules, EditRule(r) PROVE EventInv'
  BY <1>t, <1>11 DEF EditRule, EventInv, EventSymbol, priceVars, cacheVars
<1>12. CASE Restart
  BY <1>12 DEF Restart, PriceReset, EventInv
<1> QED BY <1>1, <1>2, <1>3, <1>4, <1>5, <1>6, <1>7, <1>8, <1>9, <1>10, <1>11, <1>12
        DEF Next, Step

LEMMA TypeStep == TypeInv /\ [Next]_vars => TypeInv'
BY PriceInvStep, NextIsPriceStep, MetadataStep, WatchTypeStep, EventStep DEF TypeInv

LEMMA TypeInit == Init => TypeInv
<1> SUFFICES ASSUME Init PROVE TypeInv
  OBVIOUS
<1>1. PriceInv
  BY PriceInitType DEF Init, PriceInit, PriceInv, LookupInv, CacheInv
<1>2. WatchTypeOK
  BY WatchAssumption DEF Init, WatchTypeOK, WatchAssumption
<1>3. EventInv
  BY DEF Init, PriceInit, EventInv
<1>4. MetadataInv
  BY DEF Init, MetadataInv, Addresses
<1> QED BY <1>1, <1>2, <1>3, <1>4 DEF TypeInv

-----------------------------------------------------------------------------
(* The gate, and what is known when a whale waits to be matched.           *)

\* No rule that stood since the gate was read has a threshold below it.
GateInv == \A r \in steady \cap active : gate <= threshold[r]

\* A whale that waits for Match was valued under a symbol that has a price.
MatchingInv ==
  /\ pc = "matching" => /\ verdict.outcome = "whale"
                        /\ verdict.price \in Prices
                        /\ EventSymbol \in KnownSymbols
  /\ verdict.outcome \in Final \cup {"none", "whale"}
  /\ verdict.outcome = "whale" => pc = "matching"

WatchInv ==
  TypeInv /\ GateInv /\ MatchingInv /\ FreshPrices /\ SteadyRulesFire /\ NoFalseAlarm

\* Steps that leave the verdict alone or clear it.
Quiet == /\ ~(EvaluateCached \/ EvaluateFetched \/ Match)

LEMMA QuietSteps ==
  ASSUME TypeInv, MatchingInv, [Next]_vars, Quiet
  PROVE  /\ verdict' = verdict \/ verdict' = NoVerdict
         /\ pc' = "matching" => pc = "matching" /\ UNCHANGED <<verdict, log, cacheVars>>
         /\ pc = "matching" => pc' = "matching" \/ verdict' = NoVerdict
<1>1. CASE ReadGate \/ GateFails
  BY <1>1 DEF ReadGate, GateFails, SetGate
<1>2. CASE GetDecimals \/ GetSymbol
  BY <1>2 DEF GetDecimals, GetSymbol
<1>3. CASE AskProviders \/ AwaitProviders
  BY <1>3 DEF AskProviders, AwaitProviders, Undecided
<1>4. CASE Others
  BY <1>4 DEF Others, TakeLog, EndRange, EditRule, Time, Restart, vars
<1> QED BY <1>1, <1>2, <1>3, <1>4 DEF Next, Step, Others, Quiet

LEMMA VerdictFields ==
  ASSUME NEW o, NEW p, NEW s, NEW t, NEW m
  PROVE  LET v == Verdict(o, p, s, t, m)
         IN  /\ v.outcome = o /\ v.price = p /\ v.stored = s /\ v.time = t
             /\ v.log = log /\ v.misread = Misread /\ v.matched = m /\ v.steady = steady
             /\ v.deserving = {r \in Rules : p # None /\ Deserves(r, p)}
BY DEF Verdict

\* What an evaluation finds: no price only for a symbol no provider knows, or a
\* price of the event's symbol, stored less than Ttl ago.
Evaluates(price, stored) ==
  /\ pc = "price" /\ Judge(price, stored)
  /\ \/ /\ price \in Prices
        /\ EventSymbol \in KnownSymbols
        /\ stored \in Nat /\ now - stored < Ttl
     \/ /\ price = None
        /\ StaticEnabled => EventSymbol \notin KnownSymbols
  /\ UNCHANGED <<ruleVars, gate, cacheVars, steady>>

LEMMA EvaluationFacts ==
  ASSUME TypeInv, EvaluateCached \/ EvaluateFetched
  PROVE  \E price, stored : Evaluates(price, stored)
<1>t. /\ PriceTypeOK /\ LookupInv /\ CacheInv /\ EventInv /\ now \in Nat
      /\ Ttl \in Nat \ {0}
  BY PriceAssumption DEF TypeInv, PriceInv, PriceTypeOK, PriceAssumption
<1>1. CASE EvaluateCached
  <2>1. EventSymbol \in Symbols
    BY <1>1, LogFacts DEF EvaluateCached, TypeInv, WatchTypeOK, EventInv, EventSymbol
  <2>2. cache[EventSymbol] # None /\ now < cache[EventSymbol].expires
    BY <1>1 DEF EvaluateCached, ReturnCached, Fresh
  <2>3. cache[EventSymbol].price \in Prices /\ source[EventSymbol].stored \in Nat
    BY <1>t, <2>1, <2>2 DEF PriceTypeOK
  <2>4. PricedAt(EventSymbol)
    BY <1>t, <2>1, <2>2 DEF CacheInv
  <2>5. now - source[EventSymbol].stored < Ttl
    BY <1>t, <2>2, <2>3, <2>4 DEF PricedAt
  <2> QED BY <1>1, <2>3, <2>4, <2>5 DEF EvaluateCached, Judged, Evaluates, PricedAt
<1>2. CASE EvaluateFetched
  <2>1. lookup = "closing" /\ key = EventSymbol
    BY <1>t, <1>2 DEF EvaluateFetched, ReturnFetched, EventInv
  <2>2. CASE found = None
    BY <1>t, <1>2, <2>1, <2>2 DEF EvaluateFetched, Judged, Evaluates, LookupInv
  <2>3. CASE found # None
    <3>1. found \in Prices /\ EventSymbol \in KnownSymbols
      BY <1>t, <2>1, <2>3 DEF PriceTypeOK, LookupInv
    <3> QED BY <1>t, <1>2, <3>1 DEF EvaluateFetched, Judged, Evaluates
  <2> QED BY <2>2, <2>3
<1> QED BY <1>1, <1>2

\* The two possible ends of an evaluation with a price, and the one without.
LEMMA JudgeCases ==
  ASSUME TypeInv, NEW price, NEW stored, Evaluates(price, stored)
  PROVE  \/ /\ price = None /\ pc' = "range"
            /\ verdict' = Verdict("unpriced", None, 0, now, {})
         \/ /\ price \in Prices /\ ~Clears(price, gate) /\ pc' = "range"
            /\ verdict' = Verdict("below", price, stored, now, {})
         \/ /\ price \in Prices /\ Clears(price, gate) /\ pc' = "matching" /\ log' = log
            /\ verdict' = Verdict("whale", price, stored, now, {})
BY DEF Evaluates, Judge

LEMMA FreshStep ==
  TypeInv /\ MatchingInv /\ FreshPrices /\ [Next]_vars => FreshPrices'
<1> SUFFICES ASSUME TypeInv, MatchingInv, FreshPrices, [Next]_vars PROVE FreshPrices'
  OBVIOUS
<1>1. CASE EvaluateCached \/ EvaluateFetched
  <2>1. PICK price, stored : Evaluates(price, stored)
    BY <1>1, EvaluationFacts
  <2>2. CASE price = None
    BY <2>1, <2>2, JudgeCases, VerdictFields, PriceAssumption
       DEF FreshPrices, PriceAssumption, Prices
  <2>3. CASE price # None
    BY <2>1, <2>3, JudgeCases, VerdictFields DEF FreshPrices, Evaluates
  <2> QED BY <2>2, <2>3
<1>2. CASE Match
  <2>1. verdict'.outcome = "matched" /\ verdict'.time = verdict.time
        /\ verdict'.stored = verdict.stored /\ verdict.outcome = "whale"
    BY <1>2, VerdictFields DEF Match, MatchingInv
  <2> QED BY <2>1 DEF FreshPrices
<1>3. CASE Quiet
  BY <1>3, QuietSteps DEF FreshPrices, NoVerdict
<1> QED BY <1>1, <1>2, <1>3 DEF Quiet

LEMMA MatchingStep == TypeInv /\ MatchingInv /\ [Next]_vars => MatchingInv'
<1> SUFFICES ASSUME TypeInv, MatchingInv, [Next]_vars PROVE MatchingInv'
  OBVIOUS
<1>1. CASE EvaluateCached \/ EvaluateFetched
  <2>1. PICK price, stored : Evaluates(price, stored)
    BY <1>1, EvaluationFacts
  <2>2. \/ /\ verdict'.outcome \in {"unpriced", "below"}
           /\ pc' = "range"
        \/ /\ verdict'.outcome = "whale"
           /\ pc' = "matching"
           /\ verdict'.price = price
           /\ price \in Prices
           /\ log' = log
    BY <2>1, JudgeCases, VerdictFields
  <2>3. price \in Prices => EventSymbol \in KnownSymbols
    BY <2>1, PriceAssumption DEF Evaluates, PriceAssumption, Prices
  <2>4. symbolCache' = symbolCache
    BY <2>1 DEF Evaluates, cacheVars
  <2> QED BY <2>2, <2>3, <2>4 DEF MatchingInv, EventSymbol, Final
<1>2. CASE Match
  BY <1>2, VerdictFields DEF Match, MatchingInv, Final
<1>3. CASE Quiet
  BY <1>3, QuietSteps DEF MatchingInv, NoVerdict, EventSymbol, cacheVars
<1> QED BY <1>1, <1>2, <1>3 DEF Quiet

LEMMA GateStep == TypeInv /\ GateInv /\ [Next]_vars => GateInv'
<1> SUFFICES ASSUME TypeInv, GateInv, [Next]_vars, NEW r \in (steady \cap active)'
             PROVE  gate' <= threshold'[r]
  BY DEF GateInv
<1>t. WatchTypeOK /\ WatchTypeOK'
  BY TypeStep DEF TypeInv
<1>1. CASE ReadGate
  <2>1. PICK g \in Thresholds \cup {MinThreshold} : IsGate(g) /\ SetGate(g)
    BY <1>1 DEF ReadGate
  <2>2. gate' = g /\ UNCHANGED <<active, threshold>>
    BY <2>1 DEF SetGate, ruleVars
  <2>3. r \in active /\ active # {}
    BY <2>2
  <2> QED BY <2>1, <2>2, <2>3 DEF IsGate
<1>2. CASE GateFails
  <2>1. gate' = MinThreshold /\ UNCHANGED <<active, threshold>> /\ r \in Rules
    BY <1>t, <1>2 DEF GateFails, SetGate, ruleVars, WatchTypeOK
  <2>2. threshold[r] \in Thresholds
    BY <1>t, <2>1 DEF WatchTypeOK
  <2> QED BY <2>1, <2>2, ThresholdAssumption, WatchAssumption
          DEF ThresholdAssumption, WatchAssumption
<1>3. ASSUME NEW q \in Rules, EditRule(q) PROVE gate' <= threshold'[r]
  <2>1. gate' = gate /\ r \in steady /\ r # q
    BY <1>3 DEF EditRule
  <2>2. r \in active /\ threshold'[r] = threshold[r]
    BY <1>t, <1>3, <2>1 DEF EditRule, WatchTypeOK
  <2> QED BY <2>1, <2>2 DEF GateInv
<1>4. CASE Restart
  BY <1>4 DEF Restart
<1>5. CASE UNCHANGED <<gate, steady, ruleVars>>
  BY <1>5 DEF GateInv, ruleVars
<1>6. CASE GetDecimals \/ GetSymbol \/ EvaluateCached \/ AskProviders \/ AwaitProviders
           \/ EvaluateFetched \/ Match
  BY <1>5, <1>6 DEF GetDecimals, GetSymbol, EvaluateCached, AskProviders, AwaitProviders,
     EvaluateFetched, Match, Judged, Undecided
<1>7. CASE (\E l \in Logs : TakeLog(l)) \/ EndRange \/ Time \/ UNCHANGED vars
  BY <1>5, <1>7 DEF TakeLog, EndRange, Time, vars
<1> QED BY <1>1, <1>2, <1>3, <1>4, <1>6, <1>7 DEF Next, Step

-----------------------------------------------------------------------------
(* What is matched, and what the chain says.                               *)

LEMMA Monotone ==
  ASSUME NEW a \in Nat, NEW x \in Nat, NEW y \in Nat, x <= y
  PROVE  a * x <= a * y
OBVIOUS

LEMMA ScaleFacts ==
  ASSUME NEW l \in Logs
  PROVE  /\ Scale(DecimalsOf[l.token]) \in Nat /\ Scale(DefaultDecimals) \in Nat
         /\ DecimalsOf[l.token] <= DefaultDecimals =>
              Scale(DecimalsOf[l.token]) <= Scale(DefaultDecimals)
BY LogFacts, ScaleAssumption DEF ScaleAssumption

\* An event with a price bears its contract's own symbol; it is a transfer, or a
\* swap on a pair that passes for a token.
LEMMA PricedEvent ==
  ASSUME TypeInv, pc \in {"price", "matching"}, EventSymbol \in KnownSymbols
  PROVE  /\ log \in Logs /\ EventSymbol = SymbolOf[log.address]
         /\ log.kind = "transfer" \/ Impostor(log)
         /\ log.kind = "transfer" =>
              /\ log.address = log.token
              /\ EventDecimals \in {DecimalsOf[log.token], DefaultDecimals}
              /\ ~Misread => EventDecimals = DecimalsOf[log.token]
<1>1. log \in Logs
  BY DEF TypeInv, EventInv
<1>2. log.address \in Addresses /\ log.kind \in {"transfer", "swap"}
      /\ (log.kind = "transfer" => log.address \in Tokens /\ log.address = log.token)
  BY <1>1, LogFacts
<1>3. FallbackSymbol[log.address] \notin KnownSymbols /\ None \notin KnownSymbols
  BY <1>2, WatchAssumption, PriceAssumption DEF WatchAssumption, PriceAssumption
<1>4. EventSymbol = SymbolOf[log.address]
  BY <1>2, <1>3 DEF TypeInv, MetadataInv, EventSymbol
<1>5. log.kind = "transfer" =>
        decimalsCache[log.address] \in {DecimalsOf[log.address], DefaultDecimals}
  BY <1>2 DEF TypeInv, MetadataInv, EventInv
<1> QED BY <1>1, <1>2, <1>4, <1>5 DEF EventDecimals, Impostor, Misread

\* What makes the verdict on a log reliable: it is no impostor's, and its decimals
\* were read right or replaced by at least as many.
Reliable ==
  ~Impostor(log) /\ (DecimalsOf[log.token] <= DefaultDecimals \/ ~Misread)

\* Then a value in the event's decimals is never above the value in the token's own.
LEMMA ClearsIsDeserved ==
  ASSUME TypeInv, pc \in {"price", "matching"}, EventSymbol \in KnownSymbols, Reliable,
         NEW price \in Prices, NEW usd \in Nat, Clears(price, usd)
  PROVE  AtLeast(log.raw, DecimalsOf[log.token], price, usd)
<1>1. /\ log \in Logs
      /\ EventDecimals \in {DecimalsOf[log.token], DefaultDecimals}
      /\ ~Misread => EventDecimals = DecimalsOf[log.token]
  BY PricedEvent DEF Reliable
<1>2. log.raw \in Nat /\ price \in Nat
  BY <1>1, LogFacts DEF Prices
<1> DEFINE own == Scale(DecimalsOf[log.token])
           read == Scale(EventDecimals)
<1>3. own \in Nat /\ read \in Nat /\ own <= read
  BY <1>1, ScaleFacts DEF Reliable
<1>4. log.raw * price >= usd * read
  BY DEF Clears, AtLeast
<1>5. usd * own <= usd * read
  BY <1>3, Monotone
<1>6. usd * own \in Nat /\ usd * read \in Nat /\ log.raw * price \in Nat
  BY <1>2, <1>3
<1>7. log.raw * price >= usd * own
  <2> HIDE DEF own, read
  <2> QED BY <1>4, <1>5, <1>6
<1> QED BY <1>7 DEF AtLeast

LEMMA DirectionFacts ==
  ASSUME NEW r \in Rules, NEW l \in Logs, l.kind = "transfer"
  PROVE  EventTypeMatches(r, DirectionOf[l.way], l.kind) <=>
           \/ RuleEvent[r] = "any"
           \/ RuleEvent[r] = l.kind
           \/ RuleEvent[r] = "buy" /\ l.way = "mint"
           \/ RuleEvent[r] = "sell" /\ l.way = "burn"
<1>1. l.way \in {"mint", "burn", "move"}
  BY LogFacts DEF Ways
<1>2. RuleEvent[r] \in {"any", "buy", "sell", "swap", "transfer"}
  BY WatchAssumption DEF WatchAssumption
<1> QED BY <1>1, <1>2 DEF EventTypeMatches, DirectionOf

LEMMA MatchedIsDeserved ==
  ASSUME TypeInv, pc = "matching", EventSymbol \in KnownSymbols, Reliable,
         NEW price \in Prices, NEW r \in Rules, RuleMatches(r, price)
  PROVE  Deserves(r, price)
<1>1. /\ log \in Logs /\ log.kind = "transfer"
      /\ EventSymbol = SymbolOf[log.token]
  BY PricedEvent DEF Reliable
<1>2. threshold[r] \in Nat
  BY ThresholdAssumption DEF TypeInv, WatchTypeOK, ThresholdAssumption
<1>3. AtLeast(log.raw, DecimalsOf[log.token], price, threshold[r])
  BY <1>2, ClearsIsDeserved DEF RuleMatches, ThresholdReached
<1>4. \/ RuleEvent[r] = "any"
      \/ RuleEvent[r] = log.kind
      \/ RuleEvent[r] = "buy" /\ log.way = "mint"
      \/ RuleEvent[r] = "sell" /\ log.way = "burn"
  BY <1>1, DirectionFacts DEF RuleMatches
<1> QED BY <1>1, <1>3, <1>4 DEF RuleMatches, Deserves

LEMMA DeservedIsMatched ==
  ASSUME TypeInv, pc = "matching", EventSymbol \in KnownSymbols, ~Misread,
         log.kind = "transfer",
         NEW price \in Prices, NEW r \in Rules, Deserves(r, price)
  PROVE  RuleMatches(r, price)
<1>1. /\ log \in Logs /\ log.address = log.token
      /\ EventSymbol = SymbolOf[log.token]
      /\ EventDecimals = DecimalsOf[log.token]
  BY PricedEvent
<1>2. ThresholdReached(r, price)
  BY <1>1 DEF Deserves, ThresholdReached, Clears
<1>3. EventTypeMatches(r, DirectionOf[log.way], log.kind)
  BY <1>1, DirectionFacts DEF Deserves
<1> QED BY <1>1, <1>2, <1>3 DEF RuleMatches, Deserves

LEMMA NoFalseAlarmStep ==
  TypeInv /\ MatchingInv /\ NoFalseAlarm /\ [Next]_vars => NoFalseAlarm'
<1> SUFFICES ASSUME TypeInv, MatchingInv, NoFalseAlarm, [Next]_vars PROVE NoFalseAlarm'
  OBVIOUS
<1>1. CASE EvaluateCached \/ EvaluateFetched
  <2>1. PICK price, stored : Evaluates(price, stored)
    BY <1>1, EvaluationFacts
  <2>2. verdict'.outcome # "matched"
    BY <2>1, JudgeCases, VerdictFields
  <2> QED BY <2>2 DEF NoFalseAlarm
<1>2. CASE Match
  <2>1. pc = "matching" /\ verdict.price \in Prices /\ EventSymbol \in KnownSymbols
    BY <1>2 DEF Match, MatchingInv
  <2>2. verdict'.matched = {r \in Rules : RuleMatches(r, verdict.price)}
        /\ verdict'.deserving = {r \in Rules : verdict.price # None
                                              /\ Deserves(r, verdict.price)}
        /\ verdict'.log = log /\ verdict'.misread = Misread
    BY <1>2, VerdictFields DEF Match
  <2>3. verdict.price # None
    BY <2>1, PriceAssumption DEF PriceAssumption, Prices
  <2>4. Reliable => \A r \in Rules :
          RuleMatches(r, verdict.price) => Deserves(r, verdict.price)
    BY <2>1, MatchedIsDeserved
  <2> QED BY <2>2, <2>3, <2>4 DEF NoFalseAlarm, Reliable, Impostor
<1>3. CASE Quiet
  BY <1>3, QuietSteps DEF NoFalseAlarm, NoVerdict
<1> QED BY <1>1, <1>2, <1>3 DEF Quiet

\* An event below the gate deserves no rule that stood since the gate was read.
LEMMA BelowGate ==
  ASSUME TypeInv, GateInv, pc = "price", EventSymbol \in KnownSymbols, ~Misread,
         log.kind = "transfer",
         NEW price \in Prices, ~Clears(price, gate),
         NEW r \in steady, Deserves(r, price)
  PROVE  FALSE
<1>1. log \in Logs
  BY PricedEvent
<1>2. EventDecimals = DecimalsOf[log.token]
  BY PricedEvent
<1>3. r \in active /\ r \in Rules /\ gate <= threshold[r]
  BY DEF Deserves, GateInv, TypeInv, WatchTypeOK
<1>4. gate \in Nat /\ threshold[r] \in Nat
  BY <1>3, ThresholdAssumption, WatchAssumption
     DEF TypeInv, WatchTypeOK, ThresholdAssumption, WatchAssumption
<1> DEFINE own == Scale(DecimalsOf[log.token])
<1>5. own \in Nat /\ log.raw \in Nat /\ price \in Nat
  BY <1>1, ScaleFacts, LogFacts DEF Prices
<1>6. log.raw * price >= threshold[r] * own
  BY DEF Deserves, AtLeast
<1>7. ~(log.raw * price >= gate * own)
  BY <1>2 DEF Clears, AtLeast
<1>8. own * gate <= own * threshold[r]
  BY <1>3, <1>4, <1>5, Monotone
<1>9. own * gate = gate * own /\ own * threshold[r] = threshold[r] * own
  BY <1>4, <1>5
<1>10. gate * own \in Nat /\ threshold[r] * own \in Nat /\ log.raw * price \in Nat
  BY <1>4, <1>5
<1> HIDE DEF own
<1> QED BY <1>6, <1>7, <1>8, <1>9, <1>10

LEMMA SteadyStep ==
  TypeInv /\ GateInv /\ MatchingInv /\ SteadyRulesFire /\ [Next]_vars => SteadyRulesFire'
<1> SUFFICES ASSUME TypeInv, GateInv, MatchingInv, SteadyRulesFire, [Next]_vars
             PROVE  SteadyRulesFire'
  OBVIOUS
<1>1. CASE EvaluateCached \/ EvaluateFetched
  <2>1. PICK price, stored : Evaluates(price, stored)
    BY <1>1, EvaluationFacts
  <2>2. pc = "price" /\ log \in Logs
    BY <2>1 DEF Evaluates, TypeInv, EventInv
  <2>3. CASE price = None
    <3>1. verdict' = Verdict("unpriced", None, 0, now, {})
      BY <2>1, <2>3, JudgeCases, PriceAssumption DEF PriceAssumption, Prices
    <3>2. verdict'.log = log /\ verdict'.misread = Misread
      BY <3>1, VerdictFields
    <3>3. StaticEnabled => EventSymbol \notin KnownSymbols
      BY <2>1, <2>3, PriceAssumption DEF Evaluates, PriceAssumption, Prices
    <3>4. log.kind = "transfer" /\ ~Misread => EventSymbol = SymbolOf[log.token]
      BY <2>2, LogFacts DEF Misread, EventSymbol
    <3> QED BY <3>2, <3>3, <3>4 DEF SteadyRulesFire
  <2>4. CASE price # None
    <3>1. price \in Prices /\ EventSymbol \in KnownSymbols
      BY <2>1, <2>4 DEF Evaluates
    <3>2. CASE verdict' = Verdict("whale", price, stored, now, {})
      BY <3>2, VerdictFields DEF SteadyRulesFire, Final
    <3>3. CASE verdict' = Verdict("below", price, stored, now, {}) /\ ~Clears(price, gate)
      <4>1. verdict'.misread = Misread /\ verdict'.outcome = "below"
            /\ verdict'.steady = steady /\ verdict'.log = log
            /\ verdict'.deserving = {r \in Rules : price # None /\ Deserves(r, price)}
        BY <3>3, VerdictFields
      <4>2. ~Misread /\ log.kind = "transfer" => \A r \in steady : ~Deserves(r, price)
        BY <2>2, <3>1, <3>3, BelowGate
      <4> QED BY <4>1, <4>2 DEF SteadyRulesFire
    <3> QED BY <2>1, <2>4, <3>2, <3>3, JudgeCases
  <2> QED BY <2>3, <2>4
<1>2. CASE Match
  <2>1. pc = "matching" /\ verdict.price \in Prices /\ EventSymbol \in KnownSymbols
    BY <1>2 DEF Match, MatchingInv
  <2>2. /\ verdict'.matched = {r \in Rules : RuleMatches(r, verdict.price)}
        /\ verdict'.deserving = {r \in Rules : verdict.price # None
                                              /\ Deserves(r, verdict.price)}
        /\ verdict'.outcome = "matched" /\ verdict'.misread = Misread
        /\ verdict'.log = log
    BY <1>2, VerdictFields DEF Match
  <2>3. ~Misread /\ log.kind = "transfer" =>
          \A r \in Rules : Deserves(r, verdict.price) => RuleMatches(r, verdict.price)
    BY <2>1, DeservedIsMatched
  <2> QED BY <2>2, <2>3 DEF SteadyRulesFire
<1>3. CASE Quiet
  BY <1>3, QuietSteps DEF SteadyRulesFire, NoVerdict, Final
<1> QED BY <1>1, <1>2, <1>3 DEF Quiet

-----------------------------------------------------------------------------
(* The theorems.                                                           *)

LEMMA WatchInit == Init => WatchInv
<1> SUFFICES ASSUME Init PROVE WatchInv
  OBVIOUS
<1>1. TypeInv
  BY TypeInit
<1>2. pc = "idle" /\ steady = {} /\ verdict.outcome = "none"
  BY DEF Init, NoVerdict
<1> QED BY <1>1, <1>2 DEF WatchInv, GateInv, MatchingInv, FreshPrices, SteadyRulesFire,
        NoFalseAlarm, Final

LEMMA WatchStep == WatchInv /\ [Next]_vars => WatchInv'
BY TypeStep, GateStep, MatchingStep, FreshStep, SteadyStep, NoFalseAlarmStep DEF WatchInv

THEOREM WatchInvariant == Spec => []WatchInv
<1>1. Init => WatchInv
  BY WatchInit
<1>2. WatchInv /\ [Next]_vars => WatchInv'
  BY WatchStep
<1> QED BY <1>1, <1>2, PTL DEF Spec

\* Every variable keeps its type.
THEOREM TypeCorrect == Spec => []TypeOK
<1>1. WatchInv => TypeOK
  BY DEF WatchInv, TypeInv, PriceInv, WatchTypeOK, MatchingInv, TypeOK
<1> QED BY <1>1, WatchInvariant, PTL

\* No log is valued at a price whose time to live is over, whatever its length, the
\* number of providers and the time a lookup takes.
THEOREM PricesAreFresh == Spec => []FreshPrices
<1>1. WatchInv => FreshPrices
  BY DEF WatchInv
<1> QED BY <1>1, WatchInvariant, PTL

\* A rule that stood since the gate was read fires for every transfer that deserves
\* it and was read right, for every set of rules, thresholds and tokens.
THEOREM SteadyFire == Spec => []SteadyRulesFire
<1>1. WatchInv => SteadyRulesFire
  BY DEF WatchInv
<1> QED BY <1>1, WatchInvariant, PTL

\* A rule fires only for a transfer that deserves it, whatever metadata call failed
\* on a token of no more decimals than the default, and for every other token as
\* long as none failed.
THEOREM AlarmsAreDeserved == Spec => []NoFalseAlarm
<1>1. WatchInv => NoFalseAlarm
  BY DEF WatchInv
<1> QED BY <1>1, WatchInvariant, PTL

-----------------------------------------------------------------------------
(* The static table as the last resort.                                    *)

\* The providers passed so far gave up; one that is listed twice may be in the
\* middle of its second turn.
PassedInv ==
  /\ attempt = 2 /\ lookup = "asking" => answers[Asked] = "raised"
  /\ \A p \in Names : answers[p] = "raised" => attempt = 2 /\ p = Asked
  /\ lookup # "none" =>
       \A i \in 1..Len(Providers) :
         i < at => GaveUp(answers, Providers[i]) \/ answers[Providers[i]] = "raised"

LEMMA PassedStep == TypeInv /\ PassedInv /\ PriceStep => PassedInv'
<1> SUFFICES ASSUME TypeInv, PassedInv, PriceStep PROVE PassedInv'
  OBVIOUS
<1>t. /\ at \in Nat \ {0} /\ attempt \in 1..2 /\ answers \in [Names -> Outcomes]
      /\ Len(Providers) \in Nat
      /\ \A i \in 1..Len(Providers) : Providers[i] \in Names
  BY ProvidersFacts DEF TypeInv, PriceInv, PriceTypeOK, Attempts
<1>n. at \in Nat /\ at >= 1 /\ Len(Providers) \in Nat /\ Attempts = 2
  BY <1>t DEF Attempts
<1>1. CASE answers' = Unasked /\ attempt' = 1 /\ (lookup' = "none" \/ at' = 1)
  BY <1>1 DEF PassedInv, Unasked
<1>2. CASE UNCHANGED <<at, attempt, answers>> /\ lookup # "none"
           /\ (lookup' = lookup \/ lookup' = "closing")
  BY <1>2 DEF PassedInv, Asked, GaveUp
<1>3. CASE UNCHANGED <<at, attempt, answers, lookup>>
  BY <1>3 DEF PassedInv, Asked, GaveUp
<1>4. CASE AnswerNothing
  <2>1. /\ lookup = "asking" /\ lookup' = lookup /\ at <= Len(Providers)
        /\ at' = at + 1 /\ attempt' = 1
        /\ answers' = [answers EXCEPT ![Asked] = "no price"]
    BY <1>4 DEF AnswerNothing, Asking, NextProvider, Note
  <2>b. at <= Len(Providers)
    BY <2>1
  <2>a. at \in 1..Len(Providers)
    BY <1>n, <2>b
  <2>2. Asked \in Names /\ Asked = Providers[at]
    BY <1>t, <2>a DEF Asked
  <2>3. \A p \in Names : /\ p = Asked => answers'[p] = "no price"
                         /\ p # Asked => answers'[p] = answers[p]
    BY <1>t, <2>1, <2>2
  <2>4. \A p \in Names : answers'[p] # "raised"
    BY <2>3 DEF PassedInv
  <2>5. \A i \in 1..Len(Providers) : i < at + 1 => GaveUp(answers', Providers[i])
    <3> SUFFICES ASSUME NEW i \in 1..Len(Providers), i < at + 1
                 PROVE  GaveUp(answers', Providers[i])
      OBVIOUS
    <3>1. CASE Providers[i] = Asked
      BY <1>t, <2>3, <3>1 DEF GaveUp
    <3>2. CASE Providers[i] # Asked
      <4>1. i < at
        BY <1>t, <2>2, <3>2
      <4> QED BY <1>t, <2>1, <2>3, <3>2, <4>1 DEF PassedInv, GaveUp
    <3> QED BY <3>1, <3>2
  <2>6. \A i \in 1..Len(Providers) : i < at' => GaveUp(answers', Providers[i])
    BY <2>1, <2>5
  <2>c. attempt' = 1
    BY <2>1
  <2>7. attempt' # 2
    BY <2>c
  <2> QED BY <2>4, <2>6, <2>7 DEF PassedInv, GaveUp
<1>5. CASE Raise
  <2>1. /\ lookup = "asking" /\ lookup' = lookup /\ at <= Len(Providers)
    BY <1>5 DEF Raise, Asking
  <2>b. at <= Len(Providers)
    BY <2>1
  <2>a. at \in 1..Len(Providers)
    BY <1>n, <2>b
  <2>2. Asked \in Names /\ Asked = Providers[at]
    BY <1>t, <2>a DEF Asked
  <2>3. CASE attempt = 1
    <3>a. answers[Asked] # "raised"
      BY <2>2, <2>3 DEF PassedInv
    <3>c. attempt < Attempts
      BY <1>n, <2>3
    <3>d. at' = at /\ attempt' = attempt + 1
      BY <1>5, <3>c DEF Raise
    <3>b. at' = at /\ attempt' = 2
      BY <2>3, <3>d
    <3>1. answers[Asked] # "raised" /\ at' = at /\ attempt' = 2
      BY <3>a, <3>b
    <3>2. answers' = [answers EXCEPT ![Asked] = "raised"]
      BY <1>5, <3>1 DEF Raise, Note
    <3>3. \A p \in Names : /\ p = Asked => answers'[p] = "raised"
                           /\ p # Asked => answers'[p] = answers[p]
      BY <1>t, <2>2, <3>2
    <3>4. Asked' = Asked
      BY <3>1, <2>2 DEF Asked
    <3>5. \A i \in 1..Len(Providers) :
            i < at => GaveUp(answers', Providers[i]) \/ answers'[Providers[i]] = "raised"
      BY <1>t, <2>1, <3>3 DEF PassedInv, GaveUp
    <3>6. \A p \in Names : answers'[p] = "raised" => p = Asked
      BY <2>3, <3>3 DEF PassedInv
    <3> QED BY <2>1, <2>2, <3>1, <3>3, <3>4, <3>5, <3>6 DEF PassedInv
  <2>4. CASE attempt = 2
    <3>a. answers[Asked] = "raised"
      BY <2>1, <2>4 DEF PassedInv
    <3>c. ~(attempt < Attempts)
      BY <1>n, <2>4
    <3>b. at' = at + 1 /\ attempt' = 1
      BY <1>5, <3>c DEF Raise, NextProvider
    <3>1. answers[Asked] = "raised" /\ at' = at + 1 /\ attempt' = 1
      BY <3>a, <3>b
    <3>2. answers' = [answers EXCEPT ![Asked] = "raised twice"]
      BY <1>5, <3>1 DEF Raise, Note
    <3>3. \A p \in Names : /\ p = Asked => answers'[p] = "raised twice"
                           /\ p # Asked => answers'[p] = answers[p]
      BY <1>t, <2>2, <3>2
    <3>4. \A p \in Names : answers'[p] # "raised"
      BY <3>3 DEF PassedInv
    <3>5. \A i \in 1..Len(Providers) : i < at + 1 => GaveUp(answers', Providers[i])
      <4> SUFFICES ASSUME NEW i \in 1..Len(Providers), i < at + 1
                   PROVE  GaveUp(answers', Providers[i])
        OBVIOUS
      <4>1. CASE Providers[i] = Asked
        BY <1>t, <3>3, <4>1 DEF GaveUp
      <4>2. CASE Providers[i] # Asked
        <5>1. i < at
          BY <1>t, <2>2, <4>2
        <5> QED BY <1>t, <2>1, <3>3, <4>2, <5>1 DEF PassedInv, GaveUp
      <4> QED BY <4>1, <4>2
    <3>6. \A i \in 1..Len(Providers) : i < at' => GaveUp(answers', Providers[i])
      BY <3>1, <3>5
    <3>7. attempt' # 2
      BY <3>1
    <3> QED BY <3>4, <3>6, <3>7 DEF PassedInv, GaveUp
  <2> QED BY <1>t, <2>3, <2>4
<1>6. CASE UNCHANGED <<now, priceVars>> \/ Tick
  BY <1>3, <1>6 DEF priceVars, Tick
<1>7. CASE AnswerPrice \/ ListExhausted
  BY <1>2, <1>7 DEF AnswerPrice, ListExhausted, Asking
<1>8. CASE (\E s \in Symbols : Miss(s)) \/ ReturnFetched \/ PriceReset
  BY <1>1, <1>8 DEF Miss, ReturnFetched, PriceReset
<1> QED BY <1>4, <1>5, <1>6, <1>7, <1>8 DEF PriceStep

\* "static" is not among the names in PRICE_PROVIDERS.
StaticUnlisted == \A i \in 1..Len(Listed) : Listed[i] # Static

LEMMA StaticStep ==
  TypeInv /\ PassedInv /\ StaticUnlisted /\ StaticIsLastResort /\ PriceStep
    => StaticIsLastResort'
<1> SUFFICES ASSUME TypeInv, PassedInv, StaticUnlisted, StaticIsLastResort, PriceStep,
                    NEW s \in Symbols, cache'[s] # None, source'[s].provider = Static,
                    NEW i \in 1..Len(Listed)
             PROVE  GaveUp(source'[s].answers, Listed[i])
  BY DEF StaticIsLastResort
<1>t. PriceTypeOK /\ LookupInv
  BY DEF TypeInv, PriceInv
<1>1. CASE cache'[s] = cache[s] /\ source'[s] = source[s]
  BY <1>1 DEF StaticIsLastResort
<1>2. CASE UNCHANGED <<now, priceVars>> \/ Tick
  BY <1>1, <1>2 DEF priceVars, Tick
<1>3. ASSUME NEW q \in Symbols, Miss(q) PROVE GaveUp(source'[s].answers, Listed[i])
  <2>1. s # q
    BY <1>t, <1>3 DEF Miss, PriceTypeOK
  <2> QED BY <1>t, <1>1, <1>3, <2>1 DEF Miss, PriceTypeOK
<1>4. CASE AnswerPrice \/ AnswerNothing \/ Raise \/ ListExhausted
  BY <1>1, <1>4 DEF AnswerPrice, AnswerNothing, Raise, ListExhausted
<1>5. CASE ReturnFetched
  <2>1. CASE found # None /\ s = key
    <3>1. source'[s] = [provider |-> Asked, stored |-> now,
                        answers |-> IF Asked = Static THEN answers ELSE Unasked]
      BY <1>t, <1>5, <2>1 DEF ReturnFetched, PriceTypeOK
    <3>2. Asked = Static /\ source'[s].answers = answers
      BY <3>1
    <3>3. at \in Nat \ {0} /\ at <= Len(Providers) /\ lookup = "closing"
      BY <1>t, <2>1 DEF LookupInv, PriceTypeOK
    <3>4. Len(Listed) \in Nat /\ at > Len(Listed)
      BY <3>2, <3>3, ProvidersFacts, PriceAssumption
         DEF Asked, StaticUnlisted, PriceAssumption
    <3>5. i < at /\ i \in 1..Len(Providers) /\ Providers[i] = Listed[i]
          /\ Listed[i] # Static
      BY <3>3, <3>4, ProvidersFacts DEF StaticUnlisted
    <3>6. Providers[i] \in Names
      BY <3>5, ProvidersFacts
    <3>7. answers[Providers[i]] # "raised"
      BY <3>2, <3>5, <3>6 DEF PassedInv
    <3> QED BY <3>2, <3>3, <3>5, <3>7 DEF PassedInv
  <2>2. CASE ~(found # None /\ s = key)
    BY <1>t, <1>1, <1>5, <2>2 DEF ReturnFetched, PriceTypeOK
  <2> QED BY <2>1, <2>2
<1>6. CASE PriceReset
  BY <1>6 DEF PriceReset
<1> QED BY <1>2, <1>3, <1>4, <1>5, <1>6 DEF PriceStep

\* When the list of live sources does not name the table, a table price is only ever
\* cached, and served, after every live source gave up in the lookup that took it.
THEOREM StaticComesLast == StaticUnlisted => (Spec => []StaticIsLastResort)
<1> SUFFICES ASSUME StaticUnlisted PROVE Spec => []StaticIsLastResort
  OBVIOUS
<1> DEFINE Inv == WatchInv /\ PassedInv /\ StaticIsLastResort
<1>1. Init => Inv
  BY WatchInit DEF Init, PriceInit, PassedInv, StaticIsLastResort, Unasked
<1>2. Inv /\ [Next]_vars => Inv'
  BY WatchStep, NextIsPriceStep, PassedStep, StaticStep DEF WatchInv
<1>3. Inv => StaticIsLastResort
  OBVIOUS
<1> HIDE DEF Inv
<1> QED BY <1>1, <1>2, <1>3, PTL DEF Spec

-----------------------------------------------------------------------------
(* Swaps.                                                                  *)

NoSwapIsValued ==
  verdict.outcome \in Final /\ verdict.log.kind = "swap" /\ ~Impostor(verdict.log)
    => verdict.outcome = "unpriced"

LEMMA SwapStep ==
  TypeInv /\ MatchingInv /\ NoSwapIsValued /\ [Next]_vars => NoSwapIsValued'
<1> SUFFICES ASSUME TypeInv, MatchingInv, NoSwapIsValued, [Next]_vars
             PROVE  NoSwapIsValued'
  OBVIOUS
<1>1. CASE EvaluateCached \/ EvaluateFetched
  <2>1. PICK price, stored : Evaluates(price, stored)
    BY <1>1, EvaluationFacts
  <2>2. CASE price = None
    BY <2>1, <2>2, JudgeCases, VerdictFields, PriceAssumption
       DEF NoSwapIsValued, PriceAssumption, Prices
  <2>3. CASE price # None
    <3>1. pc = "price" /\ EventSymbol \in KnownSymbols
      BY <2>1, <2>3 DEF Evaluates
    <3>2. log.kind = "transfer" \/ Impostor(log)
      BY <3>1, PricedEvent
    <3>3. verdict'.log = log
      BY <2>1, JudgeCases, VerdictFields
    <3> QED BY <3>2, <3>3 DEF NoSwapIsValued, Impostor
  <2> QED BY <2>2, <2>3
<1>2. CASE Match
  <2>1. log.kind = "transfer" \/ Impostor(log)
    BY <1>2, PricedEvent DEF Match, MatchingInv
  <2>2. verdict'.log = log
    BY <1>2, VerdictFields DEF Match
  <2> QED BY <2>1, <2>2 DEF NoSwapIsValued, Impostor
<1>3. CASE Quiet
  BY <1>3, QuietSteps DEF NoSwapIsValued, NoVerdict, Final
<1> QED BY <1>1, <1>2, <1>3 DEF Quiet

\* The run that refutes SwapsAreValued shows one swap that is dropped; no choice of
\* tokens, prices, gates and rules is any better.  A swap ends unpriced unless the pair
\* itself answers symbol() with the name of a known token (events.py 128).
THEOREM SwapsAreDropped == Spec => []NoSwapIsValued
<1>1. Init => NoSwapIsValued
  BY DEF Init, NoVerdict, NoSwapIsValued, Final
<1>2. WatchInv /\ NoSwapIsValued /\ [Next]_vars => NoSwapIsValued'
  BY SwapStep DEF WatchInv
<1> QED BY <1>1, <1>2, WatchInvariant, PTL DEF Spec

-----------------------------------------------------------------------------
(* Why every log is judged.  That it is (EveryLogIsJudged) is checked, for  *)
(* liveness is out of the provers' reach; what it rests on is proved: the   *)
(* work a log still costs is a number, and each step of the task lowers it. *)

\* The metadata calls, the cache, two attempts with each provider, closing the HTTP
\* client, matching.
StepsLeft ==
  CASE pc \in {"idle", "range"} -> 0
    [] pc = "matching" -> 1
    [] pc = "price" /\ lookup = "closing" -> 2
    [] pc = "price" /\ lookup = "asking" ->
         3 + Attempts * (Len(Providers) + 1 - at) - (attempt - 1)
    [] pc = "price" /\ lookup = "none" -> 4 + Attempts * Len(Providers)
    [] pc = "symbol" -> 5 + Attempts * Len(Providers)
    [] pc = "decimals" -> 6 + Attempts * Len(Providers)

\* A turn is within the list of providers, or behind its end with no attempt made.
TurnInv ==
  lookup = "asking" => at <= Len(Providers) \/ (at = Len(Providers) + 1 /\ attempt = 1)

\* The task has a log in hand exactly while it works on one.
InHandInv == log = None <=> pc \in {"idle", "range"}

WorkInv == TypeInv /\ TurnInv /\ InHandInv

WorkIsBounded ==
  /\ StepsLeft \in 0 .. 6 + Attempts * Len(Providers)
  /\ StepsLeft = 0 <=> log = None

WorkShrinks ==
  [][log # None => /\ StepsLeft' <= StepsLeft
                   /\ Step => StepsLeft' < StepsLeft]_vars

\* The definition case by case.
Table ==
  /\ pc \in {"idle", "range"} => StepsLeft = 0
  /\ pc = "matching" => StepsLeft = 1
  /\ pc = "price" /\ lookup = "closing" => StepsLeft = 2
  /\ pc = "price" /\ lookup = "asking" =>
       StepsLeft = 3 + 2 * (Len(Providers) + 1 - at) - (attempt - 1)
  /\ pc = "price" /\ lookup = "none" => StepsLeft = 4 + 2 * Len(Providers)
  /\ pc = "symbol" => StepsLeft = 5 + 2 * Len(Providers)
  /\ pc = "decimals" => StepsLeft = 6 + 2 * Len(Providers)

LEMMA StepsLeftCases == Table
BY DEF Table, StepsLeft, Attempts

LEMMA WorkTypes ==
  ASSUME WorkInv
  PROVE  /\ Len(Providers) \in Nat
         /\ at \in Nat /\ at >= 1 /\ attempt \in {1, 2}
         /\ pc \in {"idle", "range", "decimals", "symbol", "price", "matching"}
         /\ lookup \in {"none", "asking", "closing"}
         /\ lookup # "none" => pc = "price"
<1>1. PriceTypeOK /\ WatchTypeOK /\ EventInv
  BY DEF WorkInv, TypeInv, PriceInv
<1> QED BY <1>1, ProvidersFacts DEF PriceTypeOK, WatchTypeOK, EventInv, Attempts

LEMMA WorkBound ==
  ASSUME WorkInv
  PROVE  WorkIsBounded
<1> DEFINE n == Len(Providers)
<1>1. /\ n \in Nat /\ at \in Nat /\ at >= 1 /\ attempt \in {1, 2}
      /\ pc \in {"idle", "range", "decimals", "symbol", "price", "matching"}
      /\ lookup \in {"none", "asking", "closing"}
  BY WorkTypes
<1>2. InHandInv /\ TurnInv
  BY DEF WorkInv
<1>3. CASE pc = "price" /\ lookup = "asking"
  <2>1. StepsLeft = 3 + 2 * (n + 1 - at) - (attempt - 1)
    BY <1>3, StepsLeftCases DEF Table
  <2>2. at <= n \/ (at = n + 1 /\ attempt = 1)
    BY <1>2, <1>3 DEF TurnInv
  <2>3. StepsLeft \in 3 .. 6 + 2 * n
    <3> HIDE DEF n
    <3> QED BY <1>1, <2>1, <2>2
  <2> QED BY <1>1, <1>2, <1>3, <2>3 DEF WorkIsBounded, InHandInv, Attempts
<1>4. CASE ~(pc = "price" /\ lookup = "asking")
  <2>1. /\ pc \in {"idle", "range"} => StepsLeft = 0
        /\ pc \notin {"idle", "range"} =>
             StepsLeft \in {1, 2, 4 + 2 * n, 5 + 2 * n, 6 + 2 * n}
    BY <1>1, <1>4, StepsLeftCases DEF Table
  <2>2. StepsLeft \in 0 .. 6 + 2 * n /\ (StepsLeft = 0 <=> pc \in {"idle", "range"})
    <3> HIDE DEF n
    <3> QED BY <1>1, <2>1
  <2> QED BY <1>2, <2>2 DEF WorkIsBounded, InHandInv, Attempts
<1> QED BY <1>3, <1>4

\* Steps of the task itself on the log in hand.
LEMMA LogSteps ==
  ASSUME WorkInv, log # None, Step
  PROVE  \/ GetDecimals \/ GetSymbol \/ Match
         \/ AskProviders \/ AwaitProviders
         \/ EvaluateCached \/ EvaluateFetched
BY DEF WorkInv, InHandInv, Step, ReadGate, GateFails, SetGate

\* One call of a provider is one attempt or one provider further.
LEMMA TurnStep ==
  ASSUME WorkInv, AwaitProviders
  PROVE  /\ pc = "price" /\ pc' = pc /\ log' = log /\ lookup = "asking"
         /\ \/ lookup' = "closing"
            \/ lookup' = "asking" /\ at <= Len(Providers) /\ at' = at + 1 /\ attempt' = 1
            \/ /\ lookup' = "asking" /\ at <= Len(Providers)
               /\ at' = at /\ attempt = 1 /\ attempt' = 2
<1>1. lookup = "asking" /\ pc' = pc /\ log' = log
  BY DEF AwaitProviders, Undecided, AnswerPrice, AnswerNothing, Raise, ListExhausted, Asking
<1>2. pc = "price" /\ attempt \in {1, 2}
  BY <1>1, WorkTypes
<1>3. CASE AnswerPrice \/ ListExhausted
  BY <1>1, <1>2, <1>3 DEF AnswerPrice, ListExhausted
<1>4. CASE AnswerNothing
  BY <1>1, <1>2, <1>4 DEF AnswerNothing, Asking, NextProvider
<1>5. CASE Raise
  <2>1. /\ lookup' = "asking" /\ at <= Len(Providers)
        /\ IF attempt < 2 THEN attempt' = attempt + 1 /\ at' = at
                          ELSE attempt' = 1 /\ at' = at + 1
    BY <1>1, <1>5 DEF Raise, Asking, NextProvider, Attempts
  <2> QED BY <1>1, <1>2, <2>1
<1> QED BY <1>3, <1>4, <1>5 DEF AwaitProviders

LEMMA TurnInvStep == WorkInv /\ [Next]_vars => TurnInv'
<1> SUFFICES ASSUME WorkInv, [Next]_vars PROVE TurnInv'
  OBVIOUS
<1>1. TurnInv /\ Len(Providers) \in Nat /\ at \in Nat /\ attempt \in {1, 2}
  BY WorkTypes DEF WorkInv
<1>2. CASE AwaitProviders
  <2>1. \/ lookup' = "closing"
        \/ lookup' = "asking" /\ at <= Len(Providers) /\ at' = at + 1 /\ attempt' = 1
        \/ lookup' = "asking" /\ at <= Len(Providers) /\ at' = at
    BY <1>2, TurnStep
  <2> DEFINE n == Len(Providers)
  <2>2. \/ lookup' = "closing"
        \/ at' <= n
        \/ at' = n + 1 /\ attempt' = 1
    <3> HIDE DEF n
    <3> QED BY <1>1, <2>1 DEF n
  <2> QED BY <2>2 DEF TurnInv
<1>3. CASE AskProviders
  <2>1. at' = 1 /\ attempt' = 1
    BY <1>3 DEF AskProviders, Miss
  <2>2. 1 <= Len(Providers) \/ 1 = Len(Providers) + 1
    BY <1>1
  <2> QED BY <2>1, <2>2 DEF TurnInv
<1>4. CASE EvaluateFetched \/ Restart
  BY <1>4 DEF EvaluateFetched, ReturnFetched, Restart, PriceReset, TurnInv
<1>5. CASE ReadGate \/ GateFails \/ GetDecimals \/ GetSymbol \/ Match \/ EvaluateCached
  BY <1>1, <1>5 DEF ReadGate, GateFails, SetGate, GetDecimals, GetSymbol, Match,
     EvaluateCached, ReturnCached, priceVars, TurnInv
<1>6. CASE Others /\ ~Restart
  BY <1>1, <1>6 DEF Others, TakeLog, EndRange, EditRule, Time, Tick, vars, priceVars, TurnInv
<1> QED BY <1>2, <1>3, <1>4, <1>5, <1>6 DEF Next, Step, Others

LEMMA InHandStep == WorkInv /\ [Next]_vars => InHandInv'
<1> SUFFICES ASSUME WorkInv, [Next]_vars PROVE InHandInv'
  OBVIOUS
<1>t. InHandInv /\ EventInv
  BY DEF WorkInv, TypeInv
<1>1. CASE EvaluateCached \/ EvaluateFetched
  <2>1. PICK price, stored : pc = "price" /\ Judge(price, stored)
    BY <1>1 DEF EvaluateCached, EvaluateFetched
  <2> QED BY <1>t, <2>1 DEF Judge, InHandInv
<1>2. CASE AskProviders \/ AwaitProviders
  BY <1>t, <1>2 DEF AskProviders, AwaitProviders, Undecided, InHandInv
<1>3. CASE ReadGate \/ GateFails \/ GetDecimals \/ GetSymbol \/ Match
  BY <1>t, <1>3 DEF ReadGate, GateFails, SetGate, GetDecimals, GetSymbol, Match, InHandInv
<1>4. ASSUME NEW l \in Logs, TakeLog(l) PROVE InHandInv'
  BY <1>4, LogFacts DEF TakeLog, InHandInv
<1>5. CASE EndRange \/ (\E r \in Rules : EditRule(r)) \/ Time \/ Restart \/ UNCHANGED vars
  BY <1>t, <1>5 DEF EndRange, EditRule, Time, Restart, vars, InHandInv
<1> QED BY <1>1, <1>2, <1>3, <1>4, <1>5 DEF Next, Step

LEMMA WorkInvariant == Spec => []WorkInv
<1>1. Init => WorkInv
  BY TypeInit DEF Init, PriceInit, WorkInv, TurnInv, InHandInv
<1>2. WorkInv /\ [Next]_vars => WorkInv'
  BY TypeStep, TurnInvStep, InHandStep DEF WorkInv
<1> QED BY <1>1, <1>2, PTL DEF Spec

LEMMA WorkStep ==
  ASSUME WorkInv, WorkInv', log # None, Step
  PROVE  StepsLeft' < StepsLeft
<1> DEFINE n == Len(Providers)
<1>1. /\ n \in Nat /\ at \in Nat /\ attempt \in {1, 2}
      /\ at <= n \/ (at = n + 1 /\ attempt = 1) \/ lookup # "asking"
  BY WorkTypes DEF WorkInv, TurnInv
<1>2. Table /\ Table'
  BY StepsLeftCases, PTL
<1>3. CASE GetDecimals \/ GetSymbol
  <2>1. \/ pc = "decimals" /\ pc' = "symbol"
        \/ pc = "symbol" /\ pc' = "price" /\ lookup' = "none"
    BY <1>3, WorkTypes DEF GetDecimals, GetSymbol, priceVars
  <2>2. \/ StepsLeft = 6 + 2 * n /\ StepsLeft' = 5 + 2 * n
        \/ StepsLeft = 5 + 2 * n /\ StepsLeft' = 4 + 2 * n
    BY <1>2, <2>1 DEF Table
  <2> HIDE DEF n
  <2> QED BY <1>1, <2>2
<1>4. CASE AskProviders
  <2>1. pc = "price" /\ lookup = "none" /\ pc' = "price" /\ lookup' = "asking"
        /\ at' = 1 /\ attempt' = 1
    BY <1>4 DEF AskProviders, Miss, Undecided
  <2>2. StepsLeft = 4 + 2 * n /\ StepsLeft' = 3 + 2 * (n + 1 - 1) - (1 - 1)
    BY <1>2, <2>1 DEF Table
  <2> HIDE DEF n
  <2> QED BY <1>1, <2>2
<1>5. CASE AwaitProviders
  <2>1. /\ pc = "price" /\ pc' = "price" /\ lookup = "asking"
        /\ \/ lookup' = "closing"
           \/ lookup' = "asking" /\ at <= n /\ at' = at + 1 /\ attempt' = 1
           \/ /\ lookup' = "asking" /\ at <= n
              /\ at' = at /\ attempt = 1 /\ attempt' = 2
    BY <1>5, TurnStep
  <2>2. /\ StepsLeft = 3 + 2 * (n + 1 - at) - (attempt - 1)
        /\ lookup' = "closing" => StepsLeft' = 2
        /\ lookup' = "asking" => StepsLeft' = 3 + 2 * (n + 1 - at') - (attempt' - 1)
    BY <1>2, <2>1 DEF Table
  <2> HIDE DEF n
  <2>3. CASE lookup' = "closing"
    BY <1>1, <2>1, <2>2, <2>3
  <2>4. CASE lookup' = "asking" /\ at' = at + 1 /\ attempt' = 1
    BY <1>1, <2>2, <2>4
  <2>5. CASE lookup' = "asking" /\ at' = at /\ attempt = 1 /\ attempt' = 2
    BY <1>1, <2>2, <2>5
  <2> QED BY <2>1, <2>3, <2>4, <2>5
<1>6. CASE EvaluateCached
  <2>1. pc = "price" /\ lookup = "none" /\ pc' \in {"range", "matching"}
    BY <1>6 DEF EvaluateCached, ReturnCached, Judge
  <2>2. StepsLeft = 4 + 2 * n /\ StepsLeft' \in {0, 1}
    BY <1>2, <2>1 DEF Table
  <2> HIDE DEF n
  <2> QED BY <1>1, <2>2
<1>7. CASE EvaluateFetched
  <2>1. pc = "price" /\ lookup = "closing" /\ pc' \in {"range", "matching"}
    BY <1>7 DEF EvaluateFetched, ReturnFetched, Judge
  <2> QED BY <1>2, <2>1 DEF Table
<1>8. CASE Match
  BY <1>2, <1>8 DEF Match, Table
<1> QED BY <1>3, <1>4, <1>5, <1>6, <1>7, <1>8, LogSteps

LEMMA WorkKeptByOthers ==
  ASSUME WorkInv, WorkInv', log # None, [Next]_vars, ~Step
  PROVE  StepsLeft' <= StepsLeft
<1>1. StepsLeft \in Nat
  <2>1. Len(Providers) \in Nat
    BY WorkTypes
  <2> QED BY <2>1, WorkBound DEF WorkIsBounded, Attempts
<1>2. CASE Restart
  <2>1. Table'
    BY StepsLeftCases, PTL
  <2> QED BY <1>1, <1>2, <2>1 DEF Restart, Table
<1>3. CASE ~Restart
  <2>1. UNCHANGED <<pc, lookup, at, attempt>>
    BY <1>3 DEF Next, WorkInv, InHandInv, TakeLog, EndRange, EditRule, Time, Tick, vars,
       priceVars
  <2>2. StepsLeft' = StepsLeft
    BY <2>1 DEF StepsLeft
  <2> QED BY <1>1, <2>2
<1> QED BY <1>2, <1>3

\* A log costs the task at most six steps and two for each provider, and nothing that
\* users, the clock or a restart do in between adds to what is left of them; only the
\* scheduler can keep it from being judged (service.py 65-93, monitor.py 130-142).
THEOREM LogWorkIsFinite == Spec => []WorkIsBounded /\ WorkShrinks
<1> DEFINE A == log # None => /\ StepsLeft' <= StepsLeft
                              /\ Step => StepsLeft' < StepsLeft
<1>1. WorkInv => WorkIsBounded
  BY WorkBound
<1>2. WorkInv /\ WorkInv' /\ [Next]_vars => [A]_vars
  <2> SUFFICES ASSUME WorkInv, WorkInv', [Next]_vars, log # None
               PROVE  StepsLeft' <= StepsLeft /\ (Step => StepsLeft' < StepsLeft)
    OBVIOUS
  <2>1. Len(Providers) \in Nat /\ Len(Providers)' \in Nat
    BY WorkTypes
  <2>2. StepsLeft \in Nat
    BY <2>1, WorkBound DEF WorkIsBounded, Attempts
  <2>3. StepsLeft' \in Nat
    <3>1. WorkIsBounded'
      BY <1>1, PTL
    <3> QED BY <2>1, <3>1 DEF WorkIsBounded, Attempts
  <2> QED BY <2>2, <2>3, WorkStep, WorkKeptByOthers
<1>3. QED
  BY <1>1, <1>2, WorkInvariant, PTL DEF Spec, WorkShrinks
=============================================================================
