----------------------------- MODULE WhaleWatch -----------------------------
(***************************************************************************)
(* From a log to the rules it fires: the monitor reads the gate of a range *)
(* (monitor.py), decodes a log with the client's metadata caches           *)
(* (events.py, client.py), values it (whale.py, pricing/) and the engine   *)
(* matches it against the rules that are active by then (matching.py).     *)
(* Users change their rules, the clock ticks and the process may restart   *)
(* between any two awaits.                                                 *)
(*                                                                         *)
(* A value is never divided: amount * price >= usd is compared as          *)
(* raw * price >= usd * 10^decimals.                                       *)
(***************************************************************************)
EXTENDS PriceService

CONSTANTS
  Tokens, Pairs,    \* addresses that emit Transfer and Swap logs
  SymbolOf,         \* what symbol() answers there
  FallbackSymbol,   \* the first 8 characters of the address
  DecimalsOf,       \* what a token's decimals() answers
  DefaultDecimals,  \* 18
  Logs,             \* logs a range may hold
  Rules, RuleSymbol, RuleEvent,
  Thresholds,       \* thresholds users choose
  MinThreshold,     \* MIN_WHALE_THRESHOLD_USD
  MaxLogs, MaxEdits, MaxRestarts      \* bounds

Addresses == Tokens \cup Pairs
Ways      == {"mint", "burn", "move"}

\* A Transfer of a token, or a Swap on a pair whose larger leg is of a token.
LogSpace ==
  [kind : {"transfer"}, address : Tokens, token : Tokens, way : Ways, raw : Nat]
    \cup [kind : {"swap"}, address : Pairs, token : Tokens, way : {"swap"}, raw : Nat]

Scale(decimals) == 10 ^ decimals

ASSUME WatchAssumption ==
  /\ SymbolOf \in [Addresses -> Symbols]
  /\ FallbackSymbol \in [Addresses -> Symbols \ KnownSymbols]
  /\ DecimalsOf \in [Tokens -> Nat] /\ DefaultDecimals \in Nat
  /\ Logs \subseteq LogSpace /\ None \notin Logs
  /\ \A l \in Logs : l.kind = "transfer" => l.address = l.token
  /\ RuleSymbol \in [Rules -> Symbols]
  /\ RuleEvent \in [Rules -> {"any", "buy", "sell", "swap", "transfer"}]
  /\ MinThreshold \in Nat \ {0}
  /\ MaxLogs \in Nat /\ MaxEdits \in Nat /\ MaxRestarts \in Nat

\* validate_threshold refuses less than MIN_WHALE_THRESHOLD_USD.
ASSUME ThresholdAssumption ==
  /\ Thresholds \subseteq Nat
  /\ \A t \in Thresholds : t >= MinThreshold

\* Arithmetic: powers of ten are natural numbers and grow with their exponent.
ASSUME ScaleAssumption ==
  LET D == {DecimalsOf[t] : t \in Tokens} \cup {DefaultDecimals}
  IN  \A d, e \in D : Scale(d) \in Nat /\ (d <= e => Scale(d) <= Scale(e))

VARIABLES
  active, threshold,   \* the rules in the database
  pc,                  \* where _process_range is
  gate,                \* smallest threshold read for this range
  log,                 \* the log being worked on
  decimalsCache, symbolCache,       \* of the client, by address
  steady,              \* history: rules unchanged since the gate was read
  verdict,             \* history: what became of the last log
  logs, edits, restarts             \* how many there were

ruleVars  == <<active, threshold>>
cacheVars == <<decimalsCache, symbolCache>>
counters  == <<logs, edits, restarts>>
vars == <<now, priceVars, ruleVars, pc, gate, log, cacheVars, steady, verdict,
          counters>>

NoVerdict == [outcome |-> "none"]

Init ==
  /\ PriceInit
  /\ active \in SUBSET Rules
  /\ threshold \in [Rules -> Thresholds]
  /\ pc = "idle"
  /\ gate = MinThreshold
  /\ log = None
  /\ decimalsCache = [a \in Addresses |-> None]
  /\ symbolCache = [a \in Addresses |-> None]
  /\ steady = {}
  /\ verdict = NoVerdict
  /\ logs = 0 /\ edits = 0 /\ restarts = 0

-----------------------------------------------------------------------------
(* The environment.                                                        *)

\* A user adds, changes or removes a rule and the transaction commits.
EditRule(r) ==
  /\ edits < MaxEdits
  /\ edits' = edits + 1
  /\ \E a \in BOOLEAN, t \in Thresholds :
       /\ active' = IF a THEN active \cup {r} ELSE active \ {r}
       /\ threshold' = [threshold EXCEPT ![r] = t]
  /\ steady' = steady \ {r}
  /\ UNCHANGED <<now, priceVars, pc, gate, log, cacheVars, verdict, logs, restarts>>

Time ==
  /\ Tick
  /\ UNCHANGED <<ruleVars, pc, gate, log, cacheVars, steady, verdict, counters>>

Restart ==
  /\ restarts < MaxRestarts
  /\ restarts' = restarts + 1
  /\ PriceReset
  /\ pc' = "idle"
  /\ gate' = MinThreshold
  /\ log' = None
  /\ decimalsCache' = [a \in Addresses |-> None]
  /\ symbolCache' = [a \in Addresses |-> None]
  /\ steady' = {}
  /\ verdict' = NoVerdict
  /\ UNCHANGED <<ruleVars, logs, edits>>

-----------------------------------------------------------------------------
(* The gate of a range, and its logs.                                      *)

\* min(threshold_usd) over the active rules, else MIN_WHALE_THRESHOLD_USD.
GateIsLargest(g) ==                          \* mutant: max for min
  IF active = {} THEN g = MinThreshold
  ELSE /\ \E r \in active : g = threshold[r]
       /\ \A r \in active : threshold[r] <= g
IsGate(g) ==
  IF active = {} THEN g = MinThreshold
  ELSE /\ \E r \in active : g = threshold[r]
       /\ \A r \in active : g <= threshold[r]

SetGate(g) ==
  /\ pc = "idle"
  /\ gate' = g
  /\ steady' = Rules
  /\ pc' = "range"
  /\ UNCHANGED <<now, priceVars, ruleVars, log, cacheVars, verdict, counters>>

ReadGate == \E g \in Thresholds \cup {MinThreshold} : IsGate(g) /\ SetGate(g)

\* The query raised: _current_gate falls back.
GateFails == SetGate(MinThreshold)

TakeLog(l) ==
  /\ pc = "range"
  /\ logs < MaxLogs
  /\ logs' = logs + 1
  /\ log' = l
  /\ pc' = IF l.kind = "transfer" THEN "decimals" ELSE "symbol"
  /\ verdict' = NoVerdict
  /\ UNCHANGED <<now, priceVars, ruleVars, gate, cacheVars, steady, edits, restarts>>

EndRange ==
  /\ pc = "range"
  /\ pc' = "idle"
  /\ UNCHANGED <<now, priceVars, ruleVars, gate, log, cacheVars, steady, verdict,
                 counters>>

-----------------------------------------------------------------------------
(* normalize_log: the metadata of the contract, once per process.          *)

\* A cached answer is used; otherwise the contract is called, and a call that
\* raises counts as an answer with the default.
Metadata(cached, answer, default) ==
  IF cached # None THEN {cached} ELSE {answer, default}

GetDecimals ==
  /\ pc = "decimals"
  /\ \E d \in Metadata(decimalsCache[log.address], DecimalsOf[log.address],
                       DefaultDecimals) :
       decimalsCache' = [decimalsCache EXCEPT ![log.address] = d]
  /\ pc' = "symbol"
  /\ UNCHANGED <<now, priceVars, ruleVars, gate, log, symbolCache, steady, verdict,
                 counters>>

GetSymbol ==
  /\ pc = "symbol"
  /\ \E s \in Metadata(symbolCache[log.address], SymbolOf[log.address],
                       FallbackSymbol[log.address]) :
       symbolCache' = [symbolCache EXCEPT ![log.address] = s]
  /\ pc' = "price"
  /\ UNCHANGED <<now, priceVars, ruleVars, gate, log, decimalsCache, steady, verdict,
                 counters>>

\* The ChainEvent.  A swap is taken to be in 18 decimals of the pair's symbol.
EventSymbol == symbolCache[log.address]
EventDecimals ==
  IF log.kind = "transfer" THEN decimalsCache[log.address] ELSE DefaultDecimals
DirectionOf == [mint |-> "buy", burn |-> "sell", move |-> "transfer", swap |-> "swap"]

-----------------------------------------------------------------------------
(* evaluate and rule_matches.                                              *)

AtLeast(raw, decimals, price, usd) == raw * price >= usd * Scale(decimals)

Clears(price, usd) == AtLeast(log.raw, EventDecimals, price, usd)

EventTypeMatches(r, direction, kind) ==
  \/ RuleEvent[r] = "any"
  \/ RuleEvent[r] \in {"buy", "sell"} /\ direction = RuleEvent[r]
  \/ RuleEvent[r] \in {"swap", "transfer"} /\ kind = RuleEvent[r]

ThresholdOfGate(r, price) == Clears(price, gate)     \* mutant: any whale fires
ThresholdReached(r, price) == Clears(price, threshold[r])

RuleMatches(r, price) ==
  /\ r \in active
  /\ RuleSymbol[r] = EventSymbol
  /\ ThresholdReached(r, price)
  /\ EventTypeMatches(r, DirectionOf[log.way], log.kind)

\* What the chain says of the log: the token that moved, in its own decimals.
Deserves(r, price) ==
  /\ r \in active
  /\ RuleSymbol[r] = SymbolOf[log.token]
  /\ AtLeast(log.raw, DecimalsOf[log.token], price, threshold[r])
  /\ \/ RuleEvent[r] = "any"
     \/ RuleEvent[r] = log.kind
     \/ RuleEvent[r] = "buy" /\ log.way = "mint"
     \/ RuleEvent[r] = "sell" /\ log.way = "burn"

Misread ==
  \/ symbolCache[log.address] # SymbolOf[log.address]
  \/ log.kind = "transfer" /\ decimalsCache[log.address] # DecimalsOf[log.address]

Verdict(outcome, price, stored, time, matched) ==
  [outcome |-> outcome, price |-> price, stored |-> stored, time |-> time,
   log |-> log, misread |-> Misread, matched |-> matched,
   deserving |-> {r \in Rules : price # None /\ Deserves(r, price)},
   steady |-> steady]

Judge(price, stored) ==
  \/ /\ price = None
     /\ pc' = "range" /\ log' = None
     /\ verdict' = Verdict("unpriced", None, 0, now, {})
  \/ /\ price # None /\ ~Clears(price, gate)
     /\ pc' = "range" /\ log' = None
     /\ verdict' = Verdict("below", price, stored, now, {})
  \/ /\ price # None /\ Clears(price, gate)
     /\ pc' = "matching" /\ UNCHANGED log
     /\ verdict' = Verdict("whale", price, stored, now, {})

Undecided == UNCHANGED <<ruleVars, pc, gate, log, cacheVars, steady, verdict, counters>>
Judged   == UNCHANGED <<ruleVars, gate, cacheVars, steady, counters>>

EvaluateCached ==
  /\ pc = "price"
  /\ ReturnCached(EventSymbol)
  /\ Judge(cache[EventSymbol].price, source[EventSymbol].stored)
  /\ Judged

AskProviders == pc = "price" /\ Miss(EventSymbol) /\ Undecided

AwaitProviders ==
  /\ AnswerPrice \/ AnswerNothing \/ Raise \/ ListExhausted
  /\ Undecided

EvaluateFetched ==
  /\ pc = "price"
  /\ ReturnFetched
  /\ Judge(found, now)
  /\ Judged

\* list_all_active and rule_matches, in the transaction of handle_whale.
Match ==
  /\ pc = "matching"
  /\ verdict' = Verdict("matched", verdict.price, verdict.stored, verdict.time,
                        {r \in Rules : RuleMatches(r, verdict.price)})
  /\ pc' = "range" /\ log' = None
  /\ UNCHANGED <<now, priceVars, ruleVars, gate, cacheVars, steady, counters>>

-----------------------------------------------------------------------------
Step ==
  \/ ReadGate \/ GateFails
  \/ GetDecimals \/ GetSymbol
  \/ EvaluateCached \/ AskProviders \/ AwaitProviders \/ EvaluateFetched
  \/ Match

Next ==
  \/ Step
  \/ \E l \in Logs : TakeLog(l)
  \/ EndRange
  \/ \E r \in Rules : EditRule(r)
  \/ Time
  \/ Restart

Spec == Init /\ [][Next]_vars

\* The task's own steps run: every call it awaits has a timeout (httpx, web3).
Fairness == WF_vars(Step)
FairSpec == Spec /\ Fairness

-----------------------------------------------------------------------------
(* Properties.                                                             *)

Final == {"unpriced", "below", "matched"}

\* Every variable has its type.
TypeOK ==
  /\ PriceTypeOK
  /\ active \subseteq Rules
  /\ threshold \in [Rules -> Thresholds]
  /\ pc \in {"idle", "range", "decimals", "symbol", "price", "matching"}
  /\ gate \in Thresholds \cup {MinThreshold}
  /\ log \in Logs \cup {None}
  /\ decimalsCache \in [Addresses -> Nat \cup {None}]
  /\ symbolCache \in [Addresses -> Symbols \cup {None}]
  /\ steady \subseteq Rules
  /\ verdict.outcome \in Final \cup {"none", "whale"}
  /\ logs \in 0..MaxLogs /\ edits \in 0..MaxEdits /\ restarts \in 0..MaxRestarts

\* A log is valued at a price that entered the cache less than
\* PRICE_CACHE_TTL_SECONDS before, whatever time the lookup took.
FreshPrices ==
  verdict.outcome \in {"below", "whale", "matched"} => verdict.time - verdict.stored < Ttl

\* A rule that did not change since the gate of the range was read, and that a
\* Transfer deserves by what the chain says of it, is fired: neither the gate, the
\* caches, an outage of the live sources nor another user's edit hides the whale.
\* Only a metadata call that failed earlier in this process may (client.py:129).
SteadyRulesFire ==
  /\ verdict.outcome \in Final
  /\ verdict.log.kind = "transfer" /\ ~verdict.misread
  /\ StaticEnabled /\ SymbolOf[verdict.log.token] \in KnownSymbols
  => /\ verdict.outcome # "unpriced"
     /\ verdict.deserving \cap verdict.steady \subseteq verdict.matched

\* A pair may answer symbol() with the name of a known token.
Impostor(l) == l.kind = "swap" /\ SymbolOf[l.address] \in KnownSymbols

\* A rule that fires is active at that moment and deserved by what the chain says
\* of the log.  A metadata call that failed does not change that, for a default
\* never invents a whale, unless the token has more decimals than the default.
NoFalseAlarm ==
  /\ verdict.outcome = "matched" /\ ~Impostor(verdict.log)
  /\ DecimalsOf[verdict.log.token] <= DefaultDecimals \/ ~verdict.misread
  => verdict.matched \subseteq verdict.deserving

\* A log that was taken up is judged, matched or forgotten in a restart, however
\* the providers behave.
EveryLogIsJudged == (log # None) ~> (log = None)

\* README.md:75: "Polls Mantle blocks, decodes Transfer and Swap events, values
\* them in USD".  Said of a swap of a known token, with the static table enabled.
SwapsAreValued ==
  /\ verdict.outcome \in Final
  /\ verdict.log.kind = "swap"
  /\ StaticEnabled /\ SymbolOf[verdict.log.token] \in KnownSymbols
  => verdict.outcome # "unpriced"
=============================================================================
