---------------------------- MODULE PriceService ----------------------------
(***************************************************************************)
(* USD prices (backend/pricing): a cache with a time to live in front of   *)
(* a list of providers that are asked one after the other.  get_price is   *)
(* called by the whale detector only, one call at a time per process, and  *)
(* always with the in-memory cache: nothing passes a Redis client.         *)
(*                                                                         *)
(* Each action is the code between two awaits.  The module has no next-    *)
(* state relation of its own: WhaleWatch interleaves its actions.          *)
(***************************************************************************)
EXTENDS Integers, Sequences

CONSTANTS
  None,
  Symbols,         \* normalized symbols get_price may be asked for
  KnownSymbols,    \* KNOWN_TOKENS: those a provider can name to its source
  Listed,          \* PRICE_PROVIDERS, without the names no provider has
  StaticEnabled,   \* PRICE_STATIC_FALLBACK_ENABLED
  StaticPrice,     \* STATIC_FALLBACK_PRICES
  Quotes,          \* what a live source may quote
  Ttl,             \* PRICE_CACHE_TTL_SECONDS, in ticks
  MaxTime          \* bound on the clock

Static == "static"
Live   == {"coingecko", "defillama"}
Names  == Live \cup {Static}

ASSUME PriceAssumption ==
  /\ KnownSymbols \subseteq Symbols /\ None \notin Symbols
  /\ Listed \in Seq(Names)
  /\ StaticEnabled \in BOOLEAN
  /\ StaticPrice \in [KnownSymbols -> Nat \ {0}]
  /\ Quotes \subseteq Nat
  /\ Ttl \in Nat \ {0} /\ MaxTime \in Nat
  /\ None \notin Nat

StaticFirst == (IF StaticEnabled THEN <<Static>> ELSE <<>>) \o Listed   \* mutant
Providers   == Listed \o (IF StaticEnabled THEN <<Static>> ELSE <<>>)

VARIABLES
  now,       \* time.time()
  cache,     \* PriceCache._memory: price and expires_at by symbol
  lookup,    \* "none", "asking" a provider, "closing" the HTTP client
  key,       \* the symbol being looked up
  at,        \* position in Providers of the provider being asked
  attempt,   \* tenacity's attempt number
  found,     \* price the loop over the providers ends with
  answers,   \* history: what each provider passed over had answered
  source     \* history: where and when each cached price came from

priceVars == <<cache, lookup, key, at, attempt, found, answers, source>>

Prices     == Nat \ {0}
Unasked    == [p \in Names |-> "unasked"]
Outcomes   == {"unasked", "raised", "raised twice", "no price"}
NoSource   == [provider |-> None, stored |-> 0, answers |-> Unasked]

PriceInit ==
  /\ now = 0
  /\ cache = [s \in Symbols |-> None]
  /\ lookup = "none"
  /\ key = None
  /\ at = 1 /\ attempt = 1
  /\ found = None
  /\ answers = Unasked
  /\ source = [s \in Symbols |-> NoSource]

Tick ==
  /\ now < MaxTime
  /\ now' = now + 1
  /\ UNCHANGED priceVars

-----------------------------------------------------------------------------
(* PriceCache.get and the start of get_price.                              *)

FreshTooLong(s) == cache[s] # None /\ now <= cache[s].expires       \* mutant
Fresh(s) == cache[s] # None /\ now < cache[s].expires

\* get_price returns cache[s].price, without giving up control.
ReturnCached(s) ==
  /\ lookup = "none"
  /\ Fresh(s)
  /\ UNCHANGED <<now, priceVars>>

\* No entry, or an expired one, which is dropped: ask the first provider.
Miss(s) ==
  /\ lookup = "none"
  /\ ~Fresh(s)
  /\ cache' = [cache EXCEPT ![s] = None]
  /\ lookup' = "asking"
  /\ key' = s
  /\ at' = 1 /\ attempt' = 1
  /\ found' = None
  /\ answers' = Unasked
  /\ source' = [source EXCEPT ![s] = NoSource]
  /\ UNCHANGED now

-----------------------------------------------------------------------------
(* _fetch_from_providers.                                                  *)

Asked == Providers[at]
Asking == lookup = "asking" /\ at <= Len(Providers)

Note(outcome) == answers' = [answers EXCEPT ![Asked] = outcome]

\* What a call that does not raise returns.  A provider that cannot name the
\* symbol to its source answers None without asking.
Offers(p) ==
  IF key \notin KnownSymbols THEN {None}
  ELSE IF p = Static THEN {IF StaticEnabled THEN StaticPrice[key] ELSE None}
  ELSE Quotes \cup {None}

UsableIfAny(price) == price # None           \* mutant: a quote of zero is used
Usable(price) == price # None /\ price > 0

SameProvider == at                           \* mutant: a provider that fails is asked again
NextProvider == at + 1

AnswerPrice ==
  /\ Asking
  /\ \E price \in Offers(Asked) :
       /\ Usable(price)
       /\ found' = price
  /\ lookup' = "closing"
  /\ UNCHANGED <<now, cache, key, at, attempt, answers, source>>

AnswerNothing ==
  /\ Asking
  /\ \E price \in Offers(Asked) : ~Usable(price)
  /\ Note("no price")
  /\ at' = NextProvider /\ attempt' = 1
  /\ UNCHANGED <<now, cache, lookup, key, found, source>>

Attempts == 2

\* Only a live source can raise, and only when it is asked.
Raise ==
  /\ Asking
  /\ Asked \in Live /\ key \in KnownSymbols
  /\ IF attempt < Attempts
       THEN attempt' = attempt + 1 /\ UNCHANGED at
       ELSE attempt' = 1 /\ at' = NextProvider
  /\ Note(IF answers[Asked] = "raised" THEN "raised twice" ELSE "raised")
  /\ UNCHANGED <<now, cache, lookup, key, found, source>>

ListExhausted ==
  /\ lookup = "asking"
  /\ at > Len(Providers)
  /\ lookup' = "closing"
  /\ UNCHANGED <<now, cache, key, at, attempt, found, answers, source>>

\* The client is closed; get_price stores what was found and returns it.
ReturnFetched ==
  /\ lookup = "closing"
  /\ lookup' = "none"
  /\ key' = None
  /\ at' = 1 /\ attempt' = 1
  /\ found' = None
  /\ IF found = None
       THEN UNCHANGED <<cache, source>>
       ELSE /\ cache' = [cache EXCEPT ![key] = [price |-> found, expires |-> now + Ttl]]
            /\ source' = [source EXCEPT ![key] =
                 [provider |-> Asked, stored |-> now,
                  answers |-> IF Asked = Static THEN answers ELSE Unasked]]
  /\ answers' = Unasked
  /\ UNCHANGED now

\* The process ends: the cache is gone and a lookup is given up.
PriceReset ==
  /\ cache' = [s \in Symbols |-> None]
  /\ lookup' = "none"
  /\ key' = None
  /\ at' = 1 /\ attempt' = 1
  /\ found' = None
  /\ answers' = Unasked
  /\ source' = [s \in Symbols |-> NoSource]
  /\ UNCHANGED now

-----------------------------------------------------------------------------
PriceTypeOK ==
  /\ now \in Nat
  /\ cache \in [Symbols -> [price : Prices, expires : Nat] \cup {None}]
  /\ lookup \in {"none", "asking", "closing"}
  /\ key \in Symbols \cup {None}
  /\ at \in Nat \ {0}
  /\ attempt \in 1..Attempts
  /\ found \in Prices \cup {None}
  /\ answers \in [Names -> Outcomes]
  /\ source \in [Symbols -> [provider : Names \cup {None}, stored : Nat,
                             answers : [Names -> Outcomes]]]

\* A live source is left for the next provider only when it answered without a
\* usable price or raised on both attempts of _get_with_retry.
GaveUp(answered, p) == answered[p] \in {"no price", "raised twice"}

\* Providers come in the order of PRICE_PROVIDERS, and a provider is passed only
\* once it gave up: where "static" is not listed by name, a price from the static
\* table, cached ones included, was taken when every live source had given up in
\* the same lookup (providers.py: "never used when a live provider responds").
StaticIsLastResort ==
  \A s \in Symbols :
    cache[s] # None /\ source[s].provider = Static =>
      \A i \in 1..Len(Listed) : GaveUp(source[s].answers, Listed[i])
=============================================================================
