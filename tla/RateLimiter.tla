---------------------------- MODULE RateLimiter ----------------------------
(***************************************************************************)
(* backend/core/security.py, RateLimiter: how many requests each user may  *)
(* make.  The bot builds it without a Redis client (handlers.py:41), so    *)
(* the list of request times in the memory of the one bot process is all   *)
(* there is.  Refused requests are listed like served ones.                *)
(***************************************************************************)
EXTENDS Integers, Sequences, FiniteSets

CONSTANTS
  Users,
  MaxServed,      \* settings.RATE_LIMIT_MAX_REQUESTS
  Window,         \* settings.RATE_LIMIT_WINDOW_SECONDS, in ticks
  MaxAsked,       \* bound on the number of requests
  MaxTime         \* bound on the clock

ASSUME LimitAssumption ==
  /\ MaxServed \in Nat \ {0} /\ Window \in Nat \ {0}
  /\ MaxAsked \in Nat /\ MaxTime \in Nat

VARIABLES
  now,
  bucket,         \* the request times listed for each user, told apart by number
  asked           \* history: every request with its user, its time and the answer

limiterVars == <<now, bucket, asked>>

LimiterTypeOK ==
  /\ now \in 0..MaxTime
  /\ bucket \in [Users -> SUBSET ((0..MaxTime) \X Nat)]
  /\ asked \in Seq([user : Users, time : 0..MaxTime, served : BOOLEAN])

LimiterInit ==
  /\ now = 0
  /\ bucket = [u \in Users |-> {}]
  /\ asked = <<>>

\* Time passes.
Tick == now < MaxTime /\ now' = now + 1

ListedUntilEnd(u) == {r \in bucket[u] : r[1] > now - Window + 1}             \* mutant
Listed(u) == {r \in bucket[u] : r[1] > now - Window}

\* The request is listed before it is counted.
WithThisOne(u) == Listed(u) \cup {<<now, Len(asked) + 1>>}

FullBefore(u) == Cardinality(WithThisOne(u)) < MaxServed                    \* mutant
Allowed(u) == Cardinality(WithThisOne(u)) <= MaxServed

Allow(u, served) ==
  /\ Len(asked) < MaxAsked
  /\ served = Allowed(u)
  /\ bucket' = [bucket EXCEPT ![u] = WithThisOne(u)]
  /\ asked' = Append(asked, [user |-> u, time |-> now, served |-> served])
  /\ UNCHANGED now

LimiterNext ==
  \/ Tick /\ UNCHANGED <<bucket, asked>>
  \/ \E u \in Users, served \in BOOLEAN : Allow(u, served)

LimiterSpec == LimiterInit /\ [][LimiterNext]_limiterVars

-----------------------------------------------------------------------------

\* The requests of u that are less than a window older than the time t.
WindowOf(u, t) ==
  {i \in DOMAIN asked : asked[i].user = u /\ asked[i].time \in (t - Window + 1)..t}

\* No user is served more than MaxServed requests within a window, wherever the
\* window begins: the list is pruned at each request and never reset.
WindowBound ==
  \A u \in Users, t \in 0..MaxTime :
    Cardinality({i \in WindowOf(u, t) : asked[i].served}) <= MaxServed

\* A request is refused only when its own user made MaxServed others within the
\* window before it: one who waits for a window is served, whatever others do.
RefusedOnlyWhenFull ==
  \A i \in DOMAIN asked :
    ~asked[i].served =>
      Cardinality({j \in WindowOf(asked[i].user, asked[i].time) : j < i}) >= MaxServed
=============================================================================
