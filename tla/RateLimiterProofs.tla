------------------------- MODULE RateLimiterProofs -------------------------
(***************************************************************************)
(* Theorems about the rate limiter, for any number of users and requests,  *)
(* any limit and any window.                                               *)
(***************************************************************************)
EXTENDS RateLimiter, FiniteSetTheorems, SequenceTheorems, TLAPS

\* The requests with numbers in I as the list holds them: time and number.
Stamps(I) == {<<asked[i].time, i>> : i \in I}

LEMMA StampsCount ==
  ASSUME NEW I, IsFiniteSet(I)
  PROVE  IsFiniteSet(Stamps(I)) /\ Cardinality(Stamps(I)) = Cardinality(I)
<1> DEFINE g == [i \in I |-> <<asked[i].time, i>>]
<1>1. g \in Bijection(I, Stamps(I))
  BY DEF Bijection, Injection, Surjection, IsInjective, Stamps
<1>2. ExistsBijection(I, Stamps(I))
  BY <1>1 DEF ExistsBijection
<1>3. QED
  BY <1>2, FS_Bijection

-----------------------------------------------------------------------------
(* The list of a user holds every request of theirs that is still within   *)
(* the window, and nothing but requests of theirs; what was listed longer  *)
(* may linger until the next one.                                          *)
Of(u) == {i \in DOMAIN asked : asked[i].user = u}
Young(u) == {i \in Of(u) : asked[i].time > now - Window}

ListedInv ==
  \A u \in Users : Stamps(Young(u)) \subseteq bucket[u] /\ bucket[u] \subseteq Stamps(Of(u))

PastInv == \A i \in DOMAIN asked : asked[i].time <= now

LimiterInv == LimiterTypeOK /\ PastInv /\ ListedInv

LEMMA AskedTypes ==
  ASSUME LimiterTypeOK, NEW i \in DOMAIN asked
  PROVE  asked[i] \in [user : Users, time : 0..MaxTime, served : BOOLEAN]
<1>1. ASSUME NEW S, asked \in Seq(S)
      PROVE  asked[i] \in S
  BY <1>1, ElementOfSeq
<1>2. QED
  BY <1>1 DEF LimiterTypeOK

LEMMA ListedIsYoung ==
  ASSUME LimiterInv, NEW u \in Users
  PROVE  Listed(u) = Stamps(Young(u))
BY DEF LimiterInv, ListedInv, Listed, Stamps, Young, Of

\* How many requests are listed when the next one is counted.
LEMMA ListedCount ==
  ASSUME LimiterInv, NEW u \in Users
  PROVE  /\ IsFiniteSet(Young(u))
         /\ IsFiniteSet(WithThisOne(u))
         /\ Cardinality(WithThisOne(u)) = Cardinality(Young(u)) + 1
<1>1. Len(asked) \in Nat /\ DOMAIN asked = 1 .. Len(asked)
  BY DEF LimiterInv, LimiterTypeOK
<1>2. IsFiniteSet(Young(u))
  <2>1. IsFiniteSet(1 .. Len(asked))
    BY <1>1, FS_Interval
  <2>2. Young(u) \in SUBSET (1 .. Len(asked))
    BY <1>1 DEF Young, Of
  <2>3. QED
    BY <2>1, <2>2, FS_Subset
<1>3. IsFiniteSet(Listed(u)) /\ Cardinality(Listed(u)) = Cardinality(Young(u))
  BY <1>2, StampsCount, ListedIsYoung
<1>4. <<now, Len(asked) + 1>> \notin Listed(u)
  BY <1>1, ListedIsYoung DEF Stamps, Young, Of
<1>5. QED
  BY <1>2, <1>3, <1>4, FS_AddElement DEF WithThisOne

LEMMA LimiterStep ==
  ASSUME LimiterInv, [LimiterNext]_limiterVars
  PROVE  LimiterInv'
<1> USE LimitAssumption DEF LimitAssumption, LimiterInv, LimiterTypeOK
<1>1. CASE Tick /\ UNCHANGED <<bucket, asked>>
  <2>1. now' = now + 1 /\ now' \in 0 .. MaxTime /\ now \in 0 .. MaxTime
        /\ asked' = asked /\ bucket' = bucket
    BY <1>1 DEF Tick
  <2>2. \A i \in DOMAIN asked : asked[i].time \in 0 .. MaxTime
    BY AskedTypes
  <2>3. LimiterTypeOK' /\ PastInv'
    BY <2>1, <2>2 DEF PastInv
  <2>4. ASSUME NEW u \in Users
        PROVE  Young(u)' \subseteq Young(u) /\ Of(u)' = Of(u)
    BY <2>1, <2>2 DEF Young, Of
  <2>5. ListedInv'
    BY <2>1, <2>4 DEF ListedInv, Stamps
  <2>6. QED
    BY <2>3, <2>5
<1>2. ASSUME NEW u \in Users, NEW served \in BOOLEAN, Allow(u, served)
      PROVE  LimiterInv'
  <2> DEFINE n == Len(asked) + 1
  <2> DEFINE r == [user |-> u, time |-> now, served |-> served]
  <2>1. /\ asked' = Append(asked, r) /\ now' = now
        /\ bucket' = [bucket EXCEPT ![u] = WithThisOne(u)]
    BY <1>2 DEF Allow
  <2>2. /\ Len(asked) \in Nat /\ DOMAIN asked = 1 .. Len(asked)
        /\ DOMAIN asked' = 1 .. n
        /\ asked'[n] = r /\ \A i \in 1 .. Len(asked) : asked'[i] = asked[i]
    BY <2>1
  <2>3. LimiterTypeOK'
    <3>1. asked' \in Seq([user : Users, time : 0..MaxTime, served : BOOLEAN])
      BY <2>1
    <3>2. WithThisOne(u) \subseteq (0..MaxTime) \X Nat
      BY <2>2 DEF WithThisOne, Listed
    <3>3. QED
      BY <2>1, <3>1, <3>2
  <2>4. PastInv'
    BY <2>1, <2>2 DEF PastInv
  <2>5. ASSUME NEW v \in Users, v # u
        PROVE  /\ Stamps(Young(v))' = Stamps(Young(v))
               /\ Stamps(Of(v))' = Stamps(Of(v))
    <3>1. Of(v)' = Of(v)
      BY <2>2, <2>5 DEF Of
    <3>2. Young(v)' = Young(v)
      BY <2>1, <2>2, <3>1 DEF Young, Of
    <3>3. QED
      BY <2>2, <3>1, <3>2 DEF Stamps, Young, Of
  <2>6. /\ Stamps(Young(u))' = Stamps(Young(u)) \cup {<<now, n>>}
        /\ Stamps(Of(u))' = Stamps(Of(u)) \cup {<<now, n>>}
    <3>1. Of(u)' = Of(u) \cup {n}
      BY <2>2 DEF Of
    <3>2. Young(u)' = Young(u) \cup {n}
      BY <2>1, <2>2, <3>1 DEF Young, Of
    <3>3. QED
      BY <2>2, <3>1, <3>2 DEF Stamps, Young, Of
  <2>7. ListedInv'
    <3>1. bucket'[u] = Stamps(Young(u))' /\ bucket'[u] \subseteq Stamps(Of(u))'
      BY <2>1, <2>6, ListedIsYoung DEF WithThisOne, Stamps, Young
    <3>2. QED
      BY <2>1, <2>5, <3>1 DEF ListedInv
  <2>8. QED
    BY <2>3, <2>4, <2>7
<1>3. CASE UNCHANGED limiterVars
  BY <1>3 DEF limiterVars, PastInv, ListedInv, Stamps, Young, Of
<1>4. QED
  BY <1>1, <1>2, <1>3 DEF LimiterNext

LEMMA LimiterInvariant == LimiterSpec => []LimiterInv
<1>1. LimiterInit => LimiterInv
  BY LimitAssumption
  DEF LimitAssumption, LimiterInit, LimiterInv, LimiterTypeOK, PastInv, ListedInv,
      Stamps, Young, Of
<1>2. LimiterInv /\ [LimiterNext]_limiterVars => LimiterInv'
  BY LimiterStep
<1>3. QED
  BY <1>1, <1>2, PTL DEF LimiterSpec

(* The clock, the lists and the requests keep their types.                 *)
THEOREM LimiterTypeCorrect == LimiterSpec => []LimiterTypeOK
BY LimiterInvariant, PTL DEF LimiterInv

-----------------------------------------------------------------------------
\* What a request finds, and what it leaves of the earlier ones.
LEMMA AfterAllow ==
  ASSUME LimiterInv, NEW u \in Users, NEW served \in BOOLEAN, Allow(u, served)
  PROVE  LET n == Len(asked) + 1 IN
         /\ n \in Nat /\ DOMAIN asked = 1 .. n - 1 /\ DOMAIN asked' = 1 .. n
         /\ asked'[n] = [user |-> u, time |-> now, served |-> served]
         /\ \A i \in 1 .. n - 1 : asked'[i] = asked[i]
         /\ \A i \in 1 .. n - 1 : asked[i].time \in Nat /\ asked[i].time <= now
         /\ now \in Nat
<1> DEFINE n == Len(asked) + 1
<1>1. /\ Len(asked) \in Nat /\ DOMAIN asked = 1 .. Len(asked) /\ now \in Nat
      /\ asked' = Append(asked, [user |-> u, time |-> now, served |-> served])
  BY DEF LimiterInv, LimiterTypeOK, Allow
<1>2. \A i \in 1 .. n - 1 : asked[i].time \in Nat /\ asked[i].time <= now
  BY <1>1, AskedTypes, LimitAssumption
  DEF LimitAssumption, LimiterInv, PastInv
<1>3. QED
  BY <1>1, <1>2

ServedIn(u, t) == {i \in WindowOf(u, t) : asked[i].served}

LEMMA BoundStep ==
  ASSUME LimiterInv, LimiterInv', WindowBound, [LimiterNext]_limiterVars
  PROVE  WindowBound'
<1> USE LimitAssumption DEF LimitAssumption
<1>1. SUFFICES ASSUME NEW v \in Users, NEW t \in 0..MaxTime
               PROVE  Cardinality(ServedIn(v, t)') <= MaxServed
  BY DEF WindowBound, ServedIn, WindowOf
<1>2. Cardinality(ServedIn(v, t)) <= MaxServed
  BY DEF WindowBound, ServedIn
<1>3. CASE asked' = asked
  BY <1>2, <1>3 DEF ServedIn, WindowOf
<1>4. ASSUME NEW u \in Users, NEW served \in BOOLEAN, Allow(u, served)
      PROVE  Cardinality(ServedIn(v, t)') <= MaxServed
  <2> DEFINE n == Len(asked) + 1
  <2>1. /\ n \in Nat /\ DOMAIN asked = 1 .. n - 1 /\ DOMAIN asked' = 1 .. n
        /\ asked'[n] = [user |-> u, time |-> now, served |-> served]
        /\ \A i \in 1 .. n - 1 : asked'[i] = asked[i]
        /\ \A i \in 1 .. n - 1 : asked[i].time \in Nat /\ asked[i].time <= now
        /\ now \in Nat
    BY <1>4, AfterAllow
  <2>2. CASE v = u /\ served /\ now <= t
    <3>1. ServedIn(v, t)' \subseteq Young(u) \cup {n}
      BY <2>1, <2>2 DEF ServedIn, WindowOf, Young, Of
    <3>2. n \notin Young(u)
      BY <2>1 DEF Young, Of
    <3>3. IsFiniteSet(Young(u)) /\ Cardinality(Young(u)) + 1 <= MaxServed
      BY <1>4, <2>2, ListedCount DEF Allow, Allowed
    <3>4. /\ IsFiniteSet(Young(u) \cup {n})
          /\ Cardinality(Young(u) \cup {n}) = Cardinality(Young(u)) + 1
      BY <3>2, <3>3, FS_AddElement
    <3>5. Cardinality(ServedIn(v, t)') <= Cardinality(Young(u) \cup {n})
      BY <3>1, <3>4, FS_Subset
    <3>6. /\ Cardinality(Young(u)) \in Nat
          /\ Cardinality(ServedIn(v, t)') \in Nat
      <4>1. ServedIn(v, t)' \in SUBSET (Young(u) \cup {n})
        BY <3>1
      <4>2. IsFiniteSet(ServedIn(v, t)')
        BY <4>1, <3>4, FS_Subset
      <4>3. QED
        BY <3>3, <4>2, FS_CardinalityType
    <3>7. QED
      BY <3>3, <3>4, <3>5, <3>6
  <2>3. CASE ~(v = u /\ served /\ now <= t)
    <3>1. ServedIn(v, t)' = ServedIn(v, t)
      BY <2>1, <2>3 DEF ServedIn, WindowOf
    <3>2. QED
      BY <1>2, <3>1
  <2>4. QED
    BY <2>2, <2>3
<1>5. QED
  BY <1>3, <1>4 DEF LimiterNext, limiterVars

(* No user is served more than the limit within any window of the past:    *)
(* a request that is served finds all the younger ones in the list.        *)
THEOREM LimitHolds == LimiterSpec => []WindowBound
<1>1. LimiterInit => WindowBound
  <2>1. ASSUME LimiterInit, NEW u \in Users, NEW t \in 0..MaxTime
        PROVE  {i \in WindowOf(u, t) : asked[i].served} = {}
    BY <2>1 DEF LimiterInit, WindowOf
  <2>2. QED
    BY <2>1, FS_EmptySet, LimitAssumption DEF WindowBound, LimitAssumption
<1>2. LimiterInv /\ LimiterInv' /\ WindowBound /\ [LimiterNext]_limiterVars
        => WindowBound'
  BY BoundStep
<1>3. QED
  BY <1>1, <1>2, LimiterInvariant, PTL DEF LimiterSpec

Before(i) == {j \in WindowOf(asked[i].user, asked[i].time) : j < i}

LEMMA RefusedStep ==
  ASSUME LimiterInv, RefusedOnlyWhenFull, [LimiterNext]_limiterVars
  PROVE  RefusedOnlyWhenFull'
<1> USE LimitAssumption DEF LimitAssumption
<1>1. CASE asked' = asked
  BY <1>1 DEF RefusedOnlyWhenFull, WindowOf
<1>2. ASSUME NEW u \in Users, NEW served \in BOOLEAN, Allow(u, served)
      PROVE  RefusedOnlyWhenFull'
  <2> SUFFICES ASSUME NEW n \in Nat, n = Len(asked) + 1
               PROVE  RefusedOnlyWhenFull'
    BY <1>2, AfterAllow
  <2>1. /\ n \in Nat /\ DOMAIN asked = 1 .. n - 1 /\ DOMAIN asked' = 1 .. n
        /\ asked'[n] = [user |-> u, time |-> now, served |-> served]
        /\ \A i \in 1 .. n - 1 : asked'[i] = asked[i]
        /\ \A i \in 1 .. n - 1 : asked[i].time \in Nat /\ asked[i].time <= now
        /\ now \in Nat
    BY <1>2, AfterAllow
  <2>2. ASSUME NEW i \in 1 .. n - 1
        PROVE  Before(i)' = Before(i)
    BY <2>1, <2>2 DEF Before, WindowOf
  <2>3. ASSUME NEW i \in 1 .. n - 1, ~asked'[i].served
        PROVE  Cardinality(Before(i)') >= MaxServed
    BY <2>1, <2>2, <2>3 DEF RefusedOnlyWhenFull, Before
  <2>4. ASSUME ~asked'[n].served
        PROVE  Cardinality(Before(n)') >= MaxServed
    <3>1. Before(n)' = Young(u)
      BY <2>1 DEF Before, WindowOf, Young, Of
    <3>2. ~Allowed(u)
      BY <1>2, <2>1, <2>4 DEF Allow
    <3>3. Cardinality(Young(u)) \in Nat
      BY ListedCount, FS_CardinalityType
    <3>4. ~(Cardinality(Young(u)) + 1 <= MaxServed)
      BY <3>2, ListedCount DEF Allowed
    <3>5. QED
      BY <3>1, <3>3, <3>4
  <2>5. \A i \in DOMAIN asked' :
          ~asked'[i].served => Cardinality(Before(i)') >= MaxServed
    BY <2>1, <2>3, <2>4
  <2>6. QED
    BY <2>5 DEF RefusedOnlyWhenFull, Before, WindowOf
<1>3. QED
  BY <1>1, <1>2 DEF LimiterNext, limiterVars

(* A refused user made as many requests as the limit within the window     *)
(* before: nobody is refused for what others do, or for long ago.          *)
THEOREM RefusalIsEarned == LimiterSpec => []RefusedOnlyWhenFull
<1>1. LimiterInit => RefusedOnlyWhenFull
  BY DEF LimiterInit, RefusedOnlyWhenFull
<1>2. LimiterInv /\ RefusedOnlyWhenFull /\ [LimiterNext]_limiterVars
        => RefusedOnlyWhenFull'
  BY RefusedStep
<1>3. QED
  BY <1>1, <1>2, LimiterInvariant, PTL DEF LimiterSpec
=============================================================================
