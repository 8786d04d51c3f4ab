--------------------------- MODULE RuleBookProofs ---------------------------
(***************************************************************************)
(* What RuleBook promises for every number of sessions, slots and          *)
(* requests, whatever fails: types, one row per slot, how far the ceiling  *)
(* on active rules can be passed, and what a commit does.                  *)
(***************************************************************************)
EXTENDS RuleBook, FiniteSetTheorems, TLAPS

Pending == {"lookup", "insert", "answer", "commit"}

(* A session works on its own slot; a row it inserted is of that slot, and  *)
(* one it revives it has read, in the course of a request to track.         *)
RequestOK(s) ==
  /\ pc[s] # "idle" => slot[s] \in Slots
  /\ op[s] = "track" => pc[s] # "idle" /\ asked[s] \in Thresholds
  /\ pc[s] \in {"find", "count", "lookup", "insert", "answer"} => op[s] = "track"
  /\ pc[s] = "drop" => op[s] = "untrack"
  /\ pc[s] = "load" => op[s] = "delete"
  /\ pc[s] = "register" => op[s] \in {"track", "untrack"}
  /\ pc[s] = "account" => op[s] # "none"
  /\ readActive[s] = "unread" \/ slot[s] \in present
  /\ pc[s] \in {"idle", "account", "register", "find", "count", "insert", "drop", "load"} =>
       readActive[s] = "unread"
  /\ made[s] \cap Slots # {} =>
       /\ op[s] = "track" /\ pc[s] \in {"answer", "commit"}
       /\ made[s] \cap Slots = {slot[s]}
       /\ readActive[s] = "unread"
  /\ dropped[s] # {} => op[s] = "untrack" /\ pc[s] = "commit"
  /\ dropped[s] \subseteq present
RequestsInv == \A s \in Sessions : RequestOK(s)

\* The inductive invariant.
RuleInv == TypeOK /\ RequestsInv

-----------------------------------------------------------------------------
(* A step of one session leaves the others alone; rows only get more.       *)
LEMMA OthersKeep ==
  ASSUME NEW f \in Sessions, RequestOK(f),
         pc'[f] = pc[f], op'[f] = op[f], slot'[f] = slot[f], asked'[f] = asked[f],
         readActive'[f] = readActive[f], made'[f] = made[f], dropped'[f] = dropped[f],
         present \subseteq present'
  PROVE  RequestOK(f)'
BY DEF RequestOK

LEMMA RuleStep == RuleInv /\ [Next]_vars => RuleInv'
<1> SUFFICES ASSUME RuleInv, [Next]_vars
             PROVE  RuleInv'
  OBVIOUS
<1> USE DEF Pending
<1>1. ASSUME NEW s \in Sessions, NEW o \in Ops(s), NEW r \in Slots, NEW t \in AsksFor(o),
             Request(s, o, r, t)
      PROVE  RuleInv'
  <2>1. TypeOK'
    BY <1>1, RuleAssumption DEF RuleAssumption, RuleInv, TypeOK, RequestsInv,
         RequestOK, Request, Ops, AsksFor, Goto, Labels, ruleVars, requestVars,
         readVars, writtenVars
  <2>2. RequestOK(s)'
    BY <1>1, RuleAssumption DEF RuleAssumption, RuleInv, TypeOK, RequestsInv,
         RequestOK, Request, Ops, AsksFor, Goto, Labels, ruleVars, requestVars,
         readVars, writtenVars
  <2>3. ASSUME NEW f \in Sessions, f # s
        PROVE  RequestOK(f)'
    BY <1>1, <2>3, OthersKeep DEF RuleInv, TypeOK, RequestsInv, Request, Ops,
         AsksFor, Goto, ruleVars, requestVars, readVars, writtenVars
  <2>4. QED
    BY <2>1, <2>2, <2>3 DEF RuleInv, RequestsInv
<1>2. ASSUME NEW s \in Sessions, ReadAccount(s)
      PROVE  RuleInv'
  <2>1. TypeOK'
    BY <1>2, RuleAssumption DEF RuleAssumption, RuleInv, TypeOK, RequestsInv,
         RequestOK, ReadAccount, FirstStep, Goto, Labels, ruleVars, requestVars,
         readVars, writtenVars
  <2>2. RequestOK(s)'
    BY <1>2, RuleAssumption DEF RuleAssumption, RuleInv, TypeOK, RequestsInv,
         RequestOK, ReadAccount, FirstStep, Goto, Labels, ruleVars, requestVars,
         readVars, writtenVars
  <2>3. ASSUME NEW f \in Sessions, f # s
        PROVE  RequestOK(f)'
    BY <1>2, <2>3, OthersKeep DEF RuleInv, TypeOK, RequestsInv, ReadAccount,
         FirstStep, Goto, ruleVars, requestVars, readVars, writtenVars
  <2>4. QED
    BY <2>1, <2>2, <2>3 DEF RuleInv, RequestsInv
<1>3. ASSUME NEW s \in Sessions, Register(s)
      PROVE  RuleInv'
  <2>1. TypeOK'
    BY <1>3, RuleAssumption DEF RuleAssumption, RuleInv, TypeOK, RequestsInv,
         RequestOK, Register, FirstStep, UniqueKeys, Goto, Labels, ruleVars,
         requestVars, readVars, writtenVars
  <2>2. RequestOK(s)'
    BY <1>3, RuleAssumption DEF RuleAssumption, RuleInv, TypeOK, RequestsInv,
         RequestOK, Register, FirstStep, UniqueKeys, Goto, Labels, ruleVars,
         requestVars, readVars, writtenVars
  <2>3. ASSUME NEW f \in Sessions, f # s
        PROVE  RequestOK(f)'
    BY <1>3, <2>3, OthersKeep DEF RuleInv, TypeOK, RequestsInv, Register, FirstStep,
         UniqueKeys, Goto, ruleVars, requestVars, readVars, writtenVars
  <2>4. QED
    BY <2>1, <2>2, <2>3 DEF RuleInv, RequestsInv
<1>4. ASSUME NEW s \in Sessions, Insert(s)
      PROVE  RuleInv'
  <2>1. TypeOK'
    BY <1>4, RuleAssumption DEF RuleAssumption, RuleInv, TypeOK, RequestsInv,
         RequestOK, Insert, UniqueKeys, Goto, Labels, ruleVars, requestVars,
         readVars, writtenVars
  <2>2. RequestOK(s)'
    BY <1>4, RuleAssumption DEF RuleAssumption, RuleInv, TypeOK, RequestsInv,
         RequestOK, Insert, UniqueKeys, Goto, Labels, ruleVars, requestVars,
         readVars, writtenVars
  <2>3. ASSUME NEW f \in Sessions, f # s
        PROVE  RequestOK(f)'
    BY <1>4, <2>3, OthersKeep DEF RuleInv, TypeOK, RequestsInv, Insert, UniqueKeys,
         Goto, ruleVars, requestVars, readVars, writtenVars
  <2>4. QED
    BY <2>1, <2>2, <2>3 DEF RuleInv, RequestsInv
<1>5. ASSUME NEW s \in Sessions, RollBack(s), fails' \in Nat
      PROVE  RuleInv'
  <2>1. TypeOK'
    BY <1>5, RuleAssumption DEF RuleAssumption, RuleInv, TypeOK, RequestsInv,
         RequestOK, RollBack, Close, Goto, Labels, ruleVars, requestVars, readVars, writtenVars
  <2>2. RequestOK(s)'
    BY <1>5, RuleAssumption DEF RuleAssumption, RuleInv, TypeOK, RequestsInv,
         RequestOK, RollBack, Close, Goto, Labels, ruleVars, requestVars, readVars, writtenVars
  <2>3. ASSUME NEW f \in Sessions, f # s
        PROVE  RequestOK(f)'
    BY <1>5, <2>3, OthersKeep DEF RuleInv, TypeOK, RequestsInv, RollBack, Close,
         Goto, ruleVars, requestVars, readVars, writtenVars
  <2>4. QED
    BY <2>1, <2>2, <2>3 DEF RuleInv, RequestsInv
<1>6. ASSUME NEW s \in Sessions, FindActive(s)
      PROVE  RuleInv'
  <2>1. TypeOK'
    BY <1>6, RuleAssumption DEF RuleAssumption, RuleInv, TypeOK, RequestsInv,
         RequestOK, FindActive, Read, Goto, Labels, ruleVars, requestVars, readVars, writtenVars
  <2>2. RequestOK(s)'
    BY <1>6, RuleAssumption DEF RuleAssumption, RuleInv, TypeOK, RequestsInv,
         RequestOK, FindActive, Read, Goto, Labels, ruleVars, requestVars, readVars, writtenVars
  <2>3. ASSUME NEW f \in Sessions, f # s
        PROVE  RequestOK(f)'
    BY <1>6, <2>3, OthersKeep DEF RuleInv, TypeOK, RequestsInv, FindActive, Read,
         Goto, ruleVars, requestVars, readVars, writtenVars
  <2>4. QED
    BY <2>1, <2>2, <2>3 DEF RuleInv, RequestsInv
<1>7. ASSUME NEW s \in Sessions, Count(s)
      PROVE  RuleInv'
  <2>1. TypeOK'
    BY <1>7, RuleAssumption DEF RuleAssumption, RuleInv, TypeOK, RequestsInv,
         RequestOK, Count, Goto, Labels, ruleVars, requestVars, readVars, writtenVars
  <2>2. RequestOK(s)'
    BY <1>7, RuleAssumption DEF RuleAssumption, RuleInv, TypeOK, RequestsInv,
         RequestOK, Count, Goto, Labels, ruleVars, requestVars, readVars, writtenVars
  <2>3. ASSUME NEW f \in Sessions, f # s
        PROVE  RequestOK(f)'
    BY <1>7, <2>3, OthersKeep DEF RuleInv, TypeOK, RequestsInv, Count, Goto,
         ruleVars, requestVars, readVars, writtenVars
  <2>4. QED
    BY <2>1, <2>2, <2>3 DEF RuleInv, RequestsInv
<1>8. ASSUME NEW s \in Sessions, Refuse(s), s \in Bots
      PROVE  RuleInv'
  <2>1. TypeOK'
    BY <1>8, RuleAssumption DEF RuleAssumption, RuleInv, TypeOK, RequestsInv,
         RequestOK, Refuse, Goto, Labels, ruleVars, requestVars, readVars, writtenVars
  <2>2. RequestOK(s)'
    BY <1>8, RuleAssumption DEF RuleAssumption, RuleInv, TypeOK, RequestsInv,
         RequestOK, Refuse, Goto, Labels, ruleVars, requestVars, readVars, writtenVars
  <2>3. ASSUME NEW f \in Sessions, f # s
        PROVE  RequestOK(f)'
    BY <1>8, <2>3, OthersKeep DEF RuleInv, TypeOK, RequestsInv, Refuse, Goto,
         ruleVars, requestVars, readVars, writtenVars
  <2>4. QED
    BY <2>1, <2>2, <2>3 DEF RuleInv, RequestsInv
<1>9. ASSUME NEW s \in Sessions, Lookup(s)
      PROVE  RuleInv'
  <2>1. TypeOK'
    BY <1>9, RuleAssumption DEF RuleAssumption, RuleInv, TypeOK, RequestsInv,
         RequestOK, Lookup, Read, Goto, Labels, ruleVars, requestVars, readVars, writtenVars
  <2>2. RequestOK(s)'
    BY <1>9, RuleAssumption DEF RuleAssumption, RuleInv, TypeOK, RequestsInv,
         RequestOK, Lookup, Read, Goto, Labels, ruleVars, requestVars, readVars, writtenVars
  <2>3. ASSUME NEW f \in Sessions, f # s
        PROVE  RequestOK(f)'
    BY <1>9, <2>3, OthersKeep DEF RuleInv, TypeOK, RequestsInv, Lookup, Read, Goto,
         ruleVars, requestVars, readVars, writtenVars
  <2>4. QED
    BY <2>1, <2>2, <2>3 DEF RuleInv, RequestsInv
<1>10. ASSUME NEW s \in Sessions, Answer(s), s \in Apis \/ slot[s] \in made[s]
      PROVE  RuleInv'
  <2>1. TypeOK'
    BY <1>10, RuleAssumption DEF RuleAssumption, RuleInv, TypeOK, RequestsInv,
         RequestOK, Answer, Goto, Labels, ruleVars, requestVars, readVars, writtenVars
  <2>2. RequestOK(s)'
    BY <1>10, RuleAssumption DEF RuleAssumption, RuleInv, TypeOK, RequestsInv,
         RequestOK, Answer, Goto, Labels, ruleVars, requestVars, readVars, writtenVars
  <2>3. ASSUME NEW f \in Sessions, f # s
        PROVE  RequestOK(f)'
    BY <1>10, <2>3, OthersKeep DEF RuleInv, TypeOK, RequestsInv, Answer, Goto,
         ruleVars, requestVars, readVars, writtenVars
  <2>4. QED
    BY <2>1, <2>2, <2>3 DEF RuleInv, RequestsInv
<1>11. ASSUME NEW s \in Sessions, Drop(s)
      PROVE  RuleInv'
  <2>1. TypeOK'
    BY <1>11, RuleAssumption DEF RuleAssumption, RuleInv, TypeOK, RequestsInv,
         RequestOK, Drop, Goto, Labels, ruleVars, requestVars, readVars, writtenVars
  <2>2. RequestOK(s)'
    BY <1>11, RuleAssumption DEF RuleAssumption, RuleInv, TypeOK, RequestsInv,
         RequestOK, Drop, Goto, Labels, ruleVars, requestVars, readVars, writtenVars
  <2>3. ASSUME NEW f \in Sessions, f # s
        PROVE  RequestOK(f)'
    BY <1>11, <2>3, OthersKeep DEF RuleInv, TypeOK, RequestsInv, Drop, Goto,
         ruleVars, requestVars, readVars, writtenVars
  <2>4. QED
    BY <2>1, <2>2, <2>3 DEF RuleInv, RequestsInv
<1>12. ASSUME NEW s \in Sessions, Load(s)
      PROVE  RuleInv'
  <2>1. TypeOK'
    BY <1>12, RuleAssumption DEF RuleAssumption, RuleInv, TypeOK, RequestsInv,
         RequestOK, Load, Read, Goto, Labels, ruleVars, requestVars, readVars, writtenVars
  <2>2. RequestOK(s)'
    BY <1>12, RuleAssumption DEF RuleAssumption, RuleInv, TypeOK, RequestsInv,
         RequestOK, Load, Read, Goto, Labels, ruleVars, requestVars, readVars, writtenVars
  <2>3. ASSUME NEW f \in Sessions, f # s
        PROVE  RequestOK(f)'
    BY <1>12, <2>3, OthersKeep DEF RuleInv, TypeOK, RequestsInv, Load, Read, Goto,
         ruleVars, requestVars, readVars, writtenVars
  <2>4. QED
    BY <2>1, <2>2, <2>3 DEF RuleInv, RequestsInv
<1>13. ASSUME NEW s \in Sessions, Commit(s)
      PROVE  RuleInv'
  <2>1. /\ made[s] \cap Slots \subseteq {slot[s]}
        /\ made[s] \cap Slots # {} => slot[s] \in Slots /\ asked[s] \in Thresholds
        /\ Revives(s) => slot[s] \in present \cap Slots
        /\ dropped[s] \subseteq present
    BY <1>13, RuleAssumption DEF RuleAssumption, RuleInv, TypeOK, RequestsInv,
         RequestOK, Commit, Revives
  <2>2. Retargets(s) => slot[s] \in Slots /\ asked[s] \in Thresholds
    BY DEF RuleInv, RequestsInv, RequestOK, Retargets
  <2>3. active' \subseteq present' \cap Slots /\ present' \subseteq UniqueKeys
    BY <1>13, <2>1 DEF RuleInv, TypeOK, Commit, Activated, Deactivated
  <2>4. threshold' \in [Slots -> Thresholds \cup {None}]
    BY <1>13, <2>2 DEF RuleInv, TypeOK, Commit
  <2>5. \A r \in present' \cap Slots : threshold'[r] # None
    <3> TAKE r \in present' \cap Slots
    <3>1. CASE r \in present
      BY <1>13, <2>2, <3>1, RuleAssumption DEF RuleAssumption, RuleInv, TypeOK,
           Commit
    <3>2. CASE r \in made[s]
      <4>1. r = slot[s]
        BY <2>1, <3>2
      <4>2. Retargets(s)
        BY <3>2, <4>1 DEF Retargets, RuleInv, RequestsInv, RequestOK
      <4>3. QED
        BY <1>13, <2>2, <4>1, <4>2, RuleAssumption DEF RuleAssumption, RuleInv,
             TypeOK, Commit
    <3>3. QED
      BY <1>13, <3>1, <3>2 DEF Commit
  <2>6. touched' \in [Sessions -> SUBSET Slots]
    <3>1. Changed(s) \subseteq Slots
      BY <1>13, <2>1, <2>2 DEF Commit, RuleInv, TypeOK, RequestsInv, RequestOK,
           Changed, Activated, Deactivated
    <3>2. QED
      BY <1>13, <3>1 DEF RuleInv, TypeOK, Commit
  <2>7. TypeOK'
    BY <1>13, <2>3, <2>4, <2>5, <2>6 DEF RuleInv, TypeOK, Commit, Close, Goto,
         Labels
  <2>8. RequestOK(s)'
    BY <1>13 DEF RuleInv, TypeOK, RequestsInv, RequestOK, Commit, Close, Goto
  <2>9. ASSUME NEW f \in Sessions, f # s
        PROVE  RequestOK(f)'
    BY <1>13, <2>9, OthersKeep DEF RuleInv, TypeOK, RequestsInv, Commit, Close, Goto
  <2>10. QED
    BY <2>7, <2>8, <2>9 DEF RuleInv, RequestsInv
<1>14. ASSUME NEW s \in Sessions,
              InsertConflicts(s) \/ DeadlockDetected(s) \/ Refuse(s) \/ Answer(s) \/ Fail(s)
       PROVE  RuleInv'
  BY <1>5, <1>8, <1>10, <1>14 DEF InsertConflicts, DeadlockDetected, Refuse, Answer, Fail, RuleInv,
       TypeOK
<1>15. ASSUME NEW s \in Sessions, FlushProfile(s)
       PROVE  RuleInv'
  BY <1>15 DEF RuleInv, TypeOK, RequestsInv, RequestOK, FlushProfile, ruleVars, requestVars,
     readVars
<1>16. CASE UNCHANGED vars
  BY <1>16 DEF RuleInv, TypeOK, RequestsInv, RequestOK, vars, ruleVars, requestVars,
       readVars, writtenVars
<1>17. QED
  BY <1>1, <1>2, <1>3, <1>4, <1>6, <1>7, <1>9, <1>11, <1>12, <1>13, <1>14, <1>15,
     <1>16     DEF Next, Continue

LEMMA RulesInductive == Spec => []RuleInv
<1>1. Init => RuleInv
  BY RuleAssumption DEF RuleAssumption, Init, RuleInv, TypeOK, RequestsInv,
       RequestOK, Labels, Pending
<1>2. RuleInv /\ [Next]_vars => RuleInv'
  BY RuleStep
<1>3. QED
  BY <1>1, <1>2, PTL DEF Spec

(* The rows, the sessions and what they have read keep their types, and     *)
(* every rule row has a threshold.                                          *)
THEOREM TypeCorrect == Spec => []TypeOK
<1>1. RuleInv => TypeOK
  BY DEF RuleInv
<1>2. QED
  BY <1>1, RulesInductive, PTL

-----------------------------------------------------------------------------
(* One row for each slot: the guard of an insert is enough, as a commit     *)
(* turns rows nobody else holds into committed ones.                        *)
LEMMA UniqueStep ==
  TypeOK /\ NewRowsAreUnique /\ [Next]_vars => NewRowsAreUnique'
<1> SUFFICES ASSUME TypeOK, NewRowsAreUnique, [Next]_vars
             PROVE  NewRowsAreUnique'
  OBVIOUS
<1>1. ASSUME NEW s \in Sessions, Register(s) \/ Insert(s)
      PROVE  NewRowsAreUnique'
  BY <1>1 DEF TypeOK, NewRowsAreUnique, Register, Insert, InsertAllowed, ruleVars
<1>2. ASSUME NEW s \in Sessions, RollBack(s)
      PROVE  NewRowsAreUnique'
  BY <1>2 DEF TypeOK, NewRowsAreUnique, RollBack, Close, ruleVars
<1>3. ASSUME NEW s \in Sessions, Commit(s)
      PROVE  NewRowsAreUnique'
  <2>1. made'[s] = {} /\ \A f \in Sessions \ {s} : made'[f] = made[f]
    BY <1>3 DEF TypeOK, Commit, Close
  <2>2. present' = present \cup made[s]
    BY <1>3 DEF Commit
  <2>3. QED
    BY <2>1, <2>2 DEF NewRowsAreUnique
<1>4. ASSUME present' = present, made' = made
      PROVE  NewRowsAreUnique'
  BY <1>4 DEF NewRowsAreUnique
<1>5. ASSUME NEW s \in Sessions,
             InsertConflicts(s) \/ DeadlockDetected(s) \/ Refuse(s) \/ Answer(s) \/ Fail(s)
      PROVE  NewRowsAreUnique'
  BY <1>2, <1>4, <1>5 DEF InsertConflicts, DeadlockDetected, Refuse, Answer, Fail, ruleVars,
       writtenVars
<1>6. ASSUME NEW s \in Sessions,
             NEW o \in Ops(s), NEW r \in Slots, NEW t \in AsksFor(o), Request(s, o, r, t)
      PROVE  NewRowsAreUnique'
  BY <1>4, <1>6 DEF Request, ruleVars, writtenVars
<1>7. ASSUME NEW s \in Sessions,
             ReadAccount(s) \/ FlushProfile(s) \/ FindActive(s) \/ Count(s) \/ Lookup(s)
               \/ Drop(s) \/ Load(s)
      PROVE  NewRowsAreUnique'
  BY <1>4, <1>7 DEF ReadAccount, FlushProfile, FindActive, Count, Lookup, Drop, Load, ruleVars,
       writtenVars
<1>8. CASE UNCHANGED vars
  BY <1>4, <1>8 DEF vars, ruleVars, writtenVars
<1>9. QED
  BY <1>1, <1>3, <1>5, <1>6, <1>7, <1>8 DEF Next, Continue

(* Two open transactions never hold a new row for the same token and event  *)
(* type, and none holds one that is committed already.                      *)
THEOREM UniqueRows == Spec => []NewRowsAreUnique
<1>1. Init => NewRowsAreUnique
  BY DEF Init, NewRowsAreUnique
<1>2. QED
  BY <1>1, UniqueStep, TypeCorrect, PTL DEF Spec

-----------------------------------------------------------------------------
(* How far the ceiling can be passed.  A racer may add one active rule when *)
(* it commits.  A session becomes a racer only while fewer than MaxAlerts   *)
(* rules are active, and there are never more racers than sessions: the     *)
(* active rules and the racers together stay within the bound.              *)
Racer(s) == op[s] = "track" /\ pc[s] \in Pending /\ readActive[s] # "on"
Racers == {s \in Sessions : Racer(s)}

CeilingInv ==
  Cardinality(active) + Cardinality(Racers) <= MaxAlerts + Cardinality(Sessions) - 1

LEMMA Sizes ==
  ASSUME NEW A \in SUBSET Slots, NEW R \in SUBSET Sessions
  PROVE  /\ IsFiniteSet(A) /\ Cardinality(A) \in Nat
         /\ IsFiniteSet(R) /\ Cardinality(R) \in Nat
         /\ Cardinality(Sessions) \in Nat /\ MaxAlerts \in Nat
         /\ Cardinality(R) <= Cardinality(Sessions)
BY FS_Subset, FS_CardinalityType, RuleAssumption DEF RuleAssumption
LEMMA CeilingStep ==
  RuleInv /\ CeilingInv /\ [Next]_vars => CeilingInv'
<1> SUFFICES ASSUME RuleInv, CeilingInv, [Next]_vars
             PROVE  CeilingInv'
  OBVIOUS
<1>1. ASSUME NEW s \in Sessions, Count(s)
      PROVE  CeilingInv'
  <2>1. active' = active /\ active \in SUBSET Slots /\ Cardinality(active) < MaxAlerts
    BY <1>1, Sizes, RuleAssumption
       DEF RuleAssumption, RuleInv, TypeOK, Count, AtCeiling, ruleVars
  <2>2. Racers' \in SUBSET Sessions
    BY DEF Racers
  <2>3. QED
    BY <2>1, <2>2, Sizes DEF CeilingInv
<1>2. ASSUME active' \subseteq active, Racers' \subseteq Racers
      PROVE  CeilingInv'
  <2>1. active \in SUBSET Slots /\ Racers \in SUBSET Sessions
    BY DEF RuleInv, TypeOK, Racers
  <2>2. /\ Cardinality(active') <= Cardinality(active)
        /\ Cardinality(Racers') <= Cardinality(Racers)
    BY <1>2, <2>1, Sizes, FS_Subset
  <2>3. active' \in SUBSET Slots /\ Racers' \in SUBSET Sessions
    BY <1>2, <2>1
  <2>4. QED
    BY <2>1, <2>2, <2>3, Sizes DEF CeilingInv
<1>3. ASSUME NEW s \in Sessions, Commit(s)
      PROVE  CeilingInv'
  <2>1. Racers' \subseteq Racers \ {s}
    BY <1>3 DEF RuleInv, TypeOK, Commit, Close, Goto, Racers, Racer, Pending
  <2>2. CASE s \notin Racers
    <3>1. Activated(s) = {}
      BY <1>3, <2>2 DEF RuleInv, RequestsInv, RequestOK, Activated, Revives, Commit,
         Racers, Racer, Pending
    <3>2. active' \subseteq active
      BY <1>3, <3>1 DEF Commit
    <3>3. QED
      BY <1>2, <2>1, <3>2
  <2>3. CASE s \in Racers
    <3>1. Activated(s) \subseteq {slot[s]} /\ slot[s] \in Slots
      BY <1>3 DEF RuleInv, RequestsInv, RequestOK, Activated, Commit
    <3>2. active' \subseteq active \cup {slot[s]}
      BY <1>3, <3>1 DEF Commit
    <3>3. /\ active \in SUBSET Slots /\ active' \in SUBSET Slots
          /\ Racers \in SUBSET Sessions /\ Racers' \in SUBSET Sessions
      BY <3>1, <3>2 DEF RuleInv, TypeOK, Racers
    <3>4. Cardinality(active') <= Cardinality(active) + 1
      <4>1. Cardinality(active \cup {slot[s]}) <= Cardinality(active) + 1
        BY <3>3, Sizes, FS_AddElement
      <4>2. active \cup {slot[s]} \in SUBSET Slots
        BY <3>1, <3>3
      <4>3. Cardinality(active') <= Cardinality(active \cup {slot[s]})
        BY <3>2, <4>2, Sizes, FS_Subset
      <4>4. QED
        BY <3>3, <4>1, <4>2, <4>3, Sizes
    <3>5. Cardinality(Racers') + 1 <= Cardinality(Racers)
      <4>1. Cardinality(Racers \ {s}) = Cardinality(Racers) - 1
        BY <2>3, <3>3, Sizes, FS_RemoveElement
      <4>2. Racers \ {s} \in SUBSET Sessions
        BY <3>3
      <4>3. Cardinality(Racers') <= Cardinality(Racers \ {s})
        BY <2>1, <4>2, Sizes, FS_Subset
      <4>4. QED
        BY <3>3, <4>1, <4>2, <4>3, Sizes
    <3>6. QED
      BY <3>3, <3>4, <3>5, Sizes DEF CeilingInv
  <2>4. QED
    BY <2>2, <2>3
<1>4. ASSUME NEW s \in Sessions, RollBack(s)
      PROVE  CeilingInv'
  <2>1. active' = active
    BY <1>4 DEF RollBack, ruleVars
  <2>2. Racers' \subseteq Racers
    BY <1>4 DEF RuleInv, TypeOK, RollBack, Close, Goto, Racers, Racer, Pending
  <2>3. QED
    BY <1>2, <2>1, <2>2
<1>5. ASSUME NEW s \in Sessions, InsertConflicts(s) \/ DeadlockDetected(s) \/ Fail(s)
      PROVE  CeilingInv'
  BY <1>4, <1>5 DEF InsertConflicts, DeadlockDetected, Fail
<1>6. ASSUME NEW s \in Sessions, Refuse(s) \/ Answer(s)
      PROVE  CeilingInv'
  <2>1. CASE RollBack(s)
    BY <1>4, <2>1
  <2>2. CASE ~RollBack(s)
    <3>1. active' = active
      BY <1>6, <2>2 DEF Refuse, Answer, ruleVars
    <3>2. Racers' \subseteq Racers
      BY <1>6, <2>2 DEF RuleInv, TypeOK, Refuse, Answer, Goto, requestVars, readVars, writtenVars,
         Racers, Racer, Pending
    <3>3. QED
      BY <1>2, <3>1, <3>2
  <2>3. QED
    BY <2>1, <2>2
<1>7. ASSUME NEW s \in Sessions,
             NEW o \in Ops(s), NEW r \in Slots, NEW t \in AsksFor(o), Request(s, o, r, t)
      PROVE  CeilingInv'
  <2>1. active' = active
    BY <1>7 DEF Request, ruleVars
  <2>2. Racers' \subseteq Racers
    BY <1>7 DEF RuleInv, TypeOK, Request, Goto, readVars, writtenVars, Racers, Racer, Pending
  <2>3. QED
    BY <1>2, <2>1, <2>2
<1>8. ASSUME NEW s \in Sessions,
             ReadAccount(s) \/ FlushProfile(s) \/ Register(s) \/ FindActive(s) \/ Insert(s)
               \/ Drop(s) \/ Load(s)
      PROVE  CeilingInv'
  <2>1. active' = active
    BY <1>8 DEF ReadAccount, FlushProfile, Register, FindActive, Insert, Drop, Load,
       ruleVars
  <2>2. Racers' \subseteq Racers
    BY <1>8 DEF RuleInv, TypeOK, RequestsInv, RequestOK, ReadAccount, FlushProfile,
       Register, FindActive, Insert, Drop, Load, Read, FirstStep, Goto, requestVars, readVars,
       writtenVars, Racers, Racer, Pending
  <2>3. QED
    BY <1>2, <2>1, <2>2
<1>9. ASSUME NEW s \in Sessions, Lookup(s)
      PROVE  CeilingInv'
  <2>1. active' = active
    BY <1>9 DEF Lookup, ruleVars
  <2>2. Racers' \subseteq Racers
    BY <1>9 DEF RuleInv, TypeOK, Lookup, Read, Goto, requestVars, readVars, writtenVars,
                Racers, Racer,
       Pending
  <2>3. QED
    BY <1>2, <2>1, <2>2
<1>10. CASE UNCHANGED vars
  <2>1. Racers' = Racers
    BY <1>10 DEF vars, requestVars, readVars, writtenVars, Racers, Racer
  <2>2. QED
    BY <1>2, <1>10, <2>1 DEF vars, ruleVars
<1>11. QED
  BY <1>1, <1>3, <1>5, <1>6, <1>7, <1>8, <1>9, <1>10 DEF Next, Continue

(* The ceiling is passed by at most one rule for each further session that  *)
(* may be open, for every ceiling and every number of sessions.             *)
THEOREM CeilingBound == Spec => []CeilingPassedByRacersOnly
<1>1. Init => CeilingInv
  <2> SUFFICES ASSUME Init
               PROVE  CeilingInv
    OBVIOUS
  <2>1. active = {} /\ Racers = {}
    BY DEF Init, Racers, Racer, Pending
  <2>2. Cardinality(Sessions) # 0
    BY FS_EmptySet, RuleAssumption DEF RuleAssumption
  <2>3. Cardinality(Sessions) \in Nat /\ MaxAlerts \in Nat
    BY Sizes
  <2>4. QED
    BY <2>1, <2>2, <2>3, FS_EmptySet DEF CeilingInv
<1>2. RuleInv /\ CeilingInv => CeilingPassedByRacersOnly
  <2> SUFFICES ASSUME RuleInv, CeilingInv
               PROVE  CeilingPassedByRacersOnly
    OBVIOUS
  <2>1. active \in SUBSET Slots /\ Racers \in SUBSET Sessions
    BY DEF RuleInv, TypeOK, Racers
  <2>2. QED
    BY <2>1, Sizes DEF CeilingInv, CeilingPassedByRacersOnly
<1>3. QED
  BY <1>1, <1>2, CeilingStep, RulesInductive, PTL DEF Spec

-----------------------------------------------------------------------------
(* What a commit does.  Until it commits, a request knows everything about  *)
(* its slot that it needs, except what other commits changed meanwhile.     *)
AccountOK(s) ==
  pc[s] \in {"find", "count", "lookup", "insert", "answer"}
    \/ (op[s] = "track" /\ pc[s] = "commit") => Account \in present \cup made[s]

KnowsSlot(s) ==
  /\ op[s] = "track" /\ readActive[s] # "unread" /\ slot[s] \notin touched[s] =>
       /\ readActive[s] = "on" <=> slot[s] \in active
       /\ readThreshold[s] = threshold[slot[s]]
  /\ op[s] = "track" /\ pc[s] \in {"answer", "commit"} =>
       slot[s] \in made[s] \/ readActive[s] # "unread"
  /\ op[s] = "untrack" /\ pc[s] = "commit" =>
       active \cap SameToken[slot[s]] \subseteq dropped[s] \cup touched[s]
  /\ op[s] = "delete" /\ pc[s] = "commit"
       /\ readActive[s] # "on" /\ slot[s] \notin touched[s] => slot[s] \notin active

EffectInv ==
  /\ present \cap Slots # {} => Account \in present
  /\ \A s \in Sessions : AccountOK(s) /\ KnowsSlot(s)

LEMMA OthersKnow ==
  ASSUME NEW f \in Sessions, AccountOK(f), KnowsSlot(f),
         pc'[f] = pc[f], op'[f] = op[f], slot'[f] = slot[f], made'[f] = made[f],
         readActive'[f] = readActive[f], readThreshold'[f] = readThreshold[f],
         dropped'[f] = dropped[f], ruleVars' = ruleVars, touched'[f] = touched[f]
  PROVE  AccountOK(f)' /\ KnowsSlot(f)'
BY DEF AccountOK, KnowsSlot, ruleVars

LEMMA EffectStep == RuleInv /\ EffectInv /\ [Next]_vars => EffectInv'
<1> SUFFICES ASSUME RuleInv, EffectInv, [Next]_vars
             PROVE  EffectInv'
  OBVIOUS
<1>1. ASSUME NEW s \in Sessions, NEW o \in Ops(s), NEW r \in Slots, NEW t \in AsksFor(o),
             Request(s, o, r, t)
      PROVE  EffectInv'
  <2>1. AccountOK(s)' /\ KnowsSlot(s)'
    BY <1>1, RuleAssumption DEF RuleAssumption, RuleInv, TypeOK, RequestsInv,
       RequestOK, Pending, EffectInv, AccountOK, KnowsSlot, Request, Ops, AsksFor,
       Goto, ruleVars, requestVars, readVars, writtenVars
  <2>2. ASSUME NEW f \in Sessions, f # s
        PROVE  AccountOK(f)' /\ KnowsSlot(f)'
    BY <1>1, <2>2, OthersKnow DEF RuleInv, TypeOK, EffectInv, Request, Ops, AsksFor, Goto,
       ruleVars, requestVars, readVars, writtenVars
  <2>3. QED
    BY <1>1, <2>1, <2>2 DEF EffectInv, Request, Ops, AsksFor, ruleVars
<1>2. ASSUME NEW s \in Sessions, ReadAccount(s)
      PROVE  EffectInv'
  <2>1. AccountOK(s)' /\ KnowsSlot(s)'
    BY <1>2, RuleAssumption DEF RuleAssumption, RuleInv, TypeOK, RequestsInv,
       RequestOK, Pending, EffectInv, AccountOK, KnowsSlot, ReadAccount, FirstStep,
       Goto, ruleVars, requestVars, readVars, writtenVars
  <2>2. ASSUME NEW f \in Sessions, f # s
        PROVE  AccountOK(f)' /\ KnowsSlot(f)'
    BY <1>2, <2>2, OthersKnow DEF RuleInv, TypeOK, EffectInv, ReadAccount,
       FirstStep, Goto, ruleVars, requestVars, readVars, writtenVars
  <2>3. QED
    BY <1>2, <2>1, <2>2 DEF EffectInv, ReadAccount, FirstStep, ruleVars
<1>3. ASSUME NEW s \in Sessions, Register(s)
      PROVE  EffectInv'
  <2>1. AccountOK(s)' /\ KnowsSlot(s)'
    BY <1>3, RuleAssumption DEF RuleAssumption, RuleInv, TypeOK, RequestsInv,
       RequestOK, Pending, EffectInv, AccountOK, KnowsSlot, Register, FirstStep,
       Goto, ruleVars, requestVars, readVars, writtenVars
  <2>2. ASSUME NEW f \in Sessions, f # s
        PROVE  AccountOK(f)' /\ KnowsSlot(f)'
    BY <1>3, <2>2, OthersKnow DEF RuleInv, TypeOK, EffectInv, Register, FirstStep, Goto,
       ruleVars, requestVars, readVars, writtenVars
  <2>3. QED
    BY <1>3, <2>1, <2>2 DEF EffectInv, Register, FirstStep, ruleVars
<1>4. ASSUME NEW s \in Sessions, Insert(s)
      PROVE  EffectInv'
  <2>1. AccountOK(s)' /\ KnowsSlot(s)'
    BY <1>4, RuleAssumption DEF RuleAssumption, RuleInv, TypeOK, RequestsInv,
       RequestOK, Pending, EffectInv, AccountOK, KnowsSlot, Insert, Goto, ruleVars,
       requestVars, readVars, writtenVars
  <2>2. ASSUME NEW f \in Sessions, f # s
        PROVE  AccountOK(f)' /\ KnowsSlot(f)'
    BY <1>4, <2>2, OthersKnow DEF RuleInv, TypeOK, EffectInv, Insert, Goto,
       ruleVars, requestVars, readVars, writtenVars
  <2>3. QED
    BY <1>4, <2>1, <2>2 DEF EffectInv, Insert, ruleVars
<1>5. ASSUME NEW s \in Sessions, RollBack(s)
      PROVE  EffectInv'
  <2>1. AccountOK(s)' /\ KnowsSlot(s)'
    BY <1>5, RuleAssumption DEF RuleAssumption, RuleInv, TypeOK, RequestsInv,
       RequestOK, Pending, EffectInv, AccountOK, KnowsSlot, RollBack, Close, Goto,
       ruleVars, requestVars, readVars, writtenVars
  <2>2. ASSUME NEW f \in Sessions, f # s
        PROVE  AccountOK(f)' /\ KnowsSlot(f)'
    BY <1>5, <2>2, OthersKnow DEF RuleInv, TypeOK, EffectInv, RollBack, Close, Goto,
       ruleVars, requestVars, readVars, writtenVars
  <2>3. QED
    BY <1>5, <2>1, <2>2 DEF EffectInv, RollBack, Close, ruleVars
<1>6. ASSUME NEW s \in Sessions, FindActive(s)
      PROVE  EffectInv'
  <2>1. AccountOK(s)' /\ KnowsSlot(s)'
    BY <1>6, RuleAssumption DEF RuleAssumption, RuleInv, TypeOK, RequestsInv,
       RequestOK, Pending, EffectInv, AccountOK, KnowsSlot, FindActive, Read, Goto,
       ruleVars, requestVars, readVars, writtenVars
  <2>2. ASSUME NEW f \in Sessions, f # s
        PROVE  AccountOK(f)' /\ KnowsSlot(f)'
    BY <1>6, <2>2, OthersKnow DEF RuleInv, TypeOK, EffectInv, FindActive, Read, Goto,
       ruleVars, requestVars, readVars, writtenVars
  <2>3. QED
    BY <1>6, <2>1, <2>2 DEF EffectInv, FindActive, Read, ruleVars
<1>7. ASSUME NEW s \in Sessions, Count(s)
      PROVE  EffectInv'
  <2>1. AccountOK(s)' /\ KnowsSlot(s)'
    BY <1>7, RuleAssumption DEF RuleAssumption, RuleInv, TypeOK, RequestsInv,
       RequestOK, Pending, EffectInv, AccountOK, KnowsSlot, Count, Goto, ruleVars,
       requestVars, readVars, writtenVars
  <2>2. ASSUME NEW f \in Sessions, f # s
        PROVE  AccountOK(f)' /\ KnowsSlot(f)'
    BY <1>7, <2>2, OthersKnow DEF RuleInv, TypeOK, EffectInv, Count, Goto,
       ruleVars, requestVars, readVars, writtenVars
  <2>3. QED
    BY <1>7, <2>1, <2>2 DEF EffectInv, Count, ruleVars
<1>8. ASSUME NEW s \in Sessions, Refuse(s), s \in Bots
      PROVE  EffectInv'
  <2>1. AccountOK(s)' /\ KnowsSlot(s)'
    BY <1>8, RuleAssumption DEF RuleAssumption, RuleInv, TypeOK, RequestsInv,
       RequestOK, Pending, EffectInv, AccountOK, KnowsSlot, Refuse, Goto, ruleVars,
       requestVars, readVars, writtenVars
  <2>2. ASSUME NEW f \in Sessions, f # s
        PROVE  AccountOK(f)' /\ KnowsSlot(f)'
    BY <1>8, <2>2, OthersKnow DEF RuleInv, TypeOK, EffectInv, Refuse, Goto,
       ruleVars, requestVars, readVars, writtenVars
  <2>3. QED
    BY <1>8, <2>1, <2>2 DEF EffectInv, Refuse, ruleVars
<1>9. ASSUME NEW s \in Sessions, Lookup(s)
      PROVE  EffectInv'
  <2>1. AccountOK(s)' /\ KnowsSlot(s)'
    BY <1>9, RuleAssumption DEF RuleAssumption, RuleInv, TypeOK, RequestsInv,
       RequestOK, Pending, EffectInv, AccountOK, KnowsSlot, Lookup, Read, Goto,
       ruleVars, requestVars, readVars, writtenVars
  <2>2. ASSUME NEW f \in Sessions, f # s
        PROVE  AccountOK(f)' /\ KnowsSlot(f)'
    BY <1>9, <2>2, OthersKnow DEF RuleInv, TypeOK, EffectInv, Lookup, Read, Goto,
       ruleVars, requestVars, readVars, writtenVars
  <2>3. QED
    BY <1>9, <2>1, <2>2 DEF EffectInv, Lookup, Read, ruleVars
<1>10. ASSUME NEW s \in Sessions, Answer(s), s \in Apis \/ slot[s] \in made[s]
      PROVE  EffectInv'
  <2>1. AccountOK(s)' /\ KnowsSlot(s)'
    BY <1>10, RuleAssumption DEF RuleAssumption, RuleInv, TypeOK, RequestsInv,
       RequestOK, Pending, EffectInv, AccountOK, KnowsSlot, Answer, Goto, ruleVars,
       requestVars, readVars, writtenVars
  <2>2. ASSUME NEW f \in Sessions, f # s
        PROVE  AccountOK(f)' /\ KnowsSlot(f)'
    BY <1>10, <2>2, OthersKnow DEF RuleInv, TypeOK, EffectInv, Answer, Goto,
       ruleVars, requestVars, readVars, writtenVars
  <2>3. QED
    BY <1>10, <2>1, <2>2 DEF EffectInv, Answer, ruleVars
<1>11. ASSUME NEW s \in Sessions, Drop(s)
      PROVE  EffectInv'
  <2>1. AccountOK(s)' /\ KnowsSlot(s)'
    BY <1>11, RuleAssumption DEF RuleAssumption, RuleInv, TypeOK, RequestsInv,
       RequestOK, Pending, EffectInv, AccountOK, KnowsSlot, Drop, Goto, ruleVars,
       requestVars, readVars, writtenVars
  <2>2. ASSUME NEW f \in Sessions, f # s
        PROVE  AccountOK(f)' /\ KnowsSlot(f)'
    BY <1>11, <2>2, OthersKnow DEF RuleInv, TypeOK, EffectInv, Drop, Goto,
       ruleVars, requestVars, readVars, writtenVars
  <2>3. QED
    BY <1>11, <2>1, <2>2 DEF EffectInv, Drop, ruleVars
<1>12. ASSUME NEW s \in Sessions, Load(s)
      PROVE  EffectInv'
  <2>1. AccountOK(s)' /\ KnowsSlot(s)'
    BY <1>12, RuleAssumption DEF RuleAssumption, RuleInv, TypeOK, RequestsInv,
       RequestOK, Pending, EffectInv, AccountOK, KnowsSlot, Load, Read, Goto,
       ruleVars, requestVars, readVars, writtenVars
  <2>2. ASSUME NEW f \in Sessions, f # s
        PROVE  AccountOK(f)' /\ KnowsSlot(f)'
    BY <1>12, <2>2, OthersKnow DEF RuleInv, TypeOK, EffectInv, Load, Read, Goto,
       ruleVars, requestVars, readVars, writtenVars
  <2>3. QED
    BY <1>12, <2>1, <2>2 DEF EffectInv, Load, Read, ruleVars
<1>13. ASSUME NEW s \in Sessions, Commit(s)
      PROVE  EffectInv'
  <2>1. present' \cap Slots # {} => Account \in present'
    BY <1>13 DEF RuleInv, RequestsInv, RequestOK, EffectInv, AccountOK, Commit
  <2>2. AccountOK(s)' /\ KnowsSlot(s)'
    BY <1>13 DEF RuleInv, TypeOK, AccountOK, KnowsSlot, Commit, Close, Goto
  <2>3. ASSUME NEW f \in Sessions, f # s
        PROVE  AccountOK(f)' /\ KnowsSlot(f)'
    <3>1. /\ pc'[f] = pc[f] /\ op'[f] = op[f] /\ slot'[f] = slot[f]
          /\ made'[f] = made[f] /\ dropped'[f] = dropped[f]
          /\ readActive'[f] = readActive[f] /\ readThreshold'[f] = readThreshold[f]
      BY <1>13, <2>3 DEF RuleInv, TypeOK, Commit, Close, Goto
    <3>2. touched'[f] = touched[f] \cup Changed(s)
      BY <1>13, <2>3 DEF Commit
    <3>3. \A r \in Slots \ Changed(s) : r \in active' <=> r \in active
      BY <1>13 DEF Commit, Changed
    <3>4. \A r \in Slots \ Changed(s) : threshold'[r] = threshold[r]
      BY <1>13 DEF RuleInv, TypeOK, Commit, Changed
    <3>5. AccountOK(f) /\ KnowsSlot(f)
      BY DEF EffectInv
    <3>6. AccountOK(f)'
      BY <1>13, <3>1, <3>5 DEF AccountOK, Commit
    <3>7. pc[f] = "commit" \/ op[f] = "track" => slot[f] \in Slots
      BY DEF RuleInv, RequestsInv, RequestOK
    <3>8. active' \subseteq Slots
      BY RuleStep DEF RuleInv, TypeOK
    <3>9. KnowsSlot(f)'
      BY <3>1, <3>2, <3>3, <3>4, <3>5, <3>7, <3>8 DEF KnowsSlot
    <3>10. QED
      BY <3>6, <3>9
  <2>4. QED
    BY <2>1, <2>2, <2>3 DEF EffectInv
<1>14. ASSUME NEW s \in Sessions,
              InsertConflicts(s) \/ DeadlockDetected(s) \/ Refuse(s) \/ Answer(s) \/ Fail(s)
       PROVE  EffectInv'
  BY <1>5, <1>8, <1>10, <1>14 DEF InsertConflicts, DeadlockDetected, Refuse, Answer, Fail
<1>15. ASSUME NEW s \in Sessions, FlushProfile(s)
       PROVE  EffectInv'
  BY <1>15 DEF EffectInv, AccountOK, KnowsSlot, FlushProfile, ruleVars, requestVars,
     readVars
<1>16. CASE UNCHANGED vars
  BY <1>16 DEF EffectInv, AccountOK, KnowsSlot, vars, ruleVars, requestVars, readVars, writtenVars
<1>17. QED
  BY <1>1, <1>2, <1>3, <1>4, <1>6, <1>7, <1>9, <1>11, <1>12, <1>13, <1>14, <1>15,
     <1>16     DEF Next, Continue

LEMMA CommitStep ==
  ASSUME RuleInv, EffectInv, NEW s \in Sessions, Commit(s)
  PROVE  /\ op[s] = "track" /\ slot[s] \notin touched[s] =>
              slot[s] \in active' /\ threshold'[slot[s]] = asked[s]
         /\ op[s] = "untrack" =>
              active' \cap SameToken[slot[s]] \subseteq touched[s]
         /\ op[s] = "delete" /\ slot[s] \notin touched[s] =>
              slot[s] \notin active'
<1>1. Commit(s) /\ pc[s] = "commit"
  BY DEF Commit
<1>2. AccountOK(s) /\ KnowsSlot(s) /\ RequestOK(s) /\ slot[s] \in Slots
  <2>1. AccountOK(s) /\ KnowsSlot(s)
    BY DEF EffectInv
  <2>2. RequestOK(s)
    BY DEF RuleInv, RequestsInv
  <2>3. slot[s] \in Slots
    BY <1>1, <2>2 DEF RequestOK
  <2>4. QED
    BY <2>1, <2>2, <2>3
<1>3. ASSUME op[s] = "track", slot[s] \notin touched[s]
      PROVE  slot[s] \in active' /\ threshold'[slot[s]] = asked[s]
  <2>1. slot[s] \notin Deactivated(s)
    BY <1>2, <1>3 DEF RequestOK, Deactivated
  <2>2. slot[s] \in active'
    BY <1>1, <1>2, <1>3, <2>1 DEF KnowsSlot, RuleInv, TypeOK, Commit, Activated, Revives
  <2>3. threshold'[slot[s]] = asked[s]
    BY <1>1, <1>2, <1>3 DEF KnowsSlot, RuleInv, TypeOK, Commit, Retargets, Writes
  <2>4. QED
    BY <2>2, <2>3
<1>4. ASSUME op[s] = "untrack"
      PROVE  active' \cap SameToken[slot[s]] \subseteq touched[s]
  BY <1>1, <1>2, <1>4
     DEF KnowsSlot, RequestOK, Commit, Activated, Deactivated, Revives
<1>5. ASSUME op[s] = "delete", slot[s] \notin touched[s]
      PROVE  slot[s] \notin active'
  BY <1>1, <1>2, <1>5
     DEF KnowsSlot, RequestOK, Commit, Activated, Deactivated, Revives
<1>6. QED
  BY <1>3, <1>4, <1>5

(* A request that commits has done what it was asked for, on every slot no  *)
(* other request changed while it was open.                                 *)
THEOREM CommitsAreEffective == Spec => CommitsTakeEffect
<1>1. Init => EffectInv
  BY DEF Init, EffectInv, AccountOK, KnowsSlot
<1>2. RuleInv /\ EffectInv /\ [Next]_vars =>
        [\A s \in Sessions :
           Commit(s) =>
             /\ op[s] = "track" /\ slot[s] \notin touched[s] =>
                  slot[s] \in active' /\ threshold'[slot[s]] = asked[s]
             /\ op[s] = "untrack" =>
                  active' \cap SameToken[slot[s]] \subseteq touched[s]
             /\ op[s] = "delete" /\ slot[s] \notin touched[s] =>
                  slot[s] \notin active']_vars
  BY CommitStep
<1>3. QED
  BY <1>1, <1>2, EffectStep, RulesInductive, PTL DEF Spec, CommitsTakeEffect

LEMMA EffectInvariant == Spec => []EffectInv
<1>1. Init => EffectInv
  BY DEF Init, EffectInv, AccountOK, KnowsSlot
<1>2. QED
  BY <1>1, EffectStep, RulesInductive, PTL DEF Spec

(* The REST API keeps the promise of repositories.py:134 that the bot       *)
(* breaks (TrackAgainIsStored): of all the ways in which an API request to  *)
(* track that found the rule may end, only a failure or a deadlock leaves   *)
(* the row as it was, unless another request changed it meanwhile.          *)
THEOREM ApiTrackAgainIsStored ==
  Spec =>
  [][\A s \in Apis :
       op[s] = "track" /\ readActive[s] # "unread" /\ pc'[s] = "idle" /\ fails' = fails
         /\ ~DeadlockDetected(s) =>
           threshold'[slot[s]] = asked[s] \/ slot[s] \in touched[s]]_vars
<1> DEFINE Ends(s) == /\ op[s] = "track" /\ readActive[s] # "unread"
                      /\ pc'[s] = "idle" /\ fails' = fails /\ ~DeadlockDetected(s)
           Stored(s) == threshold'[slot[s]] = asked[s] \/ slot[s] \in touched[s]
<1>1. ASSUME RuleInv, EffectInv, Next, NEW s \in Apis, Ends(s)
      PROVE  Stored(s)
  <2>1. s \in Sessions /\ RequestOK(s) /\ pc[s] # "idle"
    BY <1>1 DEF Sessions, RuleInv, RequestsInv, RequestOK
  <2>2. pc[s] \in {"lookup", "answer", "commit"}
    BY <1>1, <2>1 DEF RequestOK, RuleInv, TypeOK, Labels
  <2>3. PICK f \in Sessions :
          \/ \E o \in Ops(f), r \in Slots : \E t \in AsksFor(o) : Request(f, o, r, t)
          \/ Continue(f)
          \/ Fail(f)
    BY <1>1 DEF Next
  <2>4. f = s
    <3> SUFFICES ASSUME f # s
                 PROVE  pc'[s] = pc[s]
      BY <1>1, <2>1
    <3> USE <2>1, <2>3 DEF RuleInv, TypeOK, Goto
    <3>1. ASSUME NEW label, Goto(f, label)
          PROVE  pc'[s] = pc[s]
      BY <1>1, <3>1
    <3>2. QED
      BY <1>1, <3>1
      DEF Request, Continue, ReadAccount, FlushProfile, Register, Insert, InsertConflicts,
          FindActive, Count, Refuse, Lookup, Answer, Drop, Load, Commit, DeadlockDetected,
          Fail, RollBack, Close
  <2>5. ~Fail(s)
    BY <1>1 DEF Fail, RuleInv, TypeOK
  <2>6. Commit(s)
    <3>1. Continue(s)
      BY <2>1, <2>3, <2>4, <2>5 DEF Request
    <3>2. Lookup(s) \/ Answer(s) \/ Commit(s) \/ FlushProfile(s)
      BY <1>1, <2>2, <3>1
      DEF Continue, ReadAccount, Register, Insert, InsertConflicts, FindActive, Count, Refuse,
          Drop, Load
    <3>3. ~Lookup(s) /\ ~Answer(s) /\ ~FlushProfile(s)
      BY <1>1, <2>1, <2>2 DEF Lookup, Answer, FlushProfile, Goto, RuleInv, TypeOK
    <3>4. QED
      BY <3>2, <3>3
  <2>7. QED
    BY <1>1, <2>1, <2>6, CommitStep
<1>2. RuleInv /\ EffectInv /\ [Next]_vars =>
        [\A s \in Apis :
           op[s] = "track" /\ readActive[s] # "unread" /\ pc'[s] = "idle" /\ fails' = fails
             /\ ~DeadlockDetected(s) =>
               threshold'[slot[s]] = asked[s] \/ slot[s] \in touched[s]]_vars
  BY <1>1
<1>3. QED
  BY <1>2, EffectInvariant, RulesInductive, PTL DEF Spec

(* A bot's request to track gets to its commit with a new row only: its     *)
(* answer fails on a row it has read.                                       *)
BotsMake ==
  \A s \in Bots \ Apis : pc[s] = "commit" /\ op[s] = "track" => slot[s] \in made[s]

LEMMA BotsMakeStep == RuleInv /\ BotsMake /\ [Next]_vars => BotsMake'
<1> SUFFICES ASSUME RuleInv, BotsMake, [Next]_vars,
                    NEW s \in Bots \ Apis, pc'[s] = "commit", op'[s] = "track"
             PROVE  slot'[s] \in made'[s]
  BY DEF BotsMake
<1>1. s \in Sessions /\ RequestOK(s)
  BY DEF Sessions, RuleInv, RequestsInv
<1> USE DEF RuleInv, TypeOK
<1>2. ASSUME pc'[s] = pc[s], op'[s] = op[s], slot'[s] = slot[s], made[s] \subseteq made'[s]
      PROVE  slot'[s] \in made'[s]
  BY <1>2 DEF BotsMake
<1>3. ASSUME NEW f \in Sessions, NEW o \in Ops(f), NEW r \in Slots, NEW t \in AsksFor(o),
             Request(f, o, r, t)
      PROVE  slot'[s] \in made'[s]
  BY <1>1, <1>2, <1>3 DEF Request, Goto, writtenVars
<1>4. ASSUME NEW f \in Sessions, Close(f)
      PROVE  slot'[s] \in made'[s]
  BY <1>1, <1>2, <1>4 DEF Close, Goto
<1>5. ASSUME NEW f \in Sessions,
             \/ ReadAccount(f) \/ FlushProfile(f) \/ Register(f) \/ Insert(f)
      PROVE  slot'[s] \in made'[s]
  <2>1. CASE f = s
    BY <1>1, <1>2, <1>5, <2>1
    DEF ReadAccount, FlushProfile, Register, Insert, FirstStep, Goto, requestVars, RequestOK
  <2>2. CASE f # s
    BY <1>1, <1>2, <1>5, <2>2
    DEF ReadAccount, FlushProfile, Register, Insert, FirstStep, Goto, requestVars
  <2>3. QED
    BY <2>1, <2>2
<1>6. ASSUME NEW f \in Sessions,
             FindActive(f) \/ Count(f) \/ Lookup(f) \/ Drop(f) \/ Load(f)
      PROVE  slot'[s] \in made'[s]
  BY <1>1, <1>2, <1>6
  DEF FindActive, Count, Lookup, Drop, Load, Goto, requestVars, writtenVars, RequestOK
<1>7. ASSUME NEW f \in Sessions, (Refuse(f) \/ Answer(f)) /\ ~Close(f)
      PROVE  slot'[s] \in made'[s]
  BY <1>1, <1>2, <1>7 DEF Refuse, Answer, RollBack, Goto, requestVars, writtenVars
<1>8. CASE UNCHANGED vars
  BY <1>2, <1>8 DEF vars, requestVars, writtenVars
<1>9. QED
  BY <1>3, <1>4, <1>5, <1>6, <1>7, <1>8
  DEF Next, Continue, InsertConflicts, DeadlockDetected, Fail, Commit, RollBack

(* And the bot never keeps it: what a bot's request to track commits is a   *)
(* new row or nothing, for its answer fails on a row it has read, so that   *)
(* no rule that exists ever gets another threshold or is reactivated by     *)
(* the bot.                                                                 *)
THEOREM BotsNeverUpdate ==
  Spec =>
  [][\A s \in Bots \ Apis :
       Commit(s) /\ op[s] = "track" =>
         \A r \in present \cap Slots :
           threshold'[r] = threshold[r] /\ (r \in active' <=> r \in active)]_vars
<1>1. Init => BotsMake
  BY DEF Init, BotsMake, Sessions
<1>2. ASSUME RuleInv, NewRowsAreUnique, BotsMake, NEW s \in Bots \ Apis, Commit(s),
             op[s] = "track", NEW r \in present \cap Slots
      PROVE  threshold'[r] = threshold[r] /\ (r \in active' <=> r \in active)
  <2>1. s \in Sessions /\ RequestOK(s) /\ slot[s] \in made[s]
    BY <1>2 DEF Sessions, RuleInv, RequestsInv, BotsMake, Commit
  <2>2. slot[s] \in Slots /\ r # slot[s] /\ r \notin made[s]
    BY <1>2, <2>1 DEF NewRowsAreUnique, RequestOK, Commit
  <2>3. r \notin Activated(s) /\ r \notin Deactivated(s)
    BY <1>2, <2>1, <2>2 DEF Activated, Deactivated, RequestOK
  <2>4. threshold'[r] = threshold[r]
    BY <1>2, <2>2 DEF Commit, RuleInv, TypeOK
  <2>5. QED
    BY <1>2, <2>3, <2>4 DEF Commit
<1>3. RuleInv /\ NewRowsAreUnique /\ BotsMake /\ [Next]_vars =>
        [\A s \in Bots \ Apis :
           Commit(s) /\ op[s] = "track" =>
             \A r \in present \cap Slots :
               threshold'[r] = threshold[r] /\ (r \in active' <=> r \in active)]_vars
  BY <1>2
<1>4. QED
  BY <1>1, <1>3, BotsMakeStep, RulesInductive, UniqueRows, PTL DEF Spec

-----------------------------------------------------------------------------
(* Why every request ends.  That it does (EveryRequestEnds) is checked, for *)
(* liveness is out of the provers' reach; the two facts it rests on are     *)
(* proved.  Some open request can always go on, but for a pair PostgreSQL   *)
(* ends, and a request that goes on comes closer to its end.                *)
Open == {s \in Sessions : pc[s] # "idle"}

\* The guards of Register, FlushProfile, Insert, Drop and Commit, negated: what
\* keeps s from its next step until f has ended.
WaitsFor(s, f) ==
  \/ pc[s] = "register" /\ Account \in made[f]
  \/ pc[s] \in {"insert", "commit"} /\ profile[s] = "changed" /\ profile[f] = "flushed"
  \/ pc[s] = "insert" /\ profile[s] # "changed" /\ slot[s] \in made[f]
  \/ pc[s] = "drop" /\ dropped[f] \cap SameToken[slot[s]] # {}
  \/ pc[s] = "commit" /\ profile[s] # "changed" /\ Flushed(s) \cap dropped[f] # {}

Waits(s) == \E f \in Sessions \ {s} : WaitsFor(s, f)

SomebodyIsReady ==
  Open # {} => \/ \E s \in Open : ~Waits(s)
               \/ \E s, f \in Open : s # f /\ Deadlocked(s, f)

(* What a session that holds a lock is doing.  The user's row is changed    *)
(* only where there is one, and its lock is sent for before the insert of a *)
(* rule or at the end; two sessions never deactivate the same rule.         *)
LocksOK(s) ==
  /\ profile[s] # "same" => Account \in present
  /\ profile[s] = "flushed" => pc[s] \in {"insert", "answer", "commit"}
  /\ made[s] \cap Slots # {} => profile[s] # "changed"
  /\ Account \in made[s] => pc[s] \notin {"idle", "account", "register"}

DropsApart == \A s, f \in Sessions : s # f => dropped[s] \cap dropped[f] = {}

LocksInv == DropsApart /\ \A s \in Sessions : LocksOK(s)

LEMMA OthersLock ==
  ASSUME NEW f \in Sessions, LocksOK(f), pc'[f] = pc[f], profile'[f] = profile[f],
         made'[f] = made[f], present \subseteq present'
  PROVE  LocksOK(f)'
BY DEF LocksOK

LEMMA LocksStep == RuleInv /\ LocksInv /\ [Next]_vars => LocksInv'
<1> SUFFICES ASSUME RuleInv, LocksInv, [Next]_vars
             PROVE  LocksInv'
  OBVIOUS
<1> USE DEF RuleInv, TypeOK
<1>1. ASSUME NEW s \in Sessions, present \subseteq present', LocksOK(s)',
             \A f \in Sessions \ {s} :
               pc'[f] = pc[f] /\ profile'[f] = profile[f] /\ made'[f] = made[f],
             \A f, g \in Sessions : f # g => dropped'[f] \cap dropped'[g] = {}
      PROVE  LocksInv'
  BY <1>1, OthersLock DEF LocksInv, DropsApart
<1>2. ASSUME NEW s \in Sessions, NEW o \in Ops(s), NEW r \in Slots, NEW t \in AsksFor(o),
             Request(s, o, r, t)
      PROVE  LocksInv'
  <2>1. LocksOK(s)'
    BY <1>2 DEF LocksInv, LocksOK, Request, Goto, ruleVars, writtenVars
  <2>2. QED
    BY <1>1, <1>2, <2>1 DEF LocksInv, DropsApart, Request, Goto, ruleVars, writtenVars
<1>3. ASSUME NEW s \in Sessions, ReadAccount(s)
      PROVE  LocksInv'
  <2>1. made[s] \cap Slots = {} /\ Account \notin made[s]
    BY <1>3 DEF ReadAccount, LocksInv, LocksOK, RequestsInv, RequestOK
  <2>2. profile[s] # "flushed"
    BY <1>3 DEF ReadAccount, LocksInv, LocksOK
  <2>3. LocksOK(s)'
    BY <1>3, <2>1, <2>2 DEF LocksInv, LocksOK, ReadAccount, Goto, ruleVars
  <2>4. QED
    BY <1>1, <1>3, <2>3 DEF LocksInv, DropsApart, ReadAccount, Goto, ruleVars
<1>4. ASSUME NEW s \in Sessions, FlushProfile(s)
      PROVE  LocksInv'
  <2>1. LocksOK(s)'
    BY <1>4 DEF LocksInv, LocksOK, FlushProfile, ruleVars
  <2>2. QED
    BY <1>1, <1>4, <2>1 DEF LocksInv, DropsApart, FlushProfile, ruleVars
<1>5. ASSUME NEW s \in Sessions, Register(s)
      PROVE  LocksInv'
  <2>1. op[s] \in {"track", "untrack"} /\ made[s] \cap Slots = {}
    BY <1>5 DEF Register, RequestsInv, RequestOK
  <2>2. pc'[s] \in {"find", "drop"} /\ made'[s] \cap Slots = {}
    BY <1>5, <2>1, RuleAssumption
    DEF Register, Goto, FirstStep, RuleAssumption
  <2>3. LocksOK(s)'
    BY <1>5, <2>2 DEF LocksInv, LocksOK, Register, ruleVars
  <2>4. QED
    BY <1>1, <1>5, <2>3 DEF LocksInv, DropsApart, Register, Goto, ruleVars
<1>6. ASSUME NEW s \in Sessions, Insert(s)
      PROVE  LocksInv'
  <2>1. LocksOK(s)'
    BY <1>6 DEF LocksInv, LocksOK, Insert, Goto, ruleVars
  <2>2. QED
    BY <1>1, <1>6, <2>1 DEF LocksInv, DropsApart, Insert, Goto, ruleVars
<1>7. ASSUME NEW s \in Sessions, Close(s), present \subseteq present'
      PROVE  LocksInv'
  <2>1. LocksOK(s)'
    BY <1>7 DEF LocksOK, Close, Goto
  <2>2. QED
    BY <1>1, <1>7, <2>1 DEF LocksInv, DropsApart, Close, Goto
<1>8. ASSUME NEW s \in Sessions,
             FindActive(s) \/ Count(s) \/ Lookup(s) \/ Load(s)
               \/ ((Refuse(s) \/ Answer(s)) /\ ~Close(s))
      PROVE  LocksInv'
  <2>1. /\ UNCHANGED <<present, profile, made, dropped>>
        /\ pc[s] \notin {"idle", "account", "register"}
        /\ profile[s] = "flushed" => pc[s] \in {"insert", "answer", "commit"}
        /\ \E label \in Labels \ {"idle", "account", "register"} :
             /\ pc' = [pc EXCEPT ![s] = label]
             /\ pc[s] \in {"insert", "answer", "commit"} =>
                  label \in {"insert", "answer", "commit"}
    BY <1>8 DEF FindActive, Count, Lookup, Load, Refuse, Answer, RollBack, Goto, Labels,
       ruleVars, writtenVars, LocksInv, LocksOK
  <2>2. LocksOK(s)'
    BY <2>1 DEF LocksInv, LocksOK
  <2>3. QED
    BY <1>1, <2>1, <2>2 DEF LocksInv, DropsApart
<1>9. ASSUME NEW s \in Sessions, Drop(s)
      PROVE  LocksInv'
  <2>1. LocksOK(s)'
    BY <1>9 DEF LocksInv, LocksOK, Drop, Goto, ruleVars
  <2>2. /\ dropped' = [dropped EXCEPT ![s] = SameToken[slot[s]] \cap active]
        /\ \A f \in Sessions \ {s} : dropped[f] \cap SameToken[slot[s]] = {}
    BY <1>9 DEF Drop
  <2>3. \A f, g \in Sessions : f # g => dropped'[f] \cap dropped'[g] = {}
    BY <2>2 DEF LocksInv, DropsApart
  <2>4. QED
    BY <1>1, <1>9, <2>1, <2>3 DEF Drop, Goto, ruleVars
<1>10. CASE UNCHANGED vars
  BY <1>10 DEF LocksInv, LocksOK, DropsApart, vars, ruleVars, writtenVars
<1>11. ASSUME NEW s \in Sessions,
              \/ InsertConflicts(s) \/ DeadlockDetected(s) \/ Fail(s) \/ Commit(s)
              \/ ((Refuse(s) \/ Answer(s)) /\ Close(s))
       PROVE  Close(s) /\ present \subseteq present'
  BY <1>11 DEF InsertConflicts, DeadlockDetected, Fail, Commit, Refuse, Answer, RollBack,
     ruleVars
<1>12. QED
  BY <1>2, <1>3, <1>4, <1>5, <1>6, <1>7, <1>8, <1>9, <1>10, <1>11 DEF Next, Continue

LEMMA LocksInvariant == Spec => []LocksInv
<1>1. Init => LocksInv
  BY DEF Init, LocksInv, LocksOK, DropsApart
<1>2. QED
  BY <1>1, LocksStep, RulesInductive, PTL DEF Spec

HoldersInv == RuleInv /\ EffectInv /\ LocksInv /\ NewRowsAreUnique

\* One that has inserted a rule has all it needs: nobody deactivates a row that
\* is not committed.
LEMMA MakerIsReady ==
  ASSUME HoldersInv, NEW f \in Sessions, made[f] \cap Slots # {}
  PROVE  f \in Open /\ ~Waits(f)
<1>1. /\ op[f] = "track" /\ pc[f] \in {"answer", "commit"}
      /\ made[f] \cap Slots = {slot[f]}
      /\ readActive[f] = "unread" /\ dropped[f] = {} /\ profile[f] # "changed"
  BY DEF HoldersInv, RuleInv, RequestsInv, RequestOK, LocksInv, LocksOK
<1>2. Flushed(f) \subseteq {slot[f]}
  BY <1>1 DEF Flushed, Changed, Activated, Deactivated, Revives, Retargets, Writes
<1>3. \A g \in Sessions : slot[f] \notin dropped[g]
  BY <1>1 DEF HoldersInv, NewRowsAreUnique, RuleInv, RequestsInv, RequestOK
<1>4. \A g \in Sessions : Flushed(f) \cap dropped[g] = {}
  BY <1>2, <1>3
<1>5. QED
  BY <1>1, <1>4 DEF Open, Waits, WaitsFor

\* One that has inserted the user is alone: there is no rule yet to wait for.
LEMMA RegistrarIsReady ==
  ASSUME HoldersInv, NEW f \in Sessions, Account \in made[f]
  PROVE  f \in Open /\ ~Waits(f)
<1>1. Account \notin present /\ \A g \in Sessions \ {f} : Account \notin made[g]
  BY DEF HoldersInv, NewRowsAreUnique
<1>2. profile[f] = "same" /\ pc[f] \notin {"idle", "register"}
  BY <1>1 DEF HoldersInv, LocksInv, LocksOK
<1>3. \A g \in Sessions : dropped[g] = {}
  BY <1>1 DEF HoldersInv, EffectInv, RuleInv, RequestsInv, RequestOK, TypeOK
<1>4. ASSUME NEW g \in Sessions \ {f}, pc[f] = "insert", slot[f] \in made[g]
      PROVE  FALSE
  <2>1. made[g] \cap Slots # {}
    BY <1>4 DEF HoldersInv, RuleInv, RequestsInv, RequestOK
  <2>2. op[g] = "track" /\ pc[g] \in {"answer", "commit"}
    BY <2>1 DEF HoldersInv, RuleInv, RequestsInv, RequestOK
  <2>3. QED
    BY <1>1, <2>2 DEF HoldersInv, EffectInv, AccountOK
<1>5. QED
  BY <1>2, <1>3, <1>4 DEF Open, Waits, WaitsFor

\* One that has deactivated rules waits for the user's row at most.
LEMMA DropperIsReady ==
  ASSUME HoldersInv, NEW f \in Sessions, dropped[f] # {}
  PROVE  /\ f \in Open /\ pc[f] = "commit"
         /\ profile[f] # "changed" => ~Waits(f)
<1>1. op[f] = "untrack" /\ pc[f] = "commit" /\ made[f] \cap Slots = {}
  BY DEF HoldersInv, RuleInv, RequestsInv, RequestOK
<1>2. Flushed(f) = dropped[f]
  BY <1>1 DEF Flushed, Changed, Activated, Deactivated, Revives, Retargets
<1>3. \A g \in Sessions \ {f} : Flushed(f) \cap dropped[g] = {}
  BY <1>2 DEF HoldersInv, LocksInv, DropsApart
<1>4. QED
  BY <1>1, <1>3 DEF Open, Waits, WaitsFor

\* One that holds the user's row waits for such a one at most.
LEMMA ProfileHolder ==
  ASSUME HoldersInv, NEW f \in Sessions, profile[f] = "flushed",
         \A s \in Open : Waits(s)
  PROVE  \E h \in Open : f \in Open /\ f # h /\ Deadlocked(f, h)
<1>1. f \in Open /\ pc[f] \in {"insert", "answer", "commit"}
  BY DEF HoldersInv, LocksInv, LocksOK, Open
<1>2. PICK g \in Sessions \ {f} : WaitsFor(f, g)
  BY <1>1 DEF Waits
<1>3. pc[f] # "insert"
  <2>1. slot[f] \in Slots
    BY <1>1 DEF HoldersInv, RuleInv, RequestsInv, RequestOK
  <2>2. pc[f] = "insert" => made[g] \cap Slots # {}
    BY <1>2, <2>1 DEF WaitsFor
  <2>3. QED
    BY <2>2, MakerIsReady
<1>4. pc[f] = "commit" /\ Flushed(f) \cap dropped[g] # {}
  BY <1>1, <1>2, <1>3 DEF WaitsFor
<1>5. g \in Open /\ pc[g] = "commit" /\ profile[g] = "changed"
  <2>1. dropped[g] # {}
    BY <1>4
  <2>2. QED
    BY <2>1, DropperIsReady
<1>6. QED
  BY <1>1, <1>4, <1>5 DEF Deadlocked

(* Nothing waits without somebody to wait for: while a request is open, one *)
(* can take its next step, or two of them hold what the other needs, which  *)
(* PostgreSQL detects and breaks (get_or_create, create, deactivate_by_token).*)
THEOREM SomebodyReady == Spec => []SomebodyIsReady
<1>1. HoldersInv => SomebodyIsReady
  <2> SUFFICES ASSUME HoldersInv, NEW s \in Open, \A t \in Open : Waits(t)
               PROVE  \E t, f \in Open : t # f /\ Deadlocked(t, f)
    BY DEF SomebodyIsReady
  <2>1. PICK f \in Sessions \ {s} : WaitsFor(s, f)
    BY DEF Waits
  <2>2. s \in Sessions /\ slot[s] \in Slots
    BY DEF Open, HoldersInv, RuleInv, RequestsInv, RequestOK
  <2>3. CASE Account \in made[f] \/ made[f] \cap Slots # {}
    BY <2>3, MakerIsReady, RegistrarIsReady
  <2>4. CASE profile[f] = "flushed"
    BY <2>4, ProfileHolder
  <2>5. CASE dropped[f] # {}
    <3>1. f \in Open /\ pc[f] = "commit" /\ profile[f] = "changed"
      BY <2>5, DropperIsReady
    <3>2. PICK g \in Sessions \ {f} : WaitsFor(f, g)
      BY <3>1 DEF Waits
    <3>3. profile[g] = "flushed"
      BY <3>1, <3>2 DEF WaitsFor
    <3>4. QED
      BY <3>3, ProfileHolder
  <2>6. QED
    BY <2>1, <2>2, <2>3, <2>4, <2>5 DEF WaitsFor
<1>2. QED
  BY <1>1, RulesInductive, EffectInvariant, LocksInvariant, UniqueRows, PTL
  DEF HoldersInv

\* How far a request is from its end.
Rank == [account |-> 8, register |-> 7, find |-> 6, count |-> 5, lookup |-> 4,
         insert |-> 3, answer |-> 2, drop |-> 2, load |-> 2, commit |-> 1]

RequestsMoveOn ==
  [][\A s \in Open :
       <<pc'[s], profile'[s]>> # <<pc[s], profile[s]>> =>
         \/ pc'[s] = "idle"
         \/ Rank[pc'[s]] < Rank[pc[s]]
         \/ pc'[s] = pc[s] /\ profile[s] = "changed" /\ profile'[s] = "flushed"]_vars

(* A request never goes back: each step that moves it brings it closer to   *)
(* its end or locks the user's row, which it does once, whatever the other  *)
(* requests do.  So it takes at most nine steps.                            *)
THEOREM RequestsProgress == Spec => RequestsMoveOn
<1> DEFINE A == \A s \in Open :
       <<pc'[s], profile'[s]>> # <<pc[s], profile[s]>> =>
         \/ pc'[s] = "idle"
         \/ Rank[pc'[s]] < Rank[pc[s]]
         \/ pc'[s] = pc[s] /\ profile[s] = "changed" /\ profile'[s] = "flushed"
<1>1. RuleInv /\ [Next]_vars => [A]_vars
  <2> SUFFICES ASSUME RuleInv, [Next]_vars
               PROVE  A
    OBVIOUS
  <2> USE DEF RuleInv, TypeOK, Open, Rank
  <2>1. ASSUME NEW f \in Sessions, NEW o \in Ops(f), NEW r \in Slots,
               NEW t \in AsksFor(o), Request(f, o, r, t)
        PROVE  A
    BY <2>1 DEF Request, Goto, writtenVars
  <2>2. ASSUME NEW f \in Sessions, ReadAccount(f) \/ Register(f)
        PROVE  A
    <3>1. op[f] \in {"track", "untrack", "delete"}
      BY <2>2 DEF ReadAccount, Register, RequestsInv, RequestOK
    <3>2. FirstStep[op[f]] \in {"find", "drop", "load"}
      BY <3>1 DEF FirstStep
    <3>3. QED
      BY <2>2, <3>2 DEF ReadAccount, Register, Goto
  <2>3. ASSUME NEW f \in Sessions, FlushProfile(f)
        PROVE  A
    BY <2>3 DEF FlushProfile
  <2>4. ASSUME NEW f \in Sessions,
               \/ Insert(f) \/ FindActive(f) \/ Count(f) \/ Lookup(f) \/ Drop(f) \/ Load(f)
        PROVE  A
    BY <2>4 DEF Insert, FindActive, Count, Lookup, Drop, Load, Goto, writtenVars
  <2>5. ASSUME NEW f \in Sessions, Close(f)
        PROVE  A
    BY <2>5 DEF Close, Goto
  <2>6. ASSUME NEW f \in Sessions, (Refuse(f) \/ Answer(f)) /\ ~Close(f)
        PROVE  A
    BY <2>6 DEF Refuse, Answer, RollBack, Goto, writtenVars
  <2>7. CASE UNCHANGED vars
    BY <2>7 DEF vars, writtenVars
  <2>8. QED
    BY <2>1, <2>2, <2>3, <2>4, <2>5, <2>6, <2>7
    DEF Next, Continue, InsertConflicts, DeadlockDetected, Fail, Commit, RollBack
<1>2. QED
  BY <1>1, RulesInductive, PTL DEF Spec, RequestsMoveOn
=============================================================================
