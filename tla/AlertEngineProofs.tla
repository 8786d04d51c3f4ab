------------------------- MODULE AlertEngineProofs -------------------------
(***************************************************************************)
(* Theorems about the alert engines: any number of processes, rules, users *)
(* and whales, any number of failures, restarts and edits.                 *)
(***************************************************************************)
EXTENDS AlertEngine, TLAPS

(* What one session holds at each point of handle_whale.  TypeOK is not    *)
(* inductive without it: only statuses that are final are committed.       *)
SessionInv(e) ==
  /\ pc[e] = "idle" => /\ whale[e] = None /\ todo[e] = {}
                       /\ draft[e] = NoDrafts /\ reached[e] = {}
  /\ pc[e] # "idle" => whale[e] \in Whales
  /\ pc[e] \in {"user", "insert", "deliver", "chain"} => rule[e] \in Rules
  /\ pc[e] \in {"user", "insert"} => draft[e][rule[e]] = "none"
  /\ pc[e] = "deliver" => /\ draft[e][rule[e]] = "PENDING"
                          /\ rule[e] \notin reached[e]
  /\ \A r \in Rules : draft[e][r] = "PENDING" => pc[e] = "deliver" /\ r = rule[e]
  /\ \A r \in reached[e] : draft[e][r] \in {"SENT", "FAILED"}
  /\ \A r \in Rules : draft[e][r] = "SENT" => r \in reached[e]

SessionsInv == \A e \in Engines : SessionInv(e)

LEMMA TypeAndSessionsStep ==
  ASSUME TypeOK, SessionsInv, [Next]_vars
  PROVE  TypeOK' /\ SessionsInv'
<1> USE EngineAssumption
    DEF EngineAssumption, TypeOK, Keys, Final, Drafts, Labels, NoDrafts
<1>1. ASSUME NEW e \in Engines, NEW w \in Whales, Begin(e, w)
      PROVE  TypeOK' /\ SessionsInv'
  <2>1. TypeOK'
    <3>1. CASE active \cap Matching[w] = {}
      BY <1>1, <3>1 DEF Begin, Goto, SessionCache, Unread, dbVars, engineVars
    <3>2. CASE active \cap Matching[w] # {}
      <4>1. active \cap Matching[w] \in SUBSET Rules
        OBVIOUS
      <4>2. Users \ notify \in SUBSET Users
        OBVIOUS
      <4>3. todo' \in [Engines -> SUBSET Rules]
        BY <1>1, <3>2, <4>1 DEF Begin
      <4>4. matched' \in [Engines -> SUBSET Rules]
        BY <1>1, <3>2, <4>1 DEF Begin
      <4>5. quiet' \in [Engines -> SUBSET Users]
        BY <1>1, <3>2, <4>2 DEF Begin
      <4>6. pc' \in [Engines -> Labels]
        <5>1. pc' = [pc EXCEPT ![e] = "loop"]
          BY <1>1, <3>2, Zenon DEF Begin, Goto
        <5>2. QED
          BY <5>1
      <4>7. whale' \in [Engines -> Whales \cup {None}]
        BY <1>1, <3>2 DEF Begin
      <4>8. Unread \in [Users -> {"unread", "on", "off"}]
        BY DEF Unread
      <4>9. cached' \in [Engines -> [Users -> {"unread", "on", "off"}]]
        BY <1>1, <3>2, <4>8 DEF Begin, SessionCache
      <4>10. runs' \in [Engines -> Nat]
        <5>1. runs' = [runs EXCEPT ![e] = @ + 1]
          BY <1>1, <3>2, Zenon DEF Begin
        <5>2. QED
          BY <5>1
      <4>11. QED
        BY <1>1, <3>2, <4>3, <4>4, <4>5, <4>6, <4>7, <4>9, <4>10 DEF Begin, dbVars
    <3>3. QED
      BY <3>1, <3>2
  <2>2. SessionsInv'
    BY <1>1 DEF SessionsInv, SessionInv, Begin, Goto, SessionCache, Unread, dbVars, engineVars
  <2>3. QED
    BY <2>1, <2>2
<1>2. ASSUME NEW e \in Engines, NEW r \in todo[e], Visit(e, r)
      PROVE  TypeOK' /\ SessionsInv'
  <2>1. TypeOK'
    <3>1. CASE Exists(e, r)
      BY <1>2, <3>1 DEF Visit, Goto, dbVars
    <3>2. CASE ~Exists(e, r)
      <4>1. r \in Rules
        BY <1>2
      <4>2. todo' \in [Engines -> SUBSET Rules]
        BY <1>2 DEF Visit
      <4>3. pc' \in [Engines -> Labels]
        BY <1>2, <3>2 DEF Visit, Goto
      <4>4. rule' \in [Engines -> Rules \cup {None}]
        BY <1>2, <3>2, <4>1 DEF Visit, Goto
      <4>5. QED
        BY <1>2, <4>2, <4>3, <4>4 DEF Visit, dbVars
    <3>3. QED
      BY <3>1, <3>2
  <2>2. SessionsInv'
    BY <1>2 DEF SessionsInv, SessionInv, Visit, Exists, Goto, dbVars
  <2>3. QED
    BY <2>1, <2>2
<1>3. ASSUME NEW e \in Engines, LoadUser(e)
      PROVE  TypeOK' /\ SessionsInv'
  <2>1. TypeOK'
    BY <1>3 DEF SessionsInv, SessionInv, LoadUser, Goto, dbVars
  <2>2. SessionsInv'
    BY <1>3 DEF SessionsInv, SessionInv, LoadUser, Goto, dbVars
  <2>3. QED
    BY <2>1, <2>2
<1>4. ASSUME NEW e \in Engines, Insert(e)
      PROVE  TypeOK' /\ SessionsInv'
  <2>1. TypeOK'
    BY <1>4 DEF SessionsInv, SessionInv, Insert, Goto, dbVars
  <2>2. SessionsInv'
    BY <1>4 DEF SessionsInv, SessionInv, Insert, Goto, dbVars
  <2>3. QED
    BY <2>1, <2>2
<1>5. ASSUME NEW e \in Engines, Suppress(e)
      PROVE  TypeOK' /\ SessionsInv'
  <2>1. TypeOK'
    BY <1>5 DEF SessionsInv, SessionInv, Suppress, SetStatus, Goto, dbVars
  <2>2. SessionsInv'
    BY <1>5 DEF SessionsInv, SessionInv, Suppress, SetStatus, Goto, dbVars
  <2>3. QED
    BY <2>1, <2>2
<1>6. ASSUME NEW e \in Engines, NoNotifier(e)
      PROVE  TypeOK' /\ SessionsInv'
  <2>1. TypeOK'
    BY <1>6 DEF SessionsInv, SessionInv, NoNotifier, SetStatus, Goto, dbVars
  <2>2. SessionsInv'
    BY <1>6 DEF SessionsInv, SessionInv, NoNotifier, SetStatus, Goto, dbVars
  <2>3. QED
    BY <2>1, <2>2
<1>7. ASSUME NEW e \in Engines, NEW reply \in Replies, Deliver(e, reply)
      PROVE  TypeOK' /\ SessionsInv'
  <2>1. TypeOK'
    <3>1. CASE reply = "refused"
      BY <1>7, <3>1 DEF Deliver, StatusAfter, SetStatus, Goto, dbVars
    <3>2. CASE reply # "refused"
      <4>1. told' \in [Keys -> Nat]
        BY <1>7, <3>2 DEF Deliver, MessageArrives
      <4>2. rule[e] \in Rules
        BY <1>7 DEF Deliver, SessionsInv, SessionInv
      <4>3. reached' \in [Engines -> SUBSET Rules]
        <5>1. reached[e] \cup {rule[e]} \in SUBSET Rules
          BY <4>2
        <5>2. reached' = [reached EXCEPT ![e] = @ \cup {rule[e]}]
          BY <1>7, <3>2 DEF Deliver, MessageArrives
        <5>3. QED
          BY <5>1, <5>2
      <4>4. /\ pc' \in [Engines -> Labels]
            /\ draft' \in [Engines -> [Rules -> Drafts]]
        BY <1>7 DEF Deliver, StatusAfter, SetStatus, Goto
      <4>5. QED
        BY <1>7, <4>1, <4>3, <4>4 DEF Deliver, SetStatus, dbVars
    <3>3. QED
      BY <3>1, <3>2
  <2>2. SessionsInv'
    BY <1>7 DEF SessionsInv, SessionInv, Deliver, StatusAfter, SetStatus, MessageArrives, Goto,
         Key, dbVars
  <2>3. QED
    BY <2>1, <2>2
<1>8. ASSUME NEW e \in Engines, LogOnChain(e)
      PROVE  TypeOK' /\ SessionsInv'
  <2>1. TypeOK'
    BY <1>8 DEF LogOnChain, Goto, dbVars
  <2>2. SessionsInv'
    BY <1>8 DEF SessionsInv, SessionInv, LogOnChain, Goto, dbVars
  <2>3. QED
    BY <2>1, <2>2
<1>9. ASSUME NEW e \in Engines, Commit(e)
      PROVE  TypeOK' /\ SessionsInv'
  <2>1. TypeOK'
    BY <1>9 DEF SessionsInv, SessionInv, Commit, EndSession, Goto, Drafted
  <2>2. SessionsInv'
    BY <1>9 DEF SessionsInv, SessionInv, Commit, EndSession, Goto, Drafted
  <2>3. QED
    BY <2>1, <2>2
<1>10. ASSUME NEW e \in Engines, RollBack(e), aborts' \in Nat
      PROVE  TypeOK' /\ SessionsInv'
  <2>1. TypeOK'
    BY <1>10 DEF RollBack, EndSession, Goto
  <2>2. SessionsInv'
    BY <1>10 DEF SessionsInv, SessionInv, RollBack, EndSession, Goto
  <2>3. QED
    BY <2>1, <2>2
<1>11. ASSUME NEW e \in Engines,
              InsertConflicts(e) \/ DeadlockDetected(e) \/ Abort(e)
       PROVE  TypeOK' /\ SessionsInv'
  <2>1. RollBack(e)
    BY <1>11 DEF InsertConflicts, DeadlockDetected, Abort
  <2>2. aborts' \in Nat
    BY <1>11 DEF InsertConflicts, DeadlockDetected, Abort
  <2>3. QED
    BY <1>10, <2>1, <2>2
<1>12. ASSUME NEW r \in Rules, EditRule(r)
       PROVE  TypeOK' /\ SessionsInv'
  BY <1>12 DEF SessionsInv, SessionInv, EditRule, Edit
<1>13. ASSUME NEW u \in Users, EditNotify(u)
       PROVE  TypeOK' /\ SessionsInv'
  BY <1>13 DEF SessionsInv, SessionInv, EditNotify, Edit
<1>14. CASE UNCHANGED vars
  BY <1>14 DEF SessionsInv, SessionInv, vars, dbVars, engineVars
<1>15. QED
  BY <1>1, <1>2, <1>3, <1>4, <1>5, <1>6, <1>7, <1>8, <1>9, <1>11, <1>12, <1>13,
     <1>14 DEF Next, Continue, Proceed, Refused, DeliverAny

LEMMA TypesAndSessions == Spec => [](TypeOK /\ SessionsInv)
<1>1. Init => TypeOK /\ SessionsInv
  BY EngineAssumption DEF EngineAssumption, Init, TypeOK, SessionsInv, SessionInv,
     Keys, Final, Drafts, Labels, Unread, NoDrafts
<1>2. TypeOK /\ SessionsInv /\ [Next]_vars => (TypeOK /\ SessionsInv)'
  BY TypeAndSessionsStep
<1>3. QED
  BY <1>1, <1>2, PTL DEF Spec

(* The database rows, the sessions and the counters keep their types.      *)
THEOREM TypeCorrect == Spec => []TypeOK
BY TypesAndSessions, PTL

-----------------------------------------------------------------------------
(* Why a key has one row.  The row of an open transaction is fresh (no row *)
(* of its key is committed) and exclusive (no other open transaction has   *)
(* one): the unique index makes every other insert wait or fail.  Every    *)
(* message is then accounted for by a row that was rolled back, by the one *)
(* committed row, or by the one open transaction that sent it.             *)
DraftsAreFresh ==
  \A e \in Engines, r \in Rules :
    draft[e][r] # "none" => history[<<r, whale[e]>>] = <<>>

DraftsExclude ==
  \A e, f \in Engines, r \in Rules :
    e # f /\ draft[e][r] # "none" /\ draft[f][r] # "none" => whale[e] # whale[f]

Reaching(r, w) == \E e \in Engines : whale[e] = w /\ r \in reached[e]

MessagesAccounted ==
  \A r \in Rules, w \in Whales :
    /\ told[<<r, w>>] <= lost[<<r, w>>] + 1
    /\ history[<<r, w>>] = <<>> /\ ~Reaching(r, w) =>
         told[<<r, w>>] <= lost[<<r, w>>]

SentWasTold ==
  /\ \A e \in Engines, r \in Rules : r \in reached[e] => told[<<r, whale[e]>>] > 0
  /\ \A r \in Rules, w \in Whales :
       history[<<r, w>>] # <<>> /\ history[<<r, w>>][1] = "SENT" =>
         told[<<r, w>>] > 0

RowsInv ==
  OneRowPerKey /\ DraftsAreFresh /\ DraftsExclude /\ MessagesAccounted /\ SentWasTold

LEMMA RowsBegin ==
  ASSUME TypeOK, SessionsInv, RowsInv, NEW e \in Engines, NEW w \in Whales, Begin(e, w)
  PROVE  RowsInv'
<1>1. /\ draft[e] = NoDrafts /\ reached[e] = {}
      /\ draft' = draft /\ reached' = reached /\ history' = history
      /\ told' = told /\ lost' = lost
  BY DEF Begin, SessionsInv, SessionInv, engineVars, dbVars
<1>2. whale' \in [Engines -> Whales \cup {None}] /\ \A f \in Engines : f # e => whale'[f] = whale[f]
  BY DEF Begin, TypeOK, engineVars
<1>3. OneRowPerKey' /\ DraftsAreFresh' /\ DraftsExclude'
  BY <1>1, <1>2 DEF RowsInv, OneRowPerKey, DraftsAreFresh, DraftsExclude, NoDrafts
<1>4. \A r \in Rules, v \in Whales : Reaching(r, v)' <=> Reaching(r, v)
  BY <1>1, <1>2 DEF Reaching
<1>5. MessagesAccounted' /\ SentWasTold'
  BY <1>1, <1>2, <1>4 DEF RowsInv, MessagesAccounted, SentWasTold
<1>6. QED
  BY <1>3, <1>5 DEF RowsInv

LEMMA RowsInsert ==
  ASSUME TypeOK, SessionsInv, RowsInv, NEW e \in Engines, Insert(e)
  PROVE  RowsInv'
<1>1. /\ rule[e] \in Rules
      /\ history[<<rule[e], whale[e]>>] = <<>>
      /\ \A f \in Engines : f # e /\ draft[f][rule[e]] # "none" => whale[f] # whale[e]
  BY DEF Insert, InsertIsUnique, Waits, Holds, Key, SessionsInv, SessionInv
<1>2. /\ draft' = [draft EXCEPT ![e][rule[e]] = "PENDING"]
      /\ reached' = reached /\ history' = history /\ whale' = whale
      /\ told' = told /\ lost' = lost
  BY DEF Insert, dbVars
<1>3. DraftsAreFresh'
  BY <1>1, <1>2 DEF RowsInv, DraftsAreFresh, TypeOK
<1>4. DraftsExclude'
  BY <1>1, <1>2 DEF RowsInv, DraftsExclude, TypeOK
<1>5. OneRowPerKey' /\ MessagesAccounted' /\ SentWasTold'
  BY <1>2 DEF RowsInv, OneRowPerKey, MessagesAccounted, SentWasTold, Reaching
<1>6. QED
  BY <1>3, <1>4, <1>5 DEF RowsInv

(* A status is set on the row of the rule that is being visited.           *)
LEMMA RowsStatus ==
  ASSUME TypeOK, SessionsInv, RowsInv, NEW e \in Engines, NEW status \in Final,
         pc[e] = "deliver", SetStatus(e, status), history' = history
  PROVE  OneRowPerKey' /\ DraftsAreFresh' /\ DraftsExclude'
<1>1. rule[e] \in Rules /\ draft[e][rule[e]] # "none"
  BY DEF SessionsInv, SessionInv
<1>2. whale' = whale /\ draft' = [draft EXCEPT ![e][rule[e]] = status]
  BY DEF SetStatus
<1>3. \A f \in Engines, r \in Rules : draft'[f][r] # "none" => draft[f][r] # "none"
  BY <1>1, <1>2 DEF TypeOK
<1>4. QED
  BY <1>2, <1>3 DEF RowsInv, OneRowPerKey, DraftsAreFresh, DraftsExclude

LEMMA RowsDeliver ==
  ASSUME TypeOK, SessionsInv, RowsInv, NEW e \in Engines, pc[e] = "deliver",
         MessageArrives(e), whale' = whale, lost' = lost, history' = history
  PROVE  MessagesAccounted' /\ SentWasTold'
<1> DEFINE k == <<rule[e], whale[e]>>
<1>1. /\ rule[e] \in Rules /\ whale[e] \in Whales
      /\ draft[e][rule[e]] # "none" /\ rule[e] \notin reached[e]
  BY DEF SessionsInv, SessionInv
<1>2. k \in Keys /\ told \in [Keys -> Nat] /\ lost \in [Keys -> Nat]
  BY <1>1 DEF Keys, TypeOK
<1>3. history[k] = <<>>
  BY <1>1 DEF RowsInv, DraftsAreFresh
<1>4. ~Reaching(rule[e], whale[e])
  BY <1>1 DEF RowsInv, DraftsExclude, Reaching, SessionsInv, SessionInv
<1>5. told[k] <= lost[k]
  BY <1>1, <1>3, <1>4 DEF RowsInv, MessagesAccounted
<1>6. told' = [told EXCEPT ![k] = @ + 1]
  BY DEF MessageArrives, Key
<1>7. \A q \in Keys : told'[q] = IF q = k THEN told[k] + 1 ELSE told[q]
  BY <1>2, <1>6
<1>8. reached' = [reached EXCEPT ![e] = @ \cup {rule[e]}]
  BY DEF MessageArrives
<1>9. \A r \in Rules, w \in Whales : Reaching(r, w)' <=> Reaching(r, w) \/ <<r, w>> = k
  BY <1>1, <1>8 DEF Reaching, TypeOK
<1>10. MessagesAccounted'
  <2> SUFFICES ASSUME NEW r \in Rules, NEW w \in Whales
               PROVE  /\ told'[<<r, w>>] <= lost[<<r, w>>] + 1
                      /\ history[<<r, w>>] = <<>> /\ ~Reaching(r, w)' =>
                           told'[<<r, w>>] <= lost[<<r, w>>]
    BY DEF MessagesAccounted
  <2>1. <<r, w>> \in Keys /\ told[<<r, w>>] \in Nat /\ lost[<<r, w>>] \in Nat
    BY <1>2 DEF Keys
  <2>2. CASE <<r, w>> = k
    BY <1>5, <1>7, <1>9, <2>1, <2>2
  <2>3. CASE <<r, w>> # k
    <3>1. told'[<<r, w>>] = told[<<r, w>>]
      BY <1>7, <2>1, <2>3
    <3>2. ~Reaching(r, w)' => ~Reaching(r, w)
      BY <1>9
    <3>3. QED
      BY <3>1, <3>2 DEF RowsInv, MessagesAccounted
  <2>4. QED
    BY <2>2, <2>3
<1>11. SentWasTold'
  <2>1. \A r \in Rules, w \in Whales : told[<<r, w>>] > 0 => told'[<<r, w>>] > 0
    <3> SUFFICES ASSUME NEW r \in Rules, NEW w \in Whales
                 PROVE  told[<<r, w>>] > 0 => told'[<<r, w>>] > 0
      OBVIOUS
    <3>1. <<r, w>> \in Keys
      BY DEF Keys
    <3>2. told[<<r, w>>] \in Nat /\ told[k] \in Nat
      BY <1>2, <3>1
    <3>3. told'[<<r, w>>] = IF <<r, w>> = k THEN told[k] + 1 ELSE told[<<r, w>>]
      BY <1>7, <3>1
    <3>4. QED
      BY <3>2, <3>3
  <2>2. ASSUME NEW f \in Engines, NEW r \in Rules, r \in reached'[f]
        PROVE  told'[<<r, whale[f]>>] > 0
    <3>1. CASE f = e /\ r = rule[e]
      BY <1>2, <1>7, <3>1
    <3>2. CASE ~(f = e /\ r = rule[e])
      <4>1. r \in reached[f]
        BY <1>8, <2>2, <3>2 DEF TypeOK
      <4>2. pc[f] # "idle"
        BY <4>1 DEF SessionsInv, SessionInv
      <4>3. whale[f] \in Whales
        BY <4>2 DEF SessionsInv, SessionInv
      <4>4. told[<<r, whale[f]>>] > 0
        BY <4>1 DEF RowsInv, SentWasTold
      <4>5. QED
        BY <2>1, <4>3, <4>4
    <3>3. QED
      BY <3>1, <3>2
  <2>3. ASSUME NEW r \in Rules, NEW w \in Whales,
               history[<<r, w>>] # <<>>, history[<<r, w>>][1] = "SENT"
        PROVE  told'[<<r, w>>] > 0
    <3>1. told[<<r, w>>] > 0
      BY <2>3 DEF RowsInv, SentWasTold
    <3>2. QED
      BY <2>1, <3>1
  <2>4. QED
    BY <2>2, <2>3 DEF SentWasTold
<1>12. QED
  BY <1>10, <1>11

LEMMA RowsCommit ==
  ASSUME TypeOK, SessionsInv, RowsInv, NEW e \in Engines, Commit(e)
  PROVE  RowsInv'
<1>1. /\ whale' = [whale EXCEPT ![e] = None] /\ draft' = [draft EXCEPT ![e] = NoDrafts]
      /\ reached' = [reached EXCEPT ![e] = {}]
      /\ told' = told /\ lost' = lost
      /\ pc[e] = "loop"
  BY DEF Commit, EndSession
<1>2. \A r \in Rules, w \in Whales :
        history'[<<r, w>>] = IF whale[e] = w /\ draft[e][r] # "none"
                               THEN Append(history[<<r, w>>], draft[e][r])
                               ELSE history[<<r, w>>]
  BY DEF Commit, Drafted, Keys
<1>3. \A r \in Rules, w \in Whales :
        whale[e] = w /\ draft[e][r] # "none" =>
          /\ draft[e][r] \in Final
          /\ history[<<r, w>>] = <<>>
          /\ history'[<<r, w>>] = <<draft[e][r]>>
  <2> SUFFICES ASSUME NEW r \in Rules, NEW w \in Whales, whale[e] = w, draft[e][r] # "none"
               PROVE  /\ draft[e][r] \in Final
                      /\ history[<<r, w>>] = <<>>
                      /\ history'[<<r, w>>] = <<draft[e][r]>>
    OBVIOUS
  <2>1. draft[e][r] \in Final
    BY <1>1 DEF SessionsInv, SessionInv, TypeOK, Drafts
  <2>2. history[<<r, w>>] = <<>>
    BY DEF RowsInv, DraftsAreFresh
  <2>3. history'[<<r, w>>] = Append(<<>>, draft[e][r])
    BY <1>2, <2>2
  <2>4. QED
    BY <2>1, <2>2, <2>3
<1>4. OneRowPerKey'
  <2> SUFFICES ASSUME NEW r \in Rules, NEW w \in Whales
               PROVE  Len(history'[<<r, w>>]) <= 1
    BY DEF OneRowPerKey, Keys
  <2>1. Len(history[<<r, w>>]) <= 1
    BY DEF RowsInv, OneRowPerKey, Keys
  <2>2. QED
    BY <1>2, <1>3, <2>1
<1>5. \A f \in Engines, r \in Rules :
        draft'[f][r] # "none" => f # e /\ draft[f][r] # "none" /\ whale'[f] = whale[f]
  BY <1>1 DEF TypeOK, NoDrafts
<1>6. DraftsAreFresh'
  <2> SUFFICES ASSUME NEW f \in Engines, NEW r \in Rules, draft'[f][r] # "none"
               PROVE  history'[<<r, whale'[f]>>] = <<>>
    BY DEF DraftsAreFresh
  <2>1. f # e /\ draft[f][r] # "none" /\ whale'[f] = whale[f] /\ whale[f] \in Whales
    BY <1>5 DEF SessionsInv, SessionInv, NoDrafts
  <2>2. ~(whale[e] = whale[f] /\ draft[e][r] # "none")
    BY <2>1 DEF RowsInv, DraftsExclude
  <2>3. history[<<r, whale[f]>>] = <<>>
    BY <2>1 DEF RowsInv, DraftsAreFresh
  <2>4. QED
    BY <1>2, <2>1, <2>2, <2>3
<1>7. DraftsExclude'
  BY <1>5 DEF RowsInv, DraftsExclude
<1>8. MessagesAccounted'
  <2> SUFFICES ASSUME NEW r \in Rules, NEW w \in Whales
               PROVE  /\ told[<<r, w>>] <= lost[<<r, w>>] + 1
                      /\ history'[<<r, w>>] = <<>> /\ ~Reaching(r, w)' =>
                           told[<<r, w>>] <= lost[<<r, w>>]
    BY <1>1 DEF MessagesAccounted
  <2>1. told[<<r, w>>] <= lost[<<r, w>>] + 1
    BY DEF RowsInv, MessagesAccounted
  <2>2. ASSUME history'[<<r, w>>] = <<>>, ~Reaching(r, w)'
        PROVE  told[<<r, w>>] <= lost[<<r, w>>]
    <3>1. ~(whale[e] = w /\ draft[e][r] # "none") /\ history[<<r, w>>] = <<>>
      BY <1>2, <1>3, <2>2
    <3>2. ~Reaching(r, w)
      BY <1>1, <2>2, <3>1 DEF Reaching, SessionsInv, SessionInv, TypeOK
    <3>3. QED
      BY <3>1, <3>2 DEF RowsInv, MessagesAccounted
  <2>3. QED
    BY <2>1, <2>2
<1>9. SentWasTold'
  <2>1. ASSUME NEW f \in Engines, NEW r \in Rules, r \in reached'[f]
        PROVE  told[<<r, whale'[f]>>] > 0
    BY <1>1, <2>1 DEF RowsInv, SentWasTold, TypeOK
  <2>2. ASSUME NEW r \in Rules, NEW w \in Whales,
               history'[<<r, w>>] # <<>>, history'[<<r, w>>][1] = "SENT"
        PROVE  told[<<r, w>>] > 0
    <3>1. CASE whale[e] = w /\ draft[e][r] # "none"
      <4>1. draft[e][r] = "SENT"
        BY <1>3, <2>2, <3>1
      <4>2. r \in reached[e]
        BY <4>1 DEF SessionsInv, SessionInv
      <4>3. QED
        BY <3>1, <4>2 DEF RowsInv, SentWasTold
    <3>2. CASE ~(whale[e] = w /\ draft[e][r] # "none")
      BY <1>2, <2>2, <3>2 DEF RowsInv, SentWasTold
    <3>3. QED
      BY <3>1, <3>2
  <2>3. QED
    BY <1>1, <2>1, <2>2 DEF SentWasTold
<1>10. QED
  BY <1>4, <1>6, <1>7, <1>8, <1>9 DEF RowsInv

LEMMA RowsRollBack ==
  ASSUME TypeOK, SessionsInv, RowsInv, NEW e \in Engines, RollBack(e)
  PROVE  RowsInv'
<1>1. /\ whale' = [whale EXCEPT ![e] = None] /\ draft' = [draft EXCEPT ![e] = NoDrafts]
      /\ reached' = [reached EXCEPT ![e] = {}]
      /\ told' = told /\ history' = history
  BY DEF RollBack, EndSession
<1>2. \A r \in Rules, w \in Whales :
        lost'[<<r, w>>] = IF whale[e] = w /\ r \in reached[e]
                            THEN lost[<<r, w>>] + 1 ELSE lost[<<r, w>>]
  BY DEF RollBack, Keys
<1>3. \A f \in Engines, r \in Rules :
        draft'[f][r] # "none" => f # e /\ draft[f][r] # "none" /\ whale'[f] = whale[f]
  BY <1>1 DEF TypeOK, NoDrafts
<1>4. OneRowPerKey' /\ DraftsAreFresh' /\ DraftsExclude'
  BY <1>1, <1>3 DEF RowsInv, OneRowPerKey, DraftsAreFresh, DraftsExclude
<1>5. MessagesAccounted'
  <2> SUFFICES ASSUME NEW r \in Rules, NEW w \in Whales
               PROVE  /\ told[<<r, w>>] <= lost'[<<r, w>>] + 1
                      /\ history[<<r, w>>] = <<>> /\ ~Reaching(r, w)' =>
                           told[<<r, w>>] <= lost'[<<r, w>>]
    BY <1>1 DEF MessagesAccounted
  <2>1. told[<<r, w>>] \in Nat /\ lost[<<r, w>>] \in Nat /\ told[<<r, w>>] <= lost[<<r, w>>] + 1
    BY DEF TypeOK, Keys, RowsInv, MessagesAccounted
  <2>2. CASE whale[e] = w /\ r \in reached[e]
    BY <1>2, <2>1, <2>2
  <2>3. CASE ~(whale[e] = w /\ r \in reached[e])
    <3>1. ~Reaching(r, w)' => ~Reaching(r, w)
      BY <1>1, <2>3 DEF Reaching, TypeOK
    <3>2. QED
      BY <1>2, <2>3, <3>1 DEF RowsInv, MessagesAccounted
  <2>4. QED
    BY <2>2, <2>3
<1>6. SentWasTold'
  BY <1>1 DEF RowsInv, SentWasTold, TypeOK
<1>7. QED
  BY <1>4, <1>5, <1>6 DEF RowsInv

EngineInv == TypeOK /\ SessionsInv /\ RowsInv

LEMMA RowsStep ==
  ASSUME EngineInv, [Next]_vars
  PROVE  RowsInv'
<1> USE DEF EngineInv
<1>1. ASSUME UNCHANGED <<history, whale, draft, reached, told, lost>>
      PROVE  RowsInv'
  BY <1>1 DEF RowsInv, OneRowPerKey, DraftsAreFresh, DraftsExclude,
     MessagesAccounted, Reaching, SentWasTold
<1>2. ASSUME NEW e \in Engines, NEW status \in Final, pc[e] = "deliver",
             SetStatus(e, status), history' = history, UNCHANGED <<told, reached>>
      PROVE  RowsInv'
  <2>1. OneRowPerKey' /\ DraftsAreFresh' /\ DraftsExclude'
    BY <1>2, RowsStatus
  <2>2. MessagesAccounted' /\ SentWasTold'
    BY <1>2 DEF SetStatus, RowsInv, MessagesAccounted, Reaching, SentWasTold
  <2>3. QED
    BY <2>1, <2>2 DEF RowsInv
<1>3. ASSUME NEW e \in Engines, NEW w \in Whales, Begin(e, w)
      PROVE  RowsInv'
  BY <1>3, RowsBegin
<1>4. ASSUME NEW e \in Engines, NEW r \in todo[e], Visit(e, r)
      PROVE  RowsInv'
  BY <1>1, <1>4 DEF Visit, dbVars
<1>5. ASSUME NEW e \in Engines, LoadUser(e)
      PROVE  RowsInv'
  BY <1>1, <1>5 DEF LoadUser, dbVars
<1>6. ASSUME NEW e \in Engines, Insert(e)
      PROVE  RowsInv'
  BY <1>6, RowsInsert
<1>7. ASSUME NEW e \in Engines, Suppress(e)
      PROVE  RowsInv'
  BY <1>2, <1>7 DEF Suppress, SetStatus, dbVars, Final
<1>8. ASSUME NEW e \in Engines, NoNotifier(e)
      PROVE  RowsInv'
  BY <1>2, <1>8 DEF NoNotifier, SetStatus, dbVars, Final
<1>9. ASSUME NEW e \in Engines, NEW reply \in Replies, Deliver(e, reply)
      PROVE  RowsInv'
  <2>1. /\ pc[e] = "deliver" /\ StatusAfter(reply) \in Final
        /\ SetStatus(e, StatusAfter(reply))
        /\ whale' = whale /\ lost' = lost /\ history' = history
    BY <1>9 DEF Deliver, StatusAfter, SetStatus, dbVars, Final
  <2>2. CASE reply = "refused"
    BY <1>2, <1>9, <2>1, <2>2 DEF Deliver
  <2>3. CASE reply # "refused"
    <3>1. MessageArrives(e)
      BY <1>9, <2>3 DEF Deliver
    <3>2. MessagesAccounted' /\ SentWasTold'
      BY <2>1, <3>1, RowsDeliver
    <3>3. OneRowPerKey' /\ DraftsAreFresh' /\ DraftsExclude'
      BY <2>1, RowsStatus
    <3>4. QED
      BY <3>2, <3>3 DEF RowsInv
  <2>4. QED
    BY <2>2, <2>3
<1>10. ASSUME NEW e \in Engines, LogOnChain(e)
       PROVE  RowsInv'
  BY <1>1, <1>10 DEF LogOnChain, dbVars
<1>11. ASSUME NEW e \in Engines, Commit(e)
       PROVE  RowsInv'
  BY <1>11, RowsCommit
<1>12. ASSUME NEW e \in Engines,
              InsertConflicts(e) \/ DeadlockDetected(e) \/ Abort(e)
       PROVE  RowsInv'
  <2>1. RollBack(e)
    BY <1>12 DEF InsertConflicts, DeadlockDetected, Abort
  <2>2. QED
    BY <2>1, RowsRollBack
<1>13. ASSUME NEW r \in Rules, EditRule(r)
       PROVE  RowsInv'
  BY <1>1, <1>13 DEF EditRule, Edit
<1>14. ASSUME NEW u \in Users, EditNotify(u)
       PROVE  RowsInv'
  BY <1>1, <1>14 DEF EditNotify, Edit
<1>15. CASE UNCHANGED vars
  BY <1>1, <1>15 DEF vars, dbVars, engineVars
<1>16. QED
  BY <1>3, <1>4, <1>5, <1>6, <1>7, <1>8, <1>9, <1>10, <1>11, <1>12, <1>13, <1>14,
     <1>15 DEF Next, Continue, Proceed, Refused, DeliverAny

LEMMA Invariance == Spec => []EngineInv
<1>1. Init => RowsInv
  BY DEF Init, RowsInv, OneRowPerKey, DraftsAreFresh, DraftsExclude,
     MessagesAccounted, Reaching, SentWasTold, NoDrafts, Keys
<1>2. EngineInv /\ [Next]_vars => RowsInv'
  BY RowsStep
<1>3. QED
  BY <1>1, <1>2, TypesAndSessions, PTL DEF Spec, EngineInv

(* models.py:131: no rule ever has two history rows for one action,        *)
(* however many engines handle it at once, fail and handle it again.       *)
THEOREM OneRow == Spec => []OneRowPerKey
<1>1. EngineInv => OneRowPerKey
  BY DEF EngineInv, RowsInv
<1>2. QED
  BY <1>1, Invariance, PTL

(* A message about an action is only ever repeated after the transaction   *)
(* that sent the previous one was rolled back.                             *)
THEOREM Duplicates == Spec => []DuplicatesOnlyAfterRollback
<1>1. EngineInv => DuplicatesOnlyAfterRollback
  BY DEF EngineInv, RowsInv, MessagesAccounted, DuplicatesOnlyAfterRollback, Keys
<1>2. QED
  BY <1>1, Invariance, PTL

-----------------------------------------------------------------------------
(* No match is skipped.  A rule that matched when the loop began is still  *)
(* to be visited, or being visited, or has its row, in this transaction or *)
(* committed by another engine: rows are never removed.                    *)
Accounted(e, r) ==
  \/ r \in todo[e]
  \/ pc[e] \in {"user", "insert"} /\ rule[e] = r
  \/ draft[e][r] # "none"
  \/ history[<<r, whale[e]>>] # <<>>

MatchesAccounted ==
  \A e \in Engines : pc[e] # "idle" => \A r \in matched[e] : Accounted(e, r)

LEMMA RowsStay ==
  ASSUME EngineInv, [Next]_vars, NEW k \in Keys, history[k] # <<>>
  PROVE  history'[k] # <<>>
<1>1. ASSUME NEW e \in Engines, Commit(e)
      PROVE  history'[k] # <<>>
  <2>1. CASE Drafted(e, k)
    <3>1. PICK r \in Rules, w \in Whales : k = <<r, w>>
      BY DEF Keys
    <3>2. QED
      BY <2>1, <3>1 DEF Drafted, EngineInv, RowsInv, DraftsAreFresh
  <2>2. CASE ~Drafted(e, k)
    BY <1>1, <2>2 DEF Commit
  <2>3. QED
    BY <2>1, <2>2
<1>2. ASSUME NEW e \in Engines, ~Commit(e),
             (\E w \in Whales : Begin(e, w)) \/ Continue(e) \/ Abort(e)
      PROVE  history' = history
  BY <1>2 DEF dbVars, Continue, Proceed, Refused, DeliverAny, Begin, Visit,
     LoadUser, Insert, Suppress, NoNotifier, Deliver, SetStatus, LogOnChain,
     InsertConflicts, DeadlockDetected, Abort, RollBack
<1>3. CASE (\E r \in Rules : EditRule(r)) \/ (\E u \in Users : EditNotify(u))
  BY <1>3 DEF EditRule, EditNotify, Edit
<1>4. CASE UNCHANGED vars
  BY <1>4 DEF vars, dbVars
<1>5. QED
  BY <1>1, <1>2, <1>3, <1>4 DEF Next

LEMMA MatchesStep ==
  ASSUME EngineInv, EngineInv', MatchesAccounted, [Next]_vars
  PROVE  MatchesAccounted'
<1> USE DEF EngineInv, TypeOK
<1>1. ASSUME NEW f \in Engines, NEW r \in Rules, pc[f] # "idle",
             history[<<r, whale[f]>>] # <<>>
      PROVE  history'[<<r, whale[f]>>] # <<>>
  <2>1. <<r, whale[f]>> \in Keys
    BY <1>1 DEF SessionsInv, SessionInv, Keys
  <2>2. QED
    BY <1>1, <2>1, RowsStay
<1>2. ASSUME NEW f \in Engines, pc[f] # "idle",
             pc'[f] = pc[f], whale'[f] = whale[f], todo'[f] = todo[f],
             rule'[f] = rule[f], draft'[f] = draft[f], matched'[f] = matched[f]
      PROVE  \A r \in matched'[f] : Accounted(f, r)'
  BY <1>1, <1>2 DEF MatchesAccounted, Accounted
<1>3. ASSUME NEW e \in Engines, NEW w \in Whales, Begin(e, w)
      PROVE  MatchesAccounted'
  BY <1>2, <1>3 DEF Begin, Goto, engineVars, dbVars, MatchesAccounted, Accounted
<1>4. ASSUME NEW e \in Engines, NEW r \in todo[e], Visit(e, r)
      PROVE  MatchesAccounted'
  BY <1>2, <1>4 DEF Visit, Exists, Goto, dbVars, MatchesAccounted, Accounted
<1>5. ASSUME NEW e \in Engines, LoadUser(e)
      PROVE  MatchesAccounted'
  BY <1>2, <1>5 DEF LoadUser, Goto, dbVars, MatchesAccounted, Accounted
<1>6. ASSUME NEW e \in Engines, Insert(e)
      PROVE  MatchesAccounted'
  BY <1>2, <1>6 DEF Insert, Goto, dbVars, MatchesAccounted, Accounted,
     SessionsInv, SessionInv
<1>7. ASSUME NEW e \in Engines, NEW status \in Final, pc[e] = "deliver",
             SetStatus(e, status), history' = history
      PROVE  MatchesAccounted'
  BY <1>2, <1>7 DEF SetStatus, Goto, MatchesAccounted, Accounted, SessionsInv,
     SessionInv, Final
<1>8. ASSUME NEW e \in Engines,
             Suppress(e) \/ NoNotifier(e) \/ \E reply \in Replies : Deliver(e, reply)
      PROVE  MatchesAccounted'
  BY <1>7, <1>8 DEF Suppress, NoNotifier, Deliver, StatusAfter, SetStatus, dbVars,
     Final
<1>9. ASSUME NEW e \in Engines, LogOnChain(e)
      PROVE  MatchesAccounted'
  BY <1>2, <1>9 DEF LogOnChain, Goto, dbVars, MatchesAccounted, Accounted
<1>10. ASSUME NEW e \in Engines, EndSession(e)
       PROVE  MatchesAccounted'
  BY <1>2, <1>10 DEF EndSession, Goto, MatchesAccounted, Accounted
<1>11. ASSUME NEW e \in Engines,
              \/ Commit(e) \/ InsertConflicts(e) \/ DeadlockDetected(e) \/ Abort(e)
       PROVE  MatchesAccounted'
  BY <1>10, <1>11 DEF Commit, InsertConflicts, DeadlockDetected, Abort, RollBack
<1>12. CASE (\E r \in Rules : EditRule(r)) \/ (\E u \in Users : EditNotify(u))
  BY <1>12 DEF EditRule, EditNotify, Edit, MatchesAccounted, Accounted
<1>13. CASE UNCHANGED vars
  BY <1>13 DEF vars, dbVars, engineVars, MatchesAccounted, Accounted
<1>14. QED
  BY <1>3, <1>4, <1>5, <1>6, <1>8, <1>9, <1>11, <1>12, <1>13
  DEF Next, Continue, Proceed, Refused, DeliverAny

LEMMA MatchesInvariant == Spec => []MatchesAccounted
<1>1. Init => MatchesAccounted
  BY DEF Init, MatchesAccounted
<1>2. EngineInv /\ EngineInv' /\ MatchesAccounted /\ [Next]_vars => MatchesAccounted'
  BY MatchesStep
<1>3. QED
  BY <1>1, <1>2, Invariance, PTL DEF Spec

(* A session at its end: what it commits covers every match.               *)
LEMMA CommitDecides ==
  ASSUME EngineInv, MatchesAccounted, [Next]_vars, NEW e \in Engines, Commit(e),
         NEW r \in matched[e]
  PROVE  history'[<<r, whale[e]>>] # <<>>
<1>1. /\ r \in Rules /\ whale[e] \in Whales
      /\ draft[e][r] # "none" \/ history[<<r, whale[e]>>] # <<>>
  BY DEF Commit, MatchesAccounted, Accounted, EngineInv, TypeOK, SessionsInv,
     SessionInv
<1>2. CASE history[<<r, whale[e]>>] # <<>>
  <2>1. <<r, whale[e]>> \in Keys
    BY <1>1 DEF Keys
  <2>2. QED
    BY <1>2, <2>1, RowsStay
<1>3. CASE draft[e][r] # "none"
  <2>1. history'[<<r, whale[e]>>] = Append(history[<<r, whale[e]>>], draft[e][r])
    BY <1>1, <1>3 DEF Commit, Drafted, Keys
  <2>2. history[<<r, whale[e]>>] = <<>>
    BY <1>1, <1>3 DEF EngineInv, RowsInv, DraftsAreFresh
  <2>3. QED
    BY <2>1, <2>2
<1>4. QED
  BY <1>1, <1>2, <1>3

(* Whatever other engines insert and commit meanwhile, a transaction that  *)
(* commits leaves no rule without a row that matched when it began.        *)
THEOREM CommitsDecide == Spec => CommitDecidesEveryMatch
<1> DEFINE A == \A e \in Engines :
                  pc[e] = "loop" /\ pc'[e] = "idle" /\ history' # history =>
                    \A r \in matched[e] : history'[<<r, whale[e]>>] # <<>>
<1>1. EngineInv /\ MatchesAccounted /\ [Next]_vars => [A]_vars
  <2> SUFFICES ASSUME EngineInv, MatchesAccounted, [Next]_vars,
                      NEW e \in Engines,
                      pc[e] = "loop", pc'[e] = "idle", history' # history
               PROVE  Commit(e)
    BY CommitDecides
  <2>1. ASSUME NEW f \in Engines, Commit(f)
        PROVE  Commit(e)
    BY <2>1 DEF Commit, EndSession, Goto, EngineInv, TypeOK
  <2>2. CASE \A f \in Engines : ~Commit(f)
    BY <2>2 DEF Next, vars, dbVars, Continue, Proceed, Refused, DeliverAny,
       Begin, Visit, LoadUser, Insert, Suppress, NoNotifier, Deliver, SetStatus,
       LogOnChain, InsertConflicts, DeadlockDetected, Abort, RollBack, EditRule,
       EditNotify, Edit
  <2>3. QED
    BY <2>1, <2>2
<1>2. QED
  BY <1>1, Invariance, MatchesInvariant, PTL DEF Spec, CommitDecidesEveryMatch

-----------------------------------------------------------------------------
(* Users who had notifications off when the engine began to look at the    *)
(* whale, and ever since, are never read as wanting them.                  *)
QuietInv ==
  \A e \in Engines : \A u \in quiet[e] : u \notin notify /\ cached[e][u] # "on"

LEMMA QuietStep ==
  ASSUME EngineInv, QuietInv, [Next]_vars
  PROVE  QuietInv'
<1> USE EngineAssumption DEF EngineAssumption, EngineInv, TypeOK, QuietInv
<1>1. ASSUME NEW e \in Engines, NEW w \in Whales, Begin(e, w)
      PROVE  QuietInv'
  <2>1. CASE active \cap Matching[w] = {}
    BY <1>1, <2>1 DEF Begin, engineVars, dbVars
  <2>2. CASE active \cap Matching[w] # {}
    <3>1. /\ quiet' = [quiet EXCEPT ![e] = Users \ notify]
          /\ cached' = [cached EXCEPT ![e] = Unread]
          /\ notify' = notify
      BY <1>1, <2>2 DEF Begin, SessionCache, dbVars
    <3>2. \A u \in Users : Unread[u] # "on"
      BY DEF Unread
    <3>3. QED
      BY <3>1, <3>2
  <2>3. QED
    BY <2>1, <2>2
<1>2. ASSUME NEW e \in Engines, LoadUser(e)
      PROVE  QuietInv'
  BY <1>2 DEF LoadUser, dbVars, SessionsInv, SessionInv
<1>3. ASSUME UNCHANGED <<quiet, notify, cached>>
      PROVE  QuietInv'
  BY <1>3
<1>4. ASSUME NEW e \in Engines, Proceed(e), ~LoadUser(e), ~Commit(e)
      PROVE  UNCHANGED <<quiet, notify, cached>>
  BY <1>4 DEF Proceed, DeliverAny, Visit, Insert, Suppress, NoNotifier, Deliver,
     SetStatus, LogOnChain, dbVars
<1>5. ASSUME NEW e \in Engines, EndSession(e)
      PROVE  QuietInv'
  BY <1>5 DEF EndSession
<1>6. ASSUME NEW e \in Engines, Commit(e) \/ Refused(e) \/ Abort(e)
      PROVE  EndSession(e)
  BY <1>6 DEF Commit, Refused, InsertConflicts, DeadlockDetected, Abort, RollBack
<1>7. ASSUME NEW r \in Rules, EditRule(r)
      PROVE  QuietInv'
  BY <1>7 DEF EditRule, Edit
<1>8. ASSUME NEW u \in Users, EditNotify(u)
      PROVE  QuietInv'
  BY <1>8 DEF EditNotify, Edit
<1>9. CASE UNCHANGED vars
  BY <1>9 DEF vars, dbVars, engineVars
<1>10. QED
  BY <1>1, <1>2, <1>3, <1>4, <1>5, <1>6, <1>7, <1>8, <1>9 DEF Next, Continue

(* A message only goes to a user who had notifications on at some time     *)
(* since the engine began to look at the whale.                            *)
THEOREM QuietStaysQuiet == Spec => QuietUsersStayQuiet
<1> DEFINE A == \A r \in Rules, w \in Whales : told'[<<r, w>>] > told[<<r, w>>] =>
                  \E e \in Engines : /\ pc[e] = "deliver" /\ Key(e) = <<r, w>>
                                     /\ Owner[r] \notin quiet[e]
<1>1. EngineInv /\ QuietInv /\ [Next]_vars => [A]_vars
  <2> SUFFICES ASSUME EngineInv, QuietInv, [Next]_vars,
                      NEW r \in Rules, NEW w \in Whales,
                      told'[<<r, w>>] > told[<<r, w>>]
               PROVE  \E e \in Engines : /\ pc[e] = "deliver" /\ Key(e) = <<r, w>>
                                         /\ Owner[r] \notin quiet[e]
    OBVIOUS
  <2>1. <<r, w>> \in Keys /\ told[<<r, w>>] \in Nat
    BY DEF EngineInv, TypeOK, Keys
  <2>2. told' # told
    BY <2>1
  <2>3. PICK e \in Engines, reply \in Replies : Deliver(e, reply)
    BY <2>2 DEF Next, vars, Continue, Proceed, Refused, DeliverAny, Begin, Visit,
       LoadUser, Insert, Suppress, NoNotifier, LogOnChain, Commit, EndSession,
       InsertConflicts, DeadlockDetected, Abort, RollBack, EditRule, EditNotify,
       Edit
  <2>4. MessageArrives(e) /\ pc[e] = "deliver" /\ cached[e][Owner[rule[e]]] = "on"
    BY <2>2, <2>3 DEF Deliver
  <2>5. Key(e) = <<r, w>>
    BY <2>1, <2>4 DEF MessageArrives, EngineInv, TypeOK
  <2>6. rule[e] = r
    BY <2>5 DEF Key
  <2>7. QED
    BY <2>4, <2>5, <2>6 DEF QuietInv
<1>2. Init => QuietInv
  BY DEF Init, QuietInv
<1>3. EngineInv /\ QuietInv /\ [Next]_vars => QuietInv'
  BY QuietStep
<1>4. QED
  BY <1>1, <1>2, <1>3, Invariance, PTL DEF Spec, QuietUsersStayQuiet

-----------------------------------------------------------------------------
(* The engines implement the ledger: a commit decides keys, the arrival of *)
(* a message tells one, and every other step leaves the ledger alone.      *)
LEMMA LedgerInit == Init => Ledger!Init
  BY DEF Init, Ledger!Init, Decision

LEMMA LedgerCommit ==
  ASSUME EngineInv, EngineInv', NEW e \in Engines, Commit(e)
  PROVE  Ledger!Decide
<1>1. Decision' \in [Keys -> {"undecided"} \cup Final]
  <2>1. \A k \in Keys : history'[k] # <<>> => history'[k][1] \in Final
    BY DEF EngineInv, TypeOK
  <2>2. QED
    BY <2>1 DEF Decision
<1>2. told' = told
  BY DEF Commit, EndSession
<1>3. ASSUME NEW k \in Keys, Decision[k] # "undecided"
      PROVE  Decision'[k] = Decision[k]
  <2>1. history[k] # <<>>
    BY <1>3 DEF Decision
  <2>2. ~Drafted(e, k)
    <3>1. PICK r \in Rules, w \in Whales : k = <<r, w>>
      BY DEF Keys
    <3>2. QED
      BY <2>1, <3>1 DEF Drafted, EngineInv, RowsInv, DraftsAreFresh
  <2>3. history'[k] = history[k]
    BY <2>2 DEF Commit
  <2>4. QED
    BY <2>3 DEF Decision
<1>4. ASSUME NEW k \in Keys, Decision'[k] = "SENT"
      PROVE  told[k] > 0
  <2>1. PICK r \in Rules, w \in Whales : k = <<r, w>>
    BY DEF Keys
  <2>2. history'[k] # <<>> /\ history'[k][1] = "SENT"
    BY <1>4 DEF Decision
  <2>3. QED
    BY <1>2, <2>1, <2>2 DEF EngineInv, RowsInv, SentWasTold
<1>5. QED
  BY <1>1, <1>2, <1>3, <1>4 DEF Ledger!Decide

LEMMA LedgerStep ==
  ASSUME EngineInv, EngineInv', [Next]_vars
  PROVE  [Ledger!Next]_(Ledger!ledgerVars)
<1>1. ASSUME history' = history, told' = told
      PROVE  UNCHANGED Ledger!ledgerVars
  BY <1>1 DEF Ledger!ledgerVars, Decision
<1>2. ASSUME NEW e \in Engines, NEW reply \in Replies, Deliver(e, reply)
      PROVE  [Ledger!Next]_(Ledger!ledgerVars)
  <2>1. history' = history
    BY <1>2 DEF Deliver, SetStatus, dbVars
  <2>2. CASE reply = "refused"
    BY <1>1, <1>2, <2>1, <2>2 DEF Deliver
  <2>3. CASE reply # "refused"
    <3>1. told' = [told EXCEPT ![Key(e)] = @ + 1]
      BY <1>2, <2>3 DEF Deliver, MessageArrives
    <3>2. /\ rule[e] \in Rules /\ whale[e] \in Whales
          /\ draft[e][rule[e]] = "PENDING"
      BY <1>2 DEF Deliver, EngineInv, SessionsInv, SessionInv
    <3>3. Key(e) \in Keys /\ history[Key(e)] = <<>>
      BY <3>2 DEF Key, Keys, EngineInv, RowsInv, DraftsAreFresh
    <3>4. Ledger!Tell(Key(e))
      BY <2>1, <3>1, <3>3 DEF Ledger!Tell, Decision
    <3>5. QED
      BY <3>3, <3>4 DEF Ledger!Next
  <2>4. QED
    BY <2>2, <2>3
<1>3. ASSUME NEW e \in Engines, Commit(e)
      PROVE  Ledger!Next
  BY <1>3, LedgerCommit DEF Ledger!Next
<1>4. ASSUME NEW e \in Engines,
             \/ \E w \in Whales : Begin(e, w)
             \/ \E r \in todo[e] : Visit(e, r)
             \/ LoadUser(e) \/ Insert(e) \/ Suppress(e) \/ NoNotifier(e)
             \/ LogOnChain(e)
      PROVE  history' = history /\ told' = told
  BY <1>4 DEF Begin, Visit, LoadUser, Insert, Suppress, NoNotifier, LogOnChain,
     SetStatus, dbVars
<1>5. ASSUME NEW e \in Engines,
             InsertConflicts(e) \/ DeadlockDetected(e) \/ Abort(e)
      PROVE  history' = history /\ told' = told
  BY <1>5 DEF InsertConflicts, DeadlockDetected, Abort, RollBack, EndSession
<1>6. ASSUME (\E r \in Rules : EditRule(r)) \/ (\E u \in Users : EditNotify(u))
      PROVE  history' = history /\ told' = told
  BY <1>6 DEF EditRule, EditNotify, Edit
<1>7. CASE UNCHANGED vars
  BY <1>1, <1>7 DEF vars, dbVars
<1>8. QED
  BY <1>1, <1>2, <1>3, <1>4, <1>5, <1>6, <1>7 DEF Next, Continue, Proceed, Refused, DeliverAny

(* The engines together keep the ledger's promise: a decided key keeps its *)
(* status and gets no further message, and SENT was always told.           *)
THEOREM LedgerImplemented == Spec => ImplementsLedger
<1>1. EngineInv /\ EngineInv' /\ [Next]_vars => [Ledger!Next]_(Ledger!ledgerVars)
  BY LedgerStep
<1>2. QED
  BY <1>1, LedgerInit, Invariance, PTL DEF Spec, ImplementsLedger, Ledger!Spec

-----------------------------------------------------------------------------
(* Why every transaction ends.  That it does (EveryWhaleEnds) is checked,  *)
(* for liveness is out of the provers' reach; the two facts it rests on    *)
(* are proved.  Some open transaction can always go on or be refused, and  *)
(* a transaction that goes on has less left to do.                         *)
Open == {e \in Engines : pc[e] # "idle"}

\* The guards of Proceed and InsertConflicts: a step at "deliver" needs the user.
Ready(e) ==
  \/ pc[e] \in {"loop", "user", "chain"}
  \/ pc[e] = "insert" /\ ~Waits(e)
  \/ pc[e] = "deliver" /\ cached[e][Owner[rule[e]]] # "unread"

SomebodyIsReady ==
  /\ \A e \in Open : Ready(e) \/ Waits(e)
  /\ Open # {} => (\E e \in Open : Ready(e)) \/ Deadlocked(Open)

LoadedInv ==
  \A e \in Engines : pc[e] \in {"insert", "deliver"} =>
    cached[e][Owner[rule[e]]] # "unread"

LEMMA LoadedStep ==
  ASSUME EngineInv, LoadedInv, [Next]_vars
  PROVE  LoadedInv'
<1> USE DEF EngineInv, TypeOK, LoadedInv
<1>1. ASSUME NEW e \in Engines, pc'[e] \notin {"insert", "deliver"},
             \A f \in Engines \ {e} : /\ pc'[f] = pc[f] /\ rule'[f] = rule[f]
                                      /\ cached'[f] = cached[f]
      PROVE  LoadedInv'
  BY <1>1
<1>2. ASSUME NEW e \in Engines, NEW w \in Whales, Begin(e, w)
      PROVE  LoadedInv'
  BY <1>2 DEF Begin, Goto, engineVars
<1>3. ASSUME NEW e \in Engines, NEW r \in todo[e], Visit(e, r)
      PROVE  LoadedInv'
  BY <1>3 DEF Visit, Goto
<1>4. ASSUME NEW e \in Engines, LoadUser(e)
      PROVE  LoadedInv'
  <2>1. rule[e] \in Rules /\ Owner[rule[e]] \in Users
    BY <1>4, EngineAssumption DEF EngineAssumption, LoadUser, SessionsInv, SessionInv
  <2>2. cached'[e][Owner[rule[e]]] # "unread" /\ rule' = rule
    BY <1>4, <2>1 DEF LoadUser
  <2>3. \A f \in Engines \ {e} : pc'[f] = pc[f] /\ cached'[f] = cached[f]
    BY <1>4 DEF LoadUser, Goto
  <2>4. QED
    BY <2>2, <2>3
<1>5. ASSUME NEW e \in Engines, Insert(e)
      PROVE  LoadedInv'
  BY <1>5 DEF Insert, Goto
<1>6. ASSUME NEW e \in Engines,
             \/ Suppress(e) \/ NoNotifier(e) \/ LogOnChain(e)
             \/ \E reply \in Replies : Deliver(e, reply)
      PROVE  LoadedInv'
  BY <1>6 DEF Suppress, NoNotifier, LogOnChain, Deliver, SetStatus, Goto
<1>7. ASSUME NEW e \in Engines, EndSession(e)
      PROVE  LoadedInv'
  BY <1>7 DEF EndSession, Goto
<1>8. CASE \/ \E r \in Rules : EditRule(r)
           \/ \E u \in Users : EditNotify(u)
           \/ UNCHANGED vars
  BY <1>8 DEF EditRule, EditNotify, Edit, vars, engineVars
<1>9. QED
  BY <1>2, <1>3, <1>4, <1>5, <1>6, <1>7, <1>8
  DEF Next, Continue, Proceed, Refused, DeliverAny, Commit, InsertConflicts,
      DeadlockDetected, Abort, RollBack

(* Nothing waits without somebody to wait for: an open transaction can     *)
(* take its next step, or waits for a row; and when every open one waits,  *)
(* they wait for each other, which is what PostgreSQL detects and breaks   *)
(* (handle_whale, uq_rule_dedup).                                          *)
THEOREM SomebodyReady == Spec => []SomebodyIsReady
<1>1. Init => LoadedInv
  BY DEF Init, LoadedInv
<1>2. EngineInv /\ LoadedInv /\ [Next]_vars => LoadedInv'
  BY LoadedStep
<1>3. EngineInv /\ LoadedInv => SomebodyIsReady
  <2> SUFFICES ASSUME EngineInv, LoadedInv
               PROVE  SomebodyIsReady
    OBVIOUS
  <2>1. \A e \in Open : Ready(e) \/ Waits(e)
    BY DEF Open, Ready, Waits, LoadedInv, EngineInv, TypeOK, Labels
  <2>2. ASSUME \A e \in Open : ~Ready(e)
        PROVE  Deadlocked(Open)
    <3>1. ASSUME NEW f \in Open
          PROVE  Waits(f) /\ \E g \in Open \ {f} : Holds(g, Key(f))
      <4>1. Waits(f)
        BY <2>1, <2>2
      <4>2. PICK g \in Engines \ {f} : Holds(g, Key(f))
        BY <4>1 DEF Waits
      <4>3. rule[f] \in Rules
        BY <4>1 DEF Open, Waits, EngineInv, SessionsInv, SessionInv
      <4>4. pc[g] # "idle"
        <5>1. draft[g][rule[f]] # "none"
          BY <4>2 DEF Holds, Key
        <5>2. pc[g] = "idle" => draft[g] = NoDrafts
          BY <4>2 DEF EngineInv, SessionsInv, SessionInv
        <5>3. QED
          BY <4>3, <5>1, <5>2 DEF NoDrafts
      <4>5. QED
        BY <4>1, <4>2, <4>4 DEF Open
    <3>2. QED
      BY <3>1 DEF Deadlocked
  <2>3. QED
    BY <2>1, <2>2 DEF SomebodyIsReady
<1>4. QED
  BY <1>1, <1>2, <1>3, Invariance, PTL DEF Spec

\* How far a visit of the loop is from its end.
Rank == [loop |-> 0, chain |-> 1, deliver |-> 2, insert |-> 3, user |-> 4]

SessionsMoveOn ==
  [][\A e \in Open :
       <<pc'[e], todo'[e]>> # <<pc[e], todo[e]>> =>
         \/ pc'[e] = "idle"
         \/ todo'[e] # todo[e] /\ todo'[e] \subseteq todo[e]
         \/ todo'[e] = todo[e] /\ Rank[pc'[e]] < Rank[pc[e]]]_vars

(* A transaction never goes back: each step that moves it ends it, takes a *)
(* rule off its list for good, or brings the visit of a rule closer to its *)
(* end, whatever the other engines and the users do (engine.py:85-184).    *)
THEOREM SessionsProgress == Spec => SessionsMoveOn
<1> DEFINE A == \A e \in Open :
       <<pc'[e], todo'[e]>> # <<pc[e], todo[e]>> =>
         \/ pc'[e] = "idle"
         \/ todo'[e] # todo[e] /\ todo'[e] \subseteq todo[e]
         \/ todo'[e] = todo[e] /\ Rank[pc'[e]] < Rank[pc[e]]
<1>1. EngineInv /\ [Next]_vars => [A]_vars
  <2> SUFFICES ASSUME EngineInv, [Next]_vars
               PROVE  A
    OBVIOUS
  <2> USE DEF EngineInv, TypeOK, Open, Rank
  <2>1. ASSUME UNCHANGED <<pc, todo>>
        PROVE  A
    BY <2>1
  <2>2. ASSUME NEW f \in Engines, NEW w \in Whales, Begin(f, w)
        PROVE  A
    BY <2>2 DEF Begin, Goto, engineVars
  <2>3. ASSUME NEW f \in Engines, NEW r \in todo[f], Visit(f, r)
        PROVE  A
    BY <2>3 DEF Visit, Goto
  <2>4. ASSUME NEW f \in Engines, LoadUser(f) \/ Insert(f) \/ LogOnChain(f)
        PROVE  A
    BY <2>4 DEF LoadUser, Insert, LogOnChain, Goto
  <2>5. ASSUME NEW f \in Engines,
               \/ Suppress(f) \/ NoNotifier(f)
               \/ \E reply \in Replies : Deliver(f, reply)
        PROVE  A
    BY <2>5 DEF Suppress, NoNotifier, Deliver, SetStatus, Goto
  <2>6. ASSUME NEW f \in Engines, EndSession(f)
        PROVE  A
    BY <2>6 DEF EndSession, Goto
  <2>7. CASE \/ \E r \in Rules : EditRule(r)
             \/ \E u \in Users : EditNotify(u)
             \/ UNCHANGED vars
    BY <2>1, <2>7 DEF EditRule, EditNotify, Edit, vars, engineVars
  <2>8. QED
    BY <2>2, <2>3, <2>4, <2>5, <2>6, <2>7
    DEF Next, Continue, Proceed, Refused, DeliverAny, Commit, InsertConflicts,
        DeadlockDetected, Abort, RollBack
<1>2. QED
  BY <1>1, Invariance, PTL DEF Spec, SessionsMoveOn

-----------------------------------------------------------------------------
(* What a second message takes.  The violated NeverFiresTwice is right     *)
(* where a lost insert costs nothing: with one engine no insert is lost,   *)
(* and with one matching rule per whale the transaction that loses it has  *)
(* sent nothing yet.  Then only failures repeat a message.                 *)
Alone   == \A e, f \in Engines : e = f
OneRule == \A w \in Whales : \A r, s \in Matching[w] : r = s

OnlyMatches ==
  \A e \in Engines : pc[e] # "idle" =>
    /\ todo[e] \cup reached[e] \subseteq Matching[whale[e]]
    /\ pc[e] # "loop" => rule[e] \in Matching[whale[e]]

FreshWhenAlone ==
  Alone => \A e \in Engines : pc[e] \in {"user", "insert"} => history[Key(e)] = <<>>

LossesAreFailures == \A k \in Keys : lost[k] <= aborts

LossInv == OnlyMatches /\ FreshWhenAlone /\ LossesAreFailures

LEMMA RefusedLosesNothing ==
  ASSUME Alone \/ OneRule, EngineInv, LossInv, NEW e \in Engines, Refused(e)
  PROVE  lost' = lost
<1>1. pc[e] = "insert" /\ RollBack(e)
  BY DEF Refused, InsertConflicts, DeadlockDetected, Deadlocked, Waits
<1>2. CASE Alone
  <2>1. ~Waits(e) /\ history[Key(e)] = <<>>
    BY <1>1, <1>2 DEF LossInv, FreshWhenAlone, Alone, Waits
  <2>2. QED
    BY <2>1 DEF Refused, InsertConflicts, DeadlockDetected, Deadlocked
<1>3. CASE OneRule
  <2>1. /\ whale[e] \in Whales /\ rule[e] \in Rules /\ draft[e][rule[e]] = "none"
        /\ \A r \in reached[e] : draft[e][r] \in {"SENT", "FAILED"}
    BY <1>1 DEF EngineInv, SessionsInv, SessionInv
  <2>2. reached[e] \subseteq Matching[whale[e]] /\ rule[e] \in Matching[whale[e]]
    BY <1>1 DEF LossInv, OnlyMatches
  <2>3. reached[e] = {}
    BY <1>3, <2>1, <2>2 DEF OneRule
  <2>4. lost \in [Keys -> Nat]
    BY DEF EngineInv, TypeOK
  <2>5. QED
    BY <1>1, <2>3, <2>4 DEF RollBack
<1>4. QED
  BY <1>2, <1>3

LEMMA OnlyMatchesStep ==
  ASSUME EngineInv, OnlyMatches, [Next]_vars
  PROVE  OnlyMatches'
<1> USE DEF EngineInv, TypeOK, OnlyMatches
<1>1. ASSUME NEW e \in Engines, NEW w \in Whales, Begin(e, w)
      PROVE  OnlyMatches'
  BY <1>1 DEF Begin, Goto, engineVars, SessionsInv, SessionInv
<1>2. ASSUME NEW e \in Engines, NEW r \in todo[e], Visit(e, r)
      PROVE  OnlyMatches'
  BY <1>2 DEF Visit, Goto
<1>3. ASSUME NEW e \in Engines, LoadUser(e) \/ Insert(e) \/ LogOnChain(e)
      PROVE  OnlyMatches'
  BY <1>3 DEF LoadUser, Insert, LogOnChain, Goto
<1>4. ASSUME NEW e \in Engines,
             \/ Suppress(e) \/ NoNotifier(e)
             \/ \E reply \in Replies : Deliver(e, reply)
      PROVE  OnlyMatches'
  <2>1. /\ pc[e] = "deliver" /\ pc' = [pc EXCEPT ![e] = "chain"]
        /\ UNCHANGED <<whale, todo, rule>>
    BY <1>4 DEF Suppress, NoNotifier, Deliver, SetStatus, Goto
  <2>2. \/ reached' = reached
        \/ reached' = [reached EXCEPT ![e] = @ \cup {rule[e]}]
    BY <1>4 DEF Suppress, NoNotifier, Deliver, MessageArrives
  <2>3. \A f \in Engines : reached'[f] \subseteq
          IF f = e THEN reached[e] \cup {rule[e]} ELSE reached[f]
    BY <2>2
  <2>4. QED
    BY <2>1, <2>3
<1>5. ASSUME NEW e \in Engines, EndSession(e)
      PROVE  OnlyMatches'
  BY <1>5 DEF EndSession, Goto
<1>6. CASE \/ \E r \in Rules : EditRule(r)
           \/ \E u \in Users : EditNotify(u)
           \/ UNCHANGED vars
  BY <1>6 DEF EditRule, EditNotify, Edit, vars, engineVars
<1>7. QED
  BY <1>1, <1>2, <1>3, <1>4, <1>5, <1>6
  DEF Next, Continue, Proceed, Refused, DeliverAny, Commit, InsertConflicts,
      DeadlockDetected, Abort, RollBack

\* Only the engine itself commits rows, and not between Visit and Insert.
LEMMA FreshStep ==
  ASSUME EngineInv, FreshWhenAlone, [Next]_vars
  PROVE  FreshWhenAlone'
<1> SUFFICES ASSUME Alone, NEW e \in Engines, pc'[e] \in {"user", "insert"}
             PROVE  history'[Key(e)'] = <<>>
  BY DEF FreshWhenAlone, Alone
<1> USE DEF EngineInv, TypeOK
<1>1. \A f \in Engines : f = e
  BY DEF Alone
<1>2. ASSUME NEW w \in Whales, Begin(e, w)
      PROVE  FALSE
  BY <1>2 DEF Begin, Goto, engineVars
<1>3. ASSUME NEW r \in todo[e], Visit(e, r)
      PROVE  history'[Key(e)'] = <<>>
  <2>1. ~Exists(e, r)
    BY <1>3 DEF Visit
  <2>2. QED
    BY <1>3, <2>1 DEF Visit, Exists, Key, dbVars
<1>4. CASE LoadUser(e)
  BY <1>4 DEF LoadUser, FreshWhenAlone, Key, dbVars
<1>5. CASE \/ Insert(e) \/ Suppress(e) \/ NoNotifier(e) \/ LogOnChain(e)
           \/ \E reply \in Replies : Deliver(e, reply)
           \/ EndSession(e)
  BY <1>5 DEF Insert, Suppress, NoNotifier, LogOnChain, Deliver, SetStatus,
     EndSession, Goto
<1>6. CASE \/ \E r \in Rules : EditRule(r)
           \/ \E u \in Users : EditNotify(u)
           \/ UNCHANGED vars
  BY <1>6 DEF EditRule, EditNotify, Edit, vars, engineVars, dbVars, FreshWhenAlone,
     Key
<1>7. QED
  BY <1>1, <1>2, <1>3, <1>4, <1>5, <1>6
  DEF Next, Continue, Proceed, Refused, DeliverAny, Commit, InsertConflicts,
      DeadlockDetected, Abort, RollBack

LEMMA LossesStep ==
  ASSUME Alone \/ OneRule, EngineInv, LossInv, [Next]_vars
  PROVE  LossesAreFailures'
<1> USE DEF EngineInv, TypeOK
<1>1. ASSUME lost' = lost, aborts' = aborts
      PROVE  LossesAreFailures'
  BY <1>1 DEF LossInv, LossesAreFailures
<1>2. ASSUME NEW e \in Engines, Refused(e)
      PROVE  LossesAreFailures'
  <2>1. aborts' = aborts
    BY <1>2 DEF Refused, InsertConflicts, DeadlockDetected
  <2>2. QED
    BY <1>1, <1>2, <2>1, RefusedLosesNothing
<1>3. ASSUME NEW e \in Engines, Abort(e)
      PROVE  LossesAreFailures'
  <2>1. aborts' = aborts + 1 /\ RollBack(e)
    BY <1>3 DEF Abort
  <2>2. \A k \in Keys : lost'[k] = lost[k] \/ lost'[k] = lost[k] + 1
    BY <2>1 DEF RollBack
  <2>3. \A k \in Keys : lost[k] \in Nat /\ lost[k] <= aborts
    BY DEF LossInv, LossesAreFailures
  <2>4. ASSUME NEW k \in Keys
        PROVE  lost'[k] <= aborts'
    <3>1. lost'[k] = lost[k] \/ lost'[k] = lost[k] + 1
      BY <2>2
    <3>2. lost[k] \in Nat /\ lost[k] <= aborts /\ aborts \in Nat
      BY <2>3
    <3>3. aborts' = aborts + 1
      BY <2>1
    <3>4. QED
      BY <3>1, <3>2, <3>3
  <2>5. QED
    BY <2>4 DEF LossesAreFailures
<1>4. ASSUME NEW e \in Engines, Proceed(e)
      PROVE  lost' = lost /\ aborts' = aborts
  BY <1>4 DEF Proceed, Visit, LoadUser, Insert, Suppress, NoNotifier, DeliverAny,
     Deliver, SetStatus, LogOnChain, Commit
<1>5. ASSUME NEW e \in Engines, NEW w \in Whales, Begin(e, w)
      PROVE  lost' = lost /\ aborts' = aborts
  BY <1>5 DEF Begin
<1>6. CASE \/ \E r \in Rules : EditRule(r)
           \/ \E u \in Users : EditNotify(u)
           \/ UNCHANGED vars
  BY <1>1, <1>6 DEF EditRule, EditNotify, Edit, vars
<1>7. QED
  BY <1>1, <1>2, <1>3, <1>4, <1>5, <1>6 DEF Next, Continue

LEMMA Losses ==
  ASSUME Alone \/ OneRule
  PROVE  Spec => []LossInv
<1>1. Init => LossInv
  BY DEF Init, LossInv, OnlyMatches, FreshWhenAlone, LossesAreFailures, Keys
<1>2. EngineInv /\ LossInv /\ [Next]_vars => LossInv'
  BY OnlyMatchesStep, FreshStep, LossesStep DEF LossInv
<1>3. QED
  BY <1>1, <1>2, Invariance, PTL DEF Spec

(* models.py:130 where it is right: with a single engine, or with at most  *)
(* one rule matching each whale, no failure means no second message, and n *)
(* failures at most n more.                                                *)
THEOREM TwiceOnlyAfterFailures ==
  ASSUME Alone \/ OneRule
  PROVE  Spec => []((\A k \in Keys : told[k] <= aborts + 1) /\
                    (aborts = 0 => NeverFiresTwice))
<1>1. EngineInv /\ LossInv => \A k \in Keys : told[k] <= aborts + 1
  <2> SUFFICES ASSUME EngineInv, LossInv, NEW k \in Keys
               PROVE  told[k] <= aborts + 1
    OBVIOUS
  <2>1. PICK r \in Rules, w \in Whales : k = <<r, w>>
    BY DEF Keys
  <2>2. told[k] <= lost[k] + 1 /\ lost[k] <= aborts
    BY <2>1 DEF EngineInv, RowsInv, MessagesAccounted, LossInv, LossesAreFailures
  <2>3. told[k] \in Nat /\ lost[k] \in Nat /\ aborts \in Nat
    BY DEF EngineInv, TypeOK
  <2>4. QED
    BY <2>2, <2>3
<1>2. (\A k \in Keys : told[k] <= aborts + 1) /\ aborts = 0 => NeverFiresTwice
  BY DEF NeverFiresTwice
<1>3. QED
  BY <1>1, <1>2, Losses, Invariance, PTL
=============================================================================
