------------------------------ MODULE RuleBook ------------------------------
(***************************************************************************)
(* The alert rules of one user (backend/alerts/service.py on               *)
(* backend/database/repositories.py).                                      *)
(*                                                                         *)
(* Several transactions work on them at the same time: the bot handles one *)
(* update after the other, the REST API any number of requests.  A slot is *)
(* a token and an event type; uq_user_token_event allows one row for each, *)
(* and rows are never deleted, only deactivated.                           *)
(*                                                                         *)
(* PostgreSQL runs at READ COMMITTED.  SQLAlchemy reads a row into its     *)
(* session once, and at the commit writes only the columns whose value the *)
(* code changed from what the session had read.                            *)
(*                                                                         *)
(* get_or_create also refreshes chat_id and names of the user's row: all   *)
(* that matters here is the row lock its UPDATE takes.                     *)
(*                                                                         *)
(* Requests that validate_token_symbol or validate_threshold refuse touch  *)
(* no rule and are left out.  Each action is the code between two awaits.  *)
(***************************************************************************)
EXTENDS Integers, FiniteSets

CONSTANTS
  Bots, Apis,     \* sessions of bot updates and of API requests
  Slots,          \* <token, event type> pairs
  SameToken,      \* [Slots -> SUBSET Slots]: the slots of the same token
  Thresholds,     \* thresholds users ask for
  MaxAlerts,      \* settings.MAX_ALERTS_PER_USER
  Account,        \* the key of the user's own row
  None,
  MaxRequests,    \* bound on the number of requests
  MaxFails        \* bound on lost connections, failed replies or commits, crashes

Sessions == Bots \cup Apis
UniqueKeys == Slots \cup {Account}

ASSUME RuleAssumption ==
  /\ IsFiniteSet(Sessions) /\ IsFiniteSet(Slots)
  /\ Sessions # {}
  /\ SameToken \in [Slots -> SUBSET Slots]
  /\ \A slot \in Slots : slot \in SameToken[slot]
  /\ MaxAlerts \in Nat /\ MaxRequests \in Nat /\ MaxFails \in Nat
  /\ Account \notin Slots /\ None \notin Slots /\ None \notin Thresholds

VARIABLES
  present,        \* unique keys that have a committed row
  active,         \* slots whose committed is_active is true
  threshold,      \* committed threshold_usd of each slot
  pc,             \* where each session is
  op,             \* what it was asked to do
  slot, asked,    \* the slot and the threshold it was asked for
  readActive,     \* is_active of the rule as the session read it
  readThreshold,  \* threshold_usd of the rule as the session read it
  profile,        \* whether it changed the user's row, and has sent the UPDATE
  made,           \* keys it has inserted and not committed
  dropped,        \* rows its UPDATE has deactivated and not committed
  requests, fails,
  touched         \* history: slots others changed since the session began

ruleVars    == <<present, active, threshold>>
requestVars == <<op, slot, asked>>
readVars    == <<readActive, readThreshold>>
writtenVars == <<profile, made, dropped>>
vars == <<ruleVars, pc, requestVars, readVars, writtenVars, requests, fails, touched>>

Init ==
  /\ present = {} /\ active = {}
  /\ threshold = [r \in Slots |-> None]
  /\ pc = [s \in Sessions |-> "idle"]
  /\ op = [s \in Sessions |-> "none"]
  /\ slot = [s \in Sessions |-> None]
  /\ asked = [s \in Sessions |-> None]
  /\ readActive = [s \in Sessions |-> "unread"]
  /\ readThreshold = [s \in Sessions |-> None]
  /\ profile = [s \in Sessions |-> "same"]
  /\ made = [s \in Sessions |-> {}]
  /\ dropped = [s \in Sessions |-> {}]
  /\ requests = 0 /\ fails = 0
  /\ touched = [s \in Sessions |-> {}]

Goto(s, label) == pc' = [pc EXCEPT ![s] = label]

-----------------------------------------------------------------------------
(* The start of a request and the user's own row.                          *)

\* /track, POST /alerts and the CREATE intent; /untrack and the DELETE intent;
\* DELETE /alerts/{rule_id}.
Ops(s) == IF s \in Bots THEN {"track", "untrack"} ELSE {"track", "delete"}

\* Only a request to track comes with a threshold.
AsksFor(o) == IF o = "track" THEN Thresholds ELSE {None}

Request(s, o, r, t) ==
  /\ pc[s] = "idle"
  /\ requests < MaxRequests
  /\ requests' = requests + 1
  /\ o \in Ops(s) /\ t \in AsksFor(o)
  /\ Goto(s, "account")
  /\ op' = [op EXCEPT ![s] = o]
  /\ slot' = [slot EXCEPT ![s] = r]
  /\ asked' = [asked EXCEPT ![s] = t]
  /\ touched' = [touched EXCEPT ![s] = {}]
  /\ UNCHANGED <<ruleVars, readVars, writtenVars, fails>>

\* The first statement of each request on the rules.
FirstStep == [track |-> "find", untrack |-> "drop", delete |-> "load"]

\* get_or_create; a request to delete only looks the user up.
ReadAccount(s) ==
  /\ pc[s] = "account"
  /\ IF Account \in present THEN
       /\ Goto(s, FirstStep[op[s]])
       /\ \E p \in IF op[s] = "delete" THEN {"same"} ELSE {"same", "changed"} :
            profile' = [profile EXCEPT ![s] = p]
     ELSE /\ Goto(s, IF op[s] = "delete" THEN "commit" ELSE "register")     \* 404
          /\ UNCHANGED profile
  /\ UNCHANGED <<ruleVars, requestVars, readVars, made, dropped, requests, fails, touched>>

\* The UPDATE of the user's row: it precedes those of the rules in a flush, and
\* waits for that of another open transaction.
FlushProfile(s) ==
  /\ pc[s] \in {"insert", "commit"} /\ profile[s] = "changed"
  /\ \A f \in Sessions : profile[f] # "flushed"
  /\ profile' = [profile EXCEPT ![s] = "flushed"]
  /\ UNCHANGED <<ruleVars, pc, requestVars, readVars, made, dropped, requests, fails, touched>>

-----------------------------------------------------------------------------
(* Unique indexes: an insert waits for an open transaction that has        *)
(* inserted the same key, and fails when there is a committed row.         *)

InsertUnchecked(s, k) == TRUE                 \* mutant: no unique index
InsertAllowed(s, k) ==
  /\ k \notin present
  /\ \A f \in Sessions \ {s} : k \notin made[f]

Register(s) ==
  /\ pc[s] = "register"
  /\ InsertAllowed(s, Account)
  /\ made' = [made EXCEPT ![s] = @ \cup {Account}]
  /\ Goto(s, FirstStep[op[s]])
  /\ UNCHANGED <<ruleVars, requestVars, readVars, profile, dropped, requests, fails, touched>>

Insert(s) ==
  /\ pc[s] = "insert" /\ profile[s] # "changed"
  /\ InsertAllowed(s, slot[s])
  /\ made' = [made EXCEPT ![s] = @ \cup {slot[s]}]
  /\ Goto(s, "answer")
  /\ UNCHANGED <<ruleVars, requestVars, readVars, profile, dropped, requests, fails, touched>>

\* The session is closed and forgets what it read and wrote.
Close(s) ==
  /\ Goto(s, "idle")
  /\ op' = [op EXCEPT ![s] = "none"]
  /\ slot' = [slot EXCEPT ![s] = None]
  /\ asked' = [asked EXCEPT ![s] = None]
  /\ readActive' = [readActive EXCEPT ![s] = "unread"]
  /\ readThreshold' = [readThreshold EXCEPT ![s] = None]
  /\ profile' = [profile EXCEPT ![s] = "same"]
  /\ made' = [made EXCEPT ![s] = {}]
  /\ dropped' = [dropped EXCEPT ![s] = {}]
  /\ UNCHANGED requests

\* mutant: the failed transaction stays open
RollBackForgotten(s) ==
  /\ Goto(s, "idle")
  /\ op' = [op EXCEPT ![s] = "none"]
  /\ UNCHANGED <<slot, asked, readVars, writtenVars, requests, ruleVars, touched>>
RollBack(s) ==
  /\ Close(s)
  /\ UNCHANGED <<ruleVars, touched>>

\* IntegrityError.
InsertConflicts(s) ==
  /\ \/ pc[s] = "register" /\ Account \in present
     \/ pc[s] = "insert" /\ profile[s] # "changed" /\ slot[s] \in present
  /\ RollBack(s)
  /\ UNCHANGED fails

-----------------------------------------------------------------------------
(* create_rule.                                                            *)

Read(s) ==
  /\ readActive' = [readActive EXCEPT ![s] = IF slot[s] \in active THEN "on" ELSE "off"]
  /\ readThreshold' = [readThreshold EXCEPT ![s] = threshold[slot[s]]]

\* find_active: only a rule that is active is read, and needs no count.
FindActive(s) ==
  /\ pc[s] = "find"
  /\ IF slot[s] \in active THEN Goto(s, "lookup") /\ Read(s)
                           ELSE Goto(s, "count") /\ UNCHANGED readVars
  /\ UNCHANGED <<ruleVars, requestVars, writtenVars, requests, fails, touched>>

AtCeilingOffByOne == Cardinality(active) > MaxAlerts     \* mutant
AtCeiling == Cardinality(active) >= MaxAlerts

Count(s) ==
  /\ pc[s] = "count"
  /\ ~AtCeiling
  /\ Goto(s, "lookup")
  /\ UNCHANGED <<ruleVars, requestVars, readVars, writtenVars, requests, fails, touched>>

\* AlertServiceError: the bot answers and commits what there is (a new user);
\* the API turns it into an HTTPException, which rolls back.
Refuse(s) ==
  /\ pc[s] = "count"
  /\ AtCeiling
  /\ IF s \in Bots
       THEN /\ Goto(s, "commit")
            /\ op' = [op EXCEPT ![s] = "none"]
            /\ UNCHANGED <<ruleVars, slot, asked, readVars, writtenVars, requests, touched>>
       ELSE RollBack(s)
  /\ UNCHANGED fails

\* AlertRuleRepository.create looks for a row, active or not.  A row the session
\* has read before keeps the values it had then.
Lookup(s) ==
  /\ pc[s] = "lookup"
  /\ IF slot[s] \in present
       THEN /\ Goto(s, "answer")
            /\ IF readActive[s] = "unread" THEN Read(s) ELSE UNCHANGED readVars
       ELSE Goto(s, "insert") /\ UNCHANGED readVars
  /\ UNCHANGED <<ruleVars, requestVars, writtenVars, requests, fails, touched>>

\* The bot formats its answer before the commit.  event_type of a row that was
\* read is a plain string: format_rule_created raises AttributeError on it.
Answer(s) ==
  /\ pc[s] = "answer"
  /\ IF s \in Apis \/ slot[s] \in made[s]
       THEN /\ Goto(s, "commit")
            /\ UNCHANGED <<ruleVars, requestVars, readVars, writtenVars, requests, touched>>
       ELSE RollBack(s)
  /\ UNCHANGED fails

-----------------------------------------------------------------------------
(* deactivate_by_token and delete_rule.                                    *)

\* UPDATE ... WHERE is_active: waits for rows another open UPDATE has changed.
Drop(s) ==
  /\ pc[s] = "drop"
  /\ \A f \in Sessions \ {s} : dropped[f] \cap SameToken[slot[s]] = {}
  /\ dropped' = [dropped EXCEPT ![s] = SameToken[slot[s]] \cap active]
  /\ Goto(s, "commit")
  /\ UNCHANGED <<ruleVars, requestVars, readVars, profile, made, requests, fails, touched>>

Load(s) ==
  /\ pc[s] = "load"
  /\ Goto(s, "commit")
  /\ IF slot[s] \in present THEN Read(s) ELSE UNCHANGED readVars     \* 404
  /\ UNCHANGED <<ruleVars, requestVars, writtenVars, requests, fails, touched>>

-----------------------------------------------------------------------------
(* The end of a transaction: the flush writes the changed columns, waiting *)
(* for rows another open UPDATE has changed, and the commit follows.       *)

Writes(s) == readActive[s] # "unread"

RevivesNothing(s) == FALSE                    \* mutant: is_active is not set again
Revives(s) == op[s] = "track" /\ readActive[s] = "off"

Activated(s)   == (made[s] \cap Slots) \cup (IF Revives(s) THEN {slot[s]} ELSE {})
Deactivated(s) == dropped[s] \cup
                  (IF op[s] = "delete" /\ readActive[s] = "on" THEN {slot[s]} ELSE {})
RetargetsAny(s) ==                            \* mutant: whatever the request
  slot[s] \in made[s] \/ (Writes(s) /\ readThreshold[s] # asked[s])
Retargets(s) ==
  op[s] = "track" /\ (slot[s] \in made[s] \/ (Writes(s) /\ readThreshold[s] # asked[s]))

\* Rows of the rules that the commit changes.
Changed(s) == Activated(s) \cup Deactivated(s) \cup (IF Retargets(s) THEN {slot[s]} ELSE {})

\* Rows its flush writes: raw_request may change where nothing else does.
Flushed(s) == Changed(s) \cup (IF op[s] = "track" /\ Writes(s) THEN {slot[s]} ELSE {})

Commit(s) ==
  /\ pc[s] = "commit" /\ profile[s] # "changed"
  /\ \A f \in Sessions \ {s} : Flushed(s) \cap dropped[f] = {}
  /\ present' = present \cup made[s]
  /\ active' = (active \ Deactivated(s)) \cup Activated(s)
  /\ threshold' = IF Retargets(s) THEN [threshold EXCEPT ![slot[s]] = asked[s]]
                                  ELSE threshold
  /\ touched' = [f \in Sessions |-> IF f = s THEN touched[f]
                                             ELSE touched[f] \cup Changed(s)]
  /\ Close(s)
  /\ UNCHANGED fails

\* A transaction that has sent the UPDATE of the user's row waits for a rule
\* another one has deactivated, which waits for the user's row.
Deadlocked(s, f) ==
  /\ pc[s] = "commit" /\ profile[s] = "flushed" /\ Flushed(s) \cap dropped[f] # {}
  /\ pc[f] = "commit" /\ profile[f] = "changed"

\* PostgreSQL ends one of the two.
DeadlockDetected(s) ==
  /\ \E f \in Sessions \ {s} : Deadlocked(s, f) \/ Deadlocked(f, s)
  /\ RollBack(s)
  /\ UNCHANGED fails

Fail(s) ==
  /\ pc[s] # "idle"
  /\ fails < MaxFails
  /\ fails' = fails + 1
  /\ RollBack(s)

-----------------------------------------------------------------------------
Continue(s) ==
  \/ ReadAccount(s) \/ FlushProfile(s) \/ Register(s) \/ Insert(s) \/ InsertConflicts(s)
  \/ FindActive(s) \/ Count(s) \/ Refuse(s) \/ Lookup(s) \/ Answer(s)
  \/ Drop(s) \/ Load(s)
  \/ Commit(s) \/ DeadlockDetected(s)

Next ==
  \E s \in Sessions :
    \/ \E o \in Ops(s), r \in Slots : \E t \in AsksFor(o) : Request(s, o, r, t)
    \/ Continue(s)
    \/ Fail(s)

Spec == Init /\ [][Next]_vars

\* The event loop resumes every request and the database answers.
Fairness == \A s \in Sessions : WF_vars(Continue(s))

FairSpec == Spec /\ Fairness

-----------------------------------------------------------------------------
(* Properties.                                                             *)

Labels == {"idle", "account", "register", "find", "count", "lookup", "insert",
           "answer", "drop", "load", "commit"}

\* Every variable has the type the code gives it, and every row has a threshold.
TypeOK ==
  /\ present \subseteq UniqueKeys
  /\ active \subseteq present \cap Slots
  /\ threshold \in [Slots -> Thresholds \cup {None}]
  /\ \A r \in present \cap Slots : threshold[r] # None
  /\ pc \in [Sessions -> Labels]
  /\ op \in [Sessions -> {"none", "track", "untrack", "delete"}]
  /\ slot \in [Sessions -> Slots \cup {None}]
  /\ asked \in [Sessions -> Thresholds \cup {None}]
  /\ readActive \in [Sessions -> {"unread", "on", "off"}]
  /\ readThreshold \in [Sessions -> Thresholds \cup {None}]
  /\ profile \in [Sessions -> {"same", "changed", "flushed"}]
  /\ made \in [Sessions -> SUBSET UniqueKeys]
  /\ dropped \in [Sessions -> SUBSET Slots]
  /\ requests \in Nat /\ fails \in Nat
  /\ touched \in [Sessions -> SUBSET Slots]

(* service.py:64-68 counts before it inserts, so the ceiling can be passed  *)
(* by requests that race, but only by one rule for each further session     *)
(* that is open at the same time.                                           *)
CeilingPassedByRacersOnly ==
  Cardinality(active) <= MaxAlerts + Cardinality(Sessions) - 1

(* No two open transactions hold a new row for the same key, and none holds *)
(* one for a key that has a committed row: two rules of one user never have *)
(* the same token and event type.                                           *)
NewRowsAreUnique ==
  \A s \in Sessions : \A k \in made[s] :
    k \notin present /\ \A f \in Sessions \ {s} : k \notin made[f]

(* What a request commits is what it was asked for, except on slots that    *)
(* another request changed while it was open: a tracked rule is active with *)
(* the threshold asked for, an untracked token has no active rule left.     *)
CommitsTakeEffect ==
  [][\A s \in Sessions :
       Commit(s) =>
         /\ op[s] = "track" /\ slot[s] \notin touched[s] =>
              slot[s] \in active' /\ threshold'[slot[s]] = asked[s]
         /\ op[s] = "untrack" =>
              active' \cap SameToken[slot[s]] \subseteq touched[s]
         /\ op[s] = "delete" /\ slot[s] \notin touched[s] =>
              slot[s] \notin active']_vars

(* Every request ends: of the waits of inserts, updates and commits for     *)
(* other open transactions only one kind closes a cycle, and PostgreSQL     *)
(* breaks it.                                                               *)
EveryRequestEnds == \A s \in Sessions : pc[s] # "idle" ~> pc[s] = "idle"

(* repositories.py:134 "If an identical rule exists (active or not) its     *)
(* threshold is updated and it is reactivated": a request to track that     *)
(* found the rule ends with the row updated, unless it fails or deadlocks.   *)
TrackAgainIsStored ==
  [][\A s \in Sessions :
       op[s] = "track" /\ readActive[s] # "unread" /\ pc'[s] = "idle" /\ fails' = fails
         /\ ~DeadlockDetected(s) =>
           threshold'[slot[s]] = asked[s] \/ slot[s] \in touched[s]]_vars
=============================================================================
