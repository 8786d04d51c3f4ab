---------------------------- MODULE AlertEngine ----------------------------
(***************************************************************************)
(* The alert engine (backend/alerts/engine.py) on its database.            *)
(*                                                                         *)
(* Several processes hold an engine: the worker, which has a Telegram      *)
(* notifier, and every Celery process, which has none.  handle_whale runs  *)
(* in one transaction (session_scope): the rows it inserts into            *)
(* alert_history are seen by others only when it commits, and are gone     *)
(* when it rolls back; a Telegram message cannot be taken back.            *)
(*                                                                         *)
(* The database is PostgreSQL at READ COMMITTED with the unique index      *)
(* uq_rule_dedup on (rule, action): an insert of a key another open        *)
(* transaction has inserted waits for that transaction to end, and fails   *)
(* when it committed.  Each action is the code between two awaits.         *)
(***************************************************************************)
EXTENDS Integers, Sequences

CONSTANTS
  Engines,        \* processes that run handle_whale
  Notifying,      \* those a notifier was attached to (set_notifier)
  Rules, Users, Whales,
  Owner,          \* [Rules -> Users]
  Matching,       \* [Whales -> SUBSET Rules]: rule_matches, but for is_active
  Replies,        \* how a call of Telegram may end
  None,
  MaxRuns,        \* bound on how often one engine handles a whale
  MaxAborts,      \* bound on failures and crashes
  MaxEdits        \* bound on what users change meanwhile

Keys == Rules \X Whales

\* "ok": delivered.  "refused": not delivered, and an error.  "unsure":
\* delivered, but the answer is lost and the call raises.
AllReplies == {"ok", "refused", "unsure"}

ASSUME EngineAssumption ==
  /\ Notifying \subseteq Engines
  /\ Owner \in [Rules -> Users]
  /\ Matching \in [Whales -> SUBSET Rules]
  /\ Replies \subseteq AllReplies
  /\ None \notin Rules /\ None \notin Whales
  /\ MaxRuns \in Nat /\ MaxAborts \in Nat /\ MaxEdits \in Nat

Final  == {"SENT", "FAILED", "SUPPRESSED"}         \* statuses that are committed
Drafts == {"none", "PENDING"} \cup Final

VARIABLES
  active,         \* rules whose committed is_active is true
  notify,         \* users whose committed notifications_enabled is true
  history,        \* statuses of the committed rows of each key
  pc,             \* where each engine is in handle_whale
  whale,          \* the whale it handles
  todo,           \* matching rules its loop has not visited yet
  rule,           \* the rule it is visiting
  cached,         \* notifications_enabled of the users its session loaded
  draft,          \* status of the row it inserted for each rule, or "none"
  told,           \* messages that reached the user, by key
  runs,           \* how many times each engine began handling a whale
  aborts, edits,  \* how often a transaction was abandoned, users edited
  matched,        \* history: the rules that matched when the loop began
  quiet,          \* history: users with notifications off ever since
  reached,        \* history: drafted rules whose message reached the user
  lost            \* history: messages whose row was rolled back, by key

dbVars     == <<active, notify, history>>
engineVars == <<pc, whale, todo, rule, cached, draft, matched, quiet, reached>>
vars       == <<dbVars, engineVars, told, lost, runs, aborts, edits>>

Unread   == [u \in Users |-> "unread"]
NoDrafts == [r \in Rules |-> "none"]

Init ==
  /\ active \in SUBSET Rules
  /\ notify \in SUBSET Users
  /\ history = [k \in Keys |-> <<>>]
  /\ pc = [e \in Engines |-> "idle"]
  /\ whale = [e \in Engines |-> None]
  /\ todo = [e \in Engines |-> {}]
  /\ rule = [e \in Engines |-> None]
  /\ cached = [e \in Engines |-> Unread]
  /\ draft = [e \in Engines |-> NoDrafts]
  /\ told = [k \in Keys |-> 0]
  /\ runs = [e \in Engines |-> 0]
  /\ aborts = 0 /\ edits = 0
  /\ matched = [e \in Engines |-> {}]
  /\ quiet = [e \in Engines |-> {}]
  /\ reached = [e \in Engines |-> {}]
  /\ lost = [k \in Keys |-> 0]

-----------------------------------------------------------------------------
(* handle_whale.                                                           *)

Goto(e, label) == pc' = [pc EXCEPT ![e] = label]
Key(e) == <<rule[e], whale[e]>>

\* list_all_active and rule_matches; the new session has loaded no user yet.
SessionCacheKept(e) == cached[e]              \* mutant: one session for ever
SessionCache(e) == Unread

Begin(e, w) ==
  LET matches == active \cap Matching[w] IN
  /\ pc[e] = "idle"
  /\ IF matches = {}
       THEN UNCHANGED <<engineVars, runs>>         \* return 0
       ELSE /\ runs[e] < MaxRuns
            /\ runs' = [runs EXCEPT ![e] = @ + 1]
            /\ Goto(e, "loop")
            /\ whale' = [whale EXCEPT ![e] = w]
            /\ todo' = [todo EXCEPT ![e] = matches]
            /\ cached' = [cached EXCEPT ![e] = SessionCache(e)]
            /\ matched' = [matched EXCEPT ![e] = matches]
            /\ quiet' = [quiet EXCEPT ![e] = Users \ notify]
            /\ UNCHANGED <<rule, draft, reached>>
  /\ UNCHANGED <<dbVars, told, lost, aborts, edits>>

\* history_repo.exists: committed rows, and the session's own flushed ones.
ExistsDirty(e, r) ==                          \* mutant: dirty reads
  \/ history[<<r, whale[e]>>] # <<>>
  \/ \E f \in Engines : whale[f] = whale[e] /\ draft[f][r] # "none"
Exists(e, r) == history[<<r, whale[e]>>] # <<>> \/ draft[e][r] # "none"

Visit(e, r) ==
  /\ pc[e] = "loop"
  /\ r \in todo[e]
  /\ todo' = [todo EXCEPT ![e] = @ \ {r}]
  /\ IF Exists(e, r)
       THEN UNCHANGED <<pc, rule>>                 \* continue
       ELSE Goto(e, "user") /\ rule' = [rule EXCEPT ![e] = r]
  /\ UNCHANGED <<dbVars, whale, cached, draft, matched, quiet, reached, told,
                 lost, runs, aborts, edits>>

\* session.get(User): read from the database once per session.  The code never
\* deactivates or deletes a user, so the guard that follows always passes.
LoadUser(e) ==
  LET u == Owner[rule[e]] IN
  /\ pc[e] = "user"
  /\ Goto(e, "insert")
  /\ cached' = IF cached[e][u] = "unread"
                 THEN [cached EXCEPT ![e][u] = IF u \in notify THEN "on" ELSE "off"]
                 ELSE cached
  /\ UNCHANGED <<dbVars, whale, todo, rule, draft, matched, quiet, reached, told,
                 lost, runs, aborts, edits>>

\* Another open transaction has inserted the row e is about to insert.
Holds(f, k) == whale[f] = k[2] /\ draft[f][k[1]] # "none"
Waits(e)    == pc[e] = "insert" /\ \E f \in Engines \ {e} : Holds(f, Key(e))

InsertUnchecked(e) == TRUE                    \* mutant: no unique index
InsertIsUnique(e) == ~Waits(e) /\ history[Key(e)] = <<>>

Insert(e) ==
  /\ pc[e] = "insert"
  /\ InsertIsUnique(e)
  /\ Goto(e, "deliver")
  /\ draft' = [draft EXCEPT ![e][rule[e]] = "PENDING"]
  /\ UNCHANGED <<dbVars, whale, todo, rule, cached, matched, quiet, reached, told,
                 lost, runs, aborts, edits>>

\* What the row's status becomes, and whether a message reached the user.
SetStatus(e, status) ==
  /\ Goto(e, "chain")
  /\ draft' = [draft EXCEPT ![e][rule[e]] = status]
  /\ UNCHANGED <<dbVars, whale, todo, rule, cached, matched, quiet, lost, runs,
                 aborts, edits>>

MessageArrives(e) ==
  /\ told' = [told EXCEPT ![Key(e)] = @ + 1]
  /\ reached' = [reached EXCEPT ![e] = @ \cup {rule[e]}]

Suppress(e) ==
  /\ pc[e] = "deliver"
  /\ cached[e][Owner[rule[e]]] = "off"
  /\ SetStatus(e, "SUPPRESSED")
  /\ UNCHANGED <<told, reached>>

NoNotifier(e) ==
  /\ pc[e] = "deliver"
  /\ cached[e][Owner[rule[e]]] = "on"
  /\ e \notin Notifying
  /\ SetStatus(e, "FAILED")
  /\ UNCHANGED <<told, reached>>

StatusIgnored(reply) == "SENT"                \* mutant: the answer is not read
StatusUnset(reply) ==                         \* mutant: no status on an error
  IF reply = "ok" THEN "SENT" ELSE "PENDING"
StatusAfter(reply) == IF reply = "ok" THEN "SENT" ELSE "FAILED"

Deliver(e, reply) ==
  /\ pc[e] = "deliver"
  /\ cached[e][Owner[rule[e]]] = "on"
  /\ e \in Notifying
  /\ SetStatus(e, StatusAfter(reply))
  /\ IF reply = "refused" THEN UNCHANGED <<told, reached>>
                          ELSE MessageArrives(e)

\* log_alert never raises; the hash it may return only fills a column.
LogOnChain(e) ==
  /\ pc[e] = "chain"
  /\ Goto(e, "loop")
  /\ UNCHANGED <<dbVars, whale, todo, rule, cached, draft, matched, quiet, reached,
                 told, lost, runs, aborts, edits>>

\* The session is closed: nothing of it is left in memory.
EndSession(e) ==
  /\ Goto(e, "idle")
  /\ whale' = [whale EXCEPT ![e] = None]
  /\ todo' = [todo EXCEPT ![e] = {}]
  /\ rule' = [rule EXCEPT ![e] = None]
  /\ draft' = [draft EXCEPT ![e] = NoDrafts]
  /\ matched' = [matched EXCEPT ![e] = {}]
  /\ quiet' = [quiet EXCEPT ![e] = {}]
  /\ reached' = [reached EXCEPT ![e] = {}]
  /\ UNCHANGED <<cached, active, notify, told, runs, edits>>

DraftedUnsaved(e, k) == FALSE                 \* mutant: the block ends without a commit
Drafted(e, k) == whale[e] = k[2] /\ draft[e][k[1]] # "none"

Commit(e) ==
  /\ pc[e] = "loop"
  /\ todo[e] = {}
  /\ history' = [k \in Keys |-> IF Drafted(e, k)
                                  THEN Append(history[k], draft[e][k[1]])
                                  ELSE history[k]]
  /\ EndSession(e)
  /\ UNCHANGED <<lost, aborts>>

RollBackForgotten(e) ==                       \* mutant: the session stays open
  /\ Goto(e, "idle")
  /\ UNCHANGED <<dbVars, whale, todo, rule, cached, draft, matched, quiet, reached,
                 told, lost, runs, edits>>
RollBack(e) ==
  /\ lost' = [k \in Keys |-> IF whale[e] = k[2] /\ k[1] \in reached[e]
                               THEN lost[k] + 1 ELSE lost[k]]
  /\ EndSession(e)
  /\ UNCHANGED history

\* The unique index refuses the row: IntegrityError.
InsertConflicts(e) ==
  /\ pc[e] = "insert"
  /\ ~Waits(e)
  /\ history[Key(e)] # <<>>
  /\ RollBack(e)
  /\ UNCHANGED aborts

\* PostgreSQL ends one transaction of a cycle of waiting ones.
Deadlocked(S) ==
  \A f \in S : Waits(f) /\ \E g \in S \ {f} : Holds(g, Key(f))

DeadlockDetected(e) ==
  /\ \E S \in SUBSET Engines : e \in S /\ Deadlocked(S)
  /\ RollBack(e)
  /\ UNCHANGED aborts

\* Any other database error, cancellation or the end of the process.
Abort(e) ==
  /\ pc[e] # "idle"
  /\ aborts < MaxAborts
  /\ aborts' = aborts + 1
  /\ RollBack(e)

-----------------------------------------------------------------------------
(* What users commit meanwhile: /track, /untrack, /stop, /settings.        *)

Edit ==
  /\ edits < MaxEdits
  /\ edits' = edits + 1
  /\ UNCHANGED <<history, pc, whale, todo, rule, cached, draft, matched, reached,
                 told, lost, runs, aborts>>

EditRule(r) ==
  /\ Edit
  /\ active' = IF r \in active THEN active \ {r} ELSE active \cup {r}
  /\ UNCHANGED <<notify, quiet>>

EditNotify(u) ==
  /\ Edit
  /\ notify' = IF u \in notify THEN notify \ {u} ELSE notify \cup {u}
  /\ quiet' = [e \in Engines |-> quiet[e] \ {u}]
  /\ UNCHANGED active

-----------------------------------------------------------------------------
DeliverAny(e) == \E reply \in Replies : Deliver(e, reply)

Proceed(e) ==
  \/ \E r \in todo[e] : Visit(e, r)
  \/ LoadUser(e)
  \/ Insert(e)
  \/ Suppress(e) \/ NoNotifier(e) \/ DeliverAny(e)
  \/ LogOnChain(e)
  \/ Commit(e)
Refused(e) == InsertConflicts(e) \/ DeadlockDetected(e)

\* The steps the event loop and the database owe an open transaction.
Continue(e) == Proceed(e) \/ Refused(e)

Next ==
  \/ \E e \in Engines :
       \/ \E w \in Whales : Begin(e, w)
       \/ Continue(e)
       \/ Abort(e)
  \/ \E r \in Rules : EditRule(r)
  \/ \E u \in Users : EditNotify(u)

Spec == Init /\ [][Next]_vars

\* The event loop resumes an open transaction and every await of it returns.
\* Nothing makes a process take up a whale, and none does so for ever.
Fairness == \A e \in Engines : WF_vars(Continue(e))

FairSpec == Spec /\ Fairness

-----------------------------------------------------------------------------
(* Properties.                                                             *)

Labels == {"idle", "loop", "user", "insert", "deliver", "chain"}

\* Every variable has the type the code gives it.
TypeOK ==
  /\ active \subseteq Rules
  /\ notify \subseteq Users
  /\ history \in [Keys -> Seq(Final)]
  /\ pc \in [Engines -> Labels]
  /\ whale \in [Engines -> Whales \cup {None}]
  /\ todo \in [Engines -> SUBSET Rules]
  /\ rule \in [Engines -> Rules \cup {None}]
  /\ cached \in [Engines -> [Users -> {"unread", "on", "off"}]]
  /\ draft \in [Engines -> [Rules -> Drafts]]
  /\ told \in [Keys -> Nat]
  /\ runs \in [Engines -> Nat]
  /\ aborts \in Nat /\ edits \in Nat
  /\ matched \in [Engines -> SUBSET Rules]
  /\ quiet \in [Engines -> SUBSET Users]
  /\ reached \in [Engines -> SUBSET Rules]
  /\ lost \in [Keys -> Nat]

(* models.py:131: the same rule and action never have two rows, whatever    *)
(* engines handle the whale at the same time or again after a restart.      *)
OneRowPerKey == \A k \in Keys : Len(history[k]) <= 1

(* A user gets a second message about the same action only if the row of an *)
(* earlier one was rolled back after it was sent.                           *)
DuplicatesOnlyAfterRollback == \A k \in Keys : told[k] <= lost[k] + 1

(* What a transaction commits covers every rule that matched when it began: *)
(* no interleaving with another engine makes it skip a rule that stays      *)
(* without a row.                                                           *)
CommitDecidesEveryMatch ==
  [][\A e \in Engines :
       pc[e] = "loop" /\ pc'[e] = "idle" /\ history' # history =>
         \A r \in matched[e] : history'[<<r, whale[e]>>] # <<>>]_vars

(* A user who had notifications off before the engine looked at the whale,  *)
(* and ever since, gets no message about it, whatever the session cached.   *)
QuietUsersStayQuiet ==
  [][\A r \in Rules, w \in Whales : told'[<<r, w>>] > told[<<r, w>>] =>
       \E e \in Engines : /\ pc[e] = "deliver" /\ Key(e) = <<r, w>>
                          /\ Owner[r] \notin quiet[e]]_vars

(* The engines implement the ledger: a decided key keeps its status and gets *)
(* no more messages, and SENT is never recorded without a message.           *)
Decision == [k \in Keys |-> IF history[k] = <<>> THEN "undecided" ELSE history[k][1]]
Ledger == INSTANCE AlertLedger WITH
  Undecided <- "undecided", Sent <- "SENT", Outcomes <- Final,
  decision <- Decision, messages <- told
ImplementsLedger == Ledger!Spec

(* Every transaction ends: waiting for a row another engine inserted, even   *)
(* in a cycle, never blocks an engine for ever.                              *)
EveryWhaleEnds ==
  \A e \in Engines : pc[e] # "idle" ~> pc[e] = "idle"

(* models.py:130 "never fire the same rule for the same tx + log twice".     *)
NeverFiresTwice == \A k \in Keys : told[k] <= 1
=============================================================================
