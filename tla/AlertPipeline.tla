--------------------------- MODULE AlertPipeline ---------------------------
(***************************************************************************)
(* From a block to a message: the worker's block monitor (BlockMonitor)    *)
(* awaits its alert engine (AlertEngine) for every whale, and Celery's     *)
(* poll tasks run engines of their own on the same database                *)
(* (worker.py, tasks/monitoring_tasks.py).                                 *)
(*                                                                         *)
(* Two durable things must agree across crashes: the cursor in Redis and   *)
(* the rows in PostgreSQL.  The monitor's variables keep their names; the  *)
(* engines' are declared here, with call for the engine's pc.              *)
(***************************************************************************)
EXTENDS BlockMonitor

CONSTANTS
  Worker,         \* the process of the monitor: its engine has a notifier
  Tasks,          \* Celery processes: engines without one
  Rules, Users, Owner,
  Asks,           \* [Rules -> Nat]: threshold_usd
  Worth,          \* the logs that hold a whale, and their USD value
  Matching,       \* the rules each of them matches when they are active
  Replies,
  MaxRuns, MaxPolls, MaxAborts, MaxEdits      \* bounds

VARIABLES
  active, notify, history,                  \* the database
  call, whale, todo, rule, cached, draft,   \* the engines
  told, runs, aborts, edits,
  matched, quiet, reached, lost,
  dropped,        \* history: whales not valued, or whose handler raised
  touched         \* history: rules and users changed since the start

Whales   == DOMAIN Worth
Everyone == Tasks \cup {Worker}

E == INSTANCE AlertEngine WITH
  pc <- call, Engines <- Everyone, Notifying <- {Worker}

alertVars    == <<active, notify, history, call, whale, todo, rule, cached, draft,
                  told, runs, aborts, edits, matched, quiet, reached, lost>>
noteVars     == <<dropped, touched>>
pipelineVars == <<vars, alertVars, noteVars>>

ASSUME PipelineAssumption ==
  /\ Worker \notin Tasks
  /\ Worth \in [Whales -> Values] /\ Whales \subseteq Logs
  /\ Asks \in [Rules -> Gates]
  /\ \A r \in Rules : DefaultGate <= Asks[r]     \* validate_threshold
  /\ \A w \in Whales : \A r \in Matching[w] : Worth[w] >= Asks[r]
  /\ Owner \in [Rules -> Users]
  /\ Matching \in [Whales -> SUBSET Rules]
  /\ Replies \subseteq E!AllReplies
  /\ None \notin Rules /\ None \notin Whales
  /\ MaxRuns \in Nat /\ MaxPolls \in Nat
  /\ MaxAborts \in Nat /\ MaxEdits \in Nat

PipelineInit == Init /\ E!Init /\ dropped = {} /\ touched = {}

-----------------------------------------------------------------------------
(* Steps of the monitor alone.                                             *)

Watch ==
  /\ \/ NewBlock \/ StartUp \/ HeadFails \/ ReadAnyHead \/ Fetch \/ FetchFails
     \/ SaveCursor \/ SaveFails \/ NoSave
  /\ UNCHANGED <<alertVars, noteVars>>

\* The smallest threshold of the rules that are active now.
SmallestActive(g) ==
  /\ \E r \in active : Asks[r] = g
  /\ \A r \in active : g <= Asks[r]

\* The threshold provider's query; the default stands in when there is no rule,
\* and when the query raises.
IsGate(g) == SmallestActive(g) \/ g = DefaultGate

AskGate ==
  /\ \E g \in Gates \cup {DefaultGate} :
       /\ IsGate(g)
       /\ ReadGate(g)
  /\ UNCHANGED <<alertVars, noteVars>>

\* A log that is no whale, or one whose price no source knows.
PassUnvalued(l) ==
  /\ SkipLog(l, None)
  /\ dropped' = dropped \cup ({l} \cap Whales)
  /\ UNCHANGED <<alertVars, touched>>

PassSmall(l) ==
  /\ l \in Whales
  /\ SkipLog(l, Worth[l])
  /\ UNCHANGED <<alertVars, noteVars>>

-----------------------------------------------------------------------------
(* The monitor awaits the engine.                                          *)

HandWhale(l) ==
  /\ l \in Whales
  /\ CallHandler(l, Worth[l])
  /\ E!Begin(Worker, l)
  /\ UNCHANGED noteVars

HandlerForgotten == TRUE                     \* mutant: the handler is not awaited
HandlerReturned  == call[Worker] = "idle"

Resume(l) ==
  /\ HandlerReturned
  /\ HandlerDone(l)
  /\ UNCHANGED <<alertVars, noteVars>>

Handling == pc = "handler" /\ UNCHANGED vars

Work ==
  /\ Handling
  /\ E!Proceed(Worker)
  /\ UNCHANGED noteVars

\* The transaction is rolled back and on_whale raises: caught and logged.
Raise(rollback) ==
  /\ Handling
  /\ rollback
  /\ dropped' = dropped \cup {whale[Worker]}
  /\ UNCHANGED touched

WorkFails == Raise(E!Refused(Worker))
WorkErrs  == Raise(E!Abort(Worker))

\* The end of the process takes the open transaction with it.
Crash ==
  /\ Halt
  /\ IF call[Worker] = "idle" THEN UNCHANGED alertVars ELSE E!Abort(Worker)
  /\ UNCHANGED noteVars

-----------------------------------------------------------------------------
(* Celery and the users.                                                   *)

\* A poll task looks at the confirmed block its node has, with the default gate.
Poll(t, w) ==
  /\ w[2] <= head - Confirmations
  /\ Worth[w] >= DefaultGate
  /\ runs[t] < MaxPolls
  /\ E!Begin(t, w)
  /\ UNCHANGED <<vars, noteVars>>

RunTask(t) ==
  /\ E!Continue(t)
  /\ UNCHANGED <<vars, noteVars>>

TaskErrs(t) ==
  /\ E!Abort(t)
  /\ UNCHANGED <<vars, noteVars>>

ChangeRule(r) ==
  /\ E!EditRule(r)
  /\ touched' = touched \cup {r}
  /\ UNCHANGED <<vars, dropped>>

ChangeNotify(u) ==
  /\ E!EditNotify(u)
  /\ touched' = touched \cup {u}
  /\ UNCHANGED <<vars, dropped>>

-----------------------------------------------------------------------------
WalkLogs == \E l \in pending :
  PassUnvalued(l) \/ PassSmall(l) \/ HandWhale(l) \/ Resume(l)

PipelineNext ==
  \/ Watch \/ AskGate \/ WalkLogs \/ Work \/ WorkFails \/ WorkErrs \/ Crash
  \/ \E t \in Tasks :
       \/ \E w \in Whales : Poll(t, w)
       \/ RunTask(t) \/ TaskErrs(t)
  \/ \E r \in Rules : ChangeRule(r)
  \/ \E u \in Users : ChangeNotify(u)

PipelineSpec == PipelineInit /\ [][PipelineNext]_pipelineVars

\* As in BlockMonitor and AlertEngine: awaits return, the runtime starts the
\* worker again, the node answers the true head in the end.
PipelineFairness ==
  /\ WF_pipelineVars(Watch /\ StartUp)
  /\ WF_pipelineVars(Watch /\ ReadHead(head))
  /\ WF_pipelineVars(Watch /\ (Fetch \/ SaveCursor \/ NoSave))
  /\ WF_pipelineVars(AskGate)
  /\ WF_pipelineVars(WalkLogs)
  /\ WF_pipelineVars(Work \/ WorkFails)
  /\ \A t \in Tasks : WF_pipelineVars(RunTask(t))

FairPipeline == PipelineSpec /\ PipelineFairness

-----------------------------------------------------------------------------
(* Properties.                                                             *)

Steady == active \ touched

\* Every rule that has been active all along has its row for the whale.
Decided(w) == \A r \in Matching[w] \cap Steady : history[<<r, w>>] # <<>>

\* The whale was given up on: its logs could not be fetched, it could not be
\* valued, or its handler raised.
GivenUp(w) == w \in missed \cup dropped

(* The cursor in Redis never runs ahead of the rows in PostgreSQL: whatever *)
(* crashes, aborts and races with Celery came before, a whale the cursor    *)
(* has passed has its row for every steady rule it matches, or was given up *)
(* on in the open (poll_once, handle_whale, session_scope).                 *)
PassedIsDecided ==
  cursor # None =>
    \A w \in Whales : w[2] \in origin .. cursor => GivenUp(w) \/ Decided(w)

(* What a crash interrupts is found again: an open transaction of a worker  *)
(* that knows the cursor is about a block above it (poll_once 109-112).     *)
InterruptedIsReplayed ==
  call[Worker] # "idle" /\ reading = "known" /\ cursor # None =>
    whale[Worker][2] > cursor

(* Once there is a cursor, every whale above it gets its rows: no crash, no *)
(* wait for a row of Celery's and no lost race leaves one undecided for     *)
(* ever (start, poll_once, handle_whale).                                   *)
EveryWhaleIsDecided ==
  \A w \in Whales :
    cursor # None /\ cursor < w[2] /\ w[2] <= head - Confirmations
      ~> GivenUp(w) \/ Decided(w) \/ w[2] \in skipped

(* The engine lets the monitor go on: with the handler in place of the      *)
(* monitor's nondeterministic one, every fair behaviour of the pipeline is  *)
(* a fair behaviour of the monitor; the awaited transaction, its waits for  *)
(* Celery's rows and its deadlocks always end.                              *)
ImplementsMonitor == FairSpec

(* monitoring_tasks.py:4 the poll task is "an alternative to the always-on  *)
(* worker loop": a whale the cursor has passed was told to the owner of     *)
(* every steady rule who has notifications on, when Telegram is reachable.  *)
EveryWhaleIsTold ==
  cursor # None =>
    \A w \in Whales : w[2] \in origin .. cursor =>
      \/ GivenUp(w)
      \/ \A r \in Matching[w] \cap Steady :
           Owner[r] \in notify \ touched => told[<<r, w>>] > 0
=============================================================================
