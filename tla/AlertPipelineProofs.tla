------------------------ MODULE AlertPipelineProofs ------------------------
(***************************************************************************)
(* Theorems about monitor and engine together, for any number of tasks,    *)
(* rules, users and whales, any batch size and any number of failures.     *)
(***************************************************************************)
EXTENDS AlertPipeline, BlockMonitorProofs

EP == INSTANCE AlertEngineProofs WITH
  pc <- call, Engines <- Everyone, Notifying <- {Worker}

-----------------------------------------------------------------------------
(* The two halves.  A step of the pipeline is a step of the monitor or     *)
(* leaves it alone, and the same for the engines, so that what was proved  *)
(* about each of them alone holds here.                                    *)

\* EP and E are instances of the same definitions.
LEMMA SameEngine == /\ E!Init => EP!Init
                    /\ [E!Next]_(E!vars) => [EP!Next]_(EP!vars)
BY DEF E!Init, EP!Init,
   E!Next, EP!Next, E!Continue, EP!Continue, E!Proceed, EP!Proceed,
   E!Refused, EP!Refused, E!DeliverAny, EP!DeliverAny, E!Begin, EP!Begin,
   E!Goto, EP!Goto, E!SessionCache, EP!SessionCache, E!Unread, EP!Unread,
   E!engineVars, EP!engineVars, E!dbVars, EP!dbVars, E!Visit, EP!Visit,
   E!Exists, EP!Exists, E!LoadUser, EP!LoadUser, E!Insert, EP!Insert,
   E!InsertIsUnique, EP!InsertIsUnique, E!Waits, EP!Waits, E!Holds,
   EP!Holds, E!Key, EP!Key, E!Suppress, EP!Suppress, E!NoNotifier,
   EP!NoNotifier, E!Deliver, EP!Deliver, E!StatusAfter, EP!StatusAfter,
   E!SetStatus, EP!SetStatus, E!MessageArrives, EP!MessageArrives,
   E!LogOnChain, EP!LogOnChain, E!Commit, EP!Commit, E!Drafted, EP!Drafted,
   E!EndSession, EP!EndSession, E!NoDrafts, EP!NoDrafts, E!InsertConflicts,
   EP!InsertConflicts, E!DeadlockDetected, EP!DeadlockDetected,
   E!Deadlocked, EP!Deadlocked, E!Abort, EP!Abort, E!RollBack, EP!RollBack,
   E!Edit, EP!Edit, E!EditRule, EP!EditRule, E!EditNotify, EP!EditNotify,
   E!Keys, EP!Keys, E!vars, EP!vars

LEMMA EngineMoves ==
  ASSUME [PipelineNext]_pipelineVars
  PROVE  [E!Next]_(E!vars)
<1>1. ASSUME UNCHANGED alertVars
      PROVE  UNCHANGED E!vars
  BY <1>1 DEF alertVars, E!vars, E!dbVars, E!engineVars
<1>2. Worker \in Everyone /\ Tasks \subseteq Everyone
  BY DEF Everyone
<1>3. CASE Watch \/ AskGate
  BY <1>1, <1>3 DEF Watch, AskGate
<1>4. ASSUME NEW l \in pending, PassUnvalued(l) \/ PassSmall(l) \/ Resume(l)
      PROVE  UNCHANGED E!vars
  BY <1>1, <1>4 DEF PassUnvalued, PassSmall, Resume
<1>5. ASSUME NEW l \in pending, HandWhale(l)
      PROVE  E!Next
  BY <1>2, <1>5 DEF HandWhale, E!Next
<1>6. CASE Work \/ WorkFails \/ WorkErrs
  BY <1>2, <1>6 DEF Work, WorkFails, WorkErrs, Raise, E!Next, E!Continue
<1>7. CASE Crash
  BY <1>1, <1>2, <1>7 DEF Crash, E!Next
<1>8. ASSUME NEW t \in Tasks,
             (\E w \in Whales : Poll(t, w)) \/ RunTask(t) \/ TaskErrs(t)
      PROVE  E!Next
  BY <1>2, <1>8 DEF Poll, RunTask, TaskErrs, E!Next
<1>9. CASE (\E r \in Rules : ChangeRule(r)) \/ (\E u \in Users : ChangeNotify(u))
  BY <1>9 DEF ChangeRule, ChangeNotify, E!Next
<1>10. CASE UNCHANGED pipelineVars
  BY <1>1, <1>10 DEF pipelineVars
<1>11. QED
  BY <1>3, <1>4, <1>5, <1>6, <1>7, <1>8, <1>9, <1>10 DEF PipelineNext, WalkLogs

(* The engines of the pipeline behave like the engines alone.              *)
THEOREM EngineImplemented == PipelineSpec => EP!Spec
<1>1. PipelineInit => E!Init
  BY DEF PipelineInit
<1>2. [PipelineNext]_pipelineVars => [E!Next]_(E!vars)
  BY EngineMoves
<1>3. QED
  BY <1>1, <1>2, SameEngine, PTL DEF PipelineSpec, EP!Spec

LEMMA MonitorMoves ==
  ASSUME [PipelineNext]_pipelineVars
  PROVE  [Next]_vars
<1>1. CASE Watch
  BY <1>1 DEF Watch, Next
<1>2. CASE AskGate
  BY <1>2 DEF AskGate, Next, ReadAnyGate
<1>3. ASSUME NEW l \in pending,
             PassUnvalued(l) \/ PassSmall(l) \/ HandWhale(l) \/ Resume(l)
      PROVE  HandleLog
  BY <1>3, PipelineAssumption
  DEF PassUnvalued, PassSmall, HandWhale, Resume, HandleLog, PipelineAssumption
<1>4. CASE Work \/ WorkFails \/ WorkErrs
  BY <1>4 DEF Work, WorkFails, WorkErrs, Raise, Handling
<1>5. CASE Crash
  BY <1>5 DEF Crash, Next
<1>6. ASSUME NEW t \in Tasks,
             (\E w \in Whales : Poll(t, w)) \/ RunTask(t) \/ TaskErrs(t)
      PROVE  UNCHANGED vars
  BY <1>6 DEF Poll, RunTask, TaskErrs
<1>7. CASE (\E r \in Rules : ChangeRule(r)) \/ (\E u \in Users : ChangeNotify(u))
  BY <1>7 DEF ChangeRule, ChangeNotify
<1>8. CASE UNCHANGED pipelineVars
  BY <1>8 DEF pipelineVars
<1>9. QED
  BY <1>1, <1>2, <1>3, <1>4, <1>5, <1>6, <1>7, <1>8
  DEF PipelineNext, WalkLogs, Next

(* The safety half of ImplementsMonitor: with the engine in place of the   *)
(* handler the monitor takes no step it would not take alone.              *)
THEOREM MonitorImplemented == PipelineSpec => Spec
<1>1. PipelineInit => Init
  BY DEF PipelineInit
<1>2. [PipelineNext]_pipelineVars => [Next]_vars
  BY MonitorMoves
<1>3. QED
  BY <1>1, <1>2, PTL DEF PipelineSpec, Spec


\* The constants are what the engine assumes of them.
LEMMA Assumed == EP!EngineAssumption
BY PipelineAssumption
DEF PipelineAssumption, EP!EngineAssumption, EP!AllReplies, E!AllReplies, Everyone

\* What is known about the two halves.
HalvesInv == ProcessInv /\ CursorInv /\ EP!EngineInv /\ EP!MatchesAccounted

LEMMA Halves == PipelineSpec => []HalvesInv
<1>1. EP!Spec => []EP!EngineInv
  BY Assumed, EP!Invariance
<1>2. EP!Spec => []EP!MatchesAccounted
  BY Assumed, EP!MatchesInvariant
<1>3. QED
  BY <1>1, <1>2, MonitorImplemented, EngineImplemented, ProcessInvariant,
     CursorInvariant, PTL DEF HalvesInv

-----------------------------------------------------------------------------
(* What only the two together keep: the open transaction of the worker is  *)
(* about the log its monitor waits for, and no log leaves the queue before *)
(* the steady rules it matches have their rows or it is given up on.       *)

Settled(w) == w \in dropped \/ Decided(w)

GateInv ==
  pc \in {"fetch", "logs", "handler"} => \A r \in Steady : gate <= Asks[r]

CallInv ==
  call[Worker] # "idle" =>
    /\ pc = "handler"
    /\ whale[Worker] \in Whales /\ IsFirst(whale[Worker])
    /\ Matching[whale[Worker]] \cap Steady \subseteq matched[Worker]

ReturnInv ==
  pc = "handler" /\ call[Worker] = "idle" =>
    \A l \in pending : IsFirst(l) => l \in Whales /\ Settled(l)

HandledInv == \A w \in Whales \cap handled : Settled(w)

MemoryInv ==
  store = "memory" /\ pc # "down" /\ reading = "known" => cursor = None

LinkInv == GateInv /\ CallInv /\ ReturnInv /\ HandledInv /\ MemoryInv

LEMMA FirstIsUnique ==
  ASSUME ProcessInv, NEW l \in pending, NEW m \in pending, IsFirst(l), IsFirst(m)
  PROVE  l = m
<1>1. l \in Topics \X Int /\ m \in Topics \X Int
  BY DEF ProcessInv, TypeOK, Logs
<1>2. l[1] = m[1] /\ l[2] = m[2]
  BY <1>1 DEF IsFirst, Topics, TRANSFER, SWAP
<1>3. QED
  BY <1>1, <1>2

\* No step of the monitor or of an engine touches the rules.
LEMMA SteadyShrinks ==
  ASSUME [PipelineNext]_pipelineVars
  PROVE  Steady' \subseteq Steady
<1>1. ASSUME active' = active, touched \subseteq touched'
      PROVE  Steady' \subseteq Steady
  BY <1>1 DEF Steady
<1>2. ASSUME NEW e \in Everyone,
             \/ \E w \in Whales : E!Begin(e, w)
             \/ E!Continue(e) \/ E!Abort(e)
      PROVE  active' = active
  BY <1>2 DEF E!Begin, E!Continue, E!Proceed, E!Refused, E!Abort, E!Visit,
     E!LoadUser, E!Insert, E!Suppress, E!NoNotifier, E!DeliverAny, E!Deliver,
     E!SetStatus, E!LogOnChain, E!Commit, E!EndSession, E!InsertConflicts,
     E!DeadlockDetected, E!RollBack, E!dbVars
<1>3. CASE Watch \/ AskGate
  BY <1>1, <1>3 DEF Watch, AskGate, alertVars, noteVars
<1>4. ASSUME NEW l \in pending, PassUnvalued(l) \/ PassSmall(l) \/ Resume(l)
      PROVE  Steady' \subseteq Steady
  BY <1>1, <1>4 DEF PassUnvalued, PassSmall, Resume, alertVars, noteVars
<1>5. ASSUME NEW l \in pending, HandWhale(l)
      PROVE  Steady' \subseteq Steady
  BY <1>1, <1>2, <1>5 DEF HandWhale, noteVars, Everyone
<1>6. CASE Work \/ WorkFails \/ WorkErrs
  BY <1>1, <1>2, <1>6 DEF Work, WorkFails, WorkErrs, Raise, noteVars, Everyone,
     E!Continue
<1>7. CASE Crash
  BY <1>1, <1>2, <1>7 DEF Crash, alertVars, noteVars, Everyone
<1>8. ASSUME NEW t \in Tasks,
             (\E w \in Whales : Poll(t, w)) \/ RunTask(t) \/ TaskErrs(t)
      PROVE  Steady' \subseteq Steady
  BY <1>1, <1>2, <1>8 DEF Poll, RunTask, TaskErrs, noteVars, Everyone
<1>9. ASSUME NEW r \in Rules, ChangeRule(r)
      PROVE  Steady' \subseteq Steady
  BY <1>9 DEF ChangeRule, E!EditRule, Steady
<1>10. ASSUME NEW u \in Users, ChangeNotify(u)
       PROVE  Steady' \subseteq Steady
  BY <1>1, <1>10 DEF ChangeNotify, E!EditNotify
<1>11. CASE UNCHANGED pipelineVars
  BY <1>1, <1>11 DEF pipelineVars, alertVars, noteVars
<1>12. QED
  BY <1>3, <1>4, <1>5, <1>6, <1>7, <1>8, <1>9, <1>10, <1>11
  DEF PipelineNext, WalkLogs

LEMMA DroppedGrows ==
  ASSUME [PipelineNext]_pipelineVars
  PROVE  dropped \subseteq dropped'
BY DEF PipelineNext, pipelineVars, noteVars, Watch, AskGate, WalkLogs,
   PassUnvalued, PassSmall, HandWhale, Resume, Work, WorkFails, WorkErrs, Raise,
   Crash, Poll, RunTask, TaskErrs, ChangeRule, ChangeNotify

LEMMA SettledStays ==
  ASSUME HalvesInv, [PipelineNext]_pipelineVars, NEW w \in Whales, Settled(w)
  PROVE  Settled(w)'
<1>1. CASE w \in dropped
  BY <1>1, DroppedGrows DEF Settled
<1>2. ASSUME Decided(w), NEW r \in Matching[w] \cap Steady'
      PROVE  history'[<<r, w>>] # <<>>
  <2>1. r \in Rules /\ r \in Steady /\ <<r, w>> \in EP!Keys
    BY <1>2, SteadyShrinks, PipelineAssumption DEF PipelineAssumption, EP!Keys
  <2>2. history[<<r, w>>] # <<>>
    BY <1>2, <2>1 DEF Decided
  <2>3. [EP!Next]_(EP!vars)
    BY EngineMoves, SameEngine
  <2>4. QED
    BY <2>1, <2>2, <2>3, Assumed, EP!RowsStay DEF HalvesInv
<1>3. QED
  BY <1>1, <1>2 DEF Settled, Decided

\* A step of a Celery process leaves the worker's engine alone.
LEMMA TasksApart ==
  ASSUME HalvesInv, NEW t \in Tasks,
         \/ \E w \in Whales : E!Begin(t, w)
         \/ E!Continue(t) \/ E!Abort(t)
  PROVE  /\ call'[Worker] = call[Worker]
         /\ whale'[Worker] = whale[Worker]
         /\ matched'[Worker] = matched[Worker]
<1>1. Worker \in Everyone /\ t \in Everyone /\ t # Worker
  BY PipelineAssumption DEF PipelineAssumption, Everyone
<1>2. Worker \in DOMAIN call /\ Worker \in DOMAIN whale /\ Worker \in DOMAIN matched
  BY <1>1 DEF HalvesInv, EP!EngineInv, EP!TypeOK
<1>3. ASSUME E!EndSession(t)
      PROVE  /\ call'[Worker] = call[Worker]
             /\ whale'[Worker] = whale[Worker]
             /\ matched'[Worker] = matched[Worker]
  BY <1>1, <1>2, <1>3 DEF E!EndSession, E!Goto
<1>4. CASE \E w \in Whales : E!Begin(t, w)
  BY <1>1, <1>2, <1>4 DEF E!Begin, E!Goto, E!engineVars
<1>5. CASE E!Commit(t) \/ E!Refused(t) \/ E!Abort(t)
  BY <1>3, <1>5 DEF E!Commit, E!Refused, E!InsertConflicts, E!DeadlockDetected,
     E!Abort, E!RollBack
<1>6. CASE E!Proceed(t) /\ ~E!Commit(t)
  BY <1>1, <1>2, <1>6 DEF E!Proceed, E!Visit, E!LoadUser, E!Insert, E!Suppress,
     E!NoNotifier, E!DeliverAny, E!Deliver, E!SetStatus, E!LogOnChain, E!Goto
<1>7. QED
  BY <1>4, <1>5, <1>6 DEF E!Continue

\* While it is open the worker's transaction stays about the same whale.
LEMMA WorkGoesOn ==
  ASSUME HalvesInv, E!Proceed(Worker), ~E!Commit(Worker)
  PROVE  /\ call[Worker] # "idle" /\ call'[Worker] # "idle"
         /\ whale'[Worker] = whale[Worker]
         /\ matched'[Worker] = matched[Worker]
<1>1. Worker \in DOMAIN call
  BY DEF HalvesInv, EP!EngineInv, EP!TypeOK, Everyone
<1>2. QED
  BY <1>1 DEF HalvesInv, E!Proceed, E!Visit, E!LoadUser, E!Insert, E!Suppress,
     E!NoNotifier, E!DeliverAny, E!Deliver, E!SetStatus, E!LogOnChain, E!Goto

\* What ends it without a commit ends the session.
LEMMA WorkEnds ==
  ASSUME HalvesInv, E!Refused(Worker) \/ E!Abort(Worker)
  PROVE  call[Worker] # "idle" /\ call'[Worker] = "idle"
<1>1. Worker \in DOMAIN call
  BY DEF HalvesInv, EP!EngineInv, EP!TypeOK, Everyone
<1>2. call[Worker] # "idle"
  BY DEF E!Refused, E!InsertConflicts, E!DeadlockDetected, E!Deadlocked,
     E!Waits, E!Abort
<1>3. E!EndSession(Worker)
  BY DEF E!Refused, E!InsertConflicts, E!DeadlockDetected, E!Abort, E!RollBack
<1>4. QED
  BY <1>1, <1>2, <1>3 DEF E!EndSession, E!Goto

\* A commit of the worker settles the whale it was handed.
LEMMA WorkSettles ==
  ASSUME HalvesInv, CallInv, [PipelineNext]_pipelineVars, E!Commit(Worker),
         NEW w \in Whales, whale[Worker] = w
  PROVE  call[Worker] # "idle" /\ call'[Worker] = "idle" /\ Settled(w)'
<1>1. Worker \in Everyone /\ Worker \in DOMAIN call
  BY DEF HalvesInv, EP!EngineInv, EP!TypeOK, Everyone
<1>2. call[Worker] # "idle" /\ call'[Worker] = "idle"
  BY <1>1 DEF E!Commit, E!EndSession, E!Goto
<1>3. EP!Commit(Worker)
  BY DEF E!Commit, EP!Commit, E!EndSession, EP!EndSession, E!Goto, EP!Goto,
     E!NoDrafts, EP!NoDrafts, E!Keys, EP!Keys, E!Drafted, EP!Drafted
<1>4. [EP!Next]_(EP!vars)
  BY EngineMoves, SameEngine
<1>5. \A r \in matched[Worker] : history'[<<r, whale[Worker]>>] # <<>>
  BY <1>1, <1>3, <1>4, Assumed, EP!CommitDecides DEF HalvesInv
<1>6. Matching[whale[Worker]] \cap Steady' \subseteq matched[Worker]
  BY <1>2, SteadyShrinks DEF CallInv
<1>7. QED
  BY <1>2, <1>5, <1>6 DEF Settled, Decided

-----------------------------------------------------------------------------
LEMMA GateStep ==
  ASSUME HalvesInv, GateInv, [PipelineNext]_pipelineVars
  PROVE  GateInv'
<1>1. ASSUME pc' \in {"fetch", "logs", "handler"} =>
               pc \in {"fetch", "logs", "handler"} /\ gate' = gate
      PROVE  GateInv'
  BY <1>1, SteadyShrinks DEF GateInv
<1>2. CASE AskGate
  <2>1. PICK g \in Gates \cup {DefaultGate} : IsGate(g) /\ ReadGate(g)
    BY <1>2 DEF AskGate
  <2>2. gate' = g /\ active' = active /\ touched' = touched
    BY <1>2, <2>1 DEF AskGate, ReadGate, alertVars, noteVars
  <2>3. \A r \in Steady : g <= Asks[r]
    BY <2>1, PipelineAssumption
    DEF IsGate, SmallestActive, Steady, PipelineAssumption, HalvesInv,
        EP!EngineInv, EP!TypeOK
  <2>4. QED
    BY <2>2, <2>3 DEF GateInv, Steady
<1>3. CASE UNCHANGED vars
  BY <1>1, <1>3 DEF vars, monitorVars
<1>4. CASE Watch
  <2>1. CASE NewBlock \/ HeadFails
    BY <1>1, <2>1 DEF NewBlock, HeadFails, monitorVars
  <2>2. CASE StartUp
    BY <1>1, <2>2 DEF StartUp, Start
  <2>3. CASE ReadAnyHead
    BY <1>1, <2>3 DEF ReadAnyHead, ReadHead
  <2>4. CASE Fetch \/ FetchFails
    BY <1>1, <2>4 DEF Fetch, FetchFails, NextTopic
  <2>5. CASE SaveCursor \/ SaveFails \/ NoSave
    BY <1>1, <2>5 DEF SaveCursor, SaveFails, NoSave, Advance
  <2>6. QED
    BY <1>4, <2>1, <2>2, <2>3, <2>4, <2>5 DEF Watch
<1>5. CASE WalkLogs
  BY <1>1, <1>5 DEF WalkLogs, PassUnvalued, PassSmall, HandWhale, Resume, SkipLog,
     CallHandler, HandlerDone
<1>6. CASE Crash
  BY <1>1, <1>6 DEF Crash, Halt
<1>7. QED
  BY <1>2, <1>3, <1>4, <1>5, <1>6 DEF PipelineNext, pipelineVars, Work, WorkFails,
     WorkErrs, Raise, Handling, Poll, RunTask, TaskErrs, ChangeRule, ChangeNotify

LEMMA MemoryStep ==
  ASSUME HalvesInv, MemoryInv, [PipelineNext]_pipelineVars
  PROVE  MemoryInv'
<1>1. CASE UNCHANGED vars
  BY <1>1 DEF MemoryInv, vars, monitorVars, envVars
<1>2. CASE Watch
  <2>1. CASE NewBlock \/ HeadFails
    BY <2>1 DEF NewBlock, HeadFails, monitorVars, MemoryInv
  <2>2. CASE StartUp
    BY <2>2 DEF StartUp, Start, MemoryInv
  <2>3. CASE ReadAnyHead
    BY <2>3 DEF ReadAnyHead, ReadHead, envVars, MemoryInv
  <2>4. CASE Fetch \/ FetchFails
    BY <2>4 DEF Fetch, FetchFails, NextTopic, envVars, MemoryInv
  <2>5. CASE SaveCursor \/ SaveFails \/ NoSave
    BY <2>5 DEF SaveCursor, SaveFails, NoSave, Advance, envVars, MemoryInv
  <2>6. QED
    BY <1>2, <2>1, <2>2, <2>3, <2>4, <2>5 DEF Watch
<1>3. CASE AskGate
  BY <1>3 DEF AskGate, ReadGate, envVars, MemoryInv
<1>4. CASE WalkLogs
  BY <1>4 DEF WalkLogs, PassUnvalued, PassSmall, HandWhale, Resume, SkipLog,
     CallHandler, HandlerDone, envVars, MemoryInv
<1>5. CASE Crash
  BY <1>5 DEF Crash, Halt, MemoryInv
<1>6. QED
  BY <1>1, <1>2, <1>3, <1>4, <1>5 DEF PipelineNext, pipelineVars, Work, WorkFails,
     WorkErrs, Raise, Handling, Poll, RunTask, TaskErrs, ChangeRule, ChangeNotify

\* A log no steady rule asks for needs no row.
LEMMA SmallIsSettled ==
  ASSUME HalvesInv, GateInv, [PipelineNext]_pipelineVars, NEW l, PassSmall(l)
  PROVE  Settled(l)'
<1>1. l \in Whales /\ pc = "logs" /\ Worth[l] < gate
  <2>1. l \in Whales /\ Worth[l] \in Values
    BY PipelineAssumption DEF PassSmall, PipelineAssumption
  <2>2. Worth[l] # None /\ Worth[l] \in Nat
    <3>1. Values \subseteq Nat /\ None \notin Nat
      BY MonitorAssumption DEF MonitorAssumption
    <3>2. QED
      BY <2>1, <3>1
  <2>3. gate \in Nat
    BY DEF HalvesInv, ProcessInv, TypeOK
  <2>4. QED
    BY <2>1, <2>2, <2>3 DEF PassSmall, SkipLog, IsWhale
<1>2. ASSUME NEW r \in Matching[l] \cap Steady
      PROVE  FALSE
  <2>1. r \in Rules /\ Worth[l] >= Asks[r] /\ Asks[r] \in Nat /\ Worth[l] \in Nat
    BY <1>1, <1>2, PipelineAssumption, MonitorAssumption
    DEF PipelineAssumption, MonitorAssumption
  <2>2. gate <= Asks[r] /\ gate \in Nat
    BY <1>1, <1>2 DEF GateInv, HalvesInv, ProcessInv, TypeOK
  <2>3. QED
    BY <1>1, <2>1, <2>2
<1>3. QED
  BY <1>2, SteadyShrinks DEF Settled, Decided

LEMMA HandledStep ==
  ASSUME HalvesInv, LinkInv, [PipelineNext]_pipelineVars
  PROVE  HandledInv'
<1>1. ASSUME handled' = handled
      PROVE  HandledInv'
  BY <1>1, SettledStays DEF LinkInv, HandledInv
<1>2. ASSUME NEW l \in pending, l \in Whales => Settled(l)', Finished(l)
      PROVE  HandledInv'
  BY <1>2, SettledStays DEF LinkInv, HandledInv, Finished
<1>3. CASE Watch
  <2>1. handled' = handled
    BY <1>3 DEF Watch, NewBlock, HeadFails, StartUp, Start, ReadAnyHead, ReadHead,
       Fetch, FetchFails, SaveCursor, SaveFails, NoSave, historyVars
  <2>2. QED
    BY <1>1, <2>1
<1>4. CASE AskGate \/ Crash
  BY <1>1, <1>4 DEF AskGate, ReadGate, Crash, Halt, historyVars
<1>5. CASE UNCHANGED vars
  BY <1>1, <1>5 DEF vars, historyVars
<1>6. ASSUME NEW l \in pending, PassUnvalued(l)
      PROVE  HandledInv'
  BY <1>2, <1>6 DEF PassUnvalued, SkipLog, Settled
<1>7. ASSUME NEW l \in pending, PassSmall(l)
      PROVE  HandledInv'
  <2>1. Settled(l)'
    BY <1>7, SmallIsSettled DEF LinkInv
  <2>2. QED
    BY <1>2, <1>7, <2>1 DEF PassSmall, SkipLog
<1>8. ASSUME NEW l \in pending, HandWhale(l)
      PROVE  HandledInv'
  BY <1>1, <1>8 DEF HandWhale, CallHandler, historyVars
<1>9. ASSUME NEW l \in pending, Resume(l)
      PROVE  HandledInv'
  <2>1. l \in Whales /\ Settled(l) /\ Finished(l)
    BY <1>9 DEF Resume, HandlerDone, HandlerReturned, LinkInv, ReturnInv
  <2>2. QED
    BY <1>2, <2>1, SettledStays
<1>10. QED
  BY <1>3, <1>4, <1>5, <1>6, <1>7, <1>8, <1>9 DEF PipelineNext, pipelineVars,
     WalkLogs, Work, WorkFails, WorkErrs, Raise, Handling, Poll, RunTask, TaskErrs,
     ChangeRule, ChangeNotify

\* The three invariants about a call that is or was just open, in one lemma:
\* the steps that touch one of them touch the others.
LEMMA CallStep ==
  ASSUME HalvesInv, LinkInv, [PipelineNext]_pipelineVars
  PROVE  CallInv' /\ ReturnInv'
<1> USE DEF LinkInv
<1>1. ASSUME pc # "handler", pc' # "handler", call'[Worker] = call[Worker]
      PROVE  CallInv' /\ ReturnInv'
  BY <1>1 DEF CallInv, ReturnInv
<1>2. ASSUME UNCHANGED vars, call'[Worker] = call[Worker],
             whale'[Worker] = whale[Worker], matched'[Worker] = matched[Worker]
      PROVE  CallInv' /\ ReturnInv'
  <2>1. pc' = pc /\ pending' = pending
    BY <1>2 DEF vars, monitorVars
  <2>2. CallInv'
    BY <1>2, <2>1, SteadyShrinks DEF CallInv, IsFirst
  <2>3. ReturnInv'
    BY <1>2, <2>1, SettledStays DEF ReturnInv, IsFirst
  <2>4. QED
    BY <2>2, <2>3
<1>3. CASE Watch
  <2>1. \/ pc # "handler" /\ pc' # "handler"
        \/ pc' = pc /\ pending' = pending
    BY <1>3 DEF Watch, NewBlock, HeadFails, StartUp, Start, ReadAnyHead, ReadHead,
       Fetch, FetchFails, NextTopic, SaveCursor, SaveFails, NoSave, Advance,
       monitorVars
  <2>2. UNCHANGED <<call, whale, matched>>
    BY <1>3 DEF Watch, alertVars
  <2>3. CASE pc' = pc /\ pending' = pending
    <3>1. CallInv'
      BY <2>2, <2>3, SteadyShrinks DEF CallInv, IsFirst
    <3>2. ReturnInv'
      BY <2>2, <2>3, SettledStays DEF ReturnInv, IsFirst
    <3>3. QED
      BY <3>1, <3>2
  <2>4. QED
    BY <1>1, <2>1, <2>2, <2>3
<1>4. CASE AskGate
  BY <1>1, <1>4 DEF AskGate, ReadGate, alertVars
<1>5. ASSUME NEW l \in pending, PassUnvalued(l) \/ PassSmall(l)
      PROVE  CallInv' /\ ReturnInv'
  BY <1>1, <1>5 DEF PassUnvalued, PassSmall, SkipLog, alertVars
<1>6. ASSUME NEW l \in pending, HandWhale(l)
      PROVE  CallInv' /\ ReturnInv'
  <2>1. /\ pc = "logs" /\ pc' = "handler" /\ pending' = pending
        /\ l \in Whales /\ IsFirst(l)
        /\ E!Begin(Worker, l) /\ UNCHANGED <<active, touched, history, dropped>>
    BY <1>6 DEF HandWhale, CallHandler, E!Begin, E!dbVars, noteVars
  <2>2. IsFirst(l)' /\ \A m \in pending' : IsFirst(m)' => m = l
    BY <2>1, FirstIsUnique DEF IsFirst, HalvesInv
  <2>3. call[Worker] = "idle"
    BY <2>1 DEF E!Begin
  <2>4. CASE active \cap Matching[l] = {}
    <3>1. call' = call
      BY <2>1, <2>4 DEF E!Begin, E!engineVars
    <3>2. Settled(l)'
      BY <2>1, <2>4 DEF Settled, Decided, Steady
    <3>3. QED
      BY <2>1, <2>2, <2>3, <3>1, <3>2 DEF CallInv, ReturnInv
  <2>5. CASE active \cap Matching[l] # {}
    <3>1. Worker \in DOMAIN call /\ Worker \in DOMAIN whale /\ Worker \in DOMAIN matched
      BY DEF HalvesInv, EP!EngineInv, EP!TypeOK, Everyone
    <3>2. /\ call'[Worker] # "idle" /\ whale'[Worker] = l
          /\ matched'[Worker] = active \cap Matching[l]
      BY <2>1, <2>5, <3>1 DEF E!Begin, E!Goto
    <3>3. Matching[l] \cap Steady' \subseteq matched'[Worker]
      BY <2>1, <3>2 DEF Steady
    <3>4. QED
      BY <2>1, <2>2, <3>2, <3>3 DEF CallInv, ReturnInv
  <2>6. QED
    BY <2>4, <2>5
<1>7. ASSUME NEW l \in pending, Resume(l)
      PROVE  CallInv' /\ ReturnInv'
  BY <1>7 DEF Resume, HandlerDone, HandlerReturned, alertVars, CallInv, ReturnInv
<1>8. ASSUME Handling, call[Worker] # "idle", call'[Worker] = "idle",
             \A w \in Whales : w = whale[Worker] => Settled(w)'
      PROVE  CallInv' /\ ReturnInv'
  <2>1. pc' = pc /\ pending' = pending
    BY <1>8 DEF Handling, vars, monitorVars
  <2>2. \A l \in pending' : IsFirst(l)' => l = whale[Worker]
    BY <1>8, <2>1, FirstIsUnique DEF CallInv, IsFirst, HalvesInv
  <2>3. whale[Worker] \in Whales
    BY <1>8 DEF CallInv
  <2>4. QED
    BY <1>8, <2>2, <2>3 DEF CallInv, ReturnInv
<1>9. CASE Work
  <2>1. CASE E!Commit(Worker)
    <3>1. call[Worker] # "idle" /\ whale[Worker] \in Whales
      BY <2>1 DEF E!Commit, CallInv
    <3>2. PICK w \in Whales : w = whale[Worker]
      BY <3>1
    <3>3. call'[Worker] = "idle" /\ Settled(w)'
      BY <2>1, <3>2, WorkSettles
    <3>4. QED
      BY <1>8, <1>9, <3>1, <3>2, <3>3 DEF Work
  <2>2. CASE ~E!Commit(Worker)
    <3>1. /\ call[Worker] # "idle" /\ call'[Worker] # "idle"
          /\ whale'[Worker] = whale[Worker]
          /\ matched'[Worker] = matched[Worker]
      BY <1>9, <2>2, WorkGoesOn DEF Work
    <3>2. pc' = pc /\ pending' = pending
      BY <1>9 DEF Work, Handling, vars, monitorVars
    <3>3. QED
      BY <3>1, <3>2, SteadyShrinks DEF CallInv, ReturnInv, IsFirst
  <2>3. QED
    BY <2>1, <2>2
<1>10. CASE WorkFails \/ WorkErrs
  <2>1. Handling /\ call[Worker] # "idle" /\ call'[Worker] = "idle"
    BY <1>10, WorkEnds DEF WorkFails, WorkErrs, Raise
  <2>2. whale[Worker] \in dropped'
    BY <1>10 DEF WorkFails, WorkErrs, Raise
  <2>3. QED
    BY <1>8, <2>1, <2>2 DEF Settled
<1>11. CASE Crash
  <2>1. pc' = "down"
    BY <1>11 DEF Crash, Halt
  <2>2. call'[Worker] = "idle"
    BY <1>11, WorkEnds DEF Crash, alertVars
  <2>3. QED
    BY <2>1, <2>2 DEF CallInv, ReturnInv
<1>12. ASSUME NEW t \in Tasks,
              (\E w \in Whales : Poll(t, w)) \/ RunTask(t) \/ TaskErrs(t)
       PROVE  CallInv' /\ ReturnInv'
  BY <1>2, <1>12, TasksApart DEF Poll, RunTask, TaskErrs
<1>13. CASE (\E r \in Rules : ChangeRule(r)) \/ (\E u \in Users : ChangeNotify(u))
  BY <1>2, <1>13 DEF ChangeRule, ChangeNotify, E!EditRule, E!EditNotify, E!Edit
<1>14. CASE UNCHANGED pipelineVars
  BY <1>2, <1>14 DEF pipelineVars, alertVars
<1>15. QED
  BY <1>3, <1>4, <1>5, <1>6, <1>7, <1>9, <1>10, <1>11, <1>12, <1>13, <1>14
  DEF PipelineNext, WalkLogs

LEMMA LinkInvariant == PipelineSpec => [](HalvesInv /\ LinkInv)
<1>1. PipelineInit => LinkInv
  BY DEF PipelineInit, Init, E!Init, Everyone, LinkInv, GateInv, CallInv, ReturnInv,
     HandledInv, MemoryInv
<1>2. HalvesInv /\ LinkInv /\ [PipelineNext]_pipelineVars => LinkInv'
  <2> SUFFICES ASSUME HalvesInv, LinkInv, [PipelineNext]_pipelineVars
               PROVE  LinkInv'
    OBVIOUS
  <2>1. GateInv'
    BY GateStep DEF LinkInv
  <2>2. MemoryInv'
    BY MemoryStep DEF LinkInv
  <2>3. HandledInv' /\ CallInv' /\ ReturnInv'
    BY HandledStep, CallStep
  <2>4. QED
    BY <2>1, <2>2, <2>3 DEF LinkInv
<1>3. QED
  BY <1>1, <1>2, Halves, PTL DEF PipelineSpec

(* The durable cursor never runs ahead of the durable rows, whatever       *)
(* crashed, was rolled back or raced with Celery: the blocks up to it are  *)
(* covered (NoGapBelowCursor), and a covered whale was settled before the  *)
(* monitor let go of it (HandledInv).                                      *)
THEOREM PassedDecided == PipelineSpec => []PassedIsDecided
<1>1. HalvesInv /\ LinkInv => PassedIsDecided
  <2> SUFFICES ASSUME HalvesInv, LinkInv, cursor # None, NEW w \in Whales,
                      w[2] \in origin .. cursor
               PROVE  GivenUp(w) \/ Decided(w)
    BY DEF PassedIsDecided
  <2>1. w \in Logs
    BY PipelineAssumption DEF PipelineAssumption
  <2>2. w[1] \in Topics /\ w = <<w[1], w[2]>>
    BY <2>1 DEF Logs
  <2>3. IsCovered(w[2])
    BY DEF HalvesInv, CursorInv, NoGapBelowCursor
  <2>4. w \in handled \cup missed
    BY <2>2, <2>3 DEF IsCovered
  <2>5. QED
    BY <2>4 DEF GivenUp, LinkInv, HandledInv, Settled
<1>2. QED
  BY <1>1, LinkInvariant, PTL

(* What a crash interrupts is found again: the open transaction of a       *)
(* worker that knows the cursor is about a pending log, and those lie      *)
(* above lastBlock, which is not behind the cursor.                        *)
THEOREM InterruptedReplayed == PipelineSpec => []InterruptedIsReplayed
<1>1. HalvesInv /\ LinkInv => InterruptedIsReplayed
  <2> SUFFICES ASSUME HalvesInv, LinkInv, call[Worker] # "idle",
                      reading = "known", cursor # None
               PROVE  whale[Worker][2] > cursor
    BY DEF InterruptedIsReplayed
  <2>1. pc = "handler" /\ whale[Worker] \in pending
    BY DEF LinkInv, CallInv, IsFirst
  <2>2. lastBlock \in Int /\ from = lastBlock + 1 /\ whale[Worker][2] >= from
    BY <2>1 DEF HalvesInv, ProcessInv, RangeInv, PendingInv, Busy, TypeOK
  <2>3. store = "redis"
    BY <2>1 DEF LinkInv, MemoryInv, HalvesInv, ProcessInv, TypeOK
  <2>4. cursor \in Int /\ cursor <= lastBlock
    BY <2>3 DEF HalvesInv, CursorInv, ProcessInv, TypeOK, MaybeInt
  <2>5. whale[Worker][2] \in Int
    BY <2>1 DEF HalvesInv, ProcessInv, TypeOK, Logs
  <2>6. QED
    BY <2>2, <2>4, <2>5
<1>2. QED
  BY <1>1, LinkInvariant, PTL

-----------------------------------------------------------------------------
(* Who takes a message away.  The violated EveryWhaleIsTold is right where *)
(* there is no Celery process and Telegram refuses nothing: the row of a   *)
(* user whose notifications were on all along is then only written by the  *)
(* worker, which has a notifier, and no session of it has read them off.   *)
Keen == notify \ touched

SwitchInv == \A e \in Everyone : \A u \in Keen : cached[e][u] # "off"

ToldInv ==
  \A r \in Rules, w \in Whales : Owner[r] \in Keen =>
    /\ history[<<r, w>>] # <<>> => told[<<r, w>>] > 0
    /\ whale[Worker] = w /\ draft[Worker][r] \in EP!Final => told[<<r, w>>] > 0

KeenInv == SwitchInv /\ ToldInv

\* A step of the pipeline, as the engines and their users see it.
LEMMA KeenMoves ==
  ASSUME [PipelineNext]_pipelineVars
  PROVE  \/ UNCHANGED alertVars /\ touched' = touched
         \/ /\ touched' = touched
            /\ \E e \in Everyone : \/ \E w \in Whales : E!Begin(e, w)
                                   \/ E!Continue(e) \/ E!Abort(e)
         \/ \E r \in Rules : ChangeRule(r)
         \/ \E u \in Users : ChangeNotify(u)
<1>1. Worker \in Everyone /\ Tasks \subseteq Everyone
  BY DEF Everyone
<1>2. CASE Watch \/ AskGate \/ UNCHANGED pipelineVars
  BY <1>2 DEF Watch, AskGate, pipelineVars, noteVars
<1>3. CASE WalkLogs
  BY <1>1, <1>3 DEF WalkLogs, PassUnvalued, PassSmall, HandWhale, Resume, noteVars
<1>4. CASE Work \/ WorkFails \/ WorkErrs
  BY <1>1, <1>4 DEF Work, WorkFails, WorkErrs, Raise, E!Continue, noteVars
<1>5. CASE Crash
  BY <1>1, <1>5 DEF Crash, noteVars
<1>6. ASSUME NEW t \in Tasks,
             (\E w \in Whales : Poll(t, w)) \/ RunTask(t) \/ TaskErrs(t)
      PROVE  /\ touched' = touched
             /\ \E e \in Everyone : \/ \E w \in Whales : E!Begin(e, w)
                                    \/ E!Continue(e) \/ E!Abort(e)
  BY <1>1, <1>6 DEF Poll, RunTask, TaskErrs, noteVars
<1>7. QED
  BY <1>2, <1>3, <1>4, <1>5, <1>6 DEF PipelineNext

\* What users change makes nobody keen.
LEMMA KeenEdit ==
  ASSUME HalvesInv, KeenInv,
         (\E r \in Rules : ChangeRule(r)) \/ (\E u \in Users : ChangeNotify(u))
  PROVE  KeenInv'
<1>1. UNCHANGED <<history, told, whale, draft, cached>>
  BY DEF ChangeRule, ChangeNotify, E!EditRule, E!EditNotify, E!Edit
<1>2. Keen' \subseteq Keen
  <2>1. CASE \E r \in Rules : ChangeRule(r)
    BY <2>1 DEF ChangeRule, E!EditRule, Keen
  <2>2. ASSUME NEW u \in Users, ChangeNotify(u)
        PROVE  Keen' \subseteq Keen
    BY <2>2 DEF ChangeNotify, E!EditNotify, Keen
  <2>3. QED
    BY <2>1, <2>2
<1>3. QED
  BY <1>1, <1>2 DEF KeenInv, SwitchInv, ToldInv

LEMMA KeenSession ==
  ASSUME HalvesInv, KeenInv, Keen' = Keen, E!EndSession(Worker),
         \A r \in Rules, w \in Whales : history'[<<r, w>>] # <<>> =>
           \/ history[<<r, w>>] # <<>>
           \/ whale[Worker] = w /\ draft[Worker][r] \in EP!Final
  PROVE  KeenInv'
<1>1. Worker \in Everyone
  BY DEF Everyone
<1>2. whale'[Worker] = None /\ None \notin Whales
  BY <1>1, PipelineAssumption
  DEF PipelineAssumption, E!EndSession, HalvesInv, EP!EngineInv, EP!TypeOK
<1>3. UNCHANGED <<told, cached>>
  BY DEF E!EndSession
<1>4. QED
  BY <1>2, <1>3 DEF KeenInv, SwitchInv, ToldInv

LEMMA KeenStep ==
  ASSUME Tasks = {}, "refused" \notin Replies,
         HalvesInv, KeenInv, [PipelineNext]_pipelineVars
  PROVE  KeenInv'
<1> USE DEF KeenInv
<1>1. Everyone = {Worker}
  BY DEF Everyone
<1>2. /\ Worker \in Everyone
      /\ EP!TypeOK /\ EP!SessionInv(Worker)
  BY <1>1 DEF HalvesInv, EP!EngineInv, EP!SessionsInv
<1>3. CASE UNCHANGED alertVars /\ touched' = touched
  BY <1>3 DEF alertVars, SwitchInv, ToldInv, Keen
<1>4. CASE \/ \E r \in Rules : ChangeRule(r)
           \/ \E u \in Users : ChangeNotify(u)
  BY <1>4, KeenEdit
<1>5. ASSUME touched' = touched, NEW w \in Whales, E!Begin(Worker, w)
      PROVE  KeenInv'
  <2>1. Keen' = Keen /\ history' = history /\ told' = told
    BY <1>5 DEF E!Begin, E!dbVars, Keen
  <2>2. SwitchInv'
    BY <1>1, <1>2, <1>5, <2>1
    DEF SwitchInv, E!Begin, E!engineVars, E!SessionCache, E!Unread, EP!TypeOK, Keen
  <2>3. \A r \in Rules : draft'[Worker][r] = "none"
    BY <1>2, <1>5 DEF EP!SessionInv, EP!NoDrafts, E!Begin, E!engineVars
  <2>4. ToldInv'
    BY <2>1, <2>3 DEF ToldInv, EP!Final
  <2>5. QED
    BY <2>2, <2>4
<1>6. ASSUME touched' = touched, E!Proceed(Worker), ~E!Commit(Worker),
             ~E!LoadUser(Worker), ~E!DeliverAny(Worker), ~E!Suppress(Worker)
      PROVE  KeenInv'
  <2>1. Keen' = Keen /\ cached' = cached /\ history' = history /\ told' = told
        /\ whale' = whale
    BY <1>2, <1>6 DEF E!Proceed, E!Visit, E!Insert, E!NoNotifier, E!LogOnChain,
       E!SetStatus, E!dbVars, Keen
  <2>2. \A r \in Rules : draft'[Worker][r] \in EP!Final => draft[Worker][r] \in EP!Final
    BY <1>2, <1>6 DEF E!Proceed, E!Visit, E!Insert, E!NoNotifier, E!LogOnChain,
       EP!Final, EP!TypeOK
  <2>3. QED
    BY <2>1, <2>2 DEF SwitchInv, ToldInv
<1>7. ASSUME touched' = touched, E!LoadUser(Worker)
      PROVE  KeenInv'
  <2>1. Keen' = Keen /\ UNCHANGED <<history, told, whale, draft>>
    BY <1>7 DEF E!LoadUser, E!dbVars, Keen
  <2>2. SwitchInv'
    BY <1>1, <1>2, <1>7, <2>1 DEF SwitchInv, E!LoadUser, EP!TypeOK, Keen
  <2>3. QED
    BY <2>1, <2>2 DEF ToldInv
<1>8. ASSUME touched' = touched, E!Suppress(Worker) \/ E!DeliverAny(Worker)
      PROVE  KeenInv'
  <2>1. /\ call[Worker] = "deliver" /\ Keen' = Keen /\ cached' = cached
        /\ history' = history /\ whale' = whale
    BY <1>8 DEF E!Suppress, E!DeliverAny, E!Deliver, E!SetStatus, E!dbVars, Keen
  <2>2. /\ rule[Worker] \in Rules /\ whale[Worker] \in Whales
        /\ told \in [EP!Keys -> Nat]
        /\ \A r \in Rules : r # rule[Worker] => draft'[Worker][r] = draft[Worker][r]
    BY <1>2, <1>8, <2>1
    DEF EP!SessionInv, EP!TypeOK, E!Suppress, E!DeliverAny, E!Deliver, E!SetStatus
  <2>3. SwitchInv'
    BY <2>1 DEF SwitchInv
  <2>4. CASE E!Suppress(Worker)
    <3>1. Owner[rule[Worker]] \notin Keen /\ told' = told
      BY <1>2, <2>4 DEF E!Suppress, SwitchInv
    <3>2. QED
      BY <2>1, <2>2, <2>3, <3>1 DEF ToldInv
  <2>5. CASE E!DeliverAny(Worker)
    <3>1. told' = [told EXCEPT ![<<rule[Worker], whale[Worker]>>] = @ + 1]
      BY <2>5 DEF E!DeliverAny, E!Deliver, E!MessageArrives, E!Key
    <3>2. <<rule[Worker], whale[Worker]>> \in EP!Keys
      BY <2>2 DEF EP!Keys
    <3>3. \A k \in EP!Keys : told'[k] >= told[k]
      BY <2>2, <3>1
    <3>4. told'[<<rule[Worker], whale[Worker]>>] > 0
      BY <2>2, <3>1, <3>2
    <3>5. \A r \in Rules, w \in Whales : told[<<r, w>>] > 0 => told'[<<r, w>>] > 0
      <4> SUFFICES ASSUME NEW r \in Rules, NEW w \in Whales, told[<<r, w>>] > 0
                   PROVE  told'[<<r, w>>] > 0
        OBVIOUS
      <4>1. <<r, w>> \in EP!Keys
        BY DEF EP!Keys
      <4>2. told[<<r, w>>] \in Nat /\ told'[<<r, w>>] \in Nat
        BY <2>2, <3>1, <4>1
      <4>3. QED
        BY <3>3, <4>1, <4>2
    <3>6. QED
      BY <2>1, <2>2, <2>3, <3>4, <3>5 DEF ToldInv
  <2>6. QED
    BY <1>8, <2>4, <2>5
<1>9. ASSUME touched' = touched, E!Commit(Worker)
      PROVE  KeenInv'
  <2>1. Keen' = Keen /\ E!EndSession(Worker)
    BY <1>9 DEF E!Commit, E!EndSession, Keen
  <2>2. ASSUME NEW r \in Rules, NEW w \in Whales, history'[<<r, w>>] # <<>>
        PROVE  \/ history[<<r, w>>] # <<>>
               \/ whale[Worker] = w /\ draft[Worker][r] \in EP!Final
    <3>1. \/ history[<<r, w>>] # <<>>
          \/ whale[Worker] = w /\ draft[Worker][r] # "none"
      BY <1>9, <2>2 DEF E!Commit, E!Drafted, E!Keys
    <3>2. draft[Worker][r] \in EP!Drafts /\ draft[Worker][r] # "PENDING"
      BY <1>2, <1>9 DEF E!Commit, EP!TypeOK, EP!SessionInv
    <3>3. QED
      BY <3>1, <3>2 DEF EP!Drafts
  <2>3. QED
    BY <2>1, <2>2, KeenSession
<1>10. ASSUME touched' = touched, E!Refused(Worker) \/ E!Abort(Worker)
       PROVE  KeenInv'
  <2>1. /\ Keen' = Keen /\ E!EndSession(Worker) /\ history' = history
    BY <1>10 DEF E!Refused, E!InsertConflicts, E!DeadlockDetected, E!Abort,
       E!RollBack, E!EndSession, Keen
  <2>2. QED
    BY <2>1, KeenSession
<1>11. QED
  BY <1>1, <1>3, <1>4, <1>5, <1>6, <1>7, <1>8, <1>9, <1>10, KeenMoves DEF E!Continue

(* monitoring_tasks.py:4, the other way round: a worker without Celery     *)
(* beside it, and a Telegram that refuses nothing, tell every whale the    *)
(* cursor has passed to the owner of every steady rule it matches.         *)
THEOREM WorkerAloneTells ==
  ASSUME Tasks = {}, "refused" \notin Replies
  PROVE  PipelineSpec => []EveryWhaleIsTold
<1>1. PipelineInit => KeenInv
  BY DEF PipelineInit, E!Init, E!Unread, E!NoDrafts, E!Keys, Everyone, KeenInv,
     SwitchInv, ToldInv, Keen, EP!Final
<1>2. HalvesInv /\ KeenInv /\ [PipelineNext]_pipelineVars => KeenInv'
  BY KeenStep
<1>3. PassedIsDecided /\ KeenInv => EveryWhaleIsTold
  <2> SUFFICES ASSUME PassedIsDecided, KeenInv, cursor # None, NEW w \in Whales,
                      w[2] \in origin .. cursor, ~GivenUp(w),
                      NEW r \in Matching[w] \cap Steady, Owner[r] \in Keen
               PROVE  told[<<r, w>>] > 0
    BY DEF EveryWhaleIsTold, Keen
  <2>1. history[<<r, w>>] # <<>> /\ r \in Rules
    BY PipelineAssumption DEF PipelineAssumption, PassedIsDecided, Decided
  <2>2. QED
    BY <2>1 DEF KeenInv, ToldInv
<1>4. QED
  BY <1>1, <1>2, <1>3, Halves, PassedDecided, PTL DEF PipelineSpec

-----------------------------------------------------------------------------
(* What the engines promise alone they promise here, the worker's monitor  *)
(* driving one of them: a rule and an action have one row, and a second    *)
(* message only follows a rolled back one (uq_rule_dedup, models.py:131).  *)
THEOREM PipelineKeepsRows ==
  PipelineSpec => [](E!OneRowPerKey /\ E!DuplicatesOnlyAfterRollback)
<1>1. EP!Spec => []EP!OneRowPerKey /\ []EP!DuplicatesOnlyAfterRollback
  BY Assumed, EP!OneRow, EP!Duplicates
<1>2. EP!OneRowPerKey /\ EP!DuplicatesOnlyAfterRollback =>
        E!OneRowPerKey /\ E!DuplicatesOnlyAfterRollback
  BY DEF EP!OneRowPerKey, E!OneRowPerKey, EP!DuplicatesOnlyAfterRollback,
     E!DuplicatesOnlyAfterRollback, EP!Keys, E!Keys
<1>3. QED
  BY <1>1, <1>2, EngineImplemented, PTL

(* models.py:130 where it is right: a worker without Celery beside it that *)
(* has not failed yet tells nobody about an action twice.                  *)
THEOREM WorkerAloneTellsOnce ==
  ASSUME Tasks = {}
  PROVE  PipelineSpec => [](aborts = 0 => E!NeverFiresTwice)
<1>1. EP!Alone
  BY DEF EP!Alone, Everyone
<1>2. EP!Spec => []((\A k \in EP!Keys : told[k] <= aborts + 1) /\
                    (aborts = 0 => EP!NeverFiresTwice))
  BY <1>1, Assumed, EP!TwiceOnlyAfterFailures
<1>3. EP!NeverFiresTwice => E!NeverFiresTwice
  BY DEF EP!NeverFiresTwice, E!NeverFiresTwice, EP!Keys, E!Keys
<1>4. QED
  BY <1>2, <1>3, EngineImplemented, PTL

(* Two histories stay what they are on their own, though one program moves *)
(* both: the feed of blocks behind the cursor in Redis grows without a gap, *)
(* and the ledger of alerts in PostgreSQL only by commits and finalised     *)
(* rows.  PassedDecided says how far they agree.                            *)
THEOREM PipelineImplementsBoth ==
  PipelineSpec => ImplementsFeed /\ EP!ImplementsLedger
BY Assumed, MonitorImplemented, FeedImplemented, EngineImplemented, EP!LedgerImplemented, PTL

(* The monitor never awaits a transaction nobody can end: while one is     *)
(* open, the worker's or Celery's, some open one can take its next step or *)
(* the open ones wait for each other, which PostgreSQL breaks.             *)
THEOREM PipelineGoesOn == PipelineSpec => []EP!SomebodyIsReady
<1>1. EP!Spec => []EP!SomebodyIsReady
  BY Assumed, EP!SomebodyReady
<1>2. QED
  BY <1>1, EngineImplemented, PTL
=============================================================================
