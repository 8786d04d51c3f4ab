---------------------------- MODULE BlockMonitor ----------------------------
(***************************************************************************)
(* The block monitor (backend/blockchain/monitor.py): one asyncio task     *)
(* that reads the head of the chain, asks the node for the Transfer and    *)
(* then the Swap logs of the next range of blocks, hands each whale-sized  *)
(* log to the alert engine, and moves its cursor past the range.           *)
(*                                                                         *)
(* Each action is the code between two awaits.  The task is alone on its   *)
(* own state; what interleaves with it is the chain (NewBlock), the Redis  *)
(* cursor and the end of the process (Halt), which may come at any await.  *)
(*                                                                         *)
(* A log is the pair <<topic, block>>: one log of each kind per block is   *)
(* enough to tell the properties apart.                                    *)
(***************************************************************************)
EXTENDS Integers

CONSTANTS
  None,            \* Python's None
  Confirmations,   \* settings.BLOCK_CONFIRMATIONS
  MaxBatch,        \* settings.MAX_BLOCKS_PER_BATCH
  DefaultGate,     \* settings.MIN_WHALE_THRESHOLD_USD
  Gates,           \* what the threshold provider may answer
  Values,          \* USD values a log may be priced at
  StartOutcomes,   \* how reading the Redis cursor may go at start-up
  FirstHead,       \* height of the chain when the model starts
  HeadLag,         \* how far behind the chain the answering node may be
  MaxHead,         \* bound on the chain's growth
  MaxStarts,       \* bound on the number of process starts
  MaxFaults        \* bound on the number of failed calls

\* "restored": Redis answers.  "unavailable": the worker's ping failed, or the
\* program (run_all, the Celery task) passes no Redis client.  "get_failed": the
\* client is there but reading the key raises.
Outcomes == {"restored", "unavailable", "get_failed"}

ASSUME MonitorAssumption ==
  /\ Confirmations \in Nat
  /\ MaxBatch \in Nat \ {0}
  /\ DefaultGate \in Nat
  /\ Gates \subseteq Nat
  /\ Values \subseteq Nat
  /\ StartOutcomes \subseteq Outcomes
  /\ HeadLag \in Nat
  /\ FirstHead \in Nat /\ FirstHead > Confirmations + HeadLag + 1
  /\ MaxHead \in Nat /\ MaxStarts \in Nat /\ MaxFaults \in Nat
  /\ None \notin Int

TRANSFER == 1      \* the topics, in the order the code asks for them
SWAP     == 2
Topics   == {TRANSFER, SWAP}

VARIABLES
  head,            \* the chain: height of its last block
  cursor,          \* Redis: the value stored under monitor:last_block
  pc,              \* where the task is
  store,           \* "redis", or "memory" when self._redis is None
  lastBlock,       \* self._last_block
  from, to,        \* the range being processed
  gate,            \* minimum USD value of a whale in this cycle
  topic,           \* topic get_logs is asked for next
  pending,         \* logs fetched and not yet dealt with
  starts, faults,  \* how often the process started, and calls failed
  sessionFrom,     \* history: first block this process processed
  reading,         \* history: "lost" if this process could not read the cursor
  origin,          \* history: first block of the interval ending at cursor
  handled,         \* history: logs that were dealt with
  missed,          \* history: logs a failed get_logs call did not return
  base, reach,     \* history: first block any process took up, last one any passed
  skipped          \* history: blocks a process without a cursor jumped over

monitorVars == <<pc, store, lastBlock, from, to, gate, topic, pending,
                 sessionFrom, reading>>
wholeVars   == <<base, reach, skipped>>
historyVars == <<origin, handled, missed, wholeVars>>
envVars     == <<head, cursor, starts, faults>>
vars        == <<monitorVars, historyVars, envVars>>

Logs == Topics \X Int

Init ==
  /\ head = FirstHead
  /\ cursor = None
  /\ pc = "down"
  /\ store = "memory"
  /\ lastBlock = None
  /\ from = 0 /\ to = 0
  /\ gate = DefaultGate
  /\ topic = TRANSFER
  /\ pending = {}
  /\ starts = 0 /\ faults = 0
  /\ sessionFrom = None /\ reading = "known"
  /\ origin = None /\ handled = {} /\ missed = {}
  /\ base = None /\ reach = None /\ skipped = {}

-----------------------------------------------------------------------------
(* The environment.                                                        *)

NewBlock ==
  /\ head < MaxHead
  /\ head' = head + 1
  /\ UNCHANGED <<monitorVars, historyVars, cursor, starts, faults>>

\* A call fails: the model counts it.
Fault == faults < MaxFaults /\ faults' = faults + 1

-----------------------------------------------------------------------------
(* Start and end of the process.                                           *)

RestoredCursorIgnored(outcome) == None       \* mutant: the stored value is not used
RestoredCursor(outcome) == IF outcome = "restored" THEN cursor ELSE None

Start(outcome) ==
  /\ pc = "down"
  /\ starts' = starts + 1
  /\ pc' = "idle"
  /\ store' = IF outcome = "unavailable" THEN "memory" ELSE "redis"
  /\ lastBlock' = RestoredCursor(outcome)
  /\ reading' = IF cursor # None /\ outcome # "restored"
                  THEN "lost" ELSE "known"
  /\ UNCHANGED <<from, to, gate, topic, pending, sessionFrom, historyVars,
                 head, cursor, faults>>

\* stop(), a cancelled task or a crash: whatever was in memory is gone.  The
\* model lets a process end as long as it may still start another.
Halt ==
  /\ pc # "down"
  /\ starts < MaxStarts
  /\ pc' = "down"
  /\ store' = "memory"
  /\ lastBlock' = None
  /\ from' = 0 /\ to' = 0
  /\ gate' = DefaultGate
  /\ topic' = TRANSFER
  /\ pending' = {}
  /\ sessionFrom' = None
  /\ reading' = "known"
  /\ UNCHANGED <<historyVars, envVars>>

-----------------------------------------------------------------------------
(* One polling cycle.                                                      *)

TargetUnconfirmed(h) == h                    \* mutant: confirmations ignored
Target(h) == h - Confirmations

\* The last block a cycle counts as done before it looks for new ones.
TipAlways(target) == target - 1              \* mutant: the last block forgotten
LastOrTip(target) == IF lastBlock = None THEN target - 1 ELSE lastBlock
NothingNewOffByOne(target, last) == target <= last + 1   \* mutant
NothingNew(target, last) == target <= last
NextFromLast(last) == last                   \* mutant: starts at the last block
NextFrom(last) == last + 1
BatchEnd(target, first) ==
  IF target <= first + MaxBatch - 1 THEN target ELSE first + MaxBatch - 1

\* get_block_number raised three times: the cycle is given up.
HeadFails ==
  /\ pc = "idle"
  /\ Fault
  /\ UNCHANGED <<monitorVars, historyVars, head, cursor, starts>>

OrElse(x, default) == IF x = None THEN default ELSE x

\* The node answers the height h.  A process without a cursor begins at the tip,
\* wherever others had got to.
ReadHead(h) ==
  LET target == Target(h)
      last   == LastOrTip(target)
  IN
  /\ pc = "idle"
  /\ lastBlock' = last
  /\ skipped' = IF lastBlock = None /\ reach # None
                  THEN skipped \cup (reach + 1 .. last) ELSE skipped
  /\ IF NothingNew(target, last)
       THEN UNCHANGED <<pc, from, to, sessionFrom, base, reach>>
       ELSE /\ pc' = "gate"
            /\ from' = NextFrom(last)
            /\ to' = BatchEnd(target, NextFrom(last))
            /\ sessionFrom' = OrElse(sessionFrom, NextFrom(last))
            /\ base' = OrElse(base, NextFrom(last))
            /\ reach' = OrElse(reach, last)
  /\ UNCHANGED <<store, gate, topic, pending, reading, origin, handled, missed,
                 envVars>>

\* The smallest active threshold, or the default when the provider is missing
\* or raises.
ReadGate(g) ==
  /\ pc = "gate"
  /\ pc' = "fetch"
  /\ gate' = g
  /\ topic' = TRANSFER
  /\ pending' = {}
  /\ UNCHANGED <<store, lastBlock, from, to, sessionFrom, reading, historyVars,
                 envVars>>

NextTopicOverrun ==                          \* mutant: the index is never reset
  /\ topic' = topic + 1
  /\ pc' = IF topic = SWAP THEN "logs" ELSE "fetch"
NextTopic ==
  /\ topic' = IF topic = SWAP THEN TRANSFER ELSE SWAP
  /\ pc' = IF topic = SWAP THEN "logs" ELSE "fetch"

RangeLogs(t) == {t} \X (from .. to)

Fetch ==
  /\ pc = "fetch"
  /\ pending' = pending \cup RangeLogs(topic)
  /\ NextTopic
  /\ UNCHANGED <<store, lastBlock, from, to, gate, sessionFrom, reading,
                 historyVars, envVars>>

\* get_logs raised three times: logged, and the cycle goes on without.
FetchFails ==
  /\ pc = "fetch"
  /\ Fault
  /\ missed' = missed \cup RangeLogs(topic)
  /\ NextTopic
  /\ UNCHANGED <<store, lastBlock, from, to, gate, pending, sessionFrom,
                 reading, origin, handled, wholeVars, head, cursor, starts>>

\* The list is walked in the order it was filled.
IsFirst(l) ==
  /\ l \in pending
  /\ \A m \in pending : l[1] < m[1] \/ (l[1] = m[1] /\ l[2] <= m[2])

Finished(l) ==
  /\ pending' = pending \ {l}
  /\ handled' = handled \cup {l}

\* Not decoded, not priced, or worth less than the gate.
IsWhale(value) == value # None /\ value >= gate

SkipLog(l, value) ==
  /\ pc = "logs"
  /\ IsFirst(l)
  /\ ~IsWhale(value)
  /\ Finished(l)
  /\ UNCHANGED <<pc, store, lastBlock, from, to, gate, topic, sessionFrom,
                 reading, origin, missed, wholeVars, envVars>>

CallHandler(l, value) ==
  /\ pc = "logs"
  /\ IsFirst(l)
  /\ IsWhale(value)
  /\ pc' = "handler"
  /\ UNCHANGED <<store, lastBlock, from, to, gate, topic, pending,
                 sessionFrom, reading, historyVars, envVars>>

\* on_whale returned, or raised and was logged: the loop goes on either way.
HandlerDone(l) ==
  /\ pc = "handler"
  /\ IsFirst(l)
  /\ Finished(l)
  /\ pc' = "logs"
  /\ UNCHANGED <<store, lastBlock, from, to, gate, topic, sessionFrom,
                 reading, origin, missed, wholeVars, envVars>>

Advance ==
  /\ pc = "logs"
  /\ pending = {}
  /\ pc' = "idle"
  /\ lastBlock' = to
  /\ reach' = IF reach < to THEN to ELSE reach

SavedTarget == head - Confirmations          \* mutant: target instead of to_block
SavedBlock == to

SaveCursor ==
  /\ Advance
  /\ store = "redis"
  /\ cursor' = SavedBlock
  /\ origin' = IF cursor = None \/ reading = "lost" THEN sessionFrom ELSE origin
  /\ reading' = "known"
  /\ UNCHANGED <<store, from, to, gate, topic, pending, sessionFrom, handled,
                 missed, base, skipped, head, starts, faults>>

\* redis.set raised: logged, the cursor stays where it was.
SaveFails ==
  /\ Advance
  /\ store = "redis"
  /\ Fault
  /\ UNCHANGED <<store, from, to, gate, topic, pending, sessionFrom,
                 reading, origin, handled, missed, base, skipped, head, cursor,
                 starts>>

\* There is no Redis client to save with.
NoSave ==
  /\ Advance
  /\ store = "memory"
  /\ UNCHANGED <<store, from, to, gate, topic, pending, sessionFrom,
                 reading, origin, handled, missed, base, skipped, envVars>>

-----------------------------------------------------------------------------
ReadAnyHead == \E h \in head - HeadLag .. head : ReadHead(h)
ReadAnyGate == \E g \in Gates \cup {DefaultGate} : ReadGate(g)
HandleLog   == \E l \in pending :
                 \/ \E value \in Values \cup {None} :
                      SkipLog(l, value) \/ CallHandler(l, value)
                 \/ HandlerDone(l)
StartUp     == \E outcome \in StartOutcomes : Start(outcome)

Next ==
  \/ NewBlock
  \/ StartUp \/ Halt
  \/ HeadFails \/ ReadAnyHead \/ ReadAnyGate
  \/ Fetch \/ FetchFails
  \/ HandleLog
  \/ SaveCursor \/ SaveFails \/ NoSave

\* The loop never ends by itself and is rescheduled after every await; the
\* container runtime starts it again; the node answers the true head in the end.
Fairness ==
  /\ WF_vars(StartUp)
  /\ WF_vars(ReadHead(head))
  /\ WF_vars(ReadAnyGate)
  /\ WF_vars(Fetch)
  /\ WF_vars(HandleLog)
  /\ WF_vars(SaveCursor) /\ WF_vars(NoSave)

Spec == Init /\ [][Next]_vars
FairSpec == Spec /\ Fairness

-----------------------------------------------------------------------------
(* Properties.                                                             *)

MaybeInt == Int \cup {None}

\* Every variable has the type the code gives it.
TypeOK ==
  /\ head \in Nat
  /\ cursor \in MaybeInt
  /\ pc \in {"down", "idle", "gate", "fetch", "logs", "handler"}
  /\ store \in {"redis", "memory"}
  /\ lastBlock \in MaybeInt
  /\ from \in Int /\ to \in Int
  /\ gate \in Nat
  /\ topic \in Topics
  /\ pending \subseteq Logs
  /\ starts \in Nat /\ faults \in Nat
  /\ sessionFrom \in MaybeInt /\ origin \in MaybeInt
  /\ base \in MaybeInt /\ reach \in MaybeInt
  /\ reading \in {"known", "lost"}
  /\ handled \subseteq Logs /\ missed \subseteq Logs
  /\ skipped \subseteq Int

\* The blocks for which every topic was asked for and every log dealt with.
IsCovered(b) == \A t \in Topics : <<t, b>> \in handled \cup missed
Covered == {b \in {l[2] : l \in handled \cup missed} : IsCovered(b)}

(* No gap below the durable cursor: whatever crashes, failed saves, lagging *)
(* heads and replays came before, a block between the first one processed   *)
(* since the cursor was last out of reach and the Redis cursor had its logs *)
(* asked for and handled (poll_once, _init_cursor, _save_cursor).           *)
NoGapBelowCursor ==
  cursor # None => \A b \in origin .. cursor : IsCovered(b)

(* All processes together: a block between the first one taken up and the   *)
(* last one passed had its logs asked for and handled, or lies where a      *)
(* process that found no cursor began at the tip.  Nothing else, neither a  *)
(* crash nor a failed save nor a replay, loses a block (poll_once).         *)
OnlyFreshStartsSkip ==
  base # None => \A b \in base .. reach : IsCovered(b) \/ b \in skipped

(* The monitor implements the abstract feed: its cursor closes covered      *)
(* intervals only, and unless a process could not read it, it never moves   *)
(* back and never jumps over a block.                                       *)
Feed == INSTANCE GapFreeFeed WITH covered <- Covered
ImplementsFeed == Feed!Spec

(* Within one process the monitor never goes back: the logs it is working   *)
(* on all lie above the last block it counted as done, so no block is       *)
(* handed to the engine twice between two restarts (poll_once 99-111).      *)
NoReplayWithinSession ==
  lastBlock # None => \A l \in pending : l[2] > lastBlock

(* The confirmation depth is honoured: nothing above head - Confirmations   *)
(* is handed to the engine or skipped by the cursor (poll_once 98-107).     *)
OnlyConfirmed ==
  /\ \A l \in pending : l[2] <= head - Confirmations
  /\ lastBlock # None => lastBlock <= head - Confirmations

(* Every block that gets enough confirmations is eventually behind the      *)
(* monitor, batch after batch, once calls stop failing.                     *)
CatchesUp ==
  \A b \in FirstHead .. MaxHead :
    head - Confirmations >= b ~> lastBlock # None /\ lastBlock >= b

(* monitor.py:15 "All RPC failures are caught and retried on the next       *)
(* cycle": the monitor does not count a block as done while logs of it are  *)
(* missing because get_logs failed.                                         *)
FailedFetchesAreRetried ==
  pc = "idle" /\ lastBlock # None =>
    \A l \in missed \ handled : l[2] > lastBlock
=============================================================================
