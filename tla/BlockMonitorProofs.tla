------------------------- MODULE BlockMonitorProofs -------------------------
(***************************************************************************)
(* Theorems about the block monitor, for every batch size, confirmation    *)
(* depth, lag, topic range and number of failures.                         *)
(***************************************************************************)
EXTENDS BlockMonitor, NaturalsInduction, WellFoundedInduction, TLAPS

(* The monitor's variables keep the types the code gives them.             *)
THEOREM TypeCorrect == Spec => []TypeOK
<1> USE MonitorAssumption DEF MonitorAssumption, TypeOK, MaybeInt, Logs, Topics,
        TRANSFER, SWAP, wholeVars
<1>1. Init => TypeOK
  BY DEF Init
<1>2. TypeOK /\ [Next]_vars => TypeOK'
  <2> SUFFICES ASSUME TypeOK, [Next]_vars
               PROVE  TypeOK'
    OBVIOUS
  <2>1. CASE NewBlock
    BY <2>1 DEF NewBlock, monitorVars, historyVars
  <2>2. CASE StartUp
    BY <2>2 DEF StartUp, Start, RestoredCursor, historyVars
  <2>3. CASE Halt
    BY <2>3 DEF Halt, historyVars, envVars
  <2>4. CASE HeadFails
    BY <2>4 DEF HeadFails, Fault, monitorVars, historyVars
  <2>5. CASE ReadAnyHead
    BY <2>5 DEF ReadAnyHead, ReadHead, Target, LastOrTip, NothingNew, NextFrom,
               BatchEnd, OrElse, historyVars, envVars
  <2>6. CASE ReadAnyGate
    BY <2>6 DEF ReadAnyGate, ReadGate, historyVars, envVars
  <2>7. CASE Fetch
    BY <2>7 DEF Fetch, NextTopic, RangeLogs, historyVars, envVars
  <2>8. CASE FetchFails
    BY <2>8 DEF FetchFails, Fault, NextTopic, RangeLogs
  <2>9. CASE HandleLog
    BY <2>9 DEF HandleLog, SkipLog, CallHandler, HandlerDone, Finished,
               historyVars, envVars
  <2>10. CASE SaveCursor
    BY <2>10 DEF SaveCursor, Advance, SavedBlock
  <2>11. CASE SaveFails
    BY <2>11 DEF SaveFails, Advance, Fault
  <2>12. CASE NoSave
    BY <2>12 DEF NoSave, Advance, envVars
  <2>13. CASE UNCHANGED vars
    BY <2>13 DEF vars, monitorVars, historyVars, envVars
  <2>14. QED
    BY <2>1, <2>2, <2>3, <2>4, <2>5, <2>6, <2>7, <2>8, <2>9, <2>10, <2>11,
       <2>12, <2>13 DEF Next
<1>3. QED
  BY <1>1, <1>2, PTL DEF Spec
-----------------------------------------------------------------------------
(* The inductive invariant of one process.  TypeOK and the properties are  *)
(* not inductive: they need to know how lastBlock, the range and the set   *)
(* of pending logs hang together at each point of the cycle.               *)

Busy == pc \in {"gate", "fetch", "logs", "handler"}

DownInv ==
  pc = "down" =>
    lastBlock = None /\ sessionFrom = None /\ store = "memory" /\ reading = "known"

RangeInv ==
  Busy => /\ lastBlock \in Int /\ sessionFrom \in Int
          /\ from = lastBlock + 1 /\ from <= to
          /\ to <= head - Confirmations

PendingInv ==
  /\ pc \in {"down", "idle", "gate"} => pending = {}
  /\ \A l \in pending : from <= l[2] /\ l[2] <= to

FetchedInv ==
  pc \in {"fetch", "logs", "handler"} =>
    \A t \in Topics, b \in from .. to :
      pc # "fetch" \/ t < topic => <<t, b>> \in handled \cup missed \cup pending

SessionInv ==
  sessionFrom # None =>
    /\ lastBlock # None
    /\ sessionFrom <= lastBlock + 1
    /\ \A b \in sessionFrom .. lastBlock : IsCovered(b)

ConfirmedInv == lastBlock # None => lastBlock <= head - Confirmations
StoredInv    == cursor # None => cursor <= head - Confirmations

ProcessInv ==
  /\ TypeOK /\ DownInv /\ RangeInv /\ PendingInv
  /\ FetchedInv /\ SessionInv /\ ConfirmedInv /\ StoredInv

LEMMA ProcessInvInductive ==
  ASSUME ProcessInv, TypeOK', [Next]_vars
  PROVE  ProcessInv'
<1> USE MonitorAssumption DEF MonitorAssumption, ProcessInv, TypeOK, MaybeInt,
        Logs, Topics, TRANSFER, SWAP, Busy, DownInv, RangeInv, PendingInv,
        FetchedInv, SessionInv, ConfirmedInv, StoredInv, IsCovered
<1>1. CASE NewBlock
  BY <1>1 DEF NewBlock, monitorVars, historyVars
<1>2. CASE StartUp
  BY <1>2 DEF StartUp, Start, RestoredCursor, historyVars
<1>3. CASE Halt
  BY <1>3 DEF Halt, historyVars, envVars
<1>4. CASE HeadFails
  BY <1>4 DEF HeadFails, monitorVars, historyVars
<1>5. CASE ReadAnyHead
  BY <1>5 DEF ReadAnyHead, ReadHead, Target, LastOrTip, NothingNew, NextFrom,
    BatchEnd, OrElse, historyVars, envVars
<1>6. CASE ReadAnyGate
  BY <1>6 DEF ReadAnyGate, ReadGate, historyVars, envVars
<1>7. CASE Fetch
  BY <1>7 DEF Fetch, NextTopic, RangeLogs, historyVars, envVars
<1>8. CASE FetchFails
  BY <1>8 DEF FetchFails, NextTopic, RangeLogs
<1>9. CASE HandleLog
  BY <1>9 DEF HandleLog, SkipLog, CallHandler, HandlerDone, Finished,
    historyVars, envVars
<1>10. CASE SaveCursor
  BY <1>10 DEF SaveCursor, Advance, SavedBlock
<1>11. CASE SaveFails
  BY <1>11 DEF SaveFails, Advance, historyVars
<1>12. CASE NoSave
  BY <1>12 DEF NoSave, Advance, historyVars, envVars
<1>13. CASE UNCHANGED vars
  BY <1>13 DEF vars, monitorVars, historyVars, envVars
<1>14. QED
  BY <1>1, <1>2, <1>3, <1>4, <1>5, <1>6, <1>7, <1>8, <1>9, <1>10, <1>11,
     <1>12, <1>13 DEF Next

LEMMA ProcessInvariant == Spec => []ProcessInv
<1>1. Init => ProcessInv
  BY MonitorAssumption DEF MonitorAssumption, Init, ProcessInv, TypeOK,
     MaybeInt, Logs, Topics, TRANSFER, SWAP, Busy, DownInv, RangeInv,
     PendingInv, FetchedInv, SessionInv, ConfirmedInv, StoredInv
<1>2. ProcessInv /\ TypeOK' /\ [Next]_vars => ProcessInv'
  BY ProcessInvInductive
<1>3. QED
  BY <1>1, <1>2, TypeCorrect, PTL DEF Spec

(* No block above head - Confirmations is ever worked on or counted as     *)
(* done, however the answering nodes lag.                                  *)
THEOREM ConfirmedOnly == Spec => []OnlyConfirmed
<1>1. ProcessInv => OnlyConfirmed
  BY MonitorAssumption DEF MonitorAssumption, ProcessInv, TypeOK, MaybeInt,
     Logs, Busy, RangeInv, PendingInv, ConfirmedInv, OnlyConfirmed
<1>2. QED
  BY <1>1, ProcessInvariant, PTL

(* Between two restarts no block is handed to the engine a second time.    *)
THEOREM NoReplay == Spec => []NoReplayWithinSession
<1>1. ProcessInv => NoReplayWithinSession
  BY DEF ProcessInv, TypeOK, MaybeInt, Logs, Busy, RangeInv, PendingInv,
     NoReplayWithinSession
<1>2. QED
  BY <1>1, ProcessInvariant, PTL

-----------------------------------------------------------------------------
(* The durable cursor.  A process that read it, or that stored one since,  *)
(* works above it and has left no gap between it and its first block; one  *)
(* that could not read it opens a new interval at its next save.           *)

CursorInv ==
  /\ cursor = None => origin = None /\ reading = "known"
  /\ cursor # None => origin \in Int /\ NoGapBelowCursor
  /\ store = "redis" /\ cursor # None /\ reading = "known" =>
       /\ lastBlock # None /\ cursor <= lastBlock
       /\ sessionFrom # None => sessionFrom <= cursor + 1

LEMMA CursorInvInductive ==
  ASSUME ProcessInv, ProcessInv', CursorInv, [Next]_vars
  PROVE  CursorInv'
<1> USE MonitorAssumption DEF MonitorAssumption, TypeOK, MaybeInt, Logs, Topics,
        TRANSFER, SWAP, CursorInv, NoGapBelowCursor, IsCovered
<1> USE DEF ProcessInv
<1>1. CASE NewBlock
  BY <1>1 DEF NewBlock, monitorVars, historyVars
<1>2. CASE StartUp
  BY <1>2 DEF StartUp, Start, RestoredCursor, historyVars, Outcomes, DownInv
<1>3. CASE Halt
  BY <1>3 DEF Halt, historyVars, envVars
<1>4. CASE HeadFails
  BY <1>4 DEF HeadFails, monitorVars, historyVars
<1>5. CASE ReadAnyHead
  BY <1>5 DEF ReadAnyHead, ReadHead, Target, LastOrTip, NothingNew, NextFrom,
     BatchEnd, OrElse, historyVars, envVars
<1>6. CASE ReadAnyGate
  BY <1>6 DEF ReadAnyGate, ReadGate, historyVars, envVars
<1>7. CASE Fetch
  BY <1>7 DEF Fetch, NextTopic, historyVars, envVars
<1>8. CASE FetchFails
  BY <1>8 DEF FetchFails, NextTopic
<1>9. CASE HandleLog
  BY <1>9 DEF HandleLog, SkipLog, CallHandler, HandlerDone, Finished,
     historyVars, envVars
<1>10. CASE SaveCursor
  BY <1>10 DEF SaveCursor, Advance, SavedBlock, SessionInv, RangeInv, Busy
<1>11. CASE SaveFails
  BY <1>11 DEF SaveFails, Advance, historyVars, RangeInv, Busy
<1>12. CASE NoSave
  BY <1>12 DEF NoSave, Advance, historyVars, envVars
<1>13. CASE UNCHANGED vars
  BY <1>13 DEF vars, monitorVars, historyVars, envVars
<1>14. QED
  BY <1>1, <1>2, <1>3, <1>4, <1>5, <1>6, <1>7, <1>8, <1>9, <1>10, <1>11,
     <1>12, <1>13 DEF Next

LEMMA CursorInvariant == Spec => []CursorInv
<1>1. Init => CursorInv
  BY DEF Init, CursorInv
<1>2. ProcessInv /\ ProcessInv' /\ CursorInv /\ [Next]_vars => CursorInv'
  BY CursorInvInductive
<1>3. QED
  BY <1>1, <1>2, ProcessInvariant, PTL DEF Spec

(* Every block from the first one of the chain of sessions to the Redis    *)
(* cursor had its logs asked for, and every log returned was dealt with.   *)
THEOREM NoGap == Spec => []NoGapBelowCursor
<1>1. CursorInv => NoGapBelowCursor
  BY DEF CursorInv, NoGapBelowCursor
<1>2. QED
  BY <1>1, CursorInvariant, PTL

-----------------------------------------------------------------------------
(* All processes together.  What a process starts from, the stored cursor  *)
(* or the tip, is a block some process passed or one that follows a jump.  *)

WholeInv ==
  /\ base = None => reach = None /\ lastBlock = None /\ cursor = None
  /\ base # None => reach \in Int /\ OnlyFreshStartsSkip
  /\ cursor # None => cursor <= reach
  /\ lastBlock # None => reach + 1 .. lastBlock \subseteq skipped

LEMMA WholeInvInductive ==
  ASSUME ProcessInv, ProcessInv', WholeInv, [Next]_vars
  PROVE  WholeInv'
<1> USE MonitorAssumption DEF MonitorAssumption, TypeOK, MaybeInt, Logs, Topics,
        TRANSFER, SWAP, WholeInv, OnlyFreshStartsSkip, IsCovered, wholeVars
<1> USE DEF ProcessInv
<1>1. CASE NewBlock
  BY <1>1 DEF NewBlock, monitorVars, historyVars
<1>2. CASE StartUp
  BY <1>2 DEF StartUp, Start, RestoredCursor, historyVars, DownInv
<1>3. CASE Halt
  BY <1>3 DEF Halt, historyVars, envVars
<1>4. CASE HeadFails
  BY <1>4 DEF HeadFails, monitorVars, historyVars
<1>5. CASE ReadAnyHead
  <2>1. PICK h \in head - HeadLag .. head : ReadHead(h)
    BY <1>5 DEF ReadAnyHead
  <2>2. h \in Int /\ Target(h) \in Int
    BY <2>1 DEF Target
  <2>3. CASE lastBlock = None
    <3>1. /\ lastBlock' = Target(h) - 1
          /\ base' = OrElse(base, Target(h)) /\ reach' = OrElse(reach, Target(h) - 1)
          /\ skipped' = IF reach # None
                          THEN skipped \cup (reach + 1 .. Target(h) - 1) ELSE skipped
          /\ cursor' = cursor /\ handled' = handled /\ missed' = missed
      BY <2>1, <2>2, <2>3
      DEF ReadHead, LastOrTip, NothingNew, NextFrom, envVars
    <3>2. QED
      BY <2>2, <3>1 DEF OrElse
  <2>4. CASE lastBlock # None
    BY <2>1, <2>4 DEF ReadHead, LastOrTip, OrElse, envVars
  <2>5. QED
    BY <2>3, <2>4
<1>6. CASE ReadAnyGate
  BY <1>6 DEF ReadAnyGate, ReadGate, historyVars, envVars
<1>7. CASE Fetch
  BY <1>7 DEF Fetch, historyVars, envVars
<1>8. CASE FetchFails
  BY <1>8 DEF FetchFails
<1>9. CASE HandleLog
  BY <1>9 DEF HandleLog, SkipLog, CallHandler, HandlerDone, Finished,
     historyVars, envVars
<1>10. CASE Advance
  <2>1. /\ lastBlock \in Int /\ from = lastBlock + 1 /\ from <= to
        /\ \A b \in from .. to : IsCovered(b)
    BY <1>10 DEF Advance, RangeInv, FetchedInv, Busy
  <2>2. /\ base' = base /\ skipped' = skipped /\ handled' = handled
        /\ missed' = missed /\ cursor' \in {cursor, to}
    BY <1>10 DEF Next, vars, monitorVars, historyVars, envVars, NewBlock,
       StartUp, Start, Halt, HeadFails, ReadAnyHead, ReadHead, ReadAnyGate,
       ReadGate, Fetch, FetchFails, HandleLog, SkipLog, CallHandler,
       HandlerDone, Advance, SaveCursor, SavedBlock, SaveFails, NoSave
  <2>3. /\ base \in Int /\ reach \in Int /\ lastBlock' = to
        /\ reach' = IF reach < to THEN to ELSE reach
    BY <1>10, <2>1 DEF Advance
  <2>4. ASSUME NEW b \in base .. reach'
        PROVE  IsCovered(b) \/ b \in skipped
    <3>1. \A c \in base .. reach : IsCovered(c) \/ c \in skipped
      BY <2>3
    <3>2. \A c \in reach + 1 .. lastBlock : c \in skipped
      BY <2>1
    <3>3. /\ b \in Int /\ reach' \in {reach, to} /\ to \in Int
          /\ b \in base .. reach \/ b \in reach + 1 .. lastBlock \/ b \in from .. to
      BY <2>1, <2>3
    <3>4. QED
      BY <2>1, <3>1, <3>2, <3>3
  <2>5. QED
    BY <2>1, <2>2, <2>3, <2>4
<1>11. CASE UNCHANGED vars
  BY <1>11 DEF vars, monitorVars, historyVars, envVars
<1>12. QED
  BY <1>1, <1>2, <1>3, <1>4, <1>5, <1>6, <1>7, <1>8, <1>9, <1>10, <1>11
  DEF Next, SaveCursor, SaveFails, NoSave

LEMMA WholeInvariant == Spec => []WholeInv
<1>1. Init => WholeInv
  BY DEF Init, WholeInv
<1>2. ProcessInv /\ ProcessInv' /\ WholeInv /\ [Next]_vars => WholeInv'
  BY WholeInvInductive
<1>3. QED
  BY <1>1, <1>2, ProcessInvariant, PTL DEF Spec

(* Of the blocks between the first one taken up and the last one passed,   *)
(* only those are lost where a process that found no cursor began anew.    *)
THEOREM FreshStartsSkip == Spec => []OnlyFreshStartsSkip
<1>1. WholeInv => OnlyFreshStartsSkip
  BY DEF WholeInv, OnlyFreshStartsSkip
<1>2. QED
  BY <1>1, WholeInvariant, PTL

-----------------------------------------------------------------------------
(* The abstract feed.                                                      *)

LEMMA CoveredIsCovered ==
  ASSUME NEW b \in Int, IsCovered(b)
  PROVE  b \in Covered
<1>1. <<TRANSFER, b>> \in handled \cup missed /\ <<TRANSFER, b>>[2] = b
  BY DEF IsCovered, Topics
<1>2. b \in {l[2] : l \in handled \cup missed}
  BY <1>1
<1>3. QED
  BY <1>2 DEF Covered

LEMMA CoveredGrows ==
  ASSUME handled \subseteq handled', missed \subseteq missed'
  PROVE  Covered \subseteq Covered'
BY DEF Covered, IsCovered

LEMMA StepImplementsFeed ==
  ASSUME ProcessInv, CursorInv, CursorInv', [Next]_vars
  PROVE  [Feed!Next]_(Feed!feedVars)
<1>1. CASE SaveCursor
  <2>1. Covered' = Covered /\ reading' = "known"
    BY <1>1 DEF SaveCursor, Covered, IsCovered
  <2>2. /\ cursor' \in Int /\ cursor' = to /\ lastBlock' = to
        /\ sessionFrom \in Int /\ from = lastBlock + 1 /\ lastBlock \in Int
        /\ from <= to
    BY <1>1 DEF SaveCursor, Advance, SavedBlock, ProcessInv, TypeOK, RangeInv, Busy
  <2>3. CASE cursor = None \/ reading = "lost"
    <3>1. /\ origin' = sessionFrom
          /\ \A b \in origin' .. cursor' : IsCovered(b)
      BY <1>1, <2>2, <2>3, MonitorAssumption
      DEF SaveCursor, CursorInv, NoGapBelowCursor, IsCovered, MonitorAssumption
    <3>2. origin' .. cursor' \subseteq Covered
      BY <3>1, <2>2, CoveredIsCovered
    <3>3. Feed!Open
      BY <2>1, <2>2, <2>3, <3>1, <3>2 DEF Feed!Open
    <3>4. QED
      BY <3>3 DEF Feed!Next
  <2>4. CASE cursor # None /\ reading = "known"
    <3>1. /\ origin' = origin /\ origin \in Int
          /\ cursor \in Int /\ cursor <= lastBlock
          /\ sessionFrom <= cursor + 1
          /\ \A b \in origin .. cursor' : IsCovered(b)
      BY <1>1, <2>2, <2>4, MonitorAssumption
      DEF SaveCursor, Advance, CursorInv, NoGapBelowCursor, IsCovered, ProcessInv,
          TypeOK, MaybeInt, MonitorAssumption
    <3>2. \A b \in cursor + 1 .. cursor' : IsCovered(b)
      <4>1. \A b \in sessionFrom .. lastBlock : IsCovered(b)
        BY <2>2, MonitorAssumption DEF ProcessInv, SessionInv, MonitorAssumption
      <4>2. \A b \in from .. to : IsCovered(b)
        BY <1>1 DEF SaveCursor, Advance, ProcessInv, FetchedInv, IsCovered
      <4>3. QED
        BY <2>2, <3>1, <4>1, <4>2
    <3>3. cursor + 1 .. cursor' \subseteq Covered
      BY <3>1, <3>2, <2>2, CoveredIsCovered
    <3>4. Feed!Move
      BY <2>1, <2>2, <2>4, <3>1, <3>3 DEF Feed!Move, ProcessInv, TypeOK
    <3>5. QED
      BY <3>4 DEF Feed!Next
  <2>5. QED
    BY <2>3, <2>4 DEF ProcessInv, TypeOK
<1>2. CASE StartUp \/ Halt
  <2>1. UNCHANGED <<cursor, origin, handled, missed>>
    BY <1>2 DEF StartUp, Start, Halt, historyVars, envVars
  <2>2. reading' \in {"known", "lost"}
    BY <1>2 DEF StartUp, Start, Halt
  <2>3. Covered' = Covered
    BY <2>1 DEF Covered, IsCovered
  <2>4. Feed!Restart
    BY <2>1, <2>2, <2>3 DEF Feed!Restart
  <2>5. QED
    BY <2>4 DEF Feed!Next
<1>3. CASE ~SaveCursor /\ ~StartUp /\ ~Halt
  <2>1. /\ UNCHANGED <<cursor, origin, reading>>
        /\ handled \subseteq handled' /\ missed \subseteq missed'
    <3>1. CASE HandleLog
      BY <3>1 DEF HandleLog, SkipLog, CallHandler, HandlerDone, Finished,
         historyVars, envVars
    <3>2. CASE ReadAnyHead
      BY <3>2 DEF ReadAnyHead, ReadHead, envVars
    <3>3. CASE ReadAnyGate
      BY <3>3 DEF ReadAnyGate, ReadGate, historyVars, envVars
    <3>4. CASE NewBlock \/ HeadFails \/ Fetch \/ FetchFails
      BY <3>4 DEF NewBlock, HeadFails, Fetch, FetchFails, monitorVars,
         historyVars, envVars
    <3>5. CASE SaveFails \/ NoSave \/ UNCHANGED vars
      BY <3>5 DEF SaveFails, NoSave, vars, monitorVars, historyVars, envVars
    <3>6. QED
      BY <1>3, <3>1, <3>2, <3>3, <3>4, <3>5 DEF Next
  <2>2. Feed!Cover
    BY <2>1, CoveredGrows DEF Feed!Cover
  <2>3. QED
    BY <2>2 DEF Feed!Next
<1>4. QED
  BY <1>1, <1>2, <1>3

(* The monitor implements the abstract feed: every step opens the cursor   *)
(* over covered blocks, moves it forward over covered blocks, or leaves it *)
(* alone; it is opened again only by a process that could not read it.     *)
THEOREM FeedImplemented == Spec => ImplementsFeed
<1>1. Init => Feed!Init
  BY DEF Init, Feed!Init, Covered
<1>2. ProcessInv /\ CursorInv /\ CursorInv' /\ [Next]_vars
        => [Feed!Next]_(Feed!feedVars)
  BY StepImplementsFeed
<1>3. QED
  BY <1>1, <1>2, ProcessInvariant, CursorInvariant, PTL
  DEF Spec, ImplementsFeed, Feed!Spec

-----------------------------------------------------------------------------
(* Why the monitor catches up.  That it does (CatchesUp) is checked, for    *)
(* liveness is out of the provers' reach; what it rests on is proved.  The  *)
(* walk over the logs always has a next one, a cycle comes closer to its    *)
(* end with every step, and when it ends the monitor has moved forward.     *)
BatchInv == Busy => to <= lastBlock + MaxBatch

HandlerInv == pc = "handler" => pending # {}

CycleInv == ProcessInv /\ BatchInv /\ HandlerInv

LEMMA CycleStep ==
  ASSUME CycleInv, [Next]_vars
  PROVE  BatchInv' /\ HandlerInv'
<1> USE MonitorAssumption DEF MonitorAssumption, CycleInv, ProcessInv, TypeOK, MaybeInt,
        BatchInv, HandlerInv, Busy
<1>1. CASE NewBlock \/ HeadFails
  BY <1>1 DEF NewBlock, HeadFails, monitorVars
<1>2. CASE StartUp \/ Halt
  BY <1>2 DEF StartUp, Start, Halt
<1>3. ASSUME NEW h \in head - HeadLag .. head, ReadHead(h)
      PROVE  BatchInv' /\ HandlerInv'
  <2>1. CASE NothingNew(Target(h), LastOrTip(Target(h)))
    BY <1>3, <2>1 DEF ReadHead
  <2>2. CASE ~NothingNew(Target(h), LastOrTip(Target(h)))
    <3>1. /\ lastBlock' \in Int /\ pc' = "gate"
          /\ to' = BatchEnd(Target(h), lastBlock' + 1)
      BY <1>3, <2>2 DEF ReadHead, LastOrTip, Target, NextFrom
    <3>2. Target(h) \in Int
      BY DEF Target
    <3>3. QED
      BY <3>1, <3>2 DEF BatchEnd
  <2>3. QED
    BY <2>1, <2>2
<1>4. CASE ReadAnyGate
  BY <1>4 DEF ReadAnyGate, ReadGate
<1>5. CASE Fetch \/ FetchFails
  BY <1>5 DEF Fetch, FetchFails, NextTopic
<1>6. CASE HandleLog
  BY <1>6 DEF HandleLog, SkipLog, CallHandler, HandlerDone, IsFirst
<1>7. CASE SaveCursor \/ SaveFails \/ NoSave
  BY <1>7 DEF SaveCursor, SaveFails, NoSave, Advance
<1>8. CASE UNCHANGED vars
  BY <1>8 DEF vars, monitorVars
<1>9. QED
  BY <1>1, <1>2, <1>3, <1>4, <1>5, <1>6, <1>7, <1>8 DEF Next, ReadAnyHead

LEMMA CycleInvariant == Spec => []CycleInv
<1>1. Init => BatchInv /\ HandlerInv
  BY DEF Init, BatchInv, HandlerInv, Busy
<1>2. CycleInv /\ [Next]_vars => BatchInv' /\ HandlerInv'
  BY CycleStep
<1>3. QED
  BY <1>1, <1>2, ProcessInvariant, PTL DEF Spec, CycleInv

\* A set of blocks that begins somewhere has a first one.
LEMMA FirstBlock ==
  ASSUME NEW S \in SUBSET Int, S # {}, NEW n \in Int, \A b \in S : n <= b
  PROVE  \E b \in S : \A c \in S : b <= c
<1> DEFINE T == {k \in Nat : n + k \in S}
<1>1. T \in SUBSET Nat /\ T # {}
  <2>1. PICK b \in S : TRUE
    OBVIOUS
  <2>2. b - n \in Nat /\ n + (b - n) = b
    BY <2>1
  <2>3. QED
    BY <2>1, <2>2
<1>2. PICK x \in T : \A y \in T : ~(<<y, x>> \in OpToRel(<, Nat))
  BY <1>1, WFMin, NatLessThanWellFounded
<1>3. ASSUME NEW c \in S
      PROVE  n + x <= c
  <2>1. c \in Int /\ n <= c
    BY <1>3
  <2>2. c - n \in Nat /\ n + (c - n) = c
    BY <2>1
  <2>3. c - n \in T
    BY <1>3, <2>2
  <2>4. x \in Nat
    BY <1>2
  <2>5. ~(<<c - n, x>> \in OpToRel(<, Nat))
    BY <1>2, <2>3
  <2>6. ~(c - n < x)
    BY <2>2, <2>4, <2>5 DEF OpToRel
  <2>7. QED
    BY <2>1, <2>4, <2>6
<1>4. QED
  BY <1>2, <1>3

LEMMA FirstExists ==
  ASSUME ProcessInv, pending # {}
  PROVE  \E l \in pending : IsFirst(l)
<1>1. /\ pending \subseteq Logs /\ from \in Int
      /\ \A l \in pending : from <= l[2]
  BY DEF ProcessInv, TypeOK, PendingInv
<1>2. \A l \in pending : l[1] \in {TRANSFER, SWAP} /\ l[2] \in Int /\ l = <<l[1], l[2]>>
  BY <1>1 DEF Logs, Topics
<1>3. PICK t \in Topics : /\ \E l \in pending : l[1] = t
                          /\ \A l \in pending : t <= l[1]
  BY <1>2 DEF Topics, TRANSFER, SWAP
<1> DEFINE S == {b \in Int : <<t, b>> \in pending}
<1>4. S \in SUBSET Int /\ S # {} /\ \A b \in S : from <= b
  BY <1>1, <1>2, <1>3
<1>5. PICK b \in S : \A c \in S : b <= c
  BY <1>1, <1>4, FirstBlock
<1>6. <<t, b>> \in pending
  OBVIOUS
<1>7. ASSUME NEW m \in pending
      PROVE  t < m[1] \/ (t = m[1] /\ b <= m[2])
  <2>1. CASE m[1] = t
    BY <1>2, <1>5, <2>1
  <2>2. CASE m[1] # t
    BY <1>2, <1>3, <2>2 DEF Topics, TRANSFER, SWAP
  <2>3. QED
    BY <2>1, <2>2
<1>8. QED
  BY <1>6, <1>7 DEF IsFirst

ALogIsNext ==
  /\ pc = "logs" => pending = {} \/ \E l \in pending : IsFirst(l)
  /\ pc = "handler" => \E l \in pending : IsFirst(l)

(* The walk over the fetched logs never gets stuck: while logs are left, or *)
(* a handler is awaited, one of them is next (poll_once 148-168).           *)
THEOREM NextLogExists == Spec => []ALogIsNext
<1>1. CycleInv => ALogIsNext
  BY FirstExists DEF CycleInv, HandlerInv, ALogIsNext
<1>2. QED
  BY <1>1, CycleInvariant, PTL

\* How far a cycle is from its end.
Rank == [gate |-> 4, fetch |-> 3, logs |-> 2, handler |-> 1]

MonitorMovesOn ==
  [][/\ lastBlock # None /\ pc' # "down" => lastBlock <= lastBlock'
     /\ Busy /\ pc' = "idle" => /\ lastBlock < lastBlock'
                                /\ lastBlock' <= lastBlock + MaxBatch
     /\ Busy /\ <<pc', topic', pending'>> # <<pc, topic, pending>> =>
          \/ pc' \in {"idle", "down"}
          \/ Rank[pc'] < Rank[pc]
          \/ pc' = pc /\ pc = "fetch" /\ topic < topic'
          \/ /\ pc \in {"logs", "handler"} /\ pc' \in {"logs", "handler"}
             /\ pending' # pending /\ pending' \subseteq pending]_vars

(* A running monitor never goes back, a cycle that takes up blocks ends     *)
(* with at least one and at most MAX_BLOCKS_PER_BATCH more of them done,    *)
(* and each step on the way asks for the next topic, shrinks the list of    *)
(* logs or leaves a stage of the cycle behind it (poll_once 99-183).        *)
THEOREM MonitorProgress == Spec => MonitorMovesOn
<1> DEFINE A ==
     /\ lastBlock # None /\ pc' # "down" => lastBlock <= lastBlock'
     /\ Busy /\ pc' = "idle" => /\ lastBlock < lastBlock'
                                /\ lastBlock' <= lastBlock + MaxBatch
     /\ Busy /\ <<pc', topic', pending'>> # <<pc, topic, pending>> =>
          \/ pc' \in {"idle", "down"}
          \/ Rank[pc'] < Rank[pc]
          \/ pc' = pc /\ pc = "fetch" /\ topic < topic'
          \/ /\ pc \in {"logs", "handler"} /\ pc' \in {"logs", "handler"}
             /\ pending' # pending /\ pending' \subseteq pending
<1>1. CycleInv /\ [Next]_vars => [A]_vars
  <2> SUFFICES ASSUME CycleInv, [Next]_vars
               PROVE  A
    OBVIOUS
  <2> USE MonitorAssumption DEF MonitorAssumption, CycleInv, ProcessInv, TypeOK, MaybeInt,
          Topics, TRANSFER, SWAP, Busy, Rank
  <2>1. CASE NewBlock \/ HeadFails
    BY <2>1 DEF NewBlock, HeadFails, monitorVars
  <2>2. CASE StartUp \/ Halt
    BY <2>2 DEF StartUp, Start, Halt, DownInv
  <2>3. CASE ReadAnyHead
    BY <2>3 DEF ReadAnyHead, ReadHead, LastOrTip
  <2>4. CASE ReadAnyGate
    BY <2>4 DEF ReadAnyGate, ReadGate
  <2>5. CASE Fetch \/ FetchFails
    BY <2>5 DEF Fetch, FetchFails, NextTopic
  <2>6. CASE HandleLog
    BY <2>6 DEF HandleLog, SkipLog, CallHandler, HandlerDone, IsFirst, Finished
  <2>7. CASE SaveCursor \/ SaveFails \/ NoSave
    BY <2>7 DEF SaveCursor, SaveFails, NoSave, Advance, RangeInv, BatchInv
  <2>8. CASE UNCHANGED vars
    BY <2>8 DEF vars, monitorVars
  <2>9. QED
    BY <2>1, <2>2, <2>3, <2>4, <2>5, <2>6, <2>7, <2>8 DEF Next
<1>2. QED
  BY <1>1, CycleInvariant, PTL DEF Spec, MonitorMovesOn

-----------------------------------------------------------------------------
(* How much a restart repeats.  The cursor is written once per batch, so a  *)
(* process that dies before the write leaves logs above the cursor that     *)
(* were already handed to the engine, and the next process hands them over  *)
(* again.  While no call has failed and the cursor can be read, a batch is  *)
(* all there can be of them.  Before the first write there is no cursor to  *)
(* start from: a process begins at the tip it is told of, which may lie     *)
(* HeadLag blocks below the tip of the one before.                          *)
FewRepeats ==
  cursor # None =>
    \A l \in handled : l[2] <= cursor + MaxBatch \/ l[2] <= cursor + HeadLag

RepeatsAreFew == faults = 0 => FewRepeats

FirstBatch == cursor = None /\ Busy

RepeatInv ==
  faults = 0 =>
    /\ pc # "down" => store = "redis"
    /\ cursor = None => \A l \in handled : l[2] <= head - Confirmations
    /\ FirstBatch => \A l \in handled : l[2] <= to + HeadLag
    /\ cursor = None /\ pc = "idle" => lastBlock = None
    /\ cursor # None /\ pc # "down" => lastBlock = cursor
    /\ FewRepeats

LEMMA RepeatStep ==
  ASSUME StartOutcomes = {"restored"},
         CycleInv, CycleInv', OnlyConfirmed, RepeatInv, [Next]_vars
  PROVE  RepeatInv'
<1>1. CASE faults # 0
  <2>1. faults \in Nat /\ (faults' = faults \/ faults' = faults + 1)
    BY <1>1 DEF CycleInv, ProcessInv, TypeOK, Next, vars, envVars, NewBlock, StartUp,
       Start, Halt, HeadFails, Fault, ReadAnyHead, ReadHead, ReadAnyGate, ReadGate,
       Fetch, FetchFails, HandleLog, SkipLog, CallHandler, HandlerDone, SaveCursor,
       SaveFails, NoSave
  <2>2. QED
    BY <1>1, <2>1 DEF RepeatInv
<1>2. CASE faults = 0
  <2> USE MonitorAssumption DEF MonitorAssumption, CycleInv, ProcessInv, TypeOK,
          MaybeInt, Busy, FirstBatch, FewRepeats
  <2>1. /\ pc # "down" => store = "redis"
        /\ cursor = None => \A l \in handled : l[2] <= head - Confirmations
        /\ FirstBatch => \A l \in handled : l[2] <= to + HeadLag
        /\ cursor = None /\ pc = "idle" => lastBlock = None
        /\ cursor # None /\ pc # "down" => lastBlock = cursor
        /\ FewRepeats
        /\ \A l \in handled \cup pending : l[2] \in Int
    BY <1>2 DEF RepeatInv, Logs
  <2>2. CASE NewBlock
    BY <2>1, <2>2 DEF NewBlock, monitorVars, historyVars, RepeatInv
  <2>3. CASE StartUp
    BY <2>1, <2>3 DEF StartUp, Start, RestoredCursor, historyVars, RepeatInv
  <2>4. CASE Halt
    BY <2>1, <2>4 DEF Halt, historyVars, envVars, RepeatInv
  <2>5. CASE HeadFails \/ FetchFails \/ SaveFails
    BY <1>2, <2>5 DEF HeadFails, FetchFails, SaveFails, Fault, RepeatInv
  <2>6. ASSUME NEW h \in head - HeadLag .. head, ReadHead(h)
        PROVE  RepeatInv'
    <3>1. /\ cursor' = cursor /\ handled' = handled /\ head' = head /\ store' = store
          /\ pc = "idle" /\ Target(h) \in Int /\ head - Confirmations <= Target(h) + HeadLag
      BY <2>6 DEF ReadHead, envVars, Target
    <3>2. CASE cursor = None
      <4>1. pc' = "gate" /\ to' = Target(h)
        BY <2>1, <2>6, <3>1, <3>2
        DEF ReadHead, LastOrTip, NothingNew, NextFrom, BatchEnd
      <4>2. \A l \in handled : l[2] <= Target(h) + HeadLag
        BY <2>1, <3>1, <3>2
      <4>3. QED
        BY <2>1, <3>1, <3>2, <4>1, <4>2 DEF RepeatInv
    <3>3. CASE cursor # None
      <4>1. lastBlock' = lastBlock
        BY <2>1, <2>6, <3>1, <3>3 DEF ReadHead, LastOrTip
      <4>2. QED
        BY <2>1, <3>1, <3>3, <4>1 DEF RepeatInv
    <3>4. QED
      BY <3>2, <3>3
  <2>7. CASE ReadAnyGate
    BY <2>1, <2>7 DEF ReadAnyGate, ReadGate, historyVars, envVars, RepeatInv
  <2>8. CASE Fetch
    BY <2>1, <2>8 DEF Fetch, NextTopic, historyVars, envVars, RepeatInv
  <2>9. CASE HandleLog
    <3>1. PICK l \in pending : handled' \subseteq handled \cup {l}
      BY <2>9 DEF HandleLog, SkipLog, CallHandler, HandlerDone, Finished, historyVars
    <3>2. /\ pc \in {"logs", "handler"} /\ pc' \in {"logs", "handler"}
          /\ UNCHANGED <<cursor, head, store, lastBlock, to, faults>>
      BY <2>9 DEF HandleLog, SkipLog, CallHandler, HandlerDone, envVars
    <3>3. l[2] \in Int /\ l[2] <= to /\ l[2] <= head - Confirmations
      BY <2>1, <3>1, <3>2 DEF PendingInv, OnlyConfirmed
    <3>4. to <= lastBlock + MaxBatch
      BY <3>2 DEF BatchInv
    <3>5. QED
      BY <2>1, <3>1, <3>2, <3>3, <3>4 DEF RepeatInv
  <2>10. CASE SaveCursor
    <3>1. /\ cursor' = to /\ lastBlock' = to /\ handled' = handled /\ pc' = "idle"
          /\ store' = "redis" /\ lastBlock <= to
      BY <2>10 DEF SaveCursor, Advance, SavedBlock, RangeInv
    <3>2. FirstBatch \/ lastBlock = cursor
      BY <2>1, <2>10 DEF SaveCursor, Advance
    <3>3. QED
      BY <2>1, <3>1, <3>2 DEF RepeatInv
  <2>11. CASE NoSave
    BY <2>1, <2>11 DEF NoSave, Advance
  <2>12. CASE UNCHANGED vars
    BY <2>1, <2>12 DEF vars, monitorVars, historyVars, envVars, RepeatInv
  <2>13. QED
    BY <2>2, <2>3, <2>4, <2>5, <2>6, <2>7, <2>8, <2>9, <2>10, <2>11, <2>12
    DEF Next, ReadAnyHead
<1>3. QED
  BY <1>1, <1>2

(* Where the cursor can be read and no call fails, a crash makes the next   *)
(* process repeat at most one batch, or the lag between the tips of two     *)
(* first processes (poll_once 110-111, 181-183, _init_cursor 68-97).        *)
THEOREM RestartRepeatsLittle ==
  ASSUME StartOutcomes = {"restored"}
  PROVE  Spec => []RepeatsAreFew
<1>1. Init => RepeatInv
  BY DEF Init, RepeatInv, FirstBatch, Busy, FewRepeats
<1>2. CycleInv /\ CycleInv' /\ OnlyConfirmed /\ RepeatInv /\ [Next]_vars => RepeatInv'
  BY RepeatStep
<1>3. RepeatInv => RepeatsAreFew
  BY DEF RepeatInv, RepeatsAreFew
<1>4. QED
  BY <1>1, <1>2, <1>3, CycleInvariant, ConfirmedOnly, PTL DEF Spec
=============================================================================
