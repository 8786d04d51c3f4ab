# Mantle Alpha Agent: TLA+ specifications and proofs

Mantle Alpha Agent watches the Mantle chain for large transfers and swaps and
tells Telegram users about those their rules ask for.  These modules specify
its core: the polling of the chain, the valuing of logs, the recording and
sending of alerts, the agreement of the polling cursor with those records, the
users' rules, the bot's way from a message to a rule, and the on-chain registry of alert fingerprints.  TLC checks the modules on
small instances, and TLAPS proves the main results for all values of the
constants.

Paths below are relative to the repository.  `M.tla` is a module, `M.cfg` a
model for TLC.  To repeat a check or a proof, from this directory:

    tlc -workers 2 -config BlockMonitor.cfg BlockMonitor
    tlapm BlockMonitorProofs.tla

`PROJECT.json` has the exact data: every run with its properties, every
definition with the source lines it stands for, the hazards with the properties
aimed at them, for each property a mutation of the model that it detects, and
the findings.


## 1. The system

Processes, and what they share:

    users --Telegram--> bot ---+                 +--- REST API <-- dashboard
                               v                 v
                             AlertService --> PostgreSQL <--------+
                                              rules, users,       |
                                              alert_history       |
    Mantle node --RPC--> BlockMonitor --on_whale--> AlertEngine --+--> Telegram
                           |    ^                       |
                           v    | gate, prices          v
                         Redis  +-- PriceService    OnChainLogger --> AlertLogger.sol

The worker (`backend/worker.py`), the single program `run_all.py`, and the Celery
task of `backend/tasks/` each contain a monitor and an engine, and may run at the
same time.  Bot and API handle requests concurrently with them.  Every process is
one asyncio loop, so control changes only at an `await`; this is the grain of the
actions in every module.

### Components

| Component | Source (`backend/` unless noted) | Its state | Operations |
|---|---|---|---|
| Block monitor | `blockchain/monitor.py` | `_last_block`, the Redis cursor, the range and logs of the cycle | start, poll, back-fill in batches, save and restore the cursor, stop |
| Event normalizer, whale detector, matching | `blockchain/events.py`, `client.py`, `whale.py`, `alerts/matching.py` | metadata caches by address | decode, value, compare with the gate, match rules |
| Pricing | `pricing/` | price cache with expiry | cached, live and static prices; retries |
| Alert engine | `alerts/engine.py` | `alert_history`, an open transaction | match, check, insert, send, record, commit |
| Alert rules | `alerts/service.py`, `database/repositories.py` | `alert_rules`, `users` | track, untrack, delete |
| Bot front door | `bot/handlers.py` | the update being handled | commands, text, dispatch of intents |
| Rate limiter | `core/security.py` | request times of each user | allow |
| Intent engine | `ai/intent.py`, `ai/llm_provider.py` | none | screen, ask the model, validate, parse keywords |
| On-chain logger | `alerts/onchain_logger.py` | contract object, nonces, `onchain_log_tx` | log_alert |
| AlertLogger contract | `contracts/AlertLogger.sol` | mapping, list, counter, owner, authorized | logAlert, setAuthorized, transferOwnership |
| Process entry points | `worker.py`, `run_all.py`, `main.py` | wiring | start and stop of the above |
| Celery tasks | `tasks/` | none of their own | poll, purge of system logs |
| Telegram notifier | `bot/telegram_bot.py` | none | send |
| Answers and formatting | `bot/formatters.py` | none | text |
| REST API | `api/` | none | rules, history, users, health |
| Persistence | `database/` | the tables | sessions, repositories |
| Insight generator | `ai/insights.py` | none | text of an alert |
| Configuration, logging, types | `config.py`, `core/` | settings | |
| Migrations | `alembic/` | | |
| Contract tooling and tests | `contracts/scripts`, `contracts/test`, `tests/` | | |

### What is hard, and what makes each component correct

* **Block monitor.**  The process may end at any await, between handling a range
  and saving the cursor, say; nodes behind one RPC address disagree about the head;
  Redis may be absent or fail.  Correct: the stored cursor never closes an interval
  with a gap, blocks without enough confirmations are not touched, one process
  never goes back, and every confirmed block is passed in the end.
* **Valuing and matching.**  Three reads happen at three times: the gate once per
  range, the price once per time to live, the rules once per whale; failed
  metadata calls are cached like answers.  Correct: a rule that did not change
  since the gate was read fires when the log deserves it, and no rule fires
  otherwise.
* **Pricing.**  Lookups take time, sources fail and are retried, and a last resort
  comes behind them.  Correct: no expired price is used; the static table answers
  only after every live source gave up; a lookup always ends.
* **Alert engine.**  Engines in several processes may handle one whale at once,
  each in a transaction that sends messages before it commits.  Correct: one row
  per rule and action; a decided row never changes and gets no further message; a
  message is repeated only after a roll back; no wait for a row lasts for ever.
* **Monitor and engine together.**  A cursor in Redis and rows in PostgreSQL have no
  common transaction; the process may end between the two, and Celery's poll tasks
  write the same rows.  Correct: the cursor never passes a whale without its rows
  unless it was given up on in the open, what a crash interrupts is replayed, and
  no wait inside the engine holds the monitor up for ever.
* **Alert rules.**  Requests of one user race at READ COMMITTED, with row locks in
  different orders and a session cache that decides which columns are written.
  Correct: rows stay unique, what commits is what was asked for, the ceiling is
  kept as far as possible, and no request waits for ever.
* **Front door.**  The model's JSON may be anything, may not come, or may break the
  handler; the keyword parser then has to do.  Correct: only sound orders reach
  the store, well-formed requests are understood, and the rate limit holds in every
  window without refusing anybody else.
* **On-chain log.**  Several processes share a key and hence nonces, answers get
  lost, transactions revert after their hash was stored, the owner may withdraw
  the authorization, and the gas of a transaction is a constant of the code.  Correct:
  the registry only grows and never changes, no transaction is stuck, and each alert
  that was sent can be told to be pending, logged, or lost for one of three causes.


## 2. The modules

Each specification names the code it stands for in the comment at its head; each
variable says what it is in the code.  Variables marked *history* are there for the
properties: no guard reads them.

| Module | Role |
|---|---|
| `GapFreeFeed` | abstract: a cursor that closes covered intervals |
| `BlockMonitor` | the monitor; implements `GapFreeFeed` |
| `AlertLedger` | abstract: a write-once decision per rule and action |
| `AlertEngine`, `MCAlertEngine` | engines on one database; implement `AlertLedger` |
| `AlertPipeline`, `MCAlertPipeline` | the worker: `BlockMonitor`, which it EXTENDS, awaiting `AlertEngine`, with Celery's tasks on the same rows; implements both |
| `RuleBook`, `MCRuleBook` | concurrent requests on one user's rules |
| `FingerprintLog` | abstract: an append-only log of unchanging entries |
| `AlertLogger` | the contract; implements `FingerprintLog` |
| `OnChainLogger`, `MCOnChainLogger` | clients and node around `AlertLogger`, which it EXTENDS |
| `PriceService` | prices: the actions of a lookup |
| `WhaleWatch`, `MCWhaleWatch` | decoding, valuing, gate and matching; EXTENDS `PriceService` |
| `RateLimiter` | the sliding window |
| `IntentEngine` | from words or JSON to an intent, as operators |
| `FrontDoor`, `MCFrontDoor` | the bot's handlers; EXTENDS `RateLimiter` and `IntentEngine` |
| `*Proofs` | theorems about the module they are named for |

The comment `mutant` marks an operator the specification does not use: a plausible
mistake in the definition that follows it.

**BlockMonitor.**  `pc` is the await `poll_once` is at: `idle` (between cycles),
`gate` (`_current_threshold`), `fetch` (`get_logs` for `topic`), `logs` (walking
`_process_range`) and `handler` (in `on_whale`); `down` is a process that does not
run.  `ReadHead` is lines 97-108, `Fetch` and `FetchFails` one `get_logs` each,
`SkipLog`, `CallHandler` and `HandlerDone` the loop over the logs, and `SaveCursor`,
`SaveFails` and `NoSave` the end of the cycle.  Logs are pairs of a topic and a
block; a value is drawn from a set, because `WhaleWatch` has the details.
`StartUp` has the outcomes of the worker's Redis ping and of `_init_cursor`.  `base`,
`reach` and `skipped` follow what all processes together took up, passed and jumped
over.

**AlertEngine.**  A key is a rule and an on-chain action, as in
`uq_rule_tx_logindex`.  `Begin` is `list_all_active` with the matching; `Visit`,
`LoadUser`, `Insert`, `Deliver` and `LogOnChain` are the awaits of the loop in
`handle_whale`; `draft` holds the rows the open transaction has flushed.  An insert
waits while another open transaction holds the key, and fails on a committed one.
PostgreSQL ends one of a cycle of waiting transactions.  Telegram answers `ok`,
`refused`, or `unsure` (accepted, but the call raised).  Users edit rules and
notifications at any time.

**AlertPipeline.**  The monitor keeps its variables; those of the engines are an
INSTANCE of `AlertEngine` with `call` for its `pc`.  `HandWhale` is `CallHandler`
together with the worker's `Begin`: while `pc = "handler"` only the engine moves
(`Work`, `WorkFails`, `WorkErrs`), and `Resume` is what follows the `await` in
`_process_range`, whether `handle_whale` returned or raised.  `Crash` ends the process
with the transaction it has open.  `Poll` is a Celery task that looks at one confirmed
block: `_poll_once` builds a monitor without Redis for each poll, so its cursor is
never a concern, and its engine has no notifier.  The gate is the smallest threshold of
the rules that are active when it is read, and the handler of `BlockMonitor`, which may
do anything there, is a real engine here.

**RuleBook.**  A session is a bot update or an API request.  Reads, the INSERT, the
flush of the user's row and the commit are separate steps.  `readActive` and
`readThreshold` are what SQLAlchemy's identity map has: they decide which columns
a commit writes.  `Answer` is the reply that is formatted before the commit, which
for a rule that was read from the database raises.

**AlertLogger and OnChainLogger.**  A contract call is one step or reverts.
`log_alert` is `CallLogAlert`, `ReadNonce` and `Send` or `SendFails`; the node's
pool replaces a transaction by one of the same nonce at a higher price and mines in
the order of nonces.  `recorded` is `onchain_log_tx`.  `_send` gives every transaction
the same gas limit (`onchain_logger.py:95`) and never asks for an estimate; `LogAlertGas`
is what the call needs: the stored fields (`StructGas`, more for a long symbol), one
element of `alertHashes`, and its length and `totalAlerts`, which are new slots in an empty
registry only.  `Mine` executes the call or lets it revert, because the contract's
guards fail or because it is `OutOfGas`; in each case the nonce is used up.  `replaced`,
`refused` and `starved` (history) keep what became of a transaction that was lost.

**PriceService and WhaleWatch.**  `Miss`, `AnswerPrice`, `AnswerNothing`, `Raise`,
`ListExhausted` and `ReturnFetched` are the path through `get_price` with the two
attempts of `_get_with_retry`.  `ReadGate`, `GetDecimals`, `GetSymbol`,
`EvaluateCached`, `EvaluateFetched` and `Match` are the awaits from the range to
`rule_matches`.  A verdict is kept with what the chain itself says of the log
(`Deserves`), so that properties can compare the two.  Values are never divided:
`raw * price >= usd * 10^decimals`.

**RateLimiter, IntentEngine and FrontDoor.**  A bucket is the set of the request times
a user's list holds, told apart by the number of the request.  A message is a sequence
of words; `Lexicon` says what the regular expressions see in each word: a keyword, a known
token, the run of letters taken for a ticker, digits and their suffix, an event.
The order in which `_rule_based`, `_find_token`, `_find_event` and `_find_amount` try
their patterns is that of the code.  `Text`, `TrackCommand`, `UntrackCommand` and
`Deny` are the handlers up to their first await; `ModelAnswers`, `ValidateAnswer`,
`ModelFails` and `ModelBreaks` are what `complete_json` may come to; `DispatchIntent`
ends in the order `AlertService` gets, where a request of `RuleBook` begins.


## 3. The runs

Runs that pass:

| Run | Module | What it shows |
|---|---|---|
| `monitor` | `BlockMonitor` | Restarts, lagging nodes, failed calls and failed reads and writes of the cursor in any order: `NoGapBelowCursor`, `ImplementsFeed`, `OnlyConfirmed`, `NoReplayWithinSession`, `OnlyFreshStartsSkip`; and `CatchesUp`. |
| `engines_share_ledger` | `MCAlertEngine` | A worker and a Celery process on one whale: `OneRowPerKey`, `DuplicatesOnlyAfterRollback`, `CommitDecidesEveryMatch`, `QuietUsersStayQuiet`, `ImplementsLedger`, `EveryWhaleEnds`. |
| `pipeline` | `MCAlertPipeline` | Monitor, engine, Celery task and users, with crashes at every await: `PassedIsDecided`, `InterruptedIsReplayed`, `EveryWhaleIsDecided`, `ImplementsMonitor`. |
| `rule_requests` | `MCRuleBook` | Bot and API on one user's rules: `NewRowsAreUnique`, `CommitsTakeEffect`, `CeilingPassedByRacersOnly`, `EveryRequestEnds`. |
| `onchain_log` | `MCOnChainLogger` | Two writers, one key, an owner: `RegistryAgrees`, `NoNonceGap`, `LossesAreAccounted`, `ImplementsLog`. |
| `whale_watch` | `MCWhaleWatch` | From a log to the rules it fires: `FreshPrices`, `StaticIsLastResort`, `SteadyRulesFire`, `NoFalseAlarm`, `EveryLogIsJudged`. |
| `front_door` | `MCFrontDoor` | From a message to an order: `WindowBound`, `RefusedOnlyWhenFull`, `OrdersAreSound`, `FallbackReadsRequests`, `SlashAgreesWithText`. |

Runs that find a statement of the repository violated:

| Run | Property | The statement, and what the code does |
|---|---|---|
| `monitor_retries_fetches` | `FailedFetchesAreRetried` | `monitor.py:15` "All RPC failures are caught and retried on the next cycle": when `get_logs` fails for a topic the cursor passes the range all the same. |
| `fires_twice` | `NeverFiresTwice` | `models.py:130` "never fire the same rule for the same tx + log twice": the message goes out before the commit, and a roll back forgets it. |
| `celery_silences_worker` | `EveryWhaleIsTold` | `monitoring_tasks.py:4` calls the Celery poll "an alternative to the always-on worker loop": its engine has no notifier and records FAILED, so the worker skips the rule, the cursor passes the whale, and its user is never told. `docker-compose.yml` runs both. |
| `track_again` | `TrackAgainIsStored` | `repositories.py:134` "its threshold is updated and it is reactivated": the bot's answer raises on a rule read from the database, and the update is rolled back. |
| `swaps_unvalued` | `SwapsAreValued` | `README.md:75` "decodes Transfer and Swap events, values them in USD": a swap is priced under the pair contract's own symbol, which no provider knows. |

### Bounds

* `monitor`: batches of 2, one confirmation, heads 4 to 6 that may be answered one too
  low, 3 starts, one failed call.  Three heads above a batch of two give a cut batch, a
  full batch and two ranges in succession; three starts give a crash, a replay and a
  crash in the replay.  A process starts with its cursor restored, without Redis, or with
  a Redis that answers the ping and fails the read.
* `engines_share_ledger`: two engines, one of them with a notifier, two rules of one
  user, one whale, two transactions per engine, one abort and one edit.  Two rules
  are what a cycle of waits needs, and a second transaction what a retry after a roll
  back needs.  Two engines that both notify are covered by the theorems.
* `pipeline`: the worker and one task, one rule, one whale in the second confirmed block,
  batches of one, heads 4 and 5, two starts, one failed call, one abort, one edit, two
  transactions of the worker and one poll.  Two blocks are what a cursor that is ahead of
  a row needs, two starts and two transactions what a replay needs, and one task what a
  lost race needs.  The worker always finds its cursor: what the other starts do
  to it is the question of `monitor`, and the theorems cover all of them, with any number
  of rules, whales and tasks.
* `rule_requests`: one bot update and one API request at a time, two event types of one
  token and a second token, thresholds 1 and 2, a ceiling of 1, four requests, one
  failure.  Four requests can create, remove, revive and race.
* `onchain_log`: two writers, three rows of two whales (two rows share a hash), two
  gas prices, two calls of other accounts.  The reporter is not authorized at first, so
  that two calls grant and withdraw the authorization, or grant it and log an alert
  before the reporter does: together with a reporter that is never authorized, every way
  a transaction can end occurs.  Gas is in thousands, at the EVM's prices: 22 for a new slot, 5 for a
  changed one, 27 for the rest of the call (intrinsic gas, the read of the authorization,
  arguments, event), with a limit of 200.  A first alert costs 225, a later one 191, and one
  with a symbol of 32 bytes or more, which takes a slot of its own, 213: all sides of the
  limit occur.  An alert worth less than one dollar stores one zero and costs 20
  less, which leaves a first one above the limit.  The costs are constants, so that the
  theorems hold for a chain with other prices.
* `whale_watch`: two tokens, one with more decimals than the default and one with fewer, a pair,
  two rules, one live provider and the static table, quotes 0 and 1 against a table
  price of 2, a time to live of one tick, two logs, one edit, one restart.
  Two logs are what a stale cache entry needs.  A second live provider is covered by
  the theorems.
* `front_door`: two users, two requests per window of two ticks, three requests, four
  points of time, and messages of at most three of nine words, one of each kind the
  parser tells apart.  Amounts are scaled (k = 10, m = 100, b = 1000; minimum 10,
  default 40, maximum 8000) so that the model's amounts lie below, between and above the
  limits and a misread suffix changes what is ordered.  The two users are symmetric: no
  property names one, and none is a liveness property.

Counters such as `MaxAborts`, `MaxEdits`, `MaxFaults`, `MaxStarts`, `MaxRuns`,
`MaxRequests`, `MaxFails`, `MaxOwnerCalls`, `MaxLogs`, `MaxRestarts`, `MaxAsked`,
`MaxHead` and `MaxTime` bound the environment and how often work begins, never a step
of work that has begun.

Deadlock is not checked where the environment may use up its bound and everything
comes to rest (engines, rules, on-chain log, front door); the cfg says so.

### Fairness

* `BlockMonitor`: weak fairness of the steps of the loop, whose exceptions are caught
  cycle by cycle; of `StartUp`, as the container runtime restarts the worker; and of
  `ReadHead(head)`, as a node that lags catches up and then answers the true head.
  Failures and restarts are not fair and are bounded, so they stop in the end: the claim
  is that the monitor catches up once they do.
* `AlertPipeline`: the fairness of `BlockMonitor` for the steps that are still the monitor's,
  and of `AlertEngine` for its open transactions.  The handler is fair because the engine
  is, which is half of what `ImplementsMonitor` shows.
* `AlertEngine`, `RuleBook`: weak fairness of `Continue` for each open transaction: the
  event loop resumes it and the database and Telegram answer or time out.  Nothing
  makes an engine begin or a user send a request.
* `WhaleWatch`: weak fairness of the task's own steps, every call of which has a timeout.
* `OnChainLogger`, `FrontDoor`: safety only.  A pending transaction need not be mined, and
  the model need not answer.


## 4. The theorems

The proofs are checked by TLAPS without any unproved step.  They hold for all
constants that satisfy the named assumptions of the modules (`MonitorAssumption`,
`EngineAssumption`, `RuleAssumption`, `ContractAssumption`, `LoggerAssumption`,
`PriceAssumption`, `WatchAssumption`, `ThresholdAssumption`, `ScaleAssumption`,
`LimitAssumption`, `IntentAssumption`, `FrontAssumption`, `PipelineAssumption`), which
TLC evaluates on every run.  These say little beyond types.  The exceptions:
`PipelineAssumption` says that no rule has a threshold below the default gate and that a
whale is worth at least what the rules it matches ask for (`rule_matches`);
`ThresholdAssumption` is what `validate_threshold` guarantees; and `ScaleAssumption` says
that powers of ten are natural numbers that grow with the exponent, which is arithmetic,
but arithmetic by induction, beyond the provers.

**BlockMonitorProofs.**  `TypeCorrect`, `ConfirmedOnly`, `NoReplay`, `NoGap`,
`FeedImplemented`, `FreshStartsSkip`, `NextLogExists`, `MonitorProgress`,
`RestartRepeatsLittle`.  None of the properties is inductive: that the logs
in hand lie above the last block follows from the range starting right behind it, which was decided three awaits
earlier.  `ProcessInv` keeps these facts through a cycle: the range starts at
`lastBlock + 1` and ends below the confirmed head (`RangeInv`), the logs in hand are of
the range (`PendingInv`), topics already asked for are handled, missed or in hand
(`FetchedInv`), and everything from the first block of the process to the last one is
covered (`SessionInv`).  `CursorInv` ties it to Redis: with a client, the last block is
never behind a cursor this process could read, and its session begins at most one block
above it.  A process that could not read the cursor opens a new interval with its
first save; `WholeInv` counts the blocks it jumped over among `skipped`, so that nothing
else is left out between `base` and `reach`.  `CycleInv` adds the size of a batch and the
log the handler works on: a list of logs always has a first one, a process never moves
back, and every step of a cycle leaves less of it.  `RestartRepeatsLittle` is about what
a crash costs where Redis answers every start and no call has failed: `RepeatInv` says that all
that was handled lies at most one batch above the cursor, or, before there is a cursor,
at most the lag between two answers above the tip a process begins at.

**AlertEngineProofs.**  `TypeCorrect`, `OneRow`, `Duplicates`, `CommitsDecide`, `QuietStaysQuiet`,
`LedgerImplemented`, `SomebodyReady`, `SessionsProgress`, `TwiceOnlyAfterFailures`.
`EngineInv` consists of the types, `SessionsInv` (what an engine at each label knows of
its own row: not yet flushed, PENDING, or decided) and `RowsInv`: a flushed row has no
committed rival (`DraftsAreFresh`) and no flushed one (`DraftsExclude`), every message is
accounted for by a row, an open session or a roll back (`MessagesAccounted`), and a row
that says SENT was told (`SentWasTold`).  The step of the refinement that matters is
the commit, which decides all the keys of a session at once.  For `CommitsDecide`,
`MatchesAccounted` says that a rule that matched is still to be visited, in hand, drafted
or has a committed row; for `QuietStaysQuiet`, a session that has loaded a user who was
quiet from the start has read "off".  `SomebodyReady` needs that an insert waits for a row
some open session holds, and that a session that delivers has loaded its user
(`LoadedInv`).  `TwiceOnlyAfterFailures` says where `NeverFiresTwice`, which the run
`fires_twice` refutes, does hold: with one engine, or one rule for each whale, the
messages lost to a roll back are paid for by failures (`LossInv`), because nobody else
can take a key or close a cycle of waits.

**AlertPipelineProofs.**  `EngineImplemented`, `MonitorImplemented`, `PassedDecided`,
`InterruptedReplayed`, `PipelineImplementsBoth`, `PipelineKeepsRows`, `PipelineGoesOn`,
`WorkerAloneTells`, `WorkerAloneTellsOnce`.  The first two say that a step of the pipeline is a step of each
half or leaves it alone, so that the invariants of both hold in the composition:
`Assumed` derives the engine's assumptions from `PipelineAssumption`.  Neither half alone
says anything about the other's durable state.  `LinkInv` does: the gate hides no rule
that was active all along (`GateInv`); while the handler runs the engine works on the
very log the monitor waits for, and every steady rule it matches is in its transaction
or has a row (`CallInv`); when it has returned those rows are committed (`ReturnInv`); and
so every whale that was handled is settled (`HandledInv`).  With `NoGapBelowCursor`,
that gives `PassedIsDecided`.  `PipelineKeepsRows` and `PipelineGoesOn` carry the engine's
theorems over.  `WorkerAloneTells` turns the finding of `celery_silences_worker` round:
without tasks, and with a Telegram that refuses nothing, `EveryWhaleIsTold` is an
invariant, so the second engine is what breaks it.  `KeenInv` is its reason: a session
never reads "off" for a user who has had notifications on all along, and every row
committed for one was told.

**RuleBookProofs.**  `TypeCorrect`, `UniqueRows`, `CeilingBound`, `CommitsAreEffective`,
`SomebodyReady`, `RequestsProgress`, `ApiTrackAgainIsStored`, `BotsNeverUpdate`.
For the ceiling, `CeilingInv` counts the sessions that have passed the count and not yet
committed: active rules plus racers never exceed `MaxAlerts + sessions - 1`.  The last
one to pass the count saw fewer than `MaxAlerts`, and at most all other sessions raced
it.  For the effect of commits, `EffectInv` says what a session knows of its
slot at each label unless another session touched it.  `SomebodyReady` follows the waits:
`LocksInv` says what a session that holds a row is doing, and from it every chain of
waits ends at a session that can go on (`MakerIsReady`, `RegistrarIsReady`,
`DropperIsReady`) or at the one pair that PostgreSQL ends.  The last two theorems divide
what the run `track_again` finds: the API keeps the promise of `repositories.py:134`, and
the bot never does, as its commits to track are of new rows only (`BotsMake`).

**OnChainLoggerProofs.**  `TypeCorrect`, `RegistryIsConsistent`, `NoGap`,
`EveryLossHasACause`, `FirstAlertStarves`, `EnoughGasLogsEach`, `NothingInvented`,
`LogImplemented`.  `ContractInv` is inductive by itself: the guard of `logAlert` reads the
mapping, and the consistency of mapping and list makes the new hash fresh in the list.
`NoncesInv` says that a nonce that was read is not above the number of mined
transactions and that a nonce is used once in the pool; `RecordedInv` follows a recorded
transaction from the pool to the registry or to the cause of its loss; as it speaks of each
transaction by itself, one collision does not excuse the loss of another alert.
`FatesInv` keeps the fates apart: a transaction that was replaced stays below the price
of the one in its place, so that it cannot come back before its nonce is mined, and not
afterwards either.  `FirstAlertStarves` and `EnoughGasLogsEach` are the two sides of the
fixed gas limit (section 6).  With a limit below the cost of a first alert the
first entry of the registry is never the reporter's, so that a registry nobody else
writes to stays empty for ever; with a limit that pays a first alert,
every alert whose transaction was sent, not replaced, and mined while the reporter was
authorized is in the registry (`EachSentAlertIsLogged`).  Their hypotheses compare the constants `GasLimit`, `CallGas`,
`StructGas` and `NewSlotGas`; the second also assumes that a changed slot costs no more
than a new one.  `SourceInv` follows a hash the other way, from the registry back to the row it was
sent for (`NothingInvented`).

**RateLimiterProofs and FrontDoorProofs.**  `LimitHolds`, `RefusalIsEarned`; `BotLimits`,
`TypeCorrect`, `OrdersSound`, `RequestsAreRead`, `SlashAgrees`.  `ListedInv` says that a
list holds every request of its user, served or not, that is still within the window,
and nothing but requests of theirs: once pruned, its length is the number of requests in
the window; the bot's steps are steps of the limiter or leave it alone (`LimiterInside`).
`DoorInv` follows types through the awaits.  The theorems about the parser evaluate the
order of its patterns for an arbitrary lexicon (`RequestIsTrack`, `TokenIsRead`,
`EventIsRead`, `AmountIsRead`).  `RequestsAreRead` has the hypothesis that the fallback is
on.  `SlashAgrees` has the hypothesis `PlainArguments`: an argument that is a token and one
that is an amount read as such behind "track".  TLC checks it for the vocabulary of
the run.

**WhaleWatchProofs.**  `WatchInvariant`, `TypeCorrect`, `PricesAreFresh`, `SteadyFire`,
`AlarmsAreDeserved`, `StaticComesLast`, `SwapsAreDropped`, `LogWorkIsFinite`.  `GateInv` (the gate is at most the threshold of
every active rule that did not change since it was read) is what makes the two
comparisons, with the gate and with the rule, agree; `MetadataInv` lists what a cache may
hold, so that a wrong entry can only make a whale look smaller (`Monotone`,
`ScaleFacts`) or unknown (`PricedEvent`).  `NoFalseAlarm` names the two ways round that: a
token with more decimals than the default, whose decimals could not be read, and a pair
contract that answers `symbol()` with the name of a known token (`Impostor`).
`SwapsAreDropped` is the finding of `swaps_unvalued` for every choice of tokens and prices: but for such a pair
no swap is ever valued.  `LogWorkIsFinite` counts the steps a log can
still cost, of which each step of the task takes one.  `PassedInv` follows the providers that
were passed over.  `StaticComesLast` has the hypothesis `StaticUnlisted`: naming
"static" in `PRICE_PROVIDERS` would contradict what `build_providers` says of its place.

Only model-checked:

* `CatchesUp`, `EveryWhaleEnds`, `EveryRequestEnds`, `EveryLogIsJudged`,
  `EveryWhaleIsDecided`, and of `ImplementsMonitor` the half about fairness: liveness
  under fairness, and `ENABLED`, are beyond the prover.  What can be proved of them is the
  part that is safety, and it is: that something open can always take a step, and that
  each step lowers a measure.

| Liveness, checked | Somebody can go on, proved | It leaves less to do, proved |
|---|---|---|
| `CatchesUp` | `NextLogExists` | `MonitorProgress` |
| `EveryWhaleEnds` | `SomebodyReady` (engine) | `SessionsProgress` |
| `EveryRequestEnds` | `SomebodyReady` (rules) | `RequestsProgress` |
| `EveryLogIsJudged` | no step of `WhaleWatch` waits for another task | `LogWorkIsFinite` |
| `EveryWhaleIsDecided` | `PipelineGoesOn` | those of its two halves |

  What is left to TLC is that the steps named there are enabled as written and that weak
  fairness makes them happen.

Every other invariant and every action property of the passing runs is a theorem.


## 5. What is not modelled

* **The Redis branches of `PriceCache` and `RateLimiter`**: no caller passes a client.
* **The bytes**: ABI decoding, hex, HTTP and SQL as text, and the wording of messages.
  Where wording changes state (`format_rule_created`), it is modelled.
* **Regular expressions**: a word is what they see in it; `Lexicon` is checked for a
  vocabulary, not for all strings.
* **Reading commands and routes** (`/myalerts`, `/history`, `/status`, `GET` routes,
  health): they change nothing.
* **Insight generator**: text without state; in `AlertEngine` it is part of an await.
* **`run_all`'s order of start and stop, webhook, the daily purge of `system_logs`**: wiring,
  or tables nothing reads.  That `run_all` cancels the monitor's task is a `Crash` of
  `AlertPipeline`: the open transaction is rolled back at its await.
* **The walk of a Celery poll**: `Poll` takes up any confirmed whale.  Which block the poll's
  fresh monitor looks at decides nothing the properties speak of.
* **Configuration, logging, migrations, contract scripts, tests**: no running part.
* **Chain reorganizations deeper than the confirmations**: the monitor has no code for
  them; `ConfirmedOnly` is what the code offers.


## 6. Observations

Seen while modelling and not refuted by a run, because no document promises
otherwise or because a property names them as its exception:

* If Redis answers the ping and fails the read of the cursor (`monitor.py:169`), the
  monitor starts at the tip and its next save overwrites the stored value: the blocks
  in between are never looked at.  `OnlyFreshStartsSkip` shows that nothing else loses any.
* Each Celery poll builds its own monitor without Redis, which starts at the tip
  (`monitoring_tasks.py:40`): run without the worker, it never looks at the blocks
  between two polls.
* The ceiling on rules can be passed by requests that count before either commits
  (`service.py:67`); `CeilingPassedByRacersOnly` says by how many.
* The registry takes a fingerprint once (`AlertLogger.sol:126`), but the engine calls
  `log_alert` for every rule that matches a whale (`engine.py:115`): the second
  transaction reverts, and its hash is stored like the first one's.
* Two transactions with the same nonce (`onchain_logger.py:93`) replace each other after
  a hash was recorded: those of two processes, or two of one process, which does not wait
  for the first to be mined; `replaced` in `LossesAreAccounted` names this.
* The first alert of a registry costs about 225,000 gas at the EVM's prices: nine slots set
  from zero at 22,100 each, 21,000 to begin with, and the rest of the call.
  `onchain_logger.py:95` allows 200,000 and asks for no estimate, so that the transaction
  reverts, with its hash stored; the registry is still empty, and the next alert is a
  first one again.  Unless somebody else logs the first alert, none of the "immutable
  fingerprint of each alert" (`onchain_logger.py:4`) is ever recorded: `FirstAlertStarves`.
  `starved` in `LossesAreAccounted` names this.
* A token symbol of 32 bytes or more takes a slot of its own: its alert needs more than
  the 200,000 gas of `onchain_logger.py:95` even when the registry is no longer empty.
* A metadata call that fails once is cached until the process ends (`client.py:129`); the
  token is undervalued or unpriced meanwhile.  `SteadyRulesFire` names this.  For a token
  with more than 18 decimals the cached default invents whales instead; `NoFalseAlarm`
  names that.
* A swap's token is looked up at the pair's address (`events.py:128`): a pair contract
  whose `symbol()` is that of a known token would be valued like it.  `Impostor` in
  `NoFalseAlarm` names this.
* The amount pattern skips blanks (`intent.py:169`): "track 50 mETH" asks for fifty
  million.  `WellFormed` leaves such messages out.
* `_find_token` looks at the first run of two to six letters only (`intent.py:229`): when
  that is an ordinary word, a later ticker that is not a known token is not found.
* JSON from the model that is not an object, or an answer without a choice, raises
  outside the `LLMError` path (`intent.py:108`, `llm_provider.py:97`): no fallback, and the
  user is not answered, although `intent.py:10` says that the engine falls back when the
  model "errors" and `llm_provider.py:27` that `LLMError` stands for "unusable output".
  `ModelBreaks` models it; a run would show no more than that one step.
* `README.md:256` calls the limiter Redis-backed; `handlers.py:41` passes no client, so the
  window is that of one process.


## 7. Plan

Order of work, the most important behaviour first.  Done:

1. `GapFreeFeed`, `BlockMonitor` and proofs.
2. `AlertLedger`, `AlertEngine` and proofs.
3. `RuleBook` and proofs.
4. `FingerprintLog`, `AlertLogger`, `OnChainLogger` and proofs.
5. `PriceService`, `WhaleWatch` and proofs.
6. `RateLimiter`, `IntentEngine`, `FrontDoor` and proofs.
7. `AlertPipeline` and proofs.
8. The safety halves of the liveness properties, and where the violated statements do hold.
9. The gas of a transaction in `OnChainLogger`, with its theorems.

To come:

10. `FrontDoor` and `RuleBook` composed on one store, to follow a user's request to the
   row it ends in.
11. `run_all` as one process: bot, API and monitor in one event loop, and the order of its
   shutdown.
