# Verification of the copy-trading bot

TLA+ modules, model-checking runs and machine-checked proofs for the parts of this
repository that may not go wrong with money at stake: the durable execution ledger, the live
submission path that writes to it, the recovery commands that settle what a crash or a lost
answer has left behind, and the bot around them, from the log of a watched wallet to the exit
of a position.

Paths are relative to the repository root; `service/...`, `bot/...` are below `src/src/`.

## 1. The system

The program copies the trades of one wallet on Polymarket. In live mode it submits
fill-or-kill (FOK) orders on two paths, the entry path (copying a buy) and the exit path
(take profit, stop loss), and it must never lose track of an order: every submission is
journaled in an append-only ledger before the POST leaves, and a bot whose ledger shows an
unresolved submission does not start until an operator has settled it with the recovery
commands.

| Component | State | Operations | Talks to |
|---|---|---|---|
| Ledger reducer `execution_ledger/projection.rs`, `model.rs` | `LedgerProjection`: sequence, head hash, intent in flight (`active`), pending marker cleanup, positions, identity indexes | 20 event payloads, each accepted or refused by `stage_payload` | the storage feeds it, on append and on replay |
| Ledger storage `storage.rs`, `snapshot.rs` | ledger file, snapshot file, two lock files, `fatal` flag | `open_with_ops`, `append`, replay, `persist_snapshot`, `verify_snapshot`, `run_durability_probe`, drop | file system; one process at a time |
| Circuit breaker `execution_circuit_breaker.rs` | `halted`, `submit_lock`, halt marker file | `new_live`, `check`, `submit_fok`, `before_post`, `halt_uncertain` | ledger, gateway; called by executor and monitor |
| Order gateway `clob_sdk_orders.rs` | SDK client | `prepare_fok`, `submit_fok`, classification of answers | vendored SDK, exchange |
| Order executor `order_executor.rs`, `strategy.rs`, `eligibility.rs` | the live runtime; counters | `execute`: filters, sizing, caps, guard, order, booking | market cache, risk guard, breaker, position store |
| Position store `position_store.rs` | a view of the ledger (live) or a map (paper) | `apply_open`, `apply_close`, prechecks, `snapshot` | ledger |
| Position monitor `position_monitor.rs`, `midprice.rs` | its own task, a snapshot of the positions per tick | `monitor_once`, `apply_filled_close` | midprice, breaker, position store |
| Risk guard `risk_guard.rs` | a window of large trades per token, a trip | `check_fast`, `check_with_book`, `trip` | executor |
| Market cache `market_cache.rs` | entries with a time to live, a token index, two locks | `get_by_slug`, `get_by_token_id`, `insert` | Gamma; executor |
| Subscription `onchain.rs` | websocket, backoff, a bounded channel | connect, subscribe, read, hand over, reconnect | node; bot |
| Copy-trading bot `bot/copy_trading.rs`, `ui/mod.rs`, `main.rs` | the run, its monitor task, the signal | start, `select!` loop, supervision, shutdown, relaunch from the menu | all of the above |
| Recovery service and CLI `recovery_service.rs`, `recovery_cli.rs` | none of its own: ledger and marker | inspect, reconcile, prepare-cancel, cancel, apply, acknowledge, challenges | ledger, recovery gateway, marker |
| Recovery gateway `clob_sdk_recovery.rs` | SDK client | `reconcile_exact`, `cancel_exact` | exchange |
| Authentication `clob_auth.rs`, `config.rs`, `main.rs` | the credentials file | create and derive API keys, atomic replacement | exchange, live start |

How they interact. `submit_fok` takes an async mutex, checks the halt flag, lets the gateway
prepare and sign the order, appends `IntentPrepared` and `SubmitStarted`, POSTs with a
timeout, and then appends either match, position event and commit, or rejection and no-fill
commit, or an uncertainty, after which the breaker halts (flag and marker file) and the
caller's error ends the bot. Entry and exit path share the breaker and the ledger; the main
loop is told of a fatal monitor only between two of its own submissions. Bot and recovery
commands exclude each other by file locks.

Behaviours that are hard to test: a crash between any two appends or inside one; a failed
file call after which the file is ahead of memory; an answer that is lost or late; two tasks
that passed their checks before one of them halted; state read before an await and used
after it; a recovery that is interrupted and repeated, or races a fill; a monitor that
outlives the run that spawned it; thresholds computed twice around a payment. `PROJECT.json`
lists each one as a hazard at its line, with the properties that cover it.

## 2. The modules

Three modules are abstract specifications, which detailed ones are shown to implement.

| Module | Stands for |
|---|---|
| `SingleFlight` (abstract) | the reducer's promise: intents are settled one at a time, each with at most one effect on the book |
| `LedgerProjection`, `LedgerSafety` | the reducer, one operator `Stage...` and one action per payload; its invariants, step properties and refinement |
| `DurableLog` (abstract) | the files' promise: an append-only log with at most one event in doubt |
| `LedgerStorage`, `LedgerDurability` | the steps of `open_with_ops` and `append`, failed calls, stops, power loss, several processes; the properties and the refinement |
| `LedgerReplay` | what an open reads: lines, decoding, hash chain, snapshot, after the files were cut, edited, restored or removed |
| `LedgerFiles` | names, links and locks: which file an open gets hold of while names change under it |
| `OrderAccount` (abstract) | the promise of live trading: orders sent one at a time and once each, settled with their fate in the book |
| `LedgerAccess` | what bot and recovery share: ledger, store, marker, exchange |
| `LiveExecution`, `LiveSafety` | the two callers, the breaker, the journal, crashes and restarts; the properties and the refinement |
| `OrderSubmission` | one submission at the resolution of the gateway's result codes: why the three answers of `LiveExecution` can be trusted |
| `RecoveryService` | the recovery commands as processes that can be killed between any two steps |
| `RecoveryEvidence` | how the gateway finds out what became of an order, request by request |
| `TradingSystem` | bot and recovery on one ledger, marker and exchange; the refinement of `OrderAccount` once more |
| `RiskGuard`, `MarketCache` | the window and the trip; entries, index, locks and slow fetches |
| `OrderAmounts`, `CopyDecision` | sizes, limits, ticks; the decision path from a log to an order or a paper position |
| `ExitMonitor` | thresholds, midpoints and the monitor's tick |
| `BotLifecycle`, `LogSubscription`, `CopyBot` | starting, watching and stopping bots; the subscription; both joined by the channel |
| `ApiCredentials` | the auth commands, the credentials file and the live start that reads it |
| `Optional` | the constant `None`, for what is absent |
| `MC...` | instances for TLC |
| `...Proofs` | the proofs (section 4) |

Definitions named `Faulty...` are mistakes the definition after them could have made. They
are used by nothing; each shows that a property fails when the mistake is made.

### State and actions against the code

*Reducer.* A projection is a record with the fields of `LedgerProjection`. `Stage...(p, ...)`
returns the set of projections an event can lead to: a singleton where the code returns Ok,
empty where it returns an error. `Applied` adds the sequence check and the publication. Fields
with a single legal value (venue, protocol version, order type) are dropped, `neg_risk` is an
attribute of the token, and reason codes are dropped because no transition reads them. An
event's identifier is its sequence number: `append` draws a new UUID each time, so the two
identify the same events.

*Storage.* `phase[p]` is the program counter of process p inside `open_with_ops` and
`append`. An event carries its identity and its effect on the intent in flight and the
cleanup owner, which is all that snapshot and verification read; a snapshot (sequence, head
hash, active intent) is represented by the log it describes, which the hash chain justifies.
Each file call may fail where it stands; `Stop` is the end of a process at any point;
`PowerLoss` keeps any prefix of the lines that were not synced, possibly with a part of the
next line, and either the old or the new snapshot if the directory was not synced. It may
also drop a torn tail that had reached the platter, which only adds behaviours. On Windows the
code accepts that a directory cannot be synced; the model takes the sync at its word.

*Replay and names.* `LedgerReplay` has a line as fields and the shape of its JSON; `Verdict`
is the first error the decoder or the chain finds, `VerifySnapshot` the comparison with the
snapshot, `StartupCode` what the user is told. A hash is the sequence it commits to, and
`Damaged` is what can become of the lines behind the program's back. The hash has no key, so
a line may also be changed together with its hash (`Rehashed`) and a snapshot made to fit it;
`forged` remembers that it was. What the writer puts into a payload (`Payload`) and what the
reader asks of it (`PayloadTypes`) are two tables, as they are two pieces of code.
`LedgerFiles` is the unix build: directory lock, checks of the entries, opened lock file,
its lock, opened ledger, and the comparison of what was opened with what the name leads to,
with `RemoveLock`, `RemoveLedger`, `LinkLedger` and `LinkLock` between any two of them.

*Live execution.* `at[c]` is where a caller is in `execute` or `monitor_once` and
`submit_fok`; `plan` and `job` are the locals it carries over the awaits. `proj` is the
projection in memory, `disk` what a replay of the ledger file would give. Appends are atomic
here, with the outcomes `LedgerStorage` produces: Ok; refused without a trace; or failed, with
the event on disk or not and the files consistent or not (`opens`), after which the ledger is
`fatal`. A crash inside an append is a failed append followed by a crash. Which trades are
copied and when an exit triggers is left open; `CopyDecision` and `ExitMonitor` have it. The
exchange is external: it fills or kills a posted order at any time, also after the timeout or
while the bot is down.

*Submission.* `OrderSubmission` follows one order through the lookup of its market, build,
signature, journal, POST, answer and `halt_uncertain`, with every HTTP status and response
body the gateway tells apart; `answer` is what the gateway returned, `result` what the
breaker made of it, `journal` the last event of the intent.

*Recovery.* `command` is the process that runs, `step` its place, `found` the evidence,
`note` the challenge the operator holds, of whatever age. A command opens the ledger, so it
excludes the bot; it may die between any two steps (`EndCommand`). `Reports` is the evidence
the gateway may give of an order's fate; `RecoveryEvidence` derives it from the order and
its trades, which are read by separate requests while the exchange goes on.

*Decision path.* `Receive` to `Plan` are the steps of `execute` around its one await, the
metadata lookup; `Fill`, `NotSubmitted`, `EntryInDoubt`, `RecordPaper` and `FailPaper` its
ends; `Leave`, `LeaveInDoubt`, `Resolve` and `Restart` are the environment the other modules
describe. Money is in hundredths of a micro-dollar while it is planned.

*Monitor.* `at` is where the monitor's task is ("Asking" while it waits for a midpoint),
`queue` what is left of the snapshot of a tick, `first` which of several names that differ in
case a `HashMap` finds first.

*Lifecycle.* `loop` is where the run's start or loop is, `monitor[r]` the task of run r. Both
have a place for each kind of wait: "Handling" (the request to Gamma) and "Preparing" (the
lookups before the journal, under the submission lock) may last for ever, "Queued" waits for
the lock, "Submitting" is the journaled submission, whose POST has a timeout. A monitor is a task
which only a failure of its own or the end of the process ends: dropping its handle does not
abort it. `Holders` are the runs that keep the ledger open. `LogSubscription` has the task's
states, the frames on the wire, the channel and `held`, the log that waits for room.

*Guard, cache, credentials.* Instants are ages that stop where no comparison tells them
apart. The cache has one step per lock taken. `ApiCredentials` has one step per read, check,
request and replacement of the auth commands; `durable` is what of the file survives a power
loss. The file may hold anything at first and be edited at any time, also while a command
waits for its answer; `writer` and `misled` remember who wrote what stands there, and which
commands another account was put in front of after their check.

## 3. The runs

| Run | Question | Bounds and why they are enough | Distinct states |
|---|---|---|---|
| `reducer` | is every reachable projection consistent, is a booking remembered until its intent is settled, does any step revive an intent or lose a fate, does the reducer implement `SingleFlight`? | 3 intents and order hashes: an entry, its exit and a re-entry, or two entries and an exit, which is the most that one event can relate; 2 tokens; amounts 0, 1, 2 so that amounts can be zero or disagree; 14 events: two submissions in full, and a third up to the event that would clear it | 48 126 |
| `storage` | what survives failures, stops and power loss; do the files implement `DurableLog`? | 2 processes; 5 appends that reach the file: prepare, acknowledge, cleanup, the next prepare and one more, so every kind of event follows every other it may follow, each in doubt once | 8 653 |
| `live` | do book and exchange agree whatever happens on the way, and does every journaled submission end? | 3 orders on 2 tokens: both callers can compete while a position is open, and a position can be closed and reopened; 12 events: two submissions in full, a third that competes, and the sequence number running out | 327 635 |
| `system` | are orders one at a time across halts that are settled by hand? | 2 orders on one token: an entry that halts, its recovery with interrupted commands, and the next entry or the exit; 16 events, so that the first can be reconciled repeatedly and the second still settles | 987 833 |
| `system_settles` | is there a way out of every state an intent can be left in? | 1 order, 12 events: room for several interrupted commands | 114 850 |
| `evidence` | is what the recovery lookup reports true, and is what can be known found? | an order of four units in up to two trades, at prices that do and do not give whole micro-dollars | 18 185 |
| `decide` | are caps and the one-position rule kept over the awaits, exits and restarts? | 10 logs on three tokens of two markets, names in several spellings, four configurations (three strategies, and one capped by its largest order) | 27 912 |
| `risk` | does the guard let a burst through, does it honour its cooldown? | 2 tokens, window 3, threshold 3, trip 2: several trades at one instant, at both ends of a window, and during a trip | 16 871 |
| `cache` | how old can an answer be? | 1 caller, as in the program; 2 markets, one with two tokens; time to live 3, latency 2 | 19 097 |
| `exits` | are exits asked for what is open, are fills always booked, does an exit that is refused every time starve the others? | 2 tokens, one in a category of two spellings, four configurations, midpoints on both sides of all thresholds, none, and one out of the band | 11 925 |
| `copybot` | who submits, what stops and what can keep it from stopping, what the subscription loses | 2 runs: one and the monitor of an earlier one; a channel of 1, a wire of 1, 3 logs: one taken, one queued, one held | 346 338 |
| `replay` | what opens after the files were changed from outside? | 3 events and 2 changes: any two lines, or a line and the snapshot, the hash kept or computed again | 530 961 |

`reducer`, `live`, `system`, `system_settles` and `evidence` switch deadlock checking off,
because the system may really stop: sequence numbers are bounded, a halted bot stays down
until an operator acts, and a decided order changes no more. Symmetry (of intents, orders and
tokens) is used in `reducer` and `system` only, which check no liveness.

Three modules are checked by hand, since their properties are proved for all instances:
`tlc -config MCOrderSubmission.cfg OrderSubmission.tla` (3 297 states),
`tlc -config MCApiCredentials.cfg ApiCredentials.tla` (420 590) and
`tlc -config MCLedgerFiles.cfg MCLedgerFiles.tla` (19 775). So are the type invariants
(`TypeOK`, or the module's word with `TypeOK` behind it) and the proved invariants that no run
lists (`IdentityInv`, `OneOpenPerTokenInv`, `QuietLedgerReopens`,
`OneHolder`, `WithinBudget`): add the name to the `INVARIANTS` of the module's configuration.

What the runs show beyond single steps:

* `OutcomeRespectedInv`, `FillStaysBookableInv`, `OneEffectPerIntentInv`,
  `EffectRememberedInv`: no order of
  submission, reconciliation, cancel and recovery events books a fill twice, contradicts what
  the submission was told, or prepares an order whose fill could not be recorded.
* `OneInDoubt`, `RestartIsExact`: the ledger never appends behind an event whose fate is open,
  and a restart returns the log that was relied upon plus at most that event.
* `RestartFindsFates`: a bot that starts has every order it ever posted decided, with exactly
  the fills in its book, although the halt marker may have been lost; the unresolved intent is
  what keeps it down.
* `NoPostAfterHalt`: it is the submission lock that makes the halt final. With the check
  outside the lock, a caller that has journaled its order still posts it after the other one
  has halted.
* `HoldsAtMostOne` is about the exchange, not the book: one unknown answer read as a rejection
  is enough for the wallet to hold a token twice.
* `ConfirmedAsShown`, `MarkerOutlivesIntent`: what a challenge confirms is what it was printed
  for, and the marker goes only between acknowledgement and completed cleanup.
* `EvidenceIsTrue`: because only confirmed trades count and both sums must be the signed
  amounts, an answer put together from several requests cannot be a mixture that never was.
* `StopsWhenAsked`, `ReaderGoesOn`, `LogsAreKept`: the biased `select!` notices the signal and
  the failed monitor under any stream of logs, and the reader gets rid of its log; the only
  thing that can keep either of them for good is one request that is never answered
  (`AwaitsPeer`), and the code does have such requests (section 6). Nothing the reader took
  from a whole connection is lost or reordered.
* `DuePositionsGetTheirTurn`: an exit that is refused on every tick, and a midpoint that is not
  found, keep no other position from being looked at; nothing is claimed of its exit being filled.
* `CapsHold`: what is open or may become open stays within its cap. It holds because a run
  plans one entry at a time and an order in doubt ends the bot before the next one is planned.
* `OpensAsWritten`: while the snapshot is as the program left it, what opens is exactly what
  was written, even if the hashes of changed lines were computed again. If the snapshot was
  changed too, it is a prefix of what was written, unless hashes were computed again: that
  last case is real, since neither file carries a key.

### Fairness

* `FairLiveSpec`: weak fairness of the steps between the journal and the end of a submission.
  They are local file calls, or the POST, which `tokio::time::timeout` bounds. None for the
  exchange, and none for the lookups before the journal: the metadata requests of
  `prepare_fok` are awaited under the submission lock without a timeout. So nothing is
  claimed about a submission that has not been journaled.
* `FairSystemSpec`: besides, the exchange decides every order, commands run, the operator
  keeps following what they print, and from some point on commands go well (they are not
  killed and their lookups answer). A way out that needs no luck does not exist in a system
  whose commands can always be killed.
* `EvidenceFairSpec`: the operator repeats the lookup, the exchange decides, and
  answers in the end with the complete list of trades.
* `MonitorFairSpec`: the ticker ticks and the loop goes on (weak fairness of `Tick`, `EndTick`
  and `Ask`); the submission lock is tokio's `Mutex`, a FIFO queue, which gives strong
  fairness to the monitor that waits for it (`EnterExit`). Nothing is assumed of lookups, of
  the answers to an exit, or of the entries that hold the lock.
* `FairCopySpec`: a start builds its filter, a stop that is noticed is carried out, a journaled
  submission ends (its POST has a timeout, the rest are file calls), the lock is a queue, and
  the task of the subscription runs. Nothing is assumed of the requests without a timeout: the
  Gamma lookup of `execute` and the preflight lookups of `prepare_fok`. Nobody has to press a
  key, and no log has to come.

## 4. What is proved

Eight modules hold proofs, each for any values of the constants under the named assumptions.
Every property of a run that is not a liveness property is also a theorem: the run shows it
on its instance, the theorem for every value of the constants.

| Module | Theorems | Invariant and argument |
|---|---|---|
| `LedgerProjectionProofs` | the reducer's type, identities, one position per token, one effect per intent, outcome and memory of an intent, bookable fills, append-only book, final settlement; it implements `SingleFlight` | `TypeOK /\ Safe(proj)`. No part of `Safe` is inductive alone: one open position per token needs that a prepared fill stays bookable; that needs that an intent without a position event has had no effect; that needs that every effect carries a registered identity. Each event has one of six shapes (an intent begins, its record advances, it opens or closes a position, it is cleared, the cleanup is completed); each shape keeps each part |
| `LedgerStorageProofs` | what was committed is durable, at most one event is in doubt, quiet ledgers reopen, restarts are exact; the files implement `DurableLog`; what was written opens, and what opens was written | *Storage:* the ledger is the committed log, alone or followed by the doubt; a snapshot describes the committed log or a synced ledger; one process at a time is inside, and what it has done so far holds. The point of the argument: an event never leaves the snapshot unchanged, so a snapshot that matches the ledger proves its last line synced, and a restart may take it over. *Replay* (`ReplayInv`): unless one was computed again, every hash in the file, wherever it was moved, is a prefix of what was written; in a valid chain the hash of a line is the sequence of the contents up to it (`HashIsContents`), so the file is that prefix. A snapshot that was left alone names the last hash that was written, so a chain that ends there has exactly those contents, whatever was computed again |
| `TradingSystemProofs` | live trading alone (`LiveSpec`): posts are journaled before they leave, the book is what the exchange did, a wallet holds at most one position of a token, nothing is posted after a halt, it implements `OrderAccount`. With recovery (`SystemSpec`): settled orders agree with the exchange, the marker outlives its intent, what is confirmed is what was shown, a restart finds every fate, the whole implements `OrderAccount` | `BotInv` and `SystemInv`, below |
| `BotLifecycleProofs` | one run has the ledger, one order is under way, nothing begins in doubt; `CopyBot` implements `BotLifecycle`; logs are kept | only the run that has the ledger submits; one run has it; from the check of its start until its breaker halts, the ledger is as its own submissions have left it, since no recovery command can have it meanwhile. *Logs* (`StreamInv`): a log goes through the wire, the task's hand and the channel to the bot; whatever is further on was sent earlier, and every log that was sent is in one of these places or was on a connection that ended |
| `DecisionProofs` | alignment never crosses the limit; orders stay within the budget; nothing held is bought; caps hold; no burst passes the risk guard; cooldowns are honoured; a closed market is not taken for open for ever | *Decision:* the token of the trade, the plan and the order in doubt is not open, for only `execute` opens positions and it is sequential; a plan is the one the sizing makes. *Caps* (`CapInv`): from its plan on a trade fits into the book, which nobody else adds to; what is open and what is in doubt fit together. *Guard* (`GuardInv`): what was let through lies behind the end of the bucket, whose young entries are fewer than the threshold whenever another one is let through; a trip has as long to last as it has not lasted yet. *Cache* (`CacheInv`): whatever overwrites an entry, its data is at most a latency older than it claims |
| `OrderProofs` | answers are true, posts are journaled under their name, callers leave nothing open, every result code has its event; exits are for open positions; paid fills are booked; reported fates are true | *Submission:* what is known of the order, in the journal and in truth, at each stage. *Monitor:* the queue is a part of the book without repetition, for only the monitor closes positions; an entry under way carries the thresholds of its process, whose configuration does not change. *Evidence* (`EvidenceInv`): what was added up belongs to confirmed trades that are not asked for again; if both sums are the signed ones, the trades are all there are, since another one would exceed the order, and each is at the limit, since none is worse (`ExactIsAll`) |
| `FilesProofs` | one writer; nobody writes to another directory's ledger; the API key a command leaves in the file is that of the account in the file | *Names:* the directory lock is held from its taking on, and a linked ledger still has its name at home; assumes `NamesDiffer`: a file is not the absence of one. *Credentials:* a file a command has left has the key of the account beside it, unless that account was changed between the command's check and its second reading of the file; no assumption on what stands in the file before and on who edits it when. The argument: a command nobody has misled is about the account in the file until it reads it again, and then has a copy whose key fits; what such a copy has replaced fits too, in the file and in what of it is durable |
| `SetSums` | lemmas on sums over finite sets | that a sum exists and does not depend on an order, and what an element, a factor or a smaller weight does to it |

The live system. `BotInv` has a part for each place that can disagree with another:
`LedgerInv`, the reducer's `Safe` and, for every order, that what the ledger file says of it is
what the exchange did or may still do; `MemoryInv`, that the process that has the ledger has
the file's content in memory until an append fails; `BreakerInv`, that a failed append halts,
that nobody is inside a halted breaker, and that a caller who leaves it without a halt leaves
nothing unresolved; `CallerInv(c)`, what the ledger and the exchange say of the order of a
caller at each of its steps. None is inductive alone: that a booked fill is true needs that
only the caller that holds the lock appends; that needs that a halt keeps the other one out;
that needs that an unresolved intent means a halt or a holder of the lock. `SystemInv` adds
`CommandInv`, the same for a recovery command at each of its steps, and `NoteInv`: a challenge
that is as old as the ledger shows the intent as it is. The bot's and the commands' steps each
keep the other's part because the ledger has one owner.

Assumptions. Natural numbers are natural and `None` is no element of a data set.
`ConfigsAssumption`, `AmountsAssumption`: the configuration has the types `config.rs` gives it.
`CapsAssumption`: no cap is negative (`config.rs` does not refuse one; under it nothing could
be bought, and even nothing would exceed it). `EvidenceAssumption`: no trade is at a worse price than the
limit of its order, and what was signed is a whole number of micro-dollars. `SubscriptionAssumption`,
`RiskAssumption` and `CacheAssumption` make capacities, windows and times natural numbers, most
of them not 0. `TradingSystem`
takes the answers of the gateway to be true, which `OrderSubmission` and `RecoveryEvidence`
prove of the gateway, not of the exchange.

Sums and recursion. The provers cannot instantiate the library's induction theorems, whose
parameter is an operator. `CapsHold` and `EvidenceIsTrue` are about sums over sets, a chain of
hashes about a sequence of any length: `SetSums` and `HashIsContents` argue by the least
counterexample instead, which stays first-order.

Only model-checked: the liveness properties (`SubmissionEnds`, `EveryIntentSettles`,
`DecidedFatesAreFound`, `StopsWhenAsked`, `ReaderGoesOn`, `DuePositionsGetTheirTurn`),
which need fairness and `ENABLED`.

## 5. Where code and words differ

Met while modelling; the models follow the code.

* `risk_guard.rs:9` says that both checks honour the cooldown; `check_with_book`
  (`risk_guard.rs:98`) does not look at it. No caller uses it: the executor goes on without
  the book when the fast check asks for one (`order_executor.rs:408`), where `README.md:309`
  promises the depth of every order to be validated.
* The smallest order is compared before rounding and alignment, which may take an order below
  it (`order_executor.rs:429`, `README.md:311`).
* In paper mode an amount that is no whole number of micro-dollars is an error and the plan is
  not recorded (`order_executor.rs:533`, `copy_trading.rs:25`).
* A subscription whose consumer is dropped is said to exit cleanly (`onchain.rs:111`); its
  task takes that for an ended connection and connects again.
* A halt is to terminate the process (order migration design, line 310); from the menu it ends
  the run, and the menu stays (`ui/mod.rs:90`).
* After a start that failed once its monitor was spawned (`copy_trading.rs:218`), the next
  start from the menu meets the lock of its own process and tells the user to look for another
  one (`order_executor.rs:109`).
* The account is compared with the file before the network call, not when the credentials are
  written (`main.rs:136`, `config.rs:329`).
* `README.md:300` describes semaphore-based rate limiting; there is none in the code.

## 6. Limits

Of the program, as the models show it:

* An order the exchange never registered answers 404 for ever, a fill at a better price than
  the limit and a part that is no whole number of micro-dollars never add up: their intents
  stay uncertain by design. A marker without an owner can be cleared by no command.
* A ledger whose snapshot disagrees with its head (a crash between the ledger's sync and the
  snapshot's rename leaves one) is refused, not repaired.
* In a market with a tick of 0.1 an exit at more than 0.9 is aligned to 1, which is no price,
  and refused on every tick of the monitor until the midpoint falls (a buy at less than 0.1
  likewise).
* Ledger and snapshot restored together from an older copy cannot be told from the original,
  and neither can a changed ledger whose hashes were computed again with a snapshot to match.
* The HTTP clients of Gamma and of the lookups before the journal have no timeout. A peer that
  accepts a request and never answers keeps the loop, and through the submission lock the
  monitor too, and through the full channel the reader, for good: the signal is not noticed,
  and the process must be killed. The order that was being prepared has not been posted by
  then.
* For the same reason the age of a cache entry is bounded only by how long Gamma may take to
  answer (`MaxLatency` of `MarketCache`), which no constant of the code limits.
* With two callers the cache could deadlock (`peek` waits for the entries with the index
  locked, `insert` the other way round); the program has one.
* A log that the node sends twice, or marks as removed, is treated as a new one.
* A live start with environment overrides may sign for one account with the API credentials
  of another.

Of the models:

* Binary floating point is taken to be exact at the sizes that occur.
* `OrderSubmission` assumes that the exchange answers with one of the listed 4xx codes or
  `success = false` only for orders that are not filled.
* The in-process mutex of the recovery service is left out: one process runs one command.
* Hash collisions are excluded, and so is moving a ledger that is in use, which `README.md:88`
  forbids. The authentication nonce is left out.

## 7. Not modelled

* The other strategies under `bot/`: stubs that start nothing.
* The vendored SDK: third-party code. What the program expects of it is in the external steps
  of `OrderSubmission`, `LiveExecution` and `RecoveryEvidence`.
* Parsing and defaults of the public configuration, argument parsing, drawing of the UI,
  logging and wording: they change no state the properties are about.
* Windows path and reparse-point checks: they refuse files and change no state.
