# A TLA+ model of the Hyperliquid copy-trade engine

This project models the parts of the repository that move money and keep
promises about it: how the votes of sources become a portfolio and its orders,
how an order becomes an intent that the observer hands to the signer, how the
signer submits it exactly once, how the account's events come back into the
books, and how the runtime around this (reads, clocks, files, evidence) keeps
running. The modules are checked with TLC on small instances. The safety properties
of the path of an order and of its events - the handoff, the signer, the delivery,
the life of an order, the books - and those of nearly every part around it are
proved with TLAPS for every value of the constants.

## 1. The system

The workspace has three crates and a legacy program. Two processes run in
production, each restarted by systemd when it fails:

```
  exchange  <--- public reads ---  observer  --- intents (Unix socket) --->  signer  ---> exchange
  (account, orders)                   ^                                        |            (orders)
                                      +------- reconciliation events ----------+
```

* The **observer** (`copytrade-observer`) polls the exchange through a
  scheduler and a rate limit, computes targets, and turns them into intents. It
  journals each intent before handing it over, and keeps a trading state made of
  the events the signer reports.
* The **signer** (`copytrade-signer`) holds the key. It has one request loop:
  a request is handled to its end before the next is read. It authorises,
  signs and submits an intent, reconciles its registry and its ledger with the
  exchange, and reports what happened through an outbox.
* The **core** (`copytrade-core`) is the library of both.

### Components, their state and their operations

| component | state | operations | what is hard | what makes it correct |
|---|---|---|---|---|
| submission registry (`signer/lib.rs`) | CLOID -> intent and state, blocked assets, confirmations, history; a file | register, transition_at, confirm_not_found, persist, restore, next_nonce_floor | the file is read back by a stricter check than the one that wrote it | a state is only left by an allowed transition; the file always restores; an unknown result blocks its asset |
| production signer (`production.rs`, `transport.rs`, `main.rs`) | registry, nonce, startup_reconciled | authorize, submit_authorized, reconcile_startup, reconcile_unknown, the request loop | crash between any two steps, lost and late requests, failed writes | an order is sent at most once, nonces increase, the recorded outcome is the true one |
| intent handoff (`ipc_client.rs`, `ipc.rs`, `authorized_intent.rs`) | durable queue of intents, connection, two locks | persist_intent, dispatch_persisted, handoff, reconcile_into | two tasks with two locks; late answers; crashes of either process | every intent is answered, what is marked accepted the signer has, the journal restores |
| reconciliation events (`reconciliation.rs`, `outbox.rs`, `production_state.rs`, `live_trading.rs`) | signer's ledger, outbox, observer's state with its reorder buffer, cursors; four files | read fills and funding, apply, compare, append, replay, buffer, acknowledge | order of fills and funding, crash between four files, redelivery, reordering, conflict | every event reaches the observer once and in order; ledgers agree; the order of arrival is invisible |
| read budget (`scheduler.rs`) | four pools of tokens and counters of the window | refill, try_charge | two measures, shared pools | the reserve, the pool's own part and the burst |
| request scheduler (`scheduler.rs`) | queue, successors, reads in flight, last dispatch | schedule, begin_next, finish, drop, retry | stale results, eviction, retries | one read per key, bounded queue, no step back, critical reads kept |
| source exposure, consensus (`consensus.rs`, `scheduler.rs`) | last state per source, snapshot store | accept, ingest, bounded sum | out-of-order answers, two stores of one fact | what votes is the exposure of the snapshot that is fresh |
| candidate confidence (`confidence.rs`) | rung, state, episode counts | review, re-entry, block | long sequences of reviews | one rung for 25 episodes; blocked is for ever |
| cohort (`cohort.rs`, `cohort_layer.rs`) | frames, kept target, versions | aggregate, filter, hysteresis, expire | the target is kept while its inputs move | what votes is current; a version names one target |
| technical (`technical.rs`) | candles per interval, score, recorded decisions | accept, expire, regimes, evaluate, record | revisions, gaps, hysteresis twice | what is recorded stays true of the target |
| risk, allocation, exits, floors, shadow execution (`portfolio_risk.rs`, `allocation.rs`, `exit_planning.rs`, `execution_floor.rs`, `shadow.rs`, `decision.rs`) | none (functions of a snapshot) | admit, stage, scale, round, plan, walk the book | rounding at a boundary; fills in any order and in part | no order of a decision takes the portfolio out of its caps |
| live shadow engine (`live_shadow.rs`) | pending action, intent, continuation, ledgers, the gate's averages; a snapshot | ingest, decide, execute, record, persist, restore | the decision and the execution are two steps; restart between them | a continuation finishes what it names; books agree; risk is earned |
| dual ledger (`ledger.rs`) | episodes per asset and component | fills, divide, close | two books of one position | the two books agree |
| order lifecycle (`lifecycle.rs`) | CLOID -> lifecycle state, blocked assets | apply event, plan retry, compact | late discovery after "not found", answers that overtake | no retry of an order that exists |
| state root (`state_root.rs`) | lock, marker, snapshot | initialize, persist, restore | power loss between any two file operations | a restart never goes back a generation |
| qualification (`qualification.rs`) | tiers, deadlines, boundaries, reads in flight | the loop, rebalance, drain, gate, finalize | late turns, shut-down | polls keep coming; the buckets tile the window |
| evidence, replay, aggregate (`qualification_evidence.rs`, `replay.rs`, `profitability.rs`, `railway_aggregate.rs`) | journal, head, bundles, records, summary | append, checkpoint, seal, replay, aggregate | torn lines, stops between two files, cumulative episodes | a run replays; a summary counts an episode once |
| transport (`public_mainnet.rs`) | requested candles, fetch state | source reads with their candles | several reads, of which one fails | what is marked as read arrives |
| legacy bot (`src/src`) | signal ledger and its file, the plan of a tick | poll, plan, send, reconcile | fills read again; a torn file | a trader is charged only what happened; a plan's prefix keeps the cap |

`PROJECT.json` lists every component with its files, its status and the reason
when it is not or partly modelled, and every hazard of the code at its line.

## 2. Modules

| module | models | is composed with |
|---|---|---|
| `SubmissionRegistry` | the registry as a value: its operations are operators | `ProductionSigner` |
| `ProductionSigner` | the signer process, the network and the exchange's orders | `ProductionSignerProofs` |
| `IntentDispatch` | the observer's queue, its two tasks, the stream, the signer as its partner | `IntentDispatchProofs` |
| `LiveLedger` | the ledger as a value: fills and funding in order | `EventDelivery` |
| `OrderedDelivery` | abstract: a log and a receiver that has a prefix of it | refined by `EventDelivery` |
| `EventDelivery` | exchange account, signer's ledger and outbox, observer's state | `EventDeliveryProofs` |
| `ReorderedEvents` | the observer's state and its buffer under any order of arrival | `RuntimePartsProofs`, runtime run |
| `WeightedTokenBucket` | the rate limit as a value | `ReadBudget`, `RequestScheduler` |
| `ReadBudget` | a bucket under every sequence of reads | `ReadProofs`, runtime run |
| `RequestScheduler` | the queue of reads on top of a bucket | `ReadProofs`, runtime run |
| `SourceCadence` | dispatch plan, tiers and deadlines of the source polls | runtime run |
| `CandleReads` | the candles that come with source reads | `RuntimePartsProofs`, runtime run |
| `StateRoot` | the observer's directory, file operation by file operation | `RuntimePartsProofs`, runtime run |
| `MeasurementRun` | boundaries, draining, gates and finalization of a run | `RuntimePartsProofs`, runtime run |
| `ReplayJournal` | the journal of a run and its replay | `RuntimePartsProofs`, runtime run |
| `WindowAggregate` | bundles, records and the summary over windows | `RuntimePartsProofs`, runtime run |
| `CopyTradeBot` | the legacy bot's tick, ledger file and restart | `RuntimePartsProofs`, runtime run |
| `SourceSnapshots` | snapshot store and exposure book of the sources | `TradingPartsProofs`, trading run |
| `ConfidenceLadder` | a candidate's rung | `TradingPartsProofs`, trading run |
| `CohortVote` | the cohort's vote on an asset | `TradingPartsProofs`, trading run |
| `TechnicalSignals` | candles, regimes, score and recorded decisions of an asset | `TradingPartsProofs`, trading run |
| `SourceGate` | the cost gate and the two sleeves of an asset | `TradingPartsProofs`, trading run |
| `ExecutionPlanning` | floors, exits, limits and the walk through a book: functions | `PortfolioPlanning` |
| `PortfolioPlanning` | admission, caps, rounding, the decision: functions | `Rebalancing`, `TradingEngine` |
| `Rebalancing` | one portfolio under decisions, fills and price moves | `TradingPartsProofs`, trading run |
| `TradingEngine` | pending action, intent, continuation, snapshot of an asset | `TradingPartsProofs`, trading run |
| `DualLedger` | portfolio's and components' books, the division of fills | `AccountingProofs`, trading run |
| `OrderLifecycle` | unknown submissions, confirmations, retries | `AccountingProofs`, trading run |

`SetLemmas` holds what several modules of proofs need of sets: induction stated of
sets, folds as sums, what can be taken out of a finite set.

`MC...` modules give the constants their values. Operators named in a comment
"Fault:" are plausible bugs of the definition that follows; no specification
uses them, they are there to show that the properties would notice.

The engine is too large for one state space. `MCTradingParts` and
`MCRuntimeParts` extend the parts of the trading logic and of the runtime;
the parts share no variables, so `PartsSpec` chooses one (`part`) at the start
and lets it run while the others keep their single initial state. A run over
them is a run over each part's own specification (`RebalancingSpec`,
`GateSpec`, ...), and the constant `Parts` selects among them.
`MCProductionSigner` chooses one of its two instances in the same way (`scenario`).

### 2.1 Signer (`SubmissionRegistry`, `ProductionSigner`)

`reg` and `disk` are the registry in memory and in its file; a registry is a
record of an intent and a state per CLOID, the blocked assets, the count of
not-found confirmations with the time of the last, the last history record of
each CLOID and the largest nonce recorded (`floor`). `pc` is where the request
loop stands; each `.await` or write at which the process can die is a step:

`Authorize` (register or re-authorise, persist) -> `ReplyAccepted` ->
`AllocateNonce` -> `Sign` -> `MarkStarted` (each persists) -> `Send` ->
`Respond` -> `BeginReconcile` -> `ReadAccount` -> one `VisitNotStarted`,
`VisitStarted` or `VisitLookup` per entry -> `FinishReconcile`.

Every persist may fail; the process then does what the code does (goes on with
the entry in memory, or ends). `Crash` loses all but `disk`, `orders` and
`wire`. The exchange (`Execute`, `Lose`, `Progress`) acts on a request at any
time until `MaxDelay` after its sending, a bound that nothing is compared with: an
order may be executed after its absence was confirmed. The history variable `late`
names the orders on which the exchange acted no sooner than the confirmations take
together (`Span`). `Replay`, `SubmitReplay` and
`AnswerReconcile` are the repeated requests of the observer. An immediate-or-
cancel order may nevertheless be seen open by a lookup, as the code's table of
transitions expects.

Abstractions: quantities are steps of `Lot`; the checks of `authorize` on
market, price and margin are one condition that may fail; what the account reads
compute is in `EventDelivery`.

### 2.2 Handoff (`IntentDispatch`)

`queue` and `disk` are the durable queue in memory and in its file. `main` and
`worker` are the two tasks with the steps between their awaits; the locks are
not variables: `WorkerHoldsQueue`, `WorkerHoldsClient`, `MainHoldsClient` derive
who holds which from where the tasks stand. `toSigner` and `toObserver` are the
stream, which a time-out does **not** empty: the late answer stays. The signer
is reduced to what it does with an intent (`absent`, `authorized`, `set_aside`,
`submitted`) and its log of events.

### 2.3 Events (`LiveLedger`, `EventDelivery`, `OrderedDelivery`)

`exchange` is the account's history; `signer` steps through `reconcile_startup`
(read fills and funding, read positions, apply, compare) and `sync_outbox`;
`ledgerFile`, `outboxFile` and `stateFile` are the files, each written at its
own step. The observer asks for what follows its last applied event, applies
and saves event by event, and acknowledges. A crash of either keeps the files
only. `Missing` is what `sync_outbox` finds lacking in the outbox; it is a recursive
function, as are the positions and the batches of `LiveLedger`, so that the module
can be proved about.

`DeliversInOrder` is the refinement: with `log <- outboxFile` and
`delivered <- stateFile.applied` every behaviour is one of `OrderedDelivery`.

### 2.4 Reads (`WeightedTokenBucket`, `ReadBudget`, `RequestScheduler`, `SourceCadence`, `CandleReads`)

A bucket holds, for each of four pools, tokens (weight times milliseconds) and
the weight used in the accounting window. `ReadBudget` adds the history
variables that the properties measure with: `drawn` (what critical reads took
beyond what has been refilled), `marked` and `spent` (what was charged since an
arbitrary instant). `RequestScheduler` keeps `pending`, `successors` and
`dispatched` as the maps of `QueueState`; a choice that the code makes by a hash
or by fairness counters among equals is left open.

`SourceCadence` is what the loop asks of the scheduler: `StartCadence` derives
the dispatch plan (or refuses the configuration), `Iterate` is one iteration of
the loop at its own pace: rebalance of the tiers, new deadlines, polls due.
`CandleReads` follows a source read (`SendSourceRead` to `FinishSourceRead`)
with the candle batch that travels on it: which interval is marked requested
when, and what an expired answer drops.

### 2.5 Source votes (`SourceSnapshots`, `ConfidenceLadder`, `CohortVote`, `TechnicalSignals`, `SourceGate`)

`SourceSnapshots`: `Request`, `Answer` and `IngestSourceState` are the steps of
a source state through the channel into the snapshot store and the exposure
book, and the votes are an operator on both. `ConfidenceLadder` has the three
operations of `CandidateConfidence`. `CohortVote` has a step for each member
state, one for each evaluation (with its frame, comparison, filter, retained
target and version) and one for an evaluation that is rejected.
`TechnicalSignals` accepts closed candles and evaluates: the indicators are
readings, the regimes, triggers, exits and the two hystereses are the code's.
Each recompute clears the targets, and one without a mid price of the asset skips it
(`SkipUnquoted`): its target then counts as none (`targeted`), its score stays and
nothing is recorded.
`SourceGate` is the part of `construct_next_decision` that decides how much of
a source sleeve may grow; its averages, watermark and time offset are saved and
restored, and its price and fills come from outside.

### 2.6 From targets to orders (`ExecutionPlanning`, `PortfolioPlanning`, `Rebalancing`, `TradingEngine`, `DualLedger`, `OrderLifecycle`)

`ExecutionPlanning` and `PortfolioPlanning` have no state: they are the functions the
code calls in sequence (`ProjectOnto` is the projection with its staging of reductions,
rounding and validation; `ConstructDecision` the decision with its planned actions).
`Rebalancing` uses them on a portfolio of two assets: `Decide`, `Execute` (one pending
order against a book of any depth) and `Move` (the price). `TradingEngine` uses them on
one asset but keeps everything the engine keeps between the two steps: `DecisionTick`,
`BookArrives` (execute, then decide again), `FillReported` in production, `Persist` and
`Restart`. `DualLedger` decides component targets and applies fills of any size,
dividing each as `partition_component_fill` does. `Accounted` is the check of the closed
episodes against each other, which ends the books when it fails. `OrderLifecycle` has
the reads of an order in flight, so that two answers may overtake each other. The
exchange may show an order at any time after it was sent; the field `late` of an order
says that it did so no sooner than the confirmations take together (`ConfirmationSpan`).
What the registry no longer holds may be planned again under its CLOID, as `insert`
allows; the signer, which remembers what it sent, then sends nothing.

*Decimals.* A `Decimal` has at most 28 digits, and the dust that its division leaves is
what the tolerances of the code are for. `DualLedger` counts in units of the last digit:
a quantity up to `MaxMantissa` keeps it and a longer one is rounded to ten of them,
halves to the even one (`Quotient`, `AsDecimal`). Every quotient, every sum as it grows
(`FoldTotal`) and every new position is rounded in this way, so that shares, remainders
and positions lose digits where the code's do. A size step (`Lot`) is long enough to end
in zeros. `Proportional` has the code's `min(remaining)`, `Allocated` its last key that
is given what makes the total, `FlattenPartition` closes each component by exactly what
it has, and `Reconciled` compares within `DustTolerance`, for `size_step * 1e-12`. What
is simplified: there are two scales and not 28, the product of a total and a weight and
the notionals are not rounded, and the division of a target's notional by the price is
one with its division among the components. `sinceFlat` (history) counts the fills since
the portfolio was flat.

### 2.7 Files and evidence (`StateRoot`, `ReorderedEvents`, `MeasurementRun`, `ReplayJournal`, `WindowAggregate`)

`StateRoot` keeps the directory twice, as a process sees it (`cached`) and as
of the last sync (`durable`); `PowerLoss` leaves each name at either.
`ReorderedEvents` has the stream of a signer and delivers any event of it at any
time, again too. `MeasurementRun` steps through the loop of a run (`LoopTop`,
`Turn`, `Drain`, `EndRun`, `Finalize`) with a clock that advances anywhere.
`ReplayJournal` uses one operator for the engine in the run and in the replay.
`WindowAggregate` has `AggregateNew`, `AggregateAgain` and `WriteSummary` as
the two renames of the command, with a stop between them.

### 2.8 Legacy bot (`CopyTradeBot`)

A tick is `ReadAccount`, `ReconcileFills`, `PruneLedger`, `PlanTick`, then
`RecordOrder` and `SendOrder` for each order, `OrderAnswered` or
`OrderTimesOut`, and `EndTick`; `BotCrash` may strike anywhere, and in the
middle of the ledger's write leaves a file that the next start reads as empty.

## 3. What is checked

Each run finishes within five minutes on two cores; the numbers of states are
for orientation.

| run | instance | shows |
|---|---|---|
| `signer_crash` | two instances, chosen by `scenario` in `MCProductionSigner`. "orders": an increase and a reduction on one asset, each replayed, and a third intent that reuses the first CLOID; one crash; an order fills whole or not at all. "failures": one order with partial fills, two crashes, one failed write; in both a request may be executed as late as two units after its sending, which is `Span`, so that orders appear after they were settled as not found (2.1 million states) | `SubmittedAtMostOnce`, `NoncesIncrease`, `StartedBeforeSent`, `OneInDoubt`, `OutcomeIsTrue`, `EveryReportIsAccepted`, `SettledIsFinal` |
| `dispatch_three` | an increase, two reductions in a lane of one, a late reply, a crash of each, a submission that fails before its start (4.1 million states) | `AcceptedIsKnown`, `KnownIsJournaled` |
| `liveness` | `MCLiveness`: either one intent, two time-outs and two observer crashes, or open and close with a signer that stays up and an observer that crashes once (82,000 states) | `EveryIntentIsAnswered`, `FillsArrive` |
| `delivery_crash` | open, funding, close; three instants; one crash of either process (3.9 million states) | `AcknowledgedIsDurable`, `LedgersAgree`, `IntentsComeFirst`, `DeliversInOrder` |
| `trading_parts` | the nine parts of the trading logic (1.4 million states) | see below |
| `runtime_parts` | the ten parts of the runtime (1.7 million states) | see below |

| property | part | what it says |
|---|---|---|
| `RungsAreEarned` | `ConfidenceLadder` | every rung above the first was earned by its own closed episodes |
| `VotesMatchSnapshots` | `SourceSnapshots` | the vote of a source is the exposure of the very snapshot whose freshness admits it |
| `CohortVoteIsCurrent`, `VersionsNameTargets` | `CohortVote` | a retained target votes only while its direction is still justified, and is never far from what was proposed; a version names one target |
| `RecordsFollowTargets` | `TechnicalSignals` | small moves do not add up unrecorded, also when recomputes skip the asset between them |
| `RiskIsEarned` | `SourceGate` | a sleeve grows or reverses only after signals of that side paid for it, also across a restart |
| `CapsAreKept`, `FailsForACause` | `Rebalancing` | orders of one decision may fill in any order and in part: no cap is left, and from outside the caps nothing gets further out; for the net, exits that are sized again (below) count as unfilled. A decision or an order fails only for a named cause |
| `EndsForAnOldExit`, `ContinuationsAreLinked` | `TradingEngine` | the engine ends for a superseded exit, an increase that the tick makes smaller than a step or, in production, a position out of its caps, and for nothing else; chains of continuations have no gap and no double |
| `OneOrderPerAction`, `KnowledgeGrows` | `OrderLifecycle` | an order and its retry both stand at the exchange only if the first showed late, after the span of the confirmations, whatever was compacted and planned again; answers that overtake each other unlearn nothing |
| `BooksAgree` | `DualLedger` | each position is that of its open episode; a flat portfolio leaves no dust in a component; the components differ from the portfolio by no more than the dust of the fills since it was flat, and the tolerances end the engine only when that dust can exceed them |
| `ReserveIsKept` | `ReadBudget` | polls never take the critical reserve |
| `CriticalIsKept` | `RequestScheduler` | a critical read is not evicted for another key |
| `PollsKeepComing` | `SourceCadence` | rebalances cannot starve a source |
| `MarkedCandlesArrive` | `CandleReads` | a series marked as requested is read |
| `SavedIsRestored` | `StateRoot` | no power loss undoes a save that returned |
| `ArrivalOrderIsInvisible` | `ReorderedEvents` | the state is a function of the stream, not of its arrival |
| `BucketsTileTheWindow` | `MeasurementRun` | late turns do not shift, skip or repeat a bucket |
| `UndisturbedRunsReplay` | `ReplayJournal` | the journal reproduces the decisions at every moment |
| `RecordsStaySound`, `SummaryCountsEpisodesOnce` | `WindowAggregate` | a refused window or a stop leaves sound records and a true summary |
| `SamplesHappened`, `EveryPrefixKeepsTheCap` | `CopyTradeBot` | a trader is charged only closed trades; a plan may stop after any order |

Every property of a passing run has a mutant in `PROJECT.json`: a definition
with a plausible fault under which TLC finds the property violated.

### Disagreements between the code and what it says

Six runs check a statement that the repository makes and that the code does
not keep; `PROJECT.json` quotes the line.

1. `signer_history` - two not-found confirmations settle an unknown result
   without a history record; the file never restores again.
2. `dispatch_deadlock` - the observer's two tasks take their two locks in
   opposite orders: after a restart of the signer both may wait for ever.
3. `delivery_funding` - a funding payment read together with the fill that
   closes its position is reported after it, and can never be applied.
4. `attribution` - when the increase of a source sleeve is suppressed, its
   retained notional is weighed against the fraction of the technical sleeve,
   and almost all of a technical increase is booked on the sources.
5. `accounting` - a component that leaves the position before the others closes
   its episode with an earlier fill, and `closed_attributions` holds only the
   episodes that close with the same fill as the portfolio's. The close of the
   portfolio is then an "accounting invariant failure", which ends the engine. The
   quantities of this run are short (`MaxMantissa` is large), so that nothing is
   rounded and no dust is involved.

6. `net_cap` - a reduction that is pruned because, filled alone, it would take the
   portfolio out of its net cap has its change set to zero;
   `construct_planned_actions` takes the zero for one of rounding and plans the
   whole reduction. `CapsAreKept` therefore counts such an exit as not filled
   where it speaks of the net (`SizedAgain`), and shows that the caps of the asset
   and of the gross hold even when it fills.

### Observations without a run

The models also show these; no text of the repository promises otherwise, or a
run of their own would repeat a question asked above.

* The block of an asset is a set. Settling one order lifts the block that another
  order's unknown result needs, and a lookup that reports an unknown result as open
  leaves its asset blocked (`lib.rs:324`); `restore` compares blocked assets and
  unknown results (`lib.rs:475`) and refuses both files.
* When the write of `authorize` fails (`production.rs:532`) the entry stays in
  memory, and a replay is answered Accepted for an entry that is not on disk.
* A reconciliation that fails after a submission is only logged (`main.rs:214`);
  until the next one succeeds the signer is not ready.
* The signer passes two confirmations a second apart (`main.rs:106`) and gives a request
  five seconds (`--request-timeout-ms` in `deploy/systemd/hype-signer.service`). A
  request that is executed more than a second after it was sent can have been confirmed
  as not found by then, and its order fills under an entry that is settled.
  `OutcomeIsTrue` allows just that case and no other.
* With one confirmation, which `ReconciliationPolicy::validate` accepts, the span of
  the confirmations is zero: every order is late, and `OneOrderPerAction` promises nothing.
  With more, an order that shows late stands beside its retry; the registry then learns
  of it (`ReconciledNotFound` may become `ReconciledOpen`), and nothing undoes the retry.
* A retry that was settled and compacted can be planned again, from a predecessor that
  is still `ReconciledNotFound`, under the CLOID it had: `insert` looks only at what the
  registry holds. That no second order comes of it rests on the signer, which answers a
  CLOID it knows from its registry (`production.rs:766`). `LifecycleRegistry`,
  `plan_reconciled_retry` and `compact_terminal` are used by their tests only: nothing
  outside `lifecycle.rs` calls them.
* A crossing order that fills in part, between zero and its target, can leave components
  on both sides of the position. The next order that flattens it is then refused ("does
  not exclusively close component positions", `FlattenNotExclusive`), and the next that
  crosses again too (`CrossingNotReconciled`); either ends the engine. TLC reaches both.
* The dust that the reconciliation tolerates can be too much for the check of closed
  episodes, whose limit is one unit of the last digit for each closed component. An
  order for three lots that fills for one of them is divided into a third and two thirds
  of a lot, of which the second loses its digit; the flatten that follows closes the
  components by what they have, which is more than the portfolio by some units, and so
  is what it books ("Unaccounted", after two fills; with `MaxMantissa` as large as in
  `accounting`, and so without dust, two fills do not reach it).
* An answered intent makes room for another, while restore counts all entries
  (`ipc_client.rs:128`).
* A crash between the save of the trading state (`ipc_client.rs:402`) and that of
  the queue (412) loses the redelivery of an intent that the signer set aside.
* The cursor of the fills moves past the end of the window that was read
  (`production.rs:338`). A fill dated into a window already read, which becomes
  visible later, is never read, and the positions then differ at every boot. Whether
  the exchange does that is outside the repository; it is why `FillsArrive` is
  checked for a signer that stays up.
* In production nothing tells the exit planning of an exit in flight
  (`live_shadow.rs:3355`): a second one is sent. It is reduce-only, and what it does
  is the exchange's affair.
* Exits are sized twice, at the projection and at the book. Where the two differ -
  a change was pruned and put back, or the price is off its tick and the projection
  valued the change at the tick - a portfolio of three assets that is outside its net
  cap can pass through it and out on the other side. This came out of the proof of
  `CapsAreKept`; the instance, with two assets and prices on the tick, does not show it.
* An increase at a price off its tick can be valued at a step and then round to no
  quantity at the book; the order is then not dropped but ends the engine
  (`FailsForACause` names the case).
* An exit superseded by a later decision can no longer be planned when its book
  comes, and ends the engine (`EndsForAnOldExit`).
* In production fills may take a position out of its caps. If the next target then
  is on the other side and below the opening floor, admission does not turn the flip
  into a close, so that the change is larger than the position; `validate_final_ranges`
  refuses that (`ExistingRiskIncreased`), and the decision that ought to bring the
  position back ends the engine. This came out of the proof of `EndsForAnOldExit`,
  and the instance reaches it (an agreement of one unit, an opening floor of three
  steps).

### Bounds, and why they are enough

* Two orders, intents, members, components or assets are what the properties
  relate: two in doubt, one block shared by two, one answer read for the other, two
  events out of order, one cap shared by two. `IntentDispatch` has a third intent, so
  that a lane of one is contended while the other lane is in use;
  `RequestScheduler` a third key, so that a queue of two must evict; `SourceCadence`
  three and eight candidates, fewer and more than the active tier holds.
* One crash of either process reaches every pair of "before" and "after"; two
  crashes in the small instances reach a crash during the recovery from one.
* `MaxTime` and its kin let each interval of the code (confirmation interval, request
  life, accounting window, time-to-live, bucket, cadence) pass at least once. `Millis`
  offers the clock a step back.
* `RequiredConfirmations` is 2, the least value for which "too soon" matters. The span of
  two confirmations is two units, and orders may show, or be executed, before its end, at it and
  after it.
* Two components, three fills, a lot of 1,000 units and quantities that keep their last
  digit up to 500: a third and a half of a lot keep theirs, two thirds and everything
  from a lot on do not. The tolerance of 200 units is less than a lot and more than the
  50 units of dust that a fill can leave (`DustOfFill`), as the code's tolerance is.
* The ladder has its real numbers (50, 25, 14, 3); episode counts jump by 0, 24 or
  25, the two sides of a boundary.
* Notionals and prices are small integers chosen so that a cap is met exactly,
  missed by one step and exceeded; `Caps` (40 for an asset, 60 in gross, 30 in net)
  binds in each of the three. `net_cap` has a wider one in gross,
  so that a long and a short of some size fit beside each other.
* `StreamLength` 3 and `ReorderWindow` 2 let an event be early, late, and out of
  the window.
* Every bound is a constant named `Max...` (or `...Length`) and stands in the guard
  of the one action it limits: crashes, late replies, failures, fills, time.

### Assumptions about the environment

* A request that the exchange has not executed `MaxDelay` after its sending is
  never executed. `MaxDelay` may have any value (`SignerAssumption`): it only bounds the
  instance. In `OrderLifecycle` nothing bounds the time after which an order shows.
* A read looks back further than the delay after which a candle counts as final
  (`CandleAssumption`): the code waits five seconds and asks for the candles of its
  warm-up and two more, of fifteen minutes at least.
* The exchange orders a request at most once and reports its true state.
* Files are replaced atomically (write, fsync, rename), as the code does;
  `StateRoot` models these steps, and `CopyTradeBot` the write in place of the
  legacy bot.

### Fairness

Liveness is checked with weak fairness of the two processes and their restart
(`Restart=on-failure`, `RestartSec=1`). In `IntentDispatch` the two tasks have strong
fairness, because tokio's mutex is fair and each task stops and resumes at it.
`FillsArrive` and `EveryIntentIsAnswered` are checked for a signer that stays up; the
runs `dispatch_deadlock` and `delivery_funding` show why a restart, or funding, breaks
them. `MCLiveness` chooses one of the two systems, and the fairness of each is that of
the one that runs. `PollsKeepComing` needs no fairness: it bounds the time that may
pass, and iterations that come late are part of the bound.

`CHECK_DEADLOCK FALSE` stands in the runs where the system may end: all intents
settled, the process down with its crashes used up, a part that has ended or used
its bounds.

## 4. What is proved

Eight modules hold the proofs, one for each component or, where some are small,
for a few of them. Each states inductive invariants, since hardly any of the
properties is inductive by itself; has one lemma for each action; and derives the
theorems from the invariants. The larger ones (`DispatchInv`, `DeliveryInv`,
`LedgerInv`, `GateInv`, `EngineInv`, `EndInv`, `CohortInv`, `TechnicalInv`, `CandleInv`,
`MeasurementInv`, `QueueInv`) were also checked with TLC on the instances of
section 3.

| module | theorem | property |
|---|---|---|
| `ProductionSignerProofs` | `TypeCorrect`, `AtMostOnce`, `NonceOrder`, `StartIsDurable` | `TypeOK`, `SubmittedAtMostOnce`, `NoncesIncrease`, `StartedBeforeSent` |
| | `OneDoubtAtATime`, `SettledIsTrue`, `ReportsAccepted`, `SettledStays` | `OneInDoubt`, `OutcomeIsTrue`, `EveryReportIsAccepted`, `SettledIsFinal` |
| `IntentDispatchProofs` | `TypeCorrect`, `AcceptedKnown`, `KnownJournaled` | `TypeOK`, `AcceptedIsKnown`, `KnownIsJournaled` |
| `EventDeliveryProofs` | `DeliveryIsTrue` | the invariant itself |
| | `AcknowledgedStays`, `LedgersMeet`, `IntentsLead`, `DeliveryInOrder` | `AcknowledgedIsDurable`, `LedgersAgree`, `IntentsComeFirst`, `DeliversInOrder` |
| `AccountingProofs` | `RegistryIsTrue` | what the registry says and what answers carry is true of the exchange |
| | `OneOrder`, `Knowledge` | `OneOrderPerAction`, `KnowledgeGrows` |
| | `LedgerTypeCorrect`, `BooksAlwaysAgree` | `LedgerTypeOK`, `BooksAgree` |
| | `SourcesAlwaysReconcile` | `ReconciliationHolds`, a part of `BooksAgree`: the tolerances end the engine only after as many fills as their dust needs |
| `TradingPartsProofs` | `LadderTypeCorrect`, `RungsEarned` | `LadderTypeOK`, `RungsAreEarned` |
| | `SourcesTypeCorrect`, `VotesMatch` | `SourcesTypeOK`, `VotesMatchSnapshots` |
| | `GateTypeCorrect`, `RiskEarned` | `GateTypeOK`, `RiskIsEarned` |
| | `OrdersLinked` | `ContinuationsAreLinked` |
| | `EndInvariant` | the invariant itself |
| | `EndsOnlyForAnOldExit` | `EndsForAnOldExit` |
| | `VoteIsCurrent`, `VersionsStay` | `CohortVoteIsCurrent`, `VersionsNameTargets` |
| | `RecordsFollow` | `RecordsFollowTargets` |
| | `RebInvariant` | the invariant itself |
| | `CapsKept`, `FailsOnlyForACause` | `CapsAreKept`, `FailsForACause` |
| `ReadProofs` | `TypeCorrect`, `ReserveKept`, `OwnPoolDecided`, `BurstBounded` | `BudgetTypeOK`, `ReserveIsKept` and two operators of `ReadBudget` |
| | `QueueTypeCorrect`, `CriticalKept` | `QueueTypeOK`, `CriticalIsKept` |
| | `OneReadOfAKey`, `QueueBounded` | one read of a key, and the bound of the queue |
| `RuntimePartsProofs` | `RootTypeCorrect`, `SavedRestored` | `RootTypeOK`, `SavedIsRestored` |
| | `WindowIsTiled` | `BucketsTileTheWindow` |
| | `MarkedArrive` | `MarkedCandlesArrive` |
| | `ArrivalNeverShows` | `ArrivalOrderIsInvisible` |
| | `RunsReplay` | `UndisturbedRunsReplay` |
| | `RecordsAlwaysSound`, `SummaryAlwaysTrue` | `RecordsStaySound`, `SummaryCountsEpisodesOnce` |
| | `SamplesAlwaysHappened`, `EveryPrefixKept` | `SamplesHappened`, `EveryPrefixKeepsTheCap` |

### The signer

For all intents, CLOIDs, assets, numbers of crashes, failed writes, clock readings
and exchange behaviours. `SubmittedAtMostOnce` depends on what is on disk when
the process restarts and on what is in memory while it runs, and on the place of
the loop between signing and sending. The first layer of the invariant is

```
IInv == /\ TypeOK
        /\ Good(disk, sent)            \* a CLOID that was sent is not in a state before submission;
                                       \* no nonce sent or recorded reaches the floor
        /\ pc # "down" => Good(reg, sent) /\ Ordered   \* disk.floor <= reg.floor <= nonceNext
        /\ Progressing                 \* pc and the state of the current CLOID go together; from
                                       \* "nonce" to "started" its nonce exceeds all nonces sent
        /\ SubmittedAtMostOnce /\ NoncesIncrease
```

The registry's operators have lemmas of their own (what register, transition_at
and confirm_not_found keep of `Good`). `Ordered` is why the nonce is larger than
every one sent, before and after a restart: `Boot` starts from the floor of the
file, and the floor is raised in the file before the request is sent.

The second layer, `OutcomeInv`, is about the truth of what is recorded. `Fits` compares
one entry with the exchange's order and with the requests in the network: an entry that
is filled has a finished order with that quantity, one that is settled as anything but
not found has no request left in the network, and one not found is `Gone`: it has no
order or one that came `late`, and a request of it that is still in the network has been
there for the span of the confirmations already. The count and the time of the not-found
confirmations are part of it: a request in the network whose order was not found was
sent before the first of them, and `n` confirmations are at least `n - 1` intervals
apart (`MoreIntervals`). So the last of them finds each such request as old as the span,
however long it may yet take. `Records` says this of memory and of file, `World` what
requests and orders may coexist, and `Phases` what the loop knows at each of its steps.
`OneInDoubt` is why a crash between the two leaves one order to ask about at most;
`EveryReportIsAccepted` holds since the step from the old state to what an observation
asks for is always in the table of transitions.

### The handoff

For any number of intents, any capacity of the lanes, and any number of crashes and
late answers. `DispatchInv` says where the knowledge of an intent travels: the queue in
memory and its file hold the same intents while the observer runs (`MemoryTrue`); a
frame on its way is of an intent in the journal (`FramesTrue`); an answer
"accepted", a mark, and the intent the signer is busy with are of an entry of the
signer's file (`AnswersTrue`, `MarksTrue`, `BusyTrue`); and that entry's intent is in
the journal (`EntriesTrue`). Both files only grow in the intents they know, which is
why a time-out that leaves a late answer in the stream, and a restart of one
process that leaves the other's state, do no harm to these two properties.

### The delivery of events

For all orders, assets, fills, funding payments and crashes. `DeliveryInv` follows an
event through its four places: the exchange (`ExchangeTrue`), the registry's history
(`HistoryTrue`), the signer's ledger and outbox with their files (`SignerTrue`), the
observer's reply and state (`ObserverTrue`). The fills of the outbox are the first of
the fills of the ledger, in their order (`FillsMatch`, which counts fills with
`NumFills`); the observer's events are a prefix of the outbox (`Extends`); and the
positions of a ledger are determined by its fills (`Folded`), so that two ledgers with
the same fills agree. The lemmas about `Missing` say what the recursion yields: each
event that the outbox lacks, once, in order. `DeliveryInOrder` is the
refinement of `OrderedDelivery`: each step of the detailed specification either
appends to the log, delivers its next event, or leaves both alone.

### The life of an order

For any actions, generations, quantities and intervals that fulfil
`LifecycleAssumption`, which is what `ReconciliationPolicy::validate` demands. `LifeInv`
says of each answer on its way that finds nothing that the order was truly not shown at
that time, and that if it shows after the span of the confirmations, it is late
(`Missing`); of an order of unknown outcome that its confirmations are an interval apart
from each other (`Spaced`), and of one settled as not found that it is `Gone`: it never
showed, or late. A generation is in the registry, or was sent, only when all before it
are gone (`EarlierAreGone`). That is said of what was sent as well as of what the
registry holds, and so it survives compaction: what is planned again has been planned
after its predecessors were gone, and they still are. `Knowledge` follows from the same:
an answer overtaken by another cannot make `apply` go back.

### The books

For any number of components, length of a `Decimal`, size of a lot and tolerance, and
any sequence of orders and partial fills. Nothing is assumed of how large the dust is;
the argument bounds it.

A `Decimal` is within half of ten units of the number it stands for, keeps its sign, and
a second rounding changes nothing (`DecimalNear`); a sum that is rounded as it grows is
within that of the exact sum for each of its terms (`FoldNear`). The exact sums follow
from the lemmas of `SetLemmas`.

Whatever the shares of a fill were rounded to, the last key gets the rest. The rest is
rounded too, but the total of whole lots ends in zeros, and the sum of a part and its
rounded rest, rounded once more, is that total (`RestMakesWhole`): the shares add up as
the code adds them, to the last digit (`FoldAnchored`, `AllocatedDivides`). This is why
the exact comparison of a fill that stays on its side (`FillNotReconciled`) never fails.
The exact sum of the shares, which no line of the code computes, is off by half a digit
for each term.

A flatten gives each component what it has, so that its new position is zero and not
merely near it (`ClosesNear`); that is the first of the two things the invariant must
carry (`LedgerInv`: a flat portfolio has flat components). The second is the dust: each
new position is rounded, and so is each share, which adds at most `DustOfFill` to what
the components are off by (`PartsMove`). `sinceFlat` fills after the portfolio was flat
they are off by `sinceFlat * DustOfFill` at most. A book applies what it was given to
its position and to its open episode alike (`ApplyKeeps`), rounding both or neither.

`SourcesAlwaysReconcile` says what this means for the two checks that end the engine:
they fail only when the dust of the fills since the portfolio was flat, and of the one
at hand, can exceed `DustTolerance`. With the deployed numbers that is a position that
is not closed for very many fills. The check of the closed episodes has a limit of a
unit for each of them and no such margin (section 3).

### The parts

*The ladder.* For every ladder and every sequence of reviews, blocks and
re-entry windows. The property compares the rung with the episodes closed now; what a
review keeps is a comparison with the episodes at the last change, `rung *
RungEpisodes <= base * RungEpisodes + changedAt`, and that `changedAt` is not ahead of
`closed`. A climb needs `RungEpisodes` closed since `changedAt`, so it moves both sides
alike; a descent makes the left side smaller. The quotient of a worth by
`RungEpisodes` never has to be reasoned about, with a lemma (`RungWorth`) for a step
up and a step down.

*The snapshots.* For any set of candidates, weights and lifetimes.
Snapshot store and exposure book are two copies of one fact with different rules of
acceptance; the invariant says that they agree for each candidate and that neither is
ahead of the candidate's sequence, which is why the two rules accept the same answers.

*The read budget.* For every policy that `ReadApiPolicy::validate` accepts and
every set of weights. The invariant (`Sound`) relates what is missing
from each pool, its deficit: the deficit of the total is at most that of the normal
pool and what critical reads have drawn on the reserve, the deficit of the normal
pool at most those of its two parts, and the weights used in the window add up in
the same way. Products of a weight and a time are handled by lemmas of their own.

*The scheduler.* For every set of keys, capacity, lifetime and retry policy.
`QueueInv` says that pending reads, successors and dispatches have one read of each
key, that no pending read has the key of a dispatched one and every successor has
one in flight, and that the queue is within its capacity. `EnqueueOutcome` reduces
the nested decisions of `schedule` to one statement: a read joins one of the two
queues while others give way, these are all not critical or all older reads of its
key, and at least one gives way unless there was room. The bound and
`CriticalIsKept` both follow from it. A retry needs that the dispatch it ends had no
successor, which is why it cannot leave two reads of its key.

*The state root.* For any number of saves, power losses and failed operations. The
invariant `RootInv` is the order of the files (`Ordered`: durable is not ahead of
cached, no marker is ahead of any durable snapshot, what returned has a durable
marker) together with the place of the save (`AtRest`, `SnapshotPhase`, `MarkerPhase`:
which names hold the old and which the new generation). A power loss leaves each
name at either value, and the order alone is what makes the pair that is found a
legal one.

*The cost gate.* For all votes, prices, costs, budgets and funding. `GateInv` says that
a direction in which no signal has ended with a return of `CostMultiple` round trips has
a moving average below that price. An average of returns that are too small stays too
small through the division of the code (`AverageBelow`), funding only raises what it has
to cover, and a decision opens a side only where the average covers its cost
(`CoveredIsEarned`); capacity and clamps never turn a side around (`ClampAddsNothing`).
The snapshot satisfies the same, so a restart restores no permission that was not
earned.

*The continuations.* For any policy, prices, books and decisions, any position and any
number of restarts. `EngineInv` says that an action or a continuation, never both,
is of an order that may come next (`MayFollow`): it names an executed order of the
generation before it, and of its root nothing has come as far. A waiting intent has
a root of its own. The same holds of the snapshot: what `Persisted` makes of a
pending continuation (it goes back to being one not yet ordered) keeps its
generation, so the restart continues it as the process that stopped would have.

*The engine's end.* For any prices, ticks, steps, caps, policy, books and decisions and
any number of restarts. Whether an order can be planned depends on the position and the
target of its moment, which for a pending action may be old ones. `EndInv` therefore
keeps how each pending action came about: an increase is a rounded change that
keeps the caps from the position it was decided on (`SizedBy`), an exit of the
decision in force leads from that position to the target (`ExitTo`), and in shadow
mode that position is still the present one. So an exit that cannot be planned is one
of an older decision, or of a position that fills have moved. In shadow mode the
position stays within the caps, in whatever part the order fills
(`OrdersFit`), and a decision is refused only from outside them (`DecisionFits`, on
the lemmas of *The caps* below).

*The cohort's vote.* For any members, horizons, penalties, confirmations and
tolerances. The argument is in one step of `evaluate`: the target is kept only while
no change is material (`MaterialChange`), and that a change is not material bounds
the distance of the kept vote from the proposed one and forbids a change of side
(`EvaluatedKeeps`). That every proposal is a whole number at all has to be shown of
the aggregate, its impulses and the retained frames (`CohortInv`): a frame's
divisor is not zero, and an evaluation finds a frame at each of its horizons.

*The recorded decisions.* For any readings, thresholds, tolerance and gross. `TechnicalInv`
says that the target is unmoved from the last decision recorded; since each new target is
compared with that decision, and not with the target before it, small moves cannot
add up. The decisions in the record are numbered without a gap (`RecordsTrue`). What the
readings are combined to is shown to be a whole number first (`SituationsAreClassified`,
`ScoreIsInt`).

*The candles.* For any sources, assets, intervals and lengths of history. `CandleInv` gives
each mark one of three reasons: the candle is known, a read on its way is to bring it, or
an answer with it was discarded. A mark is made before the candles are requested, so
that a request that fails has to take it back (`Unmarked`); that it may thereby take the mark
of a later read of the same series only makes it due again. That the candle
of the mark is within what the read asks for needs the delay of finality to be shorter
than the history of the read (`CandleAssumption`).

*A run's boundaries.* For any length of a bucket and of a run. `MeasurementInv` says
that in the loop every boundary lies on the grid and the next one is due at the point
after the last; one turn takes every boundary that has come due, however many, in
its order. At the end the boundary of the deadline closes the window
(`GridTiles`), or the verdict has failed.

*The caps.* For any assets, prices, ticks, steps, caps, policy, books and agreements of the
sources. `RebInv` says, while the price stands still: each change of the decision
is zero or the rounded proposal, and the ranges that the changes span hold the caps, or
are no further out than the portfolio was (`Sound`); the pending orders are as they
were planned, one for each asset at most, on assets not touched yet (`OrdersStand`);
each asset is within its range or an exit that is sized again and has come closer to
zero (`RangeKept`). A sum of values within ranges is within the sum of the ranges,
which gives `CapsAreKept`. The arguments under it: what rounding does to a change
(`RoundedDelta`) and that planning a change at the book gives the quantity it came
from (`QuotientCancels`); that admission and scaling always yield a portfolio
(`AllocateType`); that staging ends, since each round takes out a change as long as
the net is worse (`StagedIsSafe`); that a projection is refused only from outside the
caps (`StagingIsSound`); and that an order takes no more from a book than the change
that was checked (`ReductionTakes`, `IncreaseTakes`, `ShadowFillBounds`).

*The order of arrival.* For any events, length of the stream and size of the window.
`EventsInv` says that the state is the stream applied in order up to some event,
that what waits in the buffer is of the stream, and that after each event nothing waits
that could be applied (`Ready`). The drain is a recursive function; it ends since
each step takes one event out of a buffer that the window bounds.

*The journal.* For a journal of any length. `JournalInv` says that replaying what is written,
event by event, gives the engine as it is, and that a read in flight belongs to the tier
the engine is in, so long as no tier changed under it. Most of the proof is that the
replay of a longer journal is one step more than that of the shorter one.

*The aggregate.* For any windows and episodes. `AggregateInv` says that bundles grow with
what the trading closed and that records are copies of bundles (`AggregateTypes`), that the
records are sound, and that the summary on disk was true of the records it was made from
(`SummaryTrue`). The code compares neighbours only: windows in the order of their starts
of which no two neighbours overlap do not overlap at all (`NeighboursSuffice`). Since
episodes are cumulative, the last window has them all.

*The older bot.* For any traders and signals and any number of torn files. `BotInv` says
that each fill the ledger has counted, in memory and in the file, is in the account's
log, and that a trader has no more samples than counted fills that close; `BotTyped`
that the positions and the orders, planned or on their way, are of numbers. For a plan,
`WalkTrue` says after each coin that no order is of a coin still to come, that the gross
the plan reckons with is at least that of the positions when its orders have filled, and
that no prefix leads above the cap or what was held (`PlannedIsTrue`). It needs the smallest
order to be positive, as the configuration's validation demands: an increase is planned
only where there is room for it.

### Assumptions and limits

The proofs rest on the named `ASSUME`s of the modules, which TLC evaluates in each run:
`IntentsAssumption`, `BoundsAssumption`, `SignerAssumption`; `DispatchAssumption`;
`DeliveryAssumption`; `LifecycleAssumption`; `LedgerAssumption`; `LadderAssumption`;
`SourcesAssumption`; `GateAssumption`; `EngineAssumption`; `CohortAssumption`;
`ThresholdAssumption`; `RebalancingAssumption` (a price is a tick at least);
`PolicyAssumption`, `WeightsAssumption`, `SchedulerAssumption`; `RootAssumption`;
`MeasurementAssumption`; `CandleAssumption`; `EventsAssumption`; `JournalAssumption`;
`AggregateAssumption`; `BotAssumption`. All but `CandleAssumption`, which section 3
justifies, say no more than what kind of value a constant is and what the code's
validation of it demands.

*Induction.* The library's induction theorems take an operator as their parameter,
which the provers cannot instantiate. Where a fold or a recursive function has to
be reasoned about, induction is stated of a set instead (`SetInduction`,
`UpToInduction`, `SubsetInduction`): the set of numbers, or of subsets, for which
the claim holds has no least element in its complement. That a recursive function
exists (`RecursionExists`, `SumsExist`) is proved in the same way. `SetLemmas` has
these lemmas and those about sums, which all modules of proofs share.

**Only model-checked**, liveness: `EveryIntentIsAnswered` and `FillsArrive`; the
backends do not handle `ENABLED` in the form fairness needs. The type invariant
`TypeOK` of `EventDelivery` (of which `DeliveryInv` states what the theorems
need). And `PollsKeepComing`, whose bound holds of the instance and is not a theorem:
where the longest latency is much larger than the interval of the accelerated tier, a
promotion and two late turns of the loop together can exceed it.

## 5. What is not modelled

* Arithmetic on prices, fees, margins and indicators beyond small integers;
  formats, hashes and signatures. A CLOID is a model value, so a collision of hashes
  is excluded.
* The content of the policies and the release tooling.
* The data checking of configuration and membership files, reports, counters and
  the statistics of micro-density: they read the state and change none of what
  the properties are about.
* Vetting and back-testing of the legacy bot, its ticker programs and its posts.
* HTTP, WebSocket and parsing: the environment that answers, fails, or is late.
* Numbers wide enough to overflow: the code uses checked or saturating
  arithmetic on `u64` and `Decimal`, and the bounds of the models stay far below.
* The parts listed as `not_modelled` in `PROJECT.json`.

## 6. Plan

What is left, in this order.

1. Composition of `SourceGate` with `DualLedger`: a fill in part under a retained
   sleeve.
2. The book polls' rotation and transport counters of the qualification loop, and
   the remaining tier fairness of the scheduler's choice.
