# A verification project for ai-market-system

TLA+ models of this repository, model-checked with TLC on small instances, with
the theorems that matter most proved with TLAPS for every value of the constants.
The core is what decides what is open in an account: the broker router and the
paper engine. Around it stand models of the gates, limits, plans, alerts,
evidence, reviews and views that feed or watch them.

Paths are relative to `src/`. The lines of code behind every definition are in
`PROJECT.json` under `map`.

## The system

A trading-analysis runtime. A scheduler wakes up on 15-minute slots; each cycle
of a symbol reads candles and macro news, runs deterministic agents and an AI
review, and may submit a *paper* plan to a simulated account kept in SQLite.
An optional router mirrors approved paper plans on an OANDA practice account.
A dashboard, another process, reads the databases and writes operator requests.

| Component | State it keeps | Operations | Interacts with |
|---|---|---|---|
| `execution/broker_demo_router.py` with `broker_demo_state.py` | trade rows, flags and the alert outbox in the broker state database; the running tick | `on_cycle`, `manage`, `process_operator_requests`, `clear_drift`, `clear_unresolved`, `mark_not_sent` | called by the runtime under its own lock; calls the OANDA adapter; reads flags the dashboard writes |
| `execution/oanda_broker.py`, `oanda_client.py`, `dxtrade_*.py` | latched unknown ids of a process | submit, submit limit, close, partial close, cancel, modify stop, the reads | HTTP to the broker; an answer is ACCEPTED, REJECTED, a definite error or UNKNOWN |
| `execution/operator_actions.py`, `account_registry.py` | switches, emergency latch, request flags | emergency stop and clear, switch, flatten, manual close, drift clear | separate process, one transaction per write |
| `execution/daily_loss_limit.py` | start-of-day equity, halts, transfer cursor (flags); latches in memory | evaluate, entry gate, transfers, operator clears | called by the router |
| `execution/eurusd_pullback.py` | stage and units left of a row | limit plan, expiry, scale-out steps | called by the router |
| `runtime/service.py` | paper account, orders, fills, slots, symbol locks, journal (through `storage/database.py`) | `run_cycle`, `manage_trade_duration`, `close_paused_symbols`, start-up | driven by `runtime/scheduler.py`; calls the router after a cycle |
| `execution/paper_broker.py`, `trade_manager.py`, `position_catch_up.py`, `trade_duration.py` | the loaded paper account | submit, fill, stop/target, market close, catch-up of missed bars | called by the runtime; persisted by compare-and-swap |
| `execution/risk_reservation.py`, `conflict_*.py`, `risk_engine_v2.py`, `opposite_policy.py`, `pending_order_gate.py` | reservations, claims and decisions as journal rows | reserve, claim a run, close and reopen in the opposite direction | routes behind flags; the same compare-and-swap |
| `runtime/halt.py` | one in-memory latch per process, one journal row | admission of every write, halt bookkeeping, start-up barrier | signal handler against the main thread |
| `runtime/scheduler.py`, `cloud_runner.py`, `demo_runner.py` | last slot, runner lock file | tick, idle poll, watchdog, capture and delivery of notifications | calls the runtime |
| `runtime/alert_dispatch.py`, `alert_hook.py`, `broker_alerts.py`, `notifications.py` | delivery ledgers, bounded queues | claim, deliver, complete, take over a stale claim | processes that share a ledger |
| `storage/evidence_store.py`, `data/market_evidence.py`, `runtime/revision_review.py` | committed candles, anomalies, review decisions | ingest, committed bars, review, gate | the catch-up and the cycle read it |
| `runtime/rex.py`, `genesis.py`, `replay/*` | evidence rows of a run, the anchored account | record, seal, check at start, verify and reproduce offline | beside the trading state |
| `ai/*` | provider health, call budget of one cycle | guarded calls, retries, alerts of an outage | the cycle reads its review |
| `data/*`, `agents/*`, `floor/*`, `core/*` | caches of the providers | bars, events, structure, plans | inputs of a cycle |
| `runtime/system_health.py`, `health_*.py` | observation log and one record per component | observe, collect again and again | reads the trading database |
| `execution/oanda_readonly.py`, `ui/*` | two caches shared by the sessions | refresh, stale fallback, views | reads the broker and the databases |
| `scripts/*`, the V1 modules at the root | none that trades | one-off tools, backtest | - |

Hard to get right and hard to test: broker answers that never come, a crash
between two steps, reads of one pass taken at different moments, requests of
another process that arrive in the middle of a pass, two runtimes on one
database, a halt signal between a check and its write, delivery claims left
by a dead process, evidence written after the fact, caches refreshed in the
middle of a decision. `PROJECT.json` lists each with its line under `hazards`.

What makes each component correct:

- Router: an order is posted once and has a durable row before it is sent; one
  net position; what a row says of the broker is true; an operator's request is
  served, exactly the one that was made; a lost answer blocks until resolved.
- Paper engine: one writer's result is never overwritten by another's stale
  one; one pending order or position per symbol; one order per run; bars are
  applied once and in order; time boundaries win over later bars.
- Loss limit: a halt that is due holds through restarts and failed writes; the
  references move with transfers and with nothing else.
- Reservations and the opposite policy: the sum of reserved and open risk stays
  within the limit; a run has one outcome; an abandoned close stays flat.
- Plans and scale-out: stop, entry and target on the right sides after rounding;
  the partials of a trade sum up; its stop only tightens.
- Halt: no economic write starts after the halt; at most the one in flight
  completes; no restart without the operator's token; evidence of every write.
- Deliveries: a message is claimed by one sender, lost by none, and a slow
  sender never overwrites the one that took over.
- Evidence: what is committed, reviewed and certified is what happened, and a
  sealed process starts only on the account its evidence leads to.
- What a cycle reads and an owner sees: closed bars and confirmed swings only, no
  HIGH event lost, no late AI answer counted, no stale figure shown as current.

## Modules

| Module | What it is |
|---|---|
| `OandaAccount` | The practice account: what became of the order of each client id, foreign trades, and write requests whose answer was lost and which the broker may still process. Its own steps are external; the answers a write call can give come from the adapter. |
| `BrokerDemoRouter` | The router, one program counter per process because every public entry point holds the router's lock; dashboard, broker, operator, crash and restart as separate actions. Safety, action and liveness properties. |
| `BrokerDemoRouter_proof` | Inductive invariants and theorems: one POST, intent first, flatten; what the rows say of the broker, and the requests consumed on evidence only. |
| `PaperLedger` | What the paper account promises, whoever writes it: the abstract specification of one order, one position and one booked trade per run, per symbol. |
| `PaperCycle` | The runtimes that share the trading database: ticks, cycles, the out-of-session pass, the flattening of paused symbols, compare-and-swap writes, recovery. It implements `PaperLedger` (`LedgerKept`). |
| `PaperCycle_proof` | Inductive invariants of the runtimes; they implement `PaperLedger`; fills, bars and closes in time, for several runtimes and for one. |
| `HaltGate` | The halt gate in the life of a runner: the signal handler between any two steps of start-up, cycle, save and bookkeeping; restart under an unresolved halt. |
| `HaltGate_proof` | Its inductive invariant and theorems. |
| `AlertPipeline` | From a journal row to the owner: capture, claim, post, summary outbox, the bounded queue and the shared ledger of the alert worker. |
| `AlertPipeline_proof` | Its inductive invariant and theorems. |
| `BrokerAlerts` | The router's alert sink (deduplication, cap, queue) and the outbox of completed manual closes. |
| `BrokerSends` | One opening request of an adapter through switches, guards, retries and the reading of the answer, for OANDA and for DXtrade. |
| `BrokerSide`, `BrokerSide_proof` | The two together (what leaves the process), and the proofs of all three. |
| `DailyLossLimit` | The daily loss limit and the drawdown halt: flags written one by one, transfers, the day roll, failures and deaths. |
| `PullbackTrade` | A EURUSD pullback trade from its limit to the trail, with lost answers, crashes and the operator's releases. |
| `PullbackTrade_proof` | Its inductive invariant and theorems. |
| `RiskReservation` | Several callers that reserve risk for candidates on one paper state, with and without conflict control. |
| `OppositePolicy` | Closing for an opposite setup and opening the reverse: two guarded writes, deaths, take-overs, abandonment. |
| `RiskLimits` | The loss limit, the reservation and the opposite policy together: what bounds the open risk. |
| `RiskLimits_proof` | Inductive invariants and theorems of the loss limit, of the reservation, of the opposite policy and of the three together. |
| `TradePlanning` | From reports to a plan and its simulated outcome, on an integer grid. |
| `RunReproduction` | One cycle with its record, and the offline oracle that derives it again. |
| `MarketEvidence` | Two writers of committed bars, anomalies, and the review of revisions in the other database. |
| `RunEvidence` | Evidence around commits, the sealed start, and certification. |
| `AiReview` | The calls of a cycle under a time budget, the second macro review, provider health and its alerts. |
| `SystemHealth` | The observation log and records of the health sidecar, collected again and again. |
| `MacroFeed` | Three calendar providers with their caches, the macro scout and the macro checks. |
| `MarketScouts` | From provider frames to the structure and liquidity reports of closed bars, and the chart cache. |
| `DemoReadCache` | The dashboard's reads of the demo account: paired reads, two caches, a producer. |
| `MarketAnalysis`, `StrategyBacktest` | V1: indicators, conditions and the rule; the backtest over every small history. |
| `Observation_proof` | Inductive invariants and theorems of `PaperLedger`, `MarketEvidence`, `AiReview`, `DemoReadCache` and `MacroFeed`. |
| `MCBrokerDemoRouter`, `MCPaperCycle` | Instances: symmetry set, calendars. |
| `MCExecution`, `MCObservation`, `MCSignals` | Instances of the other modules, several to a run (see *Runs*). |


### How `BrokerDemoRouter` corresponds to the code

A *tick* is one call of `on_cycle` (with a candidate), `manage` or
`process_operator_requests`. It walks the passes in the order of the code:
requests (`_process_requests`), manual close, loss check, Friday, manage
(`_manage_locked`), route. `pc` is the next step; `ret` says where a reconcile
pass or a broker write returns to; `report` is this tick's successful read of the
open trades, reused as the code reuses it.

- `ReadOpenTrades`, `ReconcileRow`, `RowsDone`, `BlockOnDrift`, `FinishReconcile`
  are `reconcile`: one read, then one step per row (each row is written in a
  transaction of its own and looks at the broker again), then drift, then the
  drift-clear request and `unresolved_action`. The rows are taken in any order.
- A broker write is two steps: the call (`BrokerWrite`, in which the broker
  processes it or the answer is lost) and the row update (`RecordAnswer`). A
  crash fits between them.
- `SweepRow` is one row of the flatten, loss, Friday or duration loop. Whether a
  row is due is a fact of prices and time, and so a choice.
- `Route`, `Admit`, `Size`, `Reversed`, `Flat`, `Intent`, `PreSubmitGate`, `Post`
  are `_route` and `_send`; any gate over prices, windows, budgets or quotes may
  refuse, which is a disjunct that ends the tick.
- `LimitCid` are the client ids whose entry is the GTD limit order of the EURUSD
  pullback, the others enter at market; a row keeps its kind (`order_kind`), so both
  kinds may meet after the flag was switched. OANDA trading is restricted to EURUSD
  (`ALLOWED_SYMBOLS`), so a single instrument is not a simplification.
- `latch` holds `pending_action` while `action_status` is UNKNOWN.
- `episode` is the drift token. It is a fresh uuid in the code and a counter
  here; `driftRequest.block` and `shown.block` are observers that no guard reads.
- `Inputs` says which optional inputs an instance exercises, so that each run can
  afford the ones its question needs.

One assumption about people: when an operator calls `mark_not_sent` or
`clear_unresolved`, no request of the client ids released can still arrive (`Settled`).
The code does not check it. For `mark_not_sent`, `docs/oanda_adapter.md:159-160` asks it of
the operator ("si OANDA demuestra que no existe"), while the method itself makes only a fresh
read, which is its other guard in the model; `clear_unresolved` says no more than "e.g. after
checking the platform". Every property of the module is checked and proved under this
assumption. Without it, on the same instances, three fail and no other does:
`RejectedMeansNothingThere` and `SingleExposure` (theorems `RejectedHolds`,
`MarketRejectedHolds`, `SingleExposureHolds`, `MarketSingleHolds`) for `mark_not_sent`, and
`NothingStacked` (`NothingStackedHolds`) for `clear_unresolved`. That a released request could
arrive later is assumed away, not checked.

### How `PaperCycle` corresponds to the code

`paper` is the durable account (tables `paper_accounts`, `paper_orders`,
`paper_positions`, `closed_trades`), `runs` and `lock` the tables `runs` and
`symbol_locks`. `task[p]` is the scheduler tick process `p` is in and the locals
of the operation it has reached; `stage` is the next step.

- A tick (`StartTick`) serves every symbol in turn: paused ones by
  `_close_paused` (`StartPaused`), then in session one cycle per symbol
  (`StartCycle` ... `Finish`), out of session the keyless pass of
  `manage_trade_duration` (`StartManage`) for the symbols with an overdue order or
  position when the pass read the account.
- An economic write is two steps, because the code computes on an account it
  loaded earlier. `Load` reads the account and computes (`Results`: one operator
  per kind of write, the set of accounts the write may produce over all prices);
  `Save` is the transaction of `save_paper`, which checks the owner of the run and
  compares the durable account with the loaded one. Otherwise `Stale` (one more
  attempt from fresh state, then `AfterStale`) or `NotOwner` (the cycle fails).
- `AfterWrite` is the control flow between writes, in the order of `_run_cycle`:
  duration rule, cancel of due orders, catch-up to the slot, sizing, AI review and
  gates, fill of a pending order, choice, submit, finish.
- `CatchUp` starts `catch_up_position` at the durable watermark and fixes the last
  bar; each bar is a write of its own. A bar that finds the position gone or ahead
  ends the catch-up without a report of staleness, as `position_catch_up.py:143`.
- `Start` is `recover`: exclusively under the lock of `cloud_runner.py`
  (`RecoverAll`), or by age as `runtime/__main__.py` does, where any RUNNING run may
  look old. A process whose run was recovered goes on as a zombie.

What is abstracted: one bar stands for the three 5-minute bars of a slot, its
timestamp inside the slot; equity is a member of a small set and every bar or close
may change it; the max-hold rule is folded into the calendar (both give one
boundary per fill); the AI review, plan geometry and fill gates are choices. The
model is the default route: evidence-store catch-up, opposite-setup policies, halt
gate and Day-1 rule are off. A cycle needs fresh data, so its snapshot is that of
its slot and its gates hold only while the slot lasts (600 s for 5-minute bars);
a pass may see any older snapshot or none.

Two abstractions lean on other results: `FillResults` fills one order because at
most one is pending (`OneExposure`), and the orphan check of `_startup` never fires
because a position always has its filled order (`BookedOnce`); both hold for
`PaperLedger`, which the instances implement.

### How the other modules correspond to the code

Every module keeps the names of the code for its operators and says in its head
what it abstracts. What the actions stand for, where it is not obvious:

- `HaltGate`: Python runs a signal handler on the main thread between two
  bytecodes, so `Request` may come between any two actions. `now_ns` is three
  actions (read, store, order) since the handler reads the same clock; the clock may
  be too coarse to move. `halt_bookkeeping` commits, or rolls back and is left
  pending. A `startup_write` defers the signal to its end.
- `AlertPipeline`: a claim is numbered; `GrowOld` makes it look dead, the sender may
  still go on. `Die` may come at any step of the runner.
- `DailyLossLimit`: a tick is the list `todo` of flag writes the code makes, in its
  order; a write may fail and the process may die between two. `seen` is what the
  account would have had, kept by no code.
- `PullbackTrade`: prices in halves of the fixed stop, so that every threshold
  (+0.5R, +1R, the limit offset, the target) is a whole number. `job` holds the steps
  `management_steps` returned for this tick; `resent` is an observer.
- `RiskReservation`: a planned trade risks 7 units and its worst permitted fill 8.
- `OppositePolicy`: a runner asleep between its two writes may be taken for dead; both
  writes check the run's ownership.
- `BrokerSends`: an attempt is guard, POST and answer; `late` counts attempts that
  leave after the trader was stopped.
- `RunReproduction`: runtime and oracle are written apart, like the code; `odd` names
  the branches the oracle has no rule for (listed under *Not modelled*), `Doctored`
  drops or changes one entry of a record.
- `MarketEvidence`: a batch is one transaction with a time budget; the gate reads two
  databases one after the other. `RunEvidence`: `before_write`, the save and
  `after_write` are three steps; `trouble` counts what went wrong.
- `AiReview`: time is what is left of the cycle's budget, an answer is what the
  validator makes of it; the drained transitions of the provider are told one by one
  (`TellEvent`), and the process may die between two. `MacroFeed`: `seen` remembers what some report has shown.
- `MarketScouts`: bar `i` closes at time `i`; the bar still forming has other values
  than its final ones, so that using it is noticed. `StrategyBacktest`: a change of
  any later bar must change no earlier evaluation, signal or entry.
- `SystemHealth`: an observation id is the row it was made from; `DemoReadCache`: a
  read is two GETs with the broker moving in between.

## Runs

Every run explores its instance completely. `MCBrokerDemoRouter` and `MCPaperCycle`
instantiate the core. `MCSignals`, `MCExecution` and `MCObservation` each hold
several *parts*: a part is one module at one size, parts share no state, `Init`
chooses one part and only that one moves. The state graph is the disjoint union of
theirs, so that one pass of TLC answers for all of them. The modules with theorems
are extended, so that a run checks the very definitions the theorems state; the
others are instantiated and keep their variables in `x1`, `x2`, ... in the order of
their declarations. Modules that meet at run time
meet through the account and the router's rows, and those compositions are in
`PaperCycle` (several runtimes) and `BrokerDemoRouter` (router, broker, dashboard).

| Run | Instance | Question |
|---|---|---|
| `RouterEntries` | 2 client ids, market entries, reversal, breakeven, sweeps, manual close, operator, 2 drift blocks and their clear requests, a crash | one POST per client id, row before POST, one exposure, nothing behind a row released as not sent; a manual request is consumed only with proof; no close is stacked on a lost one |
| `RouterFlatten` | 2 client ids, emergency, 2 presses, breakeven, a crash | flatten is dropped only when served and never for a later press; `RowsAgree`: closed and breakeven rows tell the truth; types |
| `RouterLive` | 1 order of either kind, fairness, a crash | lost submissions are found; flatten completes; closed means closed |
| `RouterLimitExposure` | 2 client ids, limit entries | violated: see *Findings* |
| `RouterClosedAtBroker` | 2 client ids, market entries | violated: see *Findings* |
| `PaperOne` | 1 process, a symbol and a paused one, Friday to the weekend, missing data, a crash, fairness | bars are applied exactly up to the boundary before the week rule closes; types; `DueClosed`: overdue and paused positions are closed; locks are released |
| `PaperTwo` | 2 processes, a symbol and a paused one, Friday session to Monday session, recovery by age | the account is kept as `PaperLedger` promises; locks and runs agree; an order is entered only as sized and owned; no late fill; bars in sequence |
| `PaperEarlier` | 2 processes, 1 symbol, Friday | violated: see *Findings* |
| `Signals` | halt gate over 2 lives; alert pipeline with 2 rival senders, and with 2 rows in a queue of 1; fairness | what must be served in the end, and what may not happen on the way |
| `Execution` | drift blocks of the router, and the modules on the way of an order | limits, plans, sends and reports keep their word |
| `Observation` | `PaperLedger` with 2 symbols and 3 slots, and the modules that read, record, review and show | what is recorded, reviewed and shown is what happened |
| `LossTransfers` | `DailyLossLimit`, 1 transfer, 1 fault | violated: see *Findings* |

What the properties of the last group say, part by part:

| Property | Of | Conjuncts |
|---|---|---|
| `HaltKept` | `HaltGate` | `AtMostOneResidual` (one write at most reaches the account after the halt), `RowIsTrue` (the halt row tells the first signal and where the process was), `EvidenceKept` (what was saved has its evidence) |
| `HaltObeyed` | `HaltGate` | `StartupBeforeHalt` (no start-up section writes after the halt), `HaltServed` (a stop request ends the process) |
| `AlertsAccounted` | `AlertPipeline` | `PostedOnce`, `OutcomeOfClaim` (the outcome is the claimant's, not a slow sender's) |
| `AlertsServed` | `AlertPipeline` | `SummaryServed`, `AlertServed` |
| `RiskLimitsKept` | `DailyLossLimit`, `RiskReservation`, `OppositePolicy` | `ReferenceKept` (the day's reference is the NAV at its start and the transfers since), `HaltHolds`, `RiskWithinLimit`, `OneOutcomePerRun`, `AbandonedStaysFlat` |
| `PlansKept` | `TradePlanning`, `RunReproduction` | `PlanningSound` (levels on their sides after rounding, the decision explained), `OracleExact` (the oracle accepts a run exactly if nothing outside its rules happened, and refuses a doctored record) |
| `ScaledByThirds` | `PullbackTrade` | row and broker agree on the units left, the partials never close the trade, no limit fills in the entry ban |
| `StopOnlyTightens` | `PullbackTrade` | one action property |
| `BrokerTold` | `BrokerSends`, `BrokerAlerts` | `StopIsHeard`, `DefiniteIsTrue`, `ReportedOnce` |
| `DriftClearIsForThisBlock` | `BrokerDemoRouter` | a clear request clears the block the operator saw |
| `LedgerSound` | `PaperLedger` | `OneExposure` (one exposure per symbol), `BookedOnce` (results booked once) |
| `EvidenceComplete` | `MarketEvidence` | every bar dealt with is evidence or an anomaly, every hole has its row |
| `ReviewedAndSealed` | `MarketEvidence`, `RunEvidence` | `ClearStep` (a gate clears only on genuine final decisions), `SealedStep` (a sealed process starts only on the account of its evidence) |
| `ReviewKept` | `AiReview` | `EligibleIsReviewed`, `OutageToldOnce` |
| `ActiveWindowHeld` | `MacroFeed` | a HIGH event that was shown blocks through its window; all providers but finnhub, see *Observations* |
| `StatusHonest` | `SystemHealth`, `RunEvidence` | `RecordIsOfItsLog`, `CertifiedIsEvidenced`, `CleanIsCertified` |
| `DemoReadsHonest` | `DemoReadCache` | `OneRefresh`, `StaleIsTold`, `Paced`, `NoTradeTwice` |
| `NoLookAhead` | `MarketScouts`, `StrategyBacktest` | `ReportsHold` (closed bars and confirmed swings only), `BacktestHonesto` (no look-ahead, no leak between training and test, balanced books) |

### Bounds

Router. Client ids are cycles that produce a candidate, and every property
relates at most two of them: the one that is lost, closing or reversed and the one
that comes next. `MaxEntries` is the number of client ids that are routed; in
`RouterLive` it is 1, of two client ids of either kind, since liveness of a row
depends on no other row. `MaxCrashes` 1 puts a crash at every point of every
behaviour; a second crash meets the same durable states, since a crash
keeps nothing else. `MaxRequests` 2 is an earlier and a later press.
`MaxBlocks` 2 (drift: in `RouterEntries` from the router's own orders, in `Execution`
from a foreign trade beside one row) is the block the operator saw and the one in force
when the request is served. A drift block
at the bound is not cleared, so that the last episode is never followed by an
unnumbered one.

Paper engine. Two processes are a runtime and the one that writes
between its load and its save; each of the two attempts of a write can lose to the
other. Two symbols are the one in question and another one that moves the account.
The Friday calendar (`MaxSlot` 3) has slots before, at and after the flatten, one of
them both in session and weekend (16:45); the Monday calendar (`MaxSlot` 2) has the
next session, so that orders and positions are carried over a weekend. Slot 0 may
hold the order or position of an earlier run. Two equities tell sized from moved.
The processes of `PaperTwo` do not crash: with recovery by age every
run of a live process may be failed under it, which leaves the same database as a
crash of its owner, and the owner goes on.

The other parts (sizes stand in the `.cfg`, or at each INSTANCE in the MC modules):

- `HaltGate`: two lives are the halted process and its restart; a second signal is the
  one that must change nothing; two write attempts are the one in flight and the one
  that must be refused; two clock readings let an instant equal or follow another.
- `AlertPipeline`: claims are numbered up to two, the slow sender's and the one that took
  it over. Rivals needs one row, the full queue needs two.
- `DailyLossLimit`: days of two moments and a clock of four make a day roll with a stale
  and with a fresh NAV; one fault falls between any two flag writes. A result of 20 breaks
  both limits and a transfer of 20 can use up the start equity or the last NAV, which then
  are no reference (`Baseline`, `DrawdownValid`).
- `RiskReservation`: two callers and a legacy order compete for a limit of two
  reservations, so that the third would cross it.
- `OppositePolicy`: two processes at three runs, one of which has no candidate; one death
  or repeated call, beside the recovery of any run whose process is only slow; one write of
  another symbol makes an attempt stale, and with the stop both attempts of a close. A second
  such write, by which both attempts of the reservation are stale, and a second death, of the
  process that took over, are left to `AbandonedStaysFlatHolds`, which holds for every bound.
- `PullbackTrade`: four units give thirds with a remainder; a week of four ticks has a
  time before and in the ban; two faults are a lost answer and a crash after it.
- `BrokerSends`: two client ids, one retry per rate limit, three operator actions
  (stop, clear, switch in any order). `BrokerAlerts`: a queue of one and a cap of two.
- `TradePlanning`: levels on, beside and outside a grid of 3; `RunReproduction`: a catch-up
  of two bars is the shortest with an order to keep.
- `MarketEvidence`: two writers with windows of two overlapping bars, so that a bar is new,
  equal or revised; `RunEvidence`: two lives, two troubles around a save.
- `AiReview`: two cycles carry health from one to the next, three odd calls reach
  FAILED; `SystemHealth`: three moments exceed both age limits, one collection is cut; two
  rows of a journal have an order, and one of them may still be open when it is collected.
- `MacroFeed`: one event, two cache lives and a failure; `MarketScouts`: five bars are the
  fewest with a confirmed swing behind a bar still forming. `DemoReadCache`: one session
  beside the producer. `StrategyBacktest`: every history of at most five bars.

### Fairness

Router (`Fairness`). The process keeps taking steps and is restarted (weak
fairness): the runner loop and its supervisor. The out-of-session tick comes
round again and again, and a `StartTick("manage", ...)` is disabled while another
tick runs (strong fairness): `scheduler.py` calls `manage_trade_duration` every
tick out of session and `manage_trade_duration` calls `router.manage`. Reads
that are retried for ever do not fail for ever, and neither does a close or a
cancel (strong fairness): without it a broker that is down for ever refutes every
liveness property of any router. Nothing is assumed of the operator, the
dashboard, crashes beyond the bound, or lost answers: a submission or an action
left UNKNOWN is an allowed outcome of `FlattenCompletes`.

Paper engine. Time goes on, a process that died is started again
and one that runs takes steps (weak fairness: runner loop and supervisor). Of all
the passes that serve a symbol again and again, not every one lacks the bars up to
its slot (strong fairness on the `StartManage` and `StartPaused` whose snapshot
reaches the slot): both retry every tick and nothing else brings missing data. The
runs are fair to no write: that a write is stale for ever is excluded by there being
one runtime, which is what the runner lock is for.

Halt gate. The main thread goes on (weak fairness of `MainStep`): `cloud_runner.py`
neither blocks nor waits for a lock once the signal is noted. A signal need not come.

Alert pipeline. The runner, the queue's thread and each worker take steps (weak
fairness): they are loops of live processes, and the runner of this model is
restarted by its supervisor. A claim whose sender is gone grows old (weak fairness of
`GrowOld`): that is time passing. Deaths and failed captures are bounded.

The other modules state no fairness; their properties are safety.

## What is proved

`BrokerDemoRouter_proof`, for every number of client ids and foreign trades, both
kinds of entries, every set of inputs and every bound:

- `TypeCorrect`: `Spec => []TypeOK`.
- `PostedOnce`: `Spec => []PostedAtMostOnce`.
- `IntentFirst`: `Spec => []IntentBeforeExposure`.
- `FlattenNotLost`: `Spec => FlattenServed`.

`PostedAtMostOnce` is not inductive: the router counts on a row being in state
NO_ROW only if nothing was ever sent, on the row of a tick between intent and
POST being PENDING_SEND with no POST sent, and on reconcile not touching it. `IInv`
adds to the types

- `Control`: facts of the control points (which locals are set where, that the
  candidate at the gate, POST and answer has a row);
- `WriteAhead`: a client id without a row, or between intent and POST, has no POST
  sent, no request in flight and no order at the broker;
- `LatestPress`: the flag never holds a press newer than the last, and the value a
  tick works for is never newer than the flag's.

The proof has one step per action. Frame lemmas (`StepFrame`, `FlattenFrame`, ...)
carry the parts an action does not touch. `FlattenServed` follows from the step
`SweepDone`, the only one that drops the flag, with `LatestPress`.

Of the rows and the requests, on the same constants:

- `RowsAgreeHolds`: `Spec => []RowsAgree`, and with it `ClosedHolds`: `Spec => []ClosedMeansClosed`.
- `MarketRejectedHolds`, `MarketSingleHolds`: a market entry given up as never sent has nothing
  behind it, and no two market entries are open or on their way, whatever limit orders there are.
  Like the next two, under the operator's assumption above.
- `RejectedHolds`, `SingleExposureHolds`: `RejectedMeansNothingThere` and `SingleExposure` where
  `LimitCid = {}`, that is, with the pullback entry off, which is the default. With limit
  entries both are false of the code (`RouterLimitExposure` under *Findings*).
- `ManualServedHolds`: `Spec => ManualServed`.
- `NothingStackedHolds`: `Spec => NothingStacked`, under the operator's assumption.
- `DriftClearHolds`: `Spec => DriftClearIsForThisBlock`.

`RowsInv` stands beside `IInv` and has five parts. `AtBroker`: an OPEN row has a trade, a
positive answer and the report of a pass are evidence that stays true while the tick works
with it, since trades are never undone and closed ones never open again. `TickInv`: an
episode and the requests that carry one name the block they belong to, a manual close in progress is of the request
it serves, and the row a broker write acts on keeps its state until the answer is recorded.
`Unstacked`: in a life without a crash a close or cancel in flight is latched, or still to be
recorded, or its row is closed already. `SentInv`: what a market row in each state may have at the broker or in flight.
`OnePosition`: a tick between its gate and its POST has no other market exposure, because
reconcile, the unresolved check and the pre-submit read have excluded every state that could
leave one. Each part is proved by itself, one step per action, from the ones before it.

The assumptions are those of the modules: `NoCid` is no client id, `LimitCid` are client
ids, foreign trades have other ids than the router's own, `Inputs` is a subset of the named
inputs, the bounds are natural numbers.

`Observation_proof` on `PaperLedger`, for any symbols and number of slots:

- `OneExposureHolds`: `LedgerSpec => []OneExposure`.
- `BookedOnceHolds`: `LedgerSpec => []BookedOnce`; with it `LedgerSoundHolds`: `LedgerSpec => []LedgerSound`.

`LedgerInv`, their conjunction with the types, is inductive: a position's run is
FILLED and not yet booked, which is why booking it again is impossible, and an
order enters only where nothing is pending or open. Assumed: the bound is a natural
number and `Flat` is no position.

`PaperCycle_proof`, for any runtimes, symbols, paused symbols, calendar, equity
values, both kinds of recovery and every bound:

- `CycleTypes`: `Spec => []TypeOK`.
- `LockIsOfRunHolds`: `Spec => []LockIsOfRun`.
- `LedgerKeptHolds`: `Spec => LedgerKept`, that is, `PaperCycle` implements
  `PaperLedger`: what is proved of the ledger holds of the shared account.
- `EntryIsCurrentHolds`: `Spec => EntryIsCurrent`.

The inductive invariant `CycleInv` joins the types, `LockIsOfRun` and `LocalsOK`: at
each stage the locals that the next write needs are there. A catch-up has a snapshot
and ends at a bar of it, a close knows the run it read, only a cycle reaches its
gate, and a plan that may enter is of a slot outside the weekend. With it a save
writes a result computed from the account it compares with, so each kind of result
is one step of the ledger (`BookedStep`, `BarStep`, `CancelStep`, `FillStep`,
`SubmitStep`), and only `submit` enters an order. That a next weekend slot exists
(`FlattenFrom` chooses the least) rests on the well-foundedness of finite sets
(`LeastOf`). Assumed: the calendar lies within the bound and the null values are
none of what they stand beside. `CycleInv` was model-checked on the instances of
`PaperOne` and `PaperTwo` before it was proved.

Of fills, bars and closes in time, for the same constants:

- `FilledInTimeHolds`: `Spec => FilledInTime`.
- `BarsInSequenceHolds`: `Spec => BarsInSequence`.
- `BoundaryFirstHolds`: `Spec => []BoundaryFirst` and `EarlierStopWinsHolds`:
  `Spec => EarlierStopWins`, both for one runtime (`\A p, q \in Proc : p = q`), which is what the
  lock file of `cloud_runner.py` enforces. With two they are false: see *Findings*.

For several runtimes `TimeInv` adds to `CycleInv` that data is never newer than the tick that
uses it (`Timed`); that the owner of a symbol who is past its cancel finds no due order
(`OrderRule`), also when the pending order was written by somebody else since; and that
a bar about to be applied is at most the next one of the position (`BarRule`), also of the
position which the owner is about to open under a slow catch-up (`FillRule`). A cancel whose
write was stale twice blocks its cycle, which is why `OrderRule` survives it.
For one runtime `AloneInv` adds that what was loaded is what is there, so that no write is
stale, that a bar is exactly the next one, and that a catch-up before a close by time ends at
the boundary and one before the gates belongs to a position whose boundary is still ahead.
`TimeInv` was model-checked on `PaperTwo`, `AloneInv` on `PaperOne` before they were proved.

`HaltGate_proof`, for any number of lives, runs, writes, signals and start-up sections and a
clock of any resolution:

- `HaltTypeCorrect`: `HaltSpec => []HaltTypeOK`.
- `HaltKeptHolds`: `HaltSpec => []HaltKept`.
- `StartupBeforeHaltHolds`: `HaltSpec => StartupBeforeHalt`.

`HaltInv` follows the code's own argument: the control points of the main thread and what
the handler may have changed under each of them (`RunControl`, `SignalControl`), the
order of the clock readings (`Instants`: an admission that read its stop before the halt has
its instants before T_h), that a write after the halt is the last admission's (`LateWrite`),
and what the halt row and the evidence rows say at each point of the bookkeeping
(`HaltRow`, `EvidenceRows`).

`AlertPipeline_proof`, for any rows, summaries, queue size, bounds and workers (the runner's
own among them):

- `AlertsAccountedHolds`: `AlertSpec => []AlertsAccounted`, that is `PostedOnce` and
  `OutcomeOfClaim`.

`AlertInv`: nothing is posted before the claim row, the runner between claim and outcome
holds the claim of the event it posts, and only one attempt is made of it (`OneAttempt`); a
sender's claim is never newer than the ledger's, no two senders of an event hold the same one,
and while a claim is the ledger's the row waits for exactly that sender (`OneHolder`).
A batch is a sequence of events because only finitely many rows were written. No fairness is
used.

`RiskLimits_proof`, of `DailyLossLimit`, for any results, transfers, risks, length of the day and
bounds (assumed: amounts are integers, a day has a positive length, the null value is no number):

- `ReferenceKeptHolds`: `LossSpec => []ReferenceKept`.
- `HaltHoldsAlways`: `LossSpec => []HaltHolds`.

`LossInv` says what is left to write at each step of a tick (`Todo`), that the cursor and the
balance of the tick belong together (`Cursor`), that the references of the day and of the
drawdown are the observed result plus the transfers counted since, from their first write on
(`DayReference`, `LastNav`, `DrawdownReference`), and that a halt that is due is latched or
written before anything is decided (`HaltsDue`, `Decisions`).

Of the other two, and of the three together:

- `RiskWithinLimitHolds`, `OneOutcomeHolds`: `ReserveSpec => []RiskWithinLimit`, `[]OneOutcomePerRun`,
  for any callers, symbols, runs, requests and limit. Assumed: symbols and runs are finite, a
  planned trade fits the limit, the worst permitted fill is at most what was reserved for it,
  all requests of a run take the same path, and the same candidate is found sound or not alike.
- `AbandonedStaysFlatHolds`: `OppositeSpec => []AbandonedStaysFlat`, for any processes, runs and
  bounds, given that the null value is no run.
- `RiskLimitsHold`: `LimitsSpec => []RiskLimitsKept`, the two and the loss limits, interleaved.

`ReserveInv`: a save is judged on the account it loaded, which is a compare-and-swap away from
the one it changes. The account only goes on (`Earlier`): one that was left is not met again, so
"unchanged" means that nothing happened since the load, and what `Knows` says of a call at each
step still holds when it writes. The open and reserved risk is a sum over a finite set of runs;
the lemmas bound what one order moving adds to it.

`OppositeInv`: a run is begun once and worked on by one process; a call past its start is of
a run with a candidate, and if it has its run it finds it undecided, because only runs that
lost their owner are abandoned and a lost run is never owned again; an order exists exactly
with the decision that submitted it. A run without a candidate gets a SKIPPED row at every
call and has no order, so that "one decision" is of candidates only.

`BrokerSide_proof`, for any ids, trades, retries, queue, cap, times and bounds:

- `StopIsHeardHolds`, `DefiniteIsTrueHolds`: `SendsSpec => []StopIsHeard`, `[]DefiniteIsTrue`.
- `ReportedOnceHolds`: `BrokerAlertsSpec => []ReportedOnce`.
- `BrokerToldHolds`: `SideSpec => []BrokerTold`, the two modules interleaved.

`SendsInv`: an id whose order may still appear is neither held nor refused, and latched by the
OANDA adapter before its request leaves (`IdOK`, `CallOK`); a late attempt is the one past its
guard (`Heard`). `AlertsInv`: a key the sink remembers was accepted with an event of that key at
that time, and a row is handed over under its only claim.

`Observation_proof` on the modules that record, review and show:

- `EvidenceCompleteHolds`: `EvidenceSpec => []EvidenceComplete`, for any writers, windows and length
  of the stream. `EvidenceInv` says of the committed database, and of the copy the holder of the
  write lock works on, that it is in order, that every hole has the one GAP row that names its
  two ends and no other bar has one, and that every bar dealt with is there or refused.
- `ClearStepHolds`: `EvidenceSpec => [][ClearStep]_evidenceVars`. The gate judges the revisions
  of its first read, however the evidence grows before the second, on one read of the journal,
  whose rows may be foreign, malformed or in conflict.
- `ReviewKeptHolds`: `AiSpec => []ReviewKept`, for any budget, retries and threshold. `AiInv`: a hard
  failure leaves the guard exhausted and an answer that is not plain (`HardIsMarked`); the
  events of an incident follow each other in the queue, its end last (`QueueSound`), and of an
  outage that was told the end is queued or still to come (`SentSound`).
- `DemoReadsHonestHolds`: `DemoSpec => []DemoReadsHonest`, for any sessions, trades and times.
  Assumed: the times are natural numbers and a failed read is not kept longer than a good one.
  `DemoInv`: a cache is being read by exactly one thread while its flag is set, and whoever
  waits, waits for that one (`ReadsOK`); an entry that is a fallback carries the time of the
  last good read (`EntriesOK`); a read of the trades begins a failure period after the last
  one ended, or finds only a fallback that is too old and then cannot end in one again
  (`PaceOK`), which is why three never end within one period although two may.
- `ActiveWindowHolds`: `MacroSpec => []ActiveWindowHeld`, for any events, feeds, pauses and lags.
  Assumed: a calendar is kept longer than an event's window and the lag of a slot together (six
  hours against one). `MacroInv`: the previous snapshot is older than the slot, and an event that
  only it still has was released before the last refresh (`FxSound`); so a refresh that drops a
  HIGH event comes when the window is over (`ShownIsRemembered`). The official calendars mark
  no impact (`NoImpactMarked`), finnhub is excluded.

`PullbackTrade_proof`, for any size of the order, week, GTD and bounds (assumed: at least one
unit, and a ban within a week of at least one tick):

- `ScaledByThirdsHolds`: `PullbackSpec => []ScaledByThirds`.
- `StopOnlyTightensHolds`: `PullbackSpec => StopOnlyTightens`.

`PullbackInv`: the units left are those of the stage of the row (`RowOK`), and each step a tick
still has to send follows the one before it, so that a partial takes its third of what is then
left and leaves some (`JobOK`, by `ManagementFollows`). A request whose answer was lost is the one
the row is latched on: nothing was sent after it, hence a partial still finds the row's units and
a stop is still no wider when it arrives late (`LostOK`). Without a partial sent twice the broker
has the units of the row (`UnitsOK`). All moments up to the GTD of a resting limit are outside the
ban (`FillOK`, by `ExpiryBeforeBan`, from facts about remainders).

The invariants were model-checked, on the instances of the runs, before they were proved.

Only model-checked:

- liveness everywhere (`LostAnswerSettled`, `FlattenCompletes`, `DueClosed`, `LockReleased`,
  `HaltServed`, `SummaryServed`, `AlertServed`), which is out of the prover's reach together
  with ENABLED;
- what is computed over histories of any length: the functions of `TradePlanning`
  (`PlanningSound` of `PlansKept`), `RunReproduction` (`OracleExact`), `StrategyBacktest`
  and `MarketScouts` (`NoLookAhead`), and the folds over logs and hash chains of `RunEvidence` and
  `SystemHealth` (`StatusHonest`, `SealedStep`). They need induction over data, which is out of its
  reach, and are checked on every bounded history.

## Findings

- `RouterLimitExposure`: with limit entries a submission whose answer was lost and
  which is in none of the three reads is marked CANCELLED
  (`broker_demo_router.py:978`). The router then posts another order while the
  first may still arrive. `oanda_broker.py:474` and `docs/oanda_adapter.md:158` say
  absence proves nothing and an UNKNOWN submission blocks all new routing.
- `RouterClosedAtBroker`: an order in flight that fills between the read of the
  open trades and the later look-up by client id is found by the latter and
  recorded CLOSED_AT_BROKER, while its trade is open
  (`broker_demo_router.py:918`, "the trade exists but is no longer open"). The next
  reconcile sees the trade as drift and blocks.
- `PaperEarlier`: of two passes that catch up the same position, the one that is
  overtaken ends without an error (`position_catch_up.py:143`) and closes by time
  while bars before the boundary are still unapplied; the docstring of
  `_enforce_trade_duration` (`service.py:543`) says an earlier stop or target wins.
  It needs two runtimes on one database: under the runner lock `PaperOne` shows that
  the property holds.
- `LossTransfers`: a transfer of a day that already has its reference changes
  `dl_transfers` only (`daily_loss_limit.py:375`). If the tick ends before the NAV is
  remembered and the next one is on the next day, the new reference is a NAV that
  lacks the transfer, and the deposit counts as profit, the withdrawal as loss;
  `daily_loss_limit.py:13-14` says transfers are neither.

`BoundaryFirst` too is checked and proved for one runtime only, where no compare-and-swap
is lost. With two, a cycle whose time close loses its compare-and-swap twice is blocked but
still catches up to its slot (`service.py:1159`, on purpose: management cannot clear the
earlier failure), past the boundary of a position that stays open until the next cycle or
pass. No property covers that case.

### Observations

Noted while modelling, and shown by no run of their own. Where a module states the
formula, its comment says that it does not hold.

- A keyless write in flight at the halt leaves no run by which the bookkeeping could
  report it as the residual write (`halt.py:240`, against lines 17-18;
  `HaltGate.ResidualReported`).
- The finnhub provider replaces its cache by each answer
  (`finnhub_macro_provider.py:133`), so an active HIGH event that the next answer no
  longer lists is forgotten inside its window.
- `FXMacroDataProvider` accepts `cache_seconds` from 900 on, but `ACTIVE_WINDOW` is an hour: with
  less than that the second refresh forgets an event inside its window. The runtime uses
  the default of six hours (`service.py:127`), which is what `MacroAssumption` says.
- Collecting health again from the same rows counts nothing twice, but it may raise
  "reused with different content" and leave out the rest of that probe, although
  `health_probes.py:12` calls it idempotent: an observation carries what may have changed
  since it was collected under the same id, the scheduler's state (lines 60, 68-76), the
  macro provider's health, or, of a run that was open then, the time (lines 148, 180)
  (`system_health.py:355`; `SystemHealth.RecollectionIdempotent`).
- The demo history is read CLOSED before OPEN (`oanda_readonly.py:442`): a trade that
  closes in between is in neither list, although lines 16 and 229 promise no partial
  totals (`DemoReadCache.TotalsAreWhole`). A session that waits for another's read
  may be handed a stale result older than `TRADES_STALE_MAX_SECONDS`.
- Policy D drops an obstacle that rounds into the entry's own grid cell
  (`target_planner.py:5-8`).
- Rows of the opposite policy inside `save_paper` are flagged
  NON_ECONOMIC_EVENT_IN_WRITE (`rex_chain.py:303`), and keyless writes make a period
  CERTIFICATION_INVALID: such periods are never certified.
- A pullback trade whose process dies between the broker's acceptance of a partial and
  its row's update sends the partial again on the next tick
  (`broker_demo_router.py:1239-1262`); `reconcile` settles no PARTIAL or TRAIL latch,
  that is left to the operator, whose release may leave the row with a wider stop
  than the broker's.
- The outbox of manual closes is marked SENT when the sink took the report, even if it
  was queued and later dropped; the sink remembers a report's key before the queue
  refuses it.
- A restart inside the active window of an event forgets it when the provider no longer
  lists it.
- Only the provider's own filter keeps a bar that starts at the cycle's time out of a
  scout's frame; its mask would admit it.

## Not modelled and why

- `pending_order_gate.py`: reached only with conflict control; its cancels and fills are
  the compare-and-swap writes of `PaperCycle` under further gates.
- The Friday pre-flatten alert: a pure window function behind one alert.
- `ui`: rendering, translation, sign-in. Its writes to the system are the operator
  actions of `BrokerDemoRouter` and `BrokerSends`, its reads of the broker
  `DemoReadCache`.
- `scripts`, the tests, the laboratory under `replay`: tools run by hand, with no effect
  on trading state. Of the verifiers the oracle and the certification are modelled, the
  halt verifier and the economic verifier are not.
- Providers' formats, HTTP and calendar pages: a read succeeds with data of a small
  set, or fails. AI prompts and the content of an answer: an answer is what the validator
  makes of it.
- V1 `simular_trade_plan`, the network part of `investigacion.py`, and printing.
- DXtrade beyond the opening request: its other calls are not wired to the router.
- In the modelled components: in the router prices and sizes, the dry run,
  `emergency_close_all` and its environment switch; in the paper engine the Day-1 rule,
  the max-hold days and the catch-up route over the evidence store; database write
  failures except where a module says so (`DailyLossLimit`, `RunEvidence`,
  `HaltGate`); journal texts and reports; the watchdog and the stall dump.
- In `RunReproduction`, branches the oracle has no rule for are marked `odd` and are what
  `OracleExact` excludes: exits by duration and in the Friday window, a halt at a
  write that is not an entry, plans of pairs without a rate, a retried macro review, an
  unhealthy AI provider, evidence that could not be read, a foreign writer, the opposite
  policy, an unconfirmed halt, errors at submit and at exit.
- One hazard of the list has no property: the process dies after a lost close answer and
  before the latch is written (`broker_demo_router.py:1315`). The durable row cannot tell
  that a close was ever sent, so nothing about it can be promised; the broker refuses
  to close what is closed.

## Plan

Done: the core (`BrokerDemoRouter`, `PaperLedger`, `PaperCycle`), the modules of `Signals`,
`Execution` and `Observation`, and the proofs of *What is proved*. Next:

- the pending-order gate over `PaperCycle`'s writes, and the runner's lock file with
  its watchdog.
