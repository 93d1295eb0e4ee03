# Verification of auto-stock-trading

TLA+ models of `auto-stock-trading`: of what decides whether an order goes out, whether the store knows what became
of it, whether a scheduled job runs when it should, and whether what is collected, computed and shown about the
market and the account can be relied on.  TLC checks them on small instances, TLAPS proves the most important
statements for every value of the constants.  All paths below are relative to
`src/backend/src/auto_stock_trading/` unless they start with `docs/` (then relative to `src/`).

Contents: 1 the system, 2 modules and code, 3 runs and findings, 4 bounds and fairness, 5 proofs, 6 observations,
7 what is left out, 8 plan.

## 1. The system

Several processes share one PostgreSQL database, one Valkey and one broker (Korea Investment & Securities, "KIS"):
the API process, the scheduler, one or more dramatiq workers, the notification listener, the notifier, and the
commands an operator runs.  They do not call each other: they interact through rows, through cron messages on a
queue, and through the broker.  Every command is asynchronous code in which each database transaction and each call
of the broker is a point where the other processes may run.

| Component | State it keeps | Operations | Interacts with | What is hard | What makes it correct |
|---|---|---|---|---|---|
| State graphs and day rule: `domain/orders/{models,recovery}.py` | none | `next_order_state`, `next_automation_state`, `is_stale_trading_day` | everything below | every writer has to ask them | an order that has ended stays ended; yesterday's switch is off |
| Automation switch: `adapters/database/trading_store.py`, `application/trading/startup.py`, `worker/execution/planning.py`, `api/app.py` | the `automation_state` row of an environment | `transition_automation` from seven kinds of callers | start of the API and the listener, the command line, synchronisation, planner | callers overlap between SELECT and UPDATE; the date changes | only a person's command of today turns it on; a process start turns it off; a stop lands |
| Submission and stop: `application/trading/submission.py`, `worker/execution/submission.py` | `order`, `order_event` rows | `submit`, `emergency_stop`, `withdraw_planned_orders` | switch, broker, the listener's heartbeat | calls that fail after they took effect; withdrawals and stops beside a loop over a list | one broker order per order; none is forgotten; a stop reaches what is open |
| Fill tracking: `application/trading/notifications.py`, `domain/orders/{notifications,fills,session_close}.py`, `OrderSubmitter.synchronize` | `order` rows, listener sessions, problem events | `attach`, `heartbeat`, `handle`, `synchronize` | the broker's websocket and daily report, switch | lost, late and early notifications; two writers of absolute quantities; sums that hide differences | the store never claims more than happened; what it does not know it reports, and trading pauses |
| Revision, replay, attestation, explanation: `application/trading/{revision,notifications,attestation}.py`, `adapters/database/trading_{revision,notification,attestation,reconcile}_store.py` | the broker's number in the row, stored frames, evidence | `revise`, `replay`, `attest`, `resolve` | a person, the listener, the broker | each reads in one transaction and writes in a later one, beside the others | every share is in the row, under way or in a record; what is wrong blocks the live gate |
| Planning: `application/trading/planning.py` | plans, order rows, notes, daily counters | `plan`, `save_plan`, `pause` | risk engine, market data, orders under way | counters read one after the other, and before the plan is saved | plans one after the other keep the limits together |
| Risk engine: `domain/risk/engine.py` | none | `evaluate_plan` | planning, revision | many limits, rounding, orders that share a limit | no set of orders breaks a limit; no candidate vanishes |
| Scheduled jobs: `application/scheduled_jobs.py`, `adapters/database/scheduled_job_repository.py`, `worker/*_schedule.py` | `scheduled_job_run` rows | `claim`, `complete`, `fail` | queue, every collecting service, submission | doubled and late messages, crashes, runs longer than the lease | one holder of a key at a time; only it reports; success is final |
| Outbound notifications: `application/notifications/dispatch.py`, `adapters/database/notification_store.py` | outbox rows, the projection's mark | `dispatch` | order, automation and risk events, Telegram | events committed late; sent and not marked; overlapping polls | no event is missed; a repetition has a cause |
| KIS coordination: `adapters/brokers/kis_{coordination_valkey,http,realtime}.py` | credentials and request slots in Valkey | issue, look up, invalidate, reserve | every call of KIS | a lock that runs out, crashes, refused keys | one issuer at a time; no expired token is sent |
| Market calendar: `application/market_calendar.py`, `domain/market_data/calendar_logic.py` | versions of a trading day | collection from KRX, confirmation by KIS | jobs, the submission's gate | two sources that cross each other | what lets orders out is borne out by both |
| Market data stores: `adapters/database/market_data_*.py` | versions of bars, flows, profiles, shares | save, confirm | KIS, KRX | the same fact seen twice, in either order | versions form a chain; confirmed means seen twice |
| Sweeps: `application/{stock_universe,etf,universe_investor_flows,financial_statements_universe}.py` | status rows | one collection for each symbol | KIS, OpenDART | failures, time limits, quotas, overlaps | no gap without a word |
| Corporate actions and adjusted prices: `adapters/database/market_data_{corporate_action,exdate,adjustment}_*.py`, `domain/market_data/adjustments.py` | versions of actions, datasets | collect, confirm ex-dates, build | DART, KODEX, calendar, bars | corrections, overlapping writers, readings of different moments | a date in the past stays as it was known; the series is the wealth of a holder |
| Strategies and backtests: `domain/strategies/`, `application/backtests/` | runs, trades, curves | one run | datasets, reports | the order of events within a day | the trades explain the account |
| Machine learning: `application/ml/training.py`, `features/` | models and evaluations | train, apply | bars, reports | looking ahead; readings that are corrected meanwhile | no label is judged by what it saw |
| Financial indicators: `domain/fundamentals/`, `application/financial_indicators.py` | reports, share classes, quotes | indicators, valuation | collections, API | statements of many shapes; separate readings | true or missing, never wrong |
| Console: `adapters/database/{trading_reader,gate_reader}.py`, `domain/{risk/utilization,gate/readiness}.py` | none | use of the limits, readiness | all records | an answer of several queries and of definitions of its own | it never looks better than the records |
| Realtime socket, frontend, deployment, parsing of documents, the other API routes | little | I/O | | | |

`PROJECT.json` lists them with their status, and under `hazards` each place in the code where something hard to test
can go wrong, with the properties that watch it.

## 2. Modules and code

```
OrderModels <- Automation <- Submission        JobLedger <= ScheduledJobs     (<= : implements)
     ^             |             |                               |
     |             +------+------+                         |
     |              SubmissionProofs          Planning - PlanningProofs
     +-- FillRules <- FillTracking - FillTrackingProofs      Outbox - OutboxProofs
     |         ^----- OrderRepair - RepairProofs
     +-- Planning         RiskRequests -> RiskEngine - DecisionProofs
     +-- Console ------------------------------------------+
Strategies <- Backtests   Fundamentals    Training --------+
FactVersions, MarketCalendar, KisCoordination, Sweeps - CollectionProofs
CorporateActions  AdjustedPrices

SumTheorems: used by PlanningProofs, FillTrackingProofs, RepairProofs, DecisionProofs, CollectionProofs

MCSubmission  MCFillTracking  MCScheduledJobs  MCOutbox
MCDecisions  = Automation | RiskRequests | Backtests | Training | Fundamentals | Console
MCCompanions = Planning | OrderRepair | MarketCalendar | KisCoordination | FactVersions | Sweeps
               | CorporateActions | AdjustedPrices
```

`MCDecisions` and `MCCompanions` are disjoint unions: their components share no state, a behaviour belongs to the
component that its first state names (`part`), and the others rest.  TLC so explores each component completely, and
no more than that.  A `...Contract` is the conjunction of the promises of one component; each promise is a named and
commented definition in the component's module, and a mutant breaks one of them.

**OrderModels** holds the two transition tables and the rule of the stale day.

**Automation** is the switch.  `row` is the `automation_state` row (a row that was never written is DISABLED and
without a day, as `current_automation` reads it).  A call of `transition_automation` takes up to three steps:
`Check`, the pre-check that some callers make in a transaction of their own; `SelectRow`, which reads the row and
asks the graph; and `WriteRow`, the UPDATE by id (or the INSERT, which the unique environment may refuse).  The
SELECT takes no lock, so `Interleaved = TRUE` lets callers overlap there; `FALSE` is a deployment in which they
happen not to.  `Begin` is the start of a command: it takes the Seoul date once.  `orderedOn` is a history variable:
the day on which a RUNNING request was last committed, and only the manual command makes such requests.

**Submission** extends it by the commands of `worker/execution/submission.py`.  `orders` are the order rows,
`placed`, `working` and `tried` the broker's side, `job[c]` what process c is doing.  `submit` is `StartSubmit` (the
day rule) - `SwitchStep` - `Answered` (is it RUNNING?) - `PassGate` (calendar, order window, heartbeat) -
`ListPending` - and for each order `Send`, then `RecordSubmission` or `RecordRejection`.  `emergency_stop` is
`StartStop` - `SwitchStep` - `Answered` - `ListOpen` - `Cancel` for each order.  `withdraw_planned_orders` is
`ListPlanned` - `Withdraw`.  `SendFails` and `CancelFails` are calls that raise, before or after the broker took the
order; `Crash` is the death of a process at any step.  `lost` is a history variable: the numbers of accepted broker
orders that no row and no process knows any more.

**FillTracking** is the listener and the synchronisation beside the broker's book.  The listener's states are `dead`
(its next start disables trading), `down` (between two sessions), `attaching` (`StartSession`: the session row
exists, the heartbeat counts), `attached` (`CheckGap`: unsettled orders were recorded as possibly missed) and
`subscribed`.  `Receive` looks the order up, `Apply` is `_apply` with `apply_notification` (on the row as it was
read, **FillRules**) and `record_notification` (which asks the graph about the row as it is), `Pause` the pause that
follows a problem.  `SyncFetch`, `SyncRead`, `SyncApply`, `SyncCompare`, `SyncExpire` and `SyncFinish` are the stages
of `synchronize`, each a transaction or a call of its own.  `setting` fixes the environment: does the daily report
list orders, may orders go out before the socket is subscribed, how often may the connection break.

**OrderRepair** follows one order through everybody who may put its row right: the listener, a revision (which closes
a broker number and opens the next), the replay of stored notifications, a person's attestation, and a person's
explanation of a problem.  Each reads the row in one transaction and writes it in a later one.  `muddled`, `lost`,
`hasty`, `dropped` and `unheard` are history variables that name the known ways in which shares or numbers slip away,
so that the promises say: nothing slips away in any other way.

**Planning** makes plans beside each other and one after the other: the readings one at a time (`Snapshot`,
`CountOrders`, `CountRejects`, `Quotes`, `Pending`, `Evaluate`), the pause, the note of a lack of room and the rows
of `save_plan`, while orders are submitted, filled, recorded and withdrawn.  Every share costs 1.  **RiskEngine** is
`evaluate_plan` as a machine - `Gate`, `Seed`, then candidate by candidate the loop that cuts a purchase or a sale
into orders - with the prices and limits as they are; **RiskRequests** enumerates its inputs.

**JobLedger** is what ADR-0006 promises of claims: grant, report, final results.  **ScheduledJobs** is how the code
does it: a cron message is taken up (`Start`), the key is computed from the start time, `Claim` is the upsert with
its lease condition, `Operate` the job, `Settle`/`LoseLease` the report with the owner's token, `Escape` an
exception that the job does not catch, `Crash`/`Restart` the process.  `KeepsLedger` is the refinement
(`INSTANCE JobLedger WITH ...`).

**Outbox** is a poll of the notifier, one step per transaction and per message: `ReadMark`, `ReadEvents` (the
anti-join), `SaveOutbox`, `SetMark` (first poll only), `ListPending`, and then `Send` and `Settle` for each message.
A message tells of one event or, when more than `PollCap` rows are pending, of the whole list; `Settle` marks one
row.  `event` are the rows other processes write: `Stamp` takes the time, `Store` commits, in any order.  `told`
counts, on Telegram's side, the messages that told of an event.

**KisCoordination**: a call looks for its credential in memory, in Valkey, takes a lock that runs out by itself, looks
again and only then asks KIS; each REST request, that for a token included, reserves a slot first.  All times are
counted down in units in which the code's margins keep their order.

**MarketCalendar** keeps the versions of one trading day: collections from KRX (annual list and notices), the claims
of both jobs, and the answer of KIS that confirms or contradicts the version it was asked about.  **FactVersions**
are the versions of one fact under overlapping collections, for each kind of table.  **Sweeps** are the collections
over a list of symbols, with failures, time limits, quotas and status rows, for seven kinds of facts.  **CorporateActions**
keeps the versions of dividends while two writers collect and confirm; **AdjustedPrices** builds datasets from
bars and actions that are corrected meanwhile.

**Backtests** (with the rules of **Strategies**) is a run of either engine, day by day; **Training** a training and a
backtest that applies its model, over bars that are corrected in between; **Fundamentals** the answer about one
company, over statements of nineteen shapes; **Console** the two pages put together from several queries.

The lines that each definition stands for are in `PROJECT.json` under `map`.

## 3. Runs and findings

| Run | Question | Result |
|---|---|---|
| `decisions` | do the components that decide about trading keep their promises? | *switch*, callers overlapping: what counts as RUNNING was turned on by a person today (`RunningWasOrderedToday`), a process start finds or makes it DISABLED (`StartDisables`), a stop gets into the row (`StopLands`).  *Risk engine*: all purchases together fit all limits (`PurchasesFit`); decisions agree with orders, no share is sold twice, no candidate vanishes (`EvaluationIsSound`); an evaluation ends (`EvaluationEnds`).  *Backtests*, *training*, *indicators*, *console*: the four contracts |
| `submission_faults` | two submitters of one order over two days, crashes, failing calls | every broker order is stored, held or known to be lost (`Accounted`); a stored number stays (`NumberIsKept`); an order goes out only on a day on which a person turned trading on (`SentOnlyOnOrder`) |
| `submission_stop` | one submitter, an operator who withdraws, stops and switches | one broker order per order (`NoDuplicate`); after a stop that stays submission ends (`StopEndsSubmission`); what was open at the stop gets its cancel request (`StopReachesOpenOrders`) |
| `submission_twice` | `NoDuplicate` with a failing call | violated: finding 1 |
| `submission_withdrawn` | a withdrawal beside a submission | violated: finding 2 |
| `fill_tracking_day` | two orders, daily totals only (the paper environment), two lost connections | what the day's end closes is true of each order (`DayEndIsTrue`); a late synchronisation with totals ends with true rows or with the trading off (`DayEndIsNotSilent`) |
| `fill_tracking_one` | one order of three shares, every partial execution, partial cancel, rejection and loss; on paper, and with a report per order | no more stored than happened or was ordered, and ended rows stay (`StoreClaimsNoMore`); quiet rows are true, reported, or PARTIALLY_FILLED (`SilentMeansTrueButPartial`); a problem of the listener pauses trading (`ListenerProblemStops`) |
| `fill_tracking_parts` | one order in three executions, nothing lost | `SilentMeansTrue` violated: finding 3 |
| `outbox_delivery` | two pollers, late commits, a backlog above the cap, two mishaps | no event a poll is to report is missed (`NothingIsForgotten`); sent means told, failed means tried (`RowsTellTheTruth`); each repetition is paid for by a mishap (`RepeatsArePaid`) |
| `scheduled_jobs_daily` | a key per day, three workers, late and doubled messages, faults, long operations | claims implement the ledger (`KeepsLedger`); a valid lease is not taken (`LeaseIsRespected`) |
| `scheduled_jobs_slot` | a key per minute, as order submission has it | `SlotSucceedsOnce` violated: finding 4 |
| `companions` | do the components beside the order path keep their promises? | the contracts of planning, repair, calendar, coordination, versions, sweeps, actions and prices |

The contracts, part by part:

* `PlanningContract`: plans made one after the other fit the limits together (`PlansFitTogether`); the lack of room is
  noted once a day for a symbol and limit (`NotedOnce`, which is less than ADR-0020 says: observation 13); a stored order
  is never rewritten (`RowsAreNeverRewritten`); rejections before a resumption do not stop a later plan (`FreshStart`).
* `RepairContract`: `EveryShareAccounted`, `NumberIsHeld`, `RepairedEndIsTrue`, `GateCountsDivergence` (a row that
  disagrees blocks the live gate), `ExplainedIsForeign` (no explanation takes an own order out of that count).
* `CalendarContract`: `HistoryIsChained`, `AllowedIsBorneOut`, `VerdictsStay`, `PendingCanBeAsked`.
* `CoordinationContract`: `NothingSentExpired`, `OneIssuerAtATime`, `NoNeedlessIssue`, `RefusedIsGone`.
* `VersionsContract`: `VersionsAreChained`, `ConfirmedWasSeenTwice`, `VersionsAreFrozen`, `ReceptionNeverGoesBack`.
* `SweepsContract`: `NothingMissedSilently`, `RunningIsExplained`, `RefusedOncePerSweep`, `EditionsNeverGoBack`.
* `ActionsContract`: `ActionHistoryIsChained`, `ExDateIsRight` (judged by the settlement of KRX), `OncePerRecordDate`,
  `PastStaysKnown`, `ConfirmationsSurvive`.
* `PricesContract`: `SeriesIsWealth` (a published series grows as the wealth of a holder who spends the cash on more
  shares), `NothingLeftOut`, `PublishedIsCurrent`, `DatasetsAreFrozen`.
* `BacktestContract`: `TradesExplainTheAccount`, `OnlyTheChosenAreHeld`, `EveryDecisionIsNoted`, `NoRoundTrip`,
  `LosersAreSheltered`, `AllOrNothing`, `RunIsWhole`.
* `TrainingContract`: `NoLabelReachesValidation`, `NoSignalWasLearnt`, `HashesNameTheirInputs`.
* `FundamentalsContract`: `TrueOrNothing` (judged by well kept books), `EpsIsTheCommons`, `NoClassIsForgotten`,
  `CapIsOfOneQuotation`, `ValuationIsNotOlder`, `SectorReasonIsRight`.
* `ConsoleContract`: `FreeIsTrue`, `AlarmIsTrue`, `ReconciledIsTrue`, `QuietIsTrue`.

Each property of a passing run has a mutant in `PROJECT.json`: a small change of a definition, of the kind a mistake
in that code would be, under which TLC refutes the property.

### Findings

1. *A lost answer duplicates an order* (`application/trading/submission.py:302`).  When the broker takes an order and
   the call raises, the row stays PLANNED and the same command, given again, sends it again.
   `docs/data/order-submission-contract.md:267` promises one broker order.
2. *A withdrawal cancels a submitted row* (`adapters/database/trading_store.py:576`).  The list of PLANNED rows is read
   without a lock; a row that becomes SUBMITTED before its turn is transitioned SUBMITTED to CANCELED, an edge of the
   graph.  The broker order works on, and synchronisation and stop look at open rows only.
3. *The middle part of an execution is dropped* (`application/trading/notifications.py:349`).  A result is written only
   when the state differs, so PARTIALLY_FILLED to PARTIALLY_FILLED neither adds nor reports.  The final part then does
   not complete the order either.
4. *A doubled message runs a slot twice* (`worker/execution/submission_schedule.py:134`).  The key is the minute of the
   start; a second message of the slot taken up a minute later has another key.

## 4. Bounds, abstractions and fairness

Order path:

* Two callers of the switch, two processes of a submission: every hazard there is between two commands; a third
  repeats one of the roles.  The theorems of section 5 do not bound them.
* `MaxDay = 2`: the day rule compares a record's day with today; two days give the same and an earlier one.  In
  Submission the day changes between commands only: the order window (09:00-15:20) ends hours before midnight.  In
  Automation it changes under calls.
* `MaxFaults = 2`: a failure, and a failure while recovering from it.
* `Size = 3` shares in `fill_tracking_one`: first, middle and last part of an execution.  Two orders in
  `fill_tracking_day`: sums of two can agree while the orders do not.  The settings (`maxDrops` up to 2) combine a lost
  connection with one lost again before the gap is settled.
* OrderRepair: three shares notified one by one, or two shares whose notifications may share a frame; one revision,
  attestation, replay and explanation each, so that every pair of writers meets.
* Planning: two planners, two symbols, room for two more shares or none, two plans, one trouble; `PersonPauses` happens
  before the first resumption only.
* RiskEngine: `RiskRequests` enumerates the requests: two candidates of two symbols, prices and rooms that lie just
  below, at and above a limit (30,832 states).
* `Lease = 2`, `MaxTime = 5`, `MaxRuns = 4`: a first run, a takeover, the late report of the first, and a run more.
* Outbox: two events with `PollCap = 1` are a summary of two or two single messages; `MaxTime = 1` gives a late commit
  its earlier time, `DayLength = 1` makes it a later day as well; `MaxAttempts = 2` (5 in the code) is a retry and a
  last one; `MaxMishaps = 2` combines, for example, overlapping polls with a lost answer.  The code reads 1000 pending
  rows at once; with two events `ScanLimit = 2` never cuts the list.

Market data:

* Two processes that overlap everywhere (`Processes`), one of each kind of key or table at a time.
* KisCoordination: lifetime 4, margin 3, wait 2, lock 2, slot 1 keep the order of the values in the code: the lock runs
  out before a waiting process gives up, and a wait is shorter than the margin.
* FactVersions: two values, three instants around the end of an interval, three collections: a repetition, a correction
  and one that is late.
* Sweeps: two symbols, windows of two days out of three, a quota of three, two sweeps and one fault.
* CorporateActions: a dividend and a correction of its amount; a closed day before the record date, or a record date
  that is closed itself.  AdjustedPrices: a dividend with and without its ex-date, withdrawn or recorded after the
  cutoff, beside a split on the same day or a merger of shares; closes of 3 and 6; two corrections, two builds.

Computations:

* Backtests: two symbols over six days with rises, falls, gaps and days without a bar, two dividends, a report that a
  later one corrects; every strategy of the five, with and without trimming.  Three days could not hold a signal, its
  trade and a second round.
* Training: nine days, two horizons and embargoes, gaps of the benchmark and of a symbol, three windows of a backtest.
* Fundamentals: nineteen shapes of a statement (standard, former and own identifiers, restatements, doubled and blank
  rows, missing accounts), then a correction or another year.
* Console: six databases that hold losses, rejections, open orders and troubles of every age, and two facts that come
  in between the queries.

SYMMETRY is used for interchangeable processes, callers, orders and workers and only in runs without liveness.
`CHECK_DEADLOCK FALSE` stands where the system really stops: the day or the clock ends, a run is saved, the budget of
what people and sources do is spent.

Fairness: weak fairness of the steps of a command that was started (`AutoFairness`, `Fairness` of Submission), of the
listener's reading loop and of a synchronisation under way, of an evaluation of the risk engine, and of a poll of the
notifier and the loop that starts the next one (`while true; do ... --dispatch; sleep 30; done` in
`infra/compose.notifications.yaml:19`).  These are loops and asyncio tasks that nobody cancels and whose transactions
and HTTP calls have time limits.  No fairness is assumed of people, of the broker, of the calendar, of messages, of
faults, of restarts, of Telegram, nor of starting any other command.

Abstractions: in Submission, FillTracking and OrderRepair prices are left out (each share counts as one unit of
amount) and symbols always match.  In Submission the listener and the synchronisation are the single action
`Observe`, which is truthful; FillTracking is about how far that holds.  FillTracking's frames carry one
notification, OrderRepair's up to two.  A synchronisation with an unavailable report counts as `Unavailable` totals.
An order of FillTracking reaches the broker at most once, because Submission is about the rest.  Ratios in RiskEngine
and Console are compared by multiplication, and Console rounds as the page does.

## 5. Proofs

Eight modules hold theorems and lemmas: seven EXTEND the modules they are about, **SumTheorems** holds facts about
sums and smallest counterexamples that five of them use.  Every theorem is for all values of the constants that satisfy the named assumptions of
section 5.3.

### 5.1 What is proved, and along which argument

**SubmissionProofs**, the switch.  `AutoTypeCorrect`: types.  `OrderedTodayCorrect`: `RunningWasOrderedToday`, from
`RunningRowIsOrdered` - a RUNNING row carries the day of the last manual start - which each UPDATE keeps because
RUNNING is asked for by the manual command alone and each UPDATE writes the day its command began with.
`CommitsCorrect`: `CommitsFollowSight`, of every committed change - the caller selected a record from which the graph
allows it (`SelectedIsAllowed`), only a person's command lets trading begin (`AskedByKind`, `OnlyPersonsStart`), the row
bears the day of the command.  Neither needs the transitions to exclude each other.  What is lost when they overlap is
that the record selected is still the row: that is the last part of `CommitsFollowSight`, which says `Interleaved` or
equal, and observation 1 is what happens otherwise.

**SubmissionProofs**, order submission.  `Inv` = types, `HeldNumbers` (whoever holds a number is about to record it and
placed the order it stands for), `StoredNumbers` (a planned row has none), `SweptNumbers` (what a stop lists has one),
`Accounted`.  `AccountedCorrect` and `NumbersKeptCorrect` follow.  `NoDuplicateCorrect` is about one submitter and no
faults, which is what `submission_twice` shows to be needed; `OnceInv` adds that only the submitter submits
(`OnlySubmitters`), that a placed order's row has left PLANNED or is being recorded (`PlacedMovedOn`), and that its
list holds no order that was placed before, but the one it is recording (`FreshList`).  `SentOnOrderCorrect`
(`SentOnlyOnOrder`) is for any number of processes, faults and days: `DayInv` says that the calls of the switch are of
today (`CallsAreOfToday`), that a submission's own call only ever asks for DISABLED (`SubmitAsksForDisabled`), and that
who has passed the gate was let through by a switch turned on today (`PastTheGateOrdered`).

**SumTheorems** (sums over finite sets).  The community modules fold a function over a set by recursion on its subsets.
That such a sum is a natural number, grows with its parts, changes by one part when one part changes, splits over
disjoint sets and agrees over sequences follows by induction over finite sets, which is done by the smallest
counterexample (`SmallestSubset`): the subsets at which a claim fails, if there are any, have a minimal one, because
strict inclusion among the subsets of a finite set is well founded.  The other modules use the same argument, over sets
or over natural numbers, wherever a definition is recursive.

**PlanningProofs**, plans.  `PlansCorrect` gives the whole `PlanningContract`: `PlansFitTogether`, `NotedOnce`,
`RowsAreNeverRewritten` and `FreshStart`, for any number of processes, symbols, orders and fills and for any limits.
`PlanInvariant` = `PlanTypes`, `OneAtATime` (what `overlapped` means), `AccountFits` (trades keep the net asset value),
`PlansFit` (what a plan decided keeps to the limits on what it has read), `NotesFit`, `LedgerFits`.  The limits are not
inductive as they stand, since a plan stores what it decided from readings that were true one after the other.
`LedgerFits` therefore says of the plan at work that its readings still cover whatever can happen (`ReadsFit`): before
it reads the pending exposure, what fills have added to the account since its snapshot belongs to orders that it will
find pending (`StillPending`, over the orders executed since; `missed` says that one was recorded in between); afterwards, account and outstanding
shares together are at most what it counts; and purchases of the day only go down until a plan is stored.  Every step
but `Save` settles the sums (`Settles`: no sum over the outstanding orders grows), and a stored row adds exactly what
was decided.  That the evaluation decides within the limits is an induction over the candidates (`EvaluationsRecur`,
`Decisions`).  That the cash remains follows from the exposure and `RatiosAssumption`.

**PlanningProofs**, claims of scheduled jobs.  `TypeCorrect`; `LeaseCorrect`: a worker at its operation holds the row of
its key or its lease has run out, from `TokensAreFresh` (a token belongs to one worker and is no greater than the
counter) and `ExpiryIsOwners`; `LedgerCorrect`: the refinement `KeepsLedger`, initial states to initial states and each
action to a step of the ledger or a stutter.

**DecisionProofs**, `evaluate_plan`.  `RiskTypeCorrect`: no running sum falls below zero.  `PurchasesFitCorrect`:
the purchases of one plan keep every limit together, by induction over the steps, for any limits, account, prices and
number of candidates: each cut of `BuyQuantity` leaves what remains of each limit at least zero.  `DecisionsCorrect`:
the whole of `EvaluationIsSound`.  `SoundInv` adds to the invariant that the candidates before the one at work are
treated (`Behind`), that the one at work is fit and still wants or offers all while it has no order (`AtWork`), and what
each row says (`Decisions`); that a quantity cut by one formula passes decisions made by another is the arithmetic of
`LotsCost` and `OrderSizeHolds`.  `SalesInv` adds up the sales: what the rows of the candidate at work offer is what it
counts, and no symbol has two candidates (`CandidatesAssumption`).

**DecisionProofs**, training.  `TrainingCorrect` gives the whole `TrainingContract`.  `TrainInv` adds to its three
promises the types, in which the calendar rises (`Rises`), and what links what is read at one moment with what is used
at a later one: a label looks a horizon ahead in the same calendar (`LabelsFit`), no training goes on without an
embargo that covers the horizon (`EmbargoHolds`), a model's last label is no further than a horizon after its last day
and its start an embargo after it (`ModelFits`), what was used is hashed, in a version older by at most the corrections
since (`VersionsCount`, `HashFits`), and what a backtest applies is no newer than what it will hash (`AppliedFits`).
Without a stored start the days are counted in the calendar of the window instead, and agree with the training's only
because a rising calendar that lacks no day is 1, 2, 3, ... (`WholeIsAll`); hence the premise of `NoSignalWasLearnt`.

**DecisionProofs**, the console's pages.  `ConsoleCorrect` gives the whole `ConsoleContract`, for any limits, database
and whatever is stored between the queries.  `CsInv` says of each value what it tells about its rule (`ReadingsTell`),
whether it is read already or would be read now: below the limit the rule was free at some moment of the reading, at
the limit it stopped a plan or an error that can be seen explains it.  A write keeps this because the history of the
rules runs on with it (`GrowthKeepsLimits`): one more attempt that reaches the limit is an attempt of today, one more
snapshot cannot be the first of a day that has one.  That the shown ratio reaches one exactly when a count reaches its
limit, and for losses never late and early by less than half a unit, is arithmetic of rounded quotients (`CountUses`,
`LossUses`).  For the gate a count of zero keeps its meaning until the page is shown (`GateInv`): whatever stands is
among the problems that are counted (`StandingInv`), and as many days as the window reach back as far (`WindowReaches`).

**FillTrackingProofs** (fills).  The invariant is `FillInv` = types, `BookFits`, `FillFitsOrder`, `Follows`,
`HandFits`, `SyncFits`.  Its core is `Follows`: for each order, what is stored, plus what the listener holds, plus
each of the notifications under way, climbs towards the broker's total without passing it - and that after each
notification, not only after the last (`Climb`).  Losses shorten the climb, a synchronisation may jump to what the
daily report said, which `SyncFits` bounds by the book.  `ClaimsCorrect` gives `StoreClaimsNoMore`, `FillTypeCorrect` the types.

`DayEndCorrect` (`DayEndIsTrue`) adds `DayInv`: of a rejected order nothing was executed and nothing is open after the
session (`BookOfTheDay`), notifications say what the broker did (`HonestNotices`), and a late synchronisation holds the
final totals (`LateTotals`).  Stored fills that are nowhere above the book's and equal to it in the sum are equal one by
one.  `DayEndSpeaksCorrect` (`DayEndIsNotSilent`) follows: a late synchronisation that has the totals ends by its last
step, which asks for a pause when they differ, or at a refused expiry, and that it only tries when they agree
(`ClosingEnds`).  `SilenceCorrect` (`SilentMeansTrueButPartial`) adds `SilentInv`: a listener without a subscription has nothing
in its hands (`NothingUnderWay`), a session that was attached has looked at all that may have been missed
(`AttachedKnows`), and from then on stored and notified shares make up the broker's, unless a problem is on record or
the row has passed SUBMITTED (`SubscribedHears`).

**RepairProofs** (one order and those who write its row).  `RepairCorrect` gives the whole `RepairContract`, for any
number of shares, revisions, replays, attestations and explanations.  The invariant is `RepairTypes`, `NumbersFit` and
`SharesFit`.  `NumbersFit`: the number the broker works on is in the row or in the hands of who records it
(`NumberIsHeld`), a revision that records has closed the number of the row (`ReviserFits`), and what a person explains
is nobody's number (`ResolverFits`); `ExplainedIsForeign` is a part of it.  `SharesFit` has `EveryShareAccounted`
- a sum over the numbers of the book on one side, over frames under way, the frame in hand and the stored notifications
that wait on the other - and what each writer holds: listener, attestor and replay write what they have read, or are
marked as overtaken (`ListenFits`, `AttestFits`, `ReplayFits`), an execution that waits has its number on record
(`Filed`), and the row asks for at least what the book does (`QuantityFits`).  `RepairedEndIsTrue` and
`GateCountsDivergence` follow.

**OutboxProofs** (notifications).  `TypeCorrect`: types.  `RowsCorrect`: what a row says of its message is true, from the
contents of batches and rows (`Contents`) and from the hands of the polls (`HandsOK`).  `RepeatsCorrect`: an event is
told of at most once plus the mishaps; `Budget` counts the tellings done and the polls about to tell against one plus
the mishaps, with `PollCap < ScanLimit` for the summaries.

**CollectionProofs**, credentials and request slots.  `CoordinationCorrect` gives the whole `CoordinationContract` from
`KisInv`: a token that is taken up outlasts the wait for a slot (`TokenOutlastsWait`), whoever asks within its lease
holds the lock (`Locking`), a credential found missing under the lock stays missing (`MissingStaysMissing`), refused
keys are nowhere (`KeysOK`).

**CollectionProofs**, versions.  `VersionsCorrect` gives the whole `VersionsContract` from `FactInv`: the stored
versions are chained (`HistoryOK`), what each process holds was received before now and its snapshot is older than
what is stored (`EntriesOK`), and each version was seen when it says so (`RowsSighted`), so that a confirmation needs
a second sighting.  Every step of a collection changes the history in one of four ways (`FirstVersion`, `NextVersion`,
`Renewal`, `Finality`), and each way keeps the chain.  `CalendarCorrect` gives the whole `CalendarContract` from
`CalInv`: an answer in the hands of a confirmer says of the day what the broker said (`HeldInTheCalendar`), so that a
row it confirms - which need not be the row the broker was asked about - has the broker's word for its own facts
(`WordIsTold`); a claim that has ended well belongs to a version that is no longer pending (`PendingCanBeAsked`).

**CollectionProofs**, sweeps.  `SweepsCorrect` gives the whole `SweepsContract` from `SwInv`: of every sweep on its way
it is known (`Good`) that an answer in its hands has what was published when it began (`Answers`, `AskedFor`), that what
it skips is stored (`SkipsFit`), and that each task before its place is done or named (`SoFar`).  What other sweeps store
and the source publishes cannot undo this (`GoodGrows`), except for the kinds whose last writer wins, which is why the
promise about gaps holds of those only while no other sweep begins (`FirstIsAlone`).  That the windows leave out no day
(`ChunksCover`) and that the tasks leave out no window (`FlattenHasAll`) makes every fact of every symbol part of a task
(`TasksAre`).  Each refusal by the quota is paid for by a sweep that began or a fault (`KnocksFit`).

TLC agreed with each invariant on a small instance before it was proved.  None of the promises is inductive as it
stands: each speaks about rows only, and a row is written from what a process read earlier, so the invariant has to say
what may be in its hands.

### 5.2 Model-checked only

* Liveness, which needs fairness and ENABLED: `StartDisables`, `StopLands`, `StopEndsSubmission`,
  `StopReachesOpenOrders`, `EvaluationEnds`, `ListenerProblemStops`, `NothingIsForgotten`.
* The contracts of corporate actions, adjusted prices, backtests and indicators.  Backtests,
  prices and indicators compute with folds of products, ratios and quotients, non-linear arithmetic that the provers
  decide badly.  Nothing but the work stands in the way of that of corporate actions.
* The types of the two unions, `DecisionsTypeOK` and `CompanionsTypeOK`, which are stated in the MC modules.  Those of
  Automation, RiskEngine, MarketCalendar, FactVersions, KisCoordination, Planning, OrderRepair and Training are proved, as
  theorems or as parts of the invariants above.

### 5.3 Assumptions

The ASSUMEs stand in the modules that declare the constants, and TLC evaluates them in every run.  Most say that
bounds are natural numbers.  Those that carry an argument:

* `KisAssumption`: `WaitLimit < SafetyMargin` and `LockTtl <= WaitLimit`; the code waits up to 50 s, locks for 45 s and
  shares no token that runs out within 60 s.
* `OutboxAssumption`: `ScanLimit > PollCap`.
* `RiskAssumption`: the limits are natural numbers, and a loss limit is no more than everything.
* `CandidatesAssumption`: no two candidates of a request are of one symbol.  `signal_candidates` takes them from two sets
  without a common symbol, every other caller names one.
* `RatiosAssumption`: the total exposure and the cash that must remain are together no more than the net asset value;
  the code has 0.80 and 0.20 of it (`domain/risk/limits.py`).
* `FillAssumption`: the orders are finitely many.
* `ConsoleAssumption`: a limit on losses is no more than everything, and the database that is asked is one its writers
  leave (`Consistent`): snapshots in the order of their days, an order of today planned with a snapshot of today, a
  problem about an order on record or about none.
* `TrainingAssumption`: a training, a validation and a horizon have at least one day, as `walk_forward_folds` checks, the
  universe has a symbol, and the signals of a window are trading days.

`DayEndIsTrue`, `DayEndIsNotSilent`, `SilentMeansTrueButPartial` and the first part of `StoreClaimsNoMore` carry the premise `~ perOrderRows`, which is
the paper environment: its daily report has totals alone, see observation 4.  `PlansFitTogether` carries `~ overlapped`
and `~ missed`: plans that are made at once, or between whose readings an order is filled, do not fit together, see
observation 13.  The bounds of the model (`MaxFaults`, `LastTick`, `Size`, ...) are arbitrary in the proofs, and no proof
uses that they are small.

## 6. Observations

What the models show beside the four findings.  No run refutes them.  Of most no document says otherwise, or the code
errs on the safe side.  Where a document or a comment does say otherwise, its line is named here: observations 2, 11, 12,
13, 17, 18, 21, 23, 24 and 26.  There the model and the properties follow the code, and a property that holds does not
say that the document is kept.

Order path:

1. Two transitions that overlap may leave the graph: a pause that read RUNNING before an emergency stop was committed
   overwrites it with PAUSED.  `StopLands` still holds: the stop was in the row.  `CommitsFollowSight` holds as well: the
   edge leads from the record that the pause had selected.
2. A switch left ARMED by an earlier day goes straight to RUNNING by a manual start on the new day, since
   `set_automation_state` does not ask `is_stale_trading_day`; `docs/spec/trading-safety-policy.md:131` says that a day
   change always returns to DISABLED.  It is a person's command of today all the same.
3. The heartbeat opens the submission gate before the socket is subscribed (`worker/execution/notifications.py:165`),
   so an order sent in between may be executed unseen and unreported until the day's end (`earlySubmit`).
4. Where the daily report lists orders, an execution that the report has counted is counted again when its
   notification arrives later (`perOrderRows`).  The paper environment has no such rows.
5. A submission that passed its gate before a stop sends the rest of its list after the stop, and these orders get no
   cancel request from it; that the list is finite is `StopEndsSubmission`.
6. `emergency_stop` given while the switch is at the stop raises at the transition and cancels nothing, so a sweep that
   failed half way cannot be repeated by the same command.
7. An exception of the block recorder (`worker/execution/submission_schedule.py:115`) leaves a claim RUNNING without a
   result.  Since the key is the minute, nobody reclaims it.
8. `synchronize` asks for PAUSED whatever the state is; from DISABLED and from the stop the graph refuses and the
   command raises, after the problems were recorded.  A transition that the graph refuses in the middle, in `apply_fill`
   or `expire_order` (`application/trading/submission.py:328` and `:386`), ends the command before the problems found so
   far are recorded (`:346`) and the pause is asked for (`:352`); the next synchronisation finds them again.
   `DayEndIsNotSilent` covers those ends where the totals are known; without totals nothing is said of an executed order
   whose submission was never recorded.
9. EXPIRED is missing from the terminal states of the notification path (`domain/orders/notifications.py:44`): a late
   partial cancel reduces the quantity of an expired row.
10. The notice of a revision that arrives after `record_revision`, and an execution under a new number before it, count
    as an unknown order and pause trading; when the answer of a revision is lost, nobody learns the new number.
11. A replay of a partial cancel at PARTIALLY_FILLED marks the record resolved without writing the quantity; a replay
    applies the whole frame, whatever `application/trading/notifications.py:182` says; a problem of a cancel notice is
    filed under the cancel's own number.  An attestation of PARTIALLY_FILLED can overwrite what the listener wrote
    meanwhile.

Plans and limits:

12. The rule of the quote's age cannot fire in a plan; `buy_amount_query` leaves out what a canceled or expired order
    bought (`docs/spec/trading-safety-policy.md:43`); the opening value is the day's first snapshot even when it is not
    reconciled.
13. The same signal planned again may make new orders; a rejected row's identity blocks a real order of that day; a
    missing instrument row ends `save_plan` after notes and pause were stored.  A fill between two readings of one plan
    is in neither; pending exposure counts sales; PLANNED sales are not taken off what can be sold.
    `record_no_capacity` looks for the symbol and the rule (`adapters/database/trading_store.py:229`), so that a symbol is
    noted, and told of, once for each limit that left it no room that day.  Decision 4 of
    `docs/decisions/0020-no-capacity-is-not-a-rejection.md` (line 91, and 168 on its implementation), the comment at
    `trading_store.py:224` and `domain/notifications/events.py:59` say once for each symbol.  Three plans one
    after the other do it: the first buys the symbol's whole place; the second, before that is executed, finds no room under
    the symbol's limit and plans the sale of another holding; for the third that sale counts as exposure and the total
    binds.  (With `MaxPlans` = 3, `MaxAttempts` = 3, `MaxTrouble` = 0 and one process TLC reaches it; the bounds of
    `companions`, two plans, stop before.)
14. A purchase within one share of its target may be REJECTED with every decision passed; holdings outside of the
    candidates count as unclassified.

Messages and jobs:

15. A row that one poll marked sent is pending again when an overlapping poll marks it failed afterwards
    (`adapters/database/notification_store.py:341`); the event is told of once more, which `RepeatsArePaid` counts.
16. Before the first mark is stored, a poll that dies leaves the start of the projection to the next one; if that runs on
    a later day, late commits of the first day are not projected.
17. Sends of requests may be closer together than 1.05 s, only the reservations are not
    (`docs/decisions/0005-*`); issuing may overrun its lock, and a waiting process gives up although a token is stored.
    The approval key in memory never expires; `invalidate_approval_key` may delete a newer key of another process, and
    when it fails the refused key stays.

Collected data:

18. `mark_sync_succeeded` overwrites the FAILED row of a conflict that `save_all` recorded
    (`docs/data/market-calendar-data-contract.md:146`).  A refresh does not move `valid_from`, so that an older, differing
    observation may replace facts confirmed later.  An answer of KIS to one version marks a newer one as a conflict even if
    KIS agrees with it, which closes the gate.
19. Listed shares and ETF indexes take an older observation as the current one; a late bar rolls its whole bundle back; a
    bar counts as confirmed even when the confirmed version was superseded a moment ago.
20. A failed window of bars followed by a successful one leaves SUCCESS; a lost `mark_failed` replaces the error of the
    quota and the sweep goes on knocking; `last_success_at` may go back; after New Year `collection_plan` no longer asks
    for last year's interim reports; NAV and preferred quotes have no time limit.
21. A backfill of an older range after a correction lets the older filing supersede; with three processes a confirmation may
    get lost; overlapping first collections may leave two current actions of one record date; a gap of the calendar
    makes an ex-date too early; an entry that disappears from the KODEX page is never cancelled; a correction that moves
    the record date becomes a second action (`docs/data/corporate-action-adjusted-price-data-contract.md:157`).
22. Overlapping builds may leave two published datasets or let the older supersede the newer; a failed build leaves the
    former one published; two cash events of one day are compounded; a dividend without an ex-date whose record date lies
    just after the cutoff is left out.

Computations and pages:

23. Portfolio backtests differ from `docs/data/backtest-strategy-contract.md` in three ways, and `BacktestContract` follows
    the code in each.  An execution day without a bar is carried over to the next one by `:67`, which `:148` takes over for
    portfolios; in the code the symbol drops out of the round, with a record `missing_confirmed_bar`
    (`domain/strategies/portfolio_backtest.py:268`), which `OnlyTheChosenAreHeld` exempts and `EveryDecisionIsNoted` counts
    as the record.  A signal that is not executed by the end of the window is recorded by `:68`; the round of a portfolio's
    last day leaves no record (the single engine's does, as `window_end`), and `EveryDecisionIsNoted` speaks of executed
    rounds only.  The place is the value at the start of the round by `:159`; `_rebalance_trades` (line 300) takes the value
    at the close of the execution day and trades at its opening, so that the exception of `NoRoundTrip` is reachable.  The
    single engine never carries over either: a history that lacks a bar is refused (`:37`).  Besides, the portfolio loader
    calls every symbol a share although an ETF is exempt from the tax.
24. The training's calendar is the days with a bar of the benchmark, not the verified calendar
    (`docs/data/ml-signal-contract.md:39`), so that a gap of the benchmark lets a label reach an accepted signal when the row
    has no `out_of_sample_start`; the labels read bars again that no hash names; a saved backtest lacks the model's id
    (`docs/data/ml-signal-contract.md:125`).
25. A missing net income of a financial company is explained by the sector although its revenue is there; the complement
    of another total may by coincidence make the owners' profit; classes that leave the list are never ended; price and
    count of a class are read by two transactions.
26. The page of the limits asks `recent_states_query` without the last resumption (`adapters/database/trading_reader.py:492`), although
    `docs/architecture/tech-stack.md:468` says that both paths share the definition: after a person resumed, it shows the
    rejections used up while plans pass.  Its day is that of the newest snapshot.  The gate's page loses incidents of the first
    day before 09:00 (`func.date` in UTC) and before the first plan; a problem about an order that has ended is settled
    from the start; `duplicate_orders` is always 0.  The gate cannot pass, since five conditions are not measured.

## 7. What is left out

Of the modelled components: the warning about unobservable orders; frames that cannot be parsed; an attested expiry; the
in-memory coordinator of a single process; rows of the sync status beyond those Sweeps needs; opening, high and low prices,
volumes and rounding of adjusted factors; metrics of backtests; coefficients, features' and metrics' values of models; the
gate's conditions that a person judges or that merely count; the eight limits of single orders on the console's page; what
the scheduled jobs collect, apart from the modules about it.  Of the system: the realtime socket's framing and
encryption, the frontend, the deployment and most routes of the API, which return stored rows as they are - see
`PROJECT.json` for the reason of each.  Floating-point statistics, parsing of documents and rendering are outside what
TLC can decide.

## 8. Plan

1. The proof of a contract that is only model-checked: the chain of the actions' versions.
2. The refinement of one evaluation of Planning by RiskEngine: what Planning does in one step, the engine does
   candidate by candidate.
3. An attested expiry in OrderRepair, and the chain of the two calendar jobs over ScheduledJobs.
