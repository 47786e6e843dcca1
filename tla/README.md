# QuantHub in TLA+

A verification development kept beside the QuantHub repository: TLA+ modules for
the parts of the program whose correctness depends on interleavings, failures
and order, TLC configurations that check them on small instances, and proofs
TLAPS checks for every value of the constants.

`PROJECT.json` holds the machine-readable side: components, runs, the source
lines each definition translates (`map`), hazards, findings, theorems, and for
each checked property a mutation of the code that breaks it (`mutants`; the
mutated forms stand in the modules, right before the definition they replace).

## 1. The system

QuantHub is a quantitative-research platform: a FastAPI application
(`apps/api`, with some thirty `domains/`), a separate order-execution service
(`apps/okx_runner`), a signal dispatcher (`apps/dispatcher`), a scheduler
process (`apps/scheduler`), shared `core` and `packages`, strategies, and a
React front end.

Three facts about its execution shape every model:

- FastAPI runs each plain `def` route in a worker thread, so two requests of one
  service really interleave, and module-level objects are shared by all of them.
- The Runner keeps its state in SQLite through `database.connect`, with Python's
  default isolation: a SELECT starts no transaction, the first write does, and
  leaving the `with` block commits. A check made by a SELECT is therefore stale
  by the time of the UPDATE that follows it.
- `apps.api.store` takes one process-wide lock and one transaction per call:
  one call is one atomic step, two calls are not.

### Inventory

| component | state | operations | hard behaviour |
|---|---|---|---|
| Runner: order lifecycle (`engine.py`, `okx_adapter.py`) | tables `orders`, `order_events`, `fills`; what each worker thread has read | submit, cancel, amend, recover_open_orders, `_transition` | the exchange answers late, partly or never; crash between commit and call; check and write in separate statements |
| Runner: risk gate (`engine.py`) | `risk_states`, `reconciliation_diffs`, open rows, the position at the exchange | `_validate_risk`, `_risk_snapshot`, set_risk_mode, reconcile, resolve_diff | four reads at four moments before an order leaves; lost answers |
| Runner: reconciliation (`engine.py`, `okx_adapter.py`) | `reconciliation_diffs`, `fills`, `balance_snapshots`, `position_snapshots`; what each pass has read | reconcile, resolve_diff, replay, shadow and package import | the exchange is read in several calls and the tables in several statements; passes overlap; the list of trades is a window |
| Runner: reconciliation scheduler (`reconcile_scheduler.py`, `main.py`) | one shared object: thread, stop event, configuration | configure, start, stop, loop | start and stop from several requests; join timeouts |
| Runner: private stream (`private_ws.py`, `ws_manager.py`) | the manager's client and thread; per client an event loop, stop event, attempts | start, stop, reconnect, REST compensation | starts that cross; a stop before the loop begins; reconnect limits |
| API: analysis tasks (`domains/tasks`) | `analysis_tasks`, `research_runs`, an in-memory executor queue, `_submit_lock` | create, poll, cancel, retry, execute | two executor threads and any number of requests rewrite the same rows; restart loses the queue |
| API: automation runs (`domains/automation`, `apps/scheduler`) | `automation_runs`, executor queue, a second process | submit, execute, retry, acknowledge, recover | check then create; recovery of runs another process is executing |
| API: simulation orders and ledger sync (`domains/simulation`) | `simulation_orders`, `simulation_executions`, `ledger_trades`, `signals` | create, fill, cancel, sync | exactly-once copy of an execution; which execution was mine |
| API: ledger (`domains/ledger`) | trades, cash, corrections | record, correct, positions, FIFO matching | reversal through zero, order of equal timestamps |
| signals and dispatcher (`core/signals`, `domains/signals`, `apps/dispatcher`) | the bus's handlers, the aggregation buffer, signal rows | publish, review, flush, route, confirm | buffer filled and flushed by different threads; review against conversion |
| API: alerts (`domains/alerts`) | `alert_rules` with `last_checked_at`, `alert_events` | check by the monitor, by requests and by automation; enable, delete | several checkers of one rule; time taken, signals read, check saved and event stored one after the other |
| API: public streams | one thread per stream | start, stop | stop before the loop exists |
| the rest (research, factor factory, strategy lab, governance, backups, market data, packages, strategies, PA agent, web, tools) | single-statement tables or none | queries and calculations | little protocol; numerical |

How they interact: the web front end calls the API; the API's trading domain
forwards to the Runner over HTTP; the Runner's scheduler thread calls
`engine.reconcile`, which like every request goes through the same SQLite file
and the same exchange; automation and alerts run inside the API process beside
the analysis executor; the scheduler process shares the API's database;
simulation reads signals and writes the ledger; strategies publish to the bus,
which the dispatcher and the API subscribe to.

What makes each modelled component correct:

- *order lifecycle*: an intent leaves the process at most once, whatever is
  retried; no row claims more than the exchange did; nothing recorded is
  forgotten; every request ends.
- *risk gate*: the account's limit holds along every sequence of operations;
  leaving normal mode stops new orders; normal mode does not come back again and
  again over an unresolved difference.
- *scheduler*: one loop at a time, for the configured account, and a stop ends it.
- *analysis tasks*: a task is executed by one thread, one live task answers a
  request, over is over, research runs are closed, and tasks end.
- *simulation orders*: an execution is booked in the ledger once, a signal makes
  one order, the filled quantity is that of the executions, the limit holds, no
  execution is left without somebody to copy it, and the three ways to compute a
  position and its result agree.
- *automation runs*: no unfinished run is forgotten, each has one executor, one
  scheduled run of a job is under way, a retry follows the run it repeats, over
  is over, and every run ends.
- *private stream*: one stream at a time, an end only for a reason, and a stop that
  takes effect.
- *reconciliation*: what is recorded was a difference at some moment of the pass, what
  stays different is recorded, and no change of a balance or a position that is
  shown goes by in silence; each but for words of the exchange the code misreads.
- *alerts*: a signal is notified once, and none that a check has passed is lost.

## 2. Modules

| module | what it is |
|---|---|
| `OrderIntent` | abstract: what is promised of one order intent (recorded, sent once, a verdict only on what was sent) |
| `RunnerOrders` | the order lifecycle by worker threads, crashes and the exchange; implements `OrderIntent` |
| `RunnerRisk` | the risk gate, risk modes and open differences, with the lifecycle reduced to what the gate reads of it |
| `RunnerReconcile` | reconciliation passes that overlap each other, the orders and the account |
| `ReconcileScheduler` | the scheduler object, its loop threads and the requests that start and stop it |
| `PrivateStream` | the stream manager, its clients and their event loops |
| `AnalysisTasks` | analysis tasks: request threads, `_submit_lock`, the executor queue, executor threads, research runs, restart |
| `LedgerLots` | the arithmetic of positions as three pure folds: ledger, simulation account, FIFO matching |
| `SimulationOrders` | paper orders with the signals they convert and the ledger their executions are copied to; uses `LedgerLots` |
| `AutomationRuns` | automation runs between the API process and the scheduler process, an executor in each |
| `Alerts` | one alert rule and those who check it |
| `Sums` | sums over finite sets and sequences, and loops over a sequence: theorems the proofs about limits and books rest on |
| `BackgroundProofs` | the theorems about `Alerts`, `ReconcileScheduler` and `PrivateStream` |
| other `*Proofs` | the theorems about the module of that name |
| `MC*` | the module of that name with the constants or symmetry sets of its configurations; the other modules are checked as they are |

How they hang together: `RunnerOrders`, `RunnerRisk` and `RunnerReconcile` are three
views of one engine and one database. Each has the other two in the form it
reads them: `RunnerRisk` knows a row as open, unknown or final and the
differences as a number; `RunnerReconcile` lets rows and exchange move as
`RunnerOrders` allows (`Insert`, `Arrive`, `Apply`, `NoAnswer`) and leaves what
becomes of a difference to `RunnerRisk`. `ReconcileScheduler` decides when a pass
begins; any number of passes may overlap because HTTP requests begin them too.
`SimulationOrders` composes signals, orders, executions and ledger in one state.

### RunnerOrders and the code

The columns of an order that matter are `status`, `known` (an external order id
is stored), `filled` and `terms` (quantity and price as one value). A thread has
a program counter and the local variables of its handler: the intent in hand,
the answer it is about to apply, the amendment asked for, the rows a recovery
pass has still to query. A handler is cut at each call of the exchange, at each
committed write, and between the SELECT and the UPDATE of `_transition`:

    submit    SubmitLookup  SubmitInsert  SubmitSend
              SubmitAnswered | SubmitTimedOut, SubmitQuery | SubmitRaised
    cancel    CancelRead  CancelSend
    amend     AmendRead  AmendSend  AmendNote
    recover   RecoverRead  RecoverFetch (once per row)
    all       TransitionRead  TransitionWrite

`ExternalStatus` is `EXTERNAL_STATUS` with its default, applied to the words the
adapter can pass on, those missing from the table included ("closed"). The
exchange is external: it accepts or refuses a submission, possibly after the
Runner gave up waiting (`VenueDecide`), fills and cancels. A local status that
carries no execution data leaves the fill columns alone, as COALESCE does.

### RunnerRisk and the code

One account, one symbol, a long position, quantities in lots at a constant mark
price: with these the exposure check of `_risk_snapshot` and `_validate_risk` is
`position + open rows + request <= limit`. `Begin` is the lookup and the mode
check, `Snapshot` the position from the exchange, `Decide` the open rows and the
verdict, `Insert` and `Send` what submit does then; an amendment takes the same
gate. `Asked` lists the intents and lots users ask for. `Send` lists what can
become of a submission: accepted, refused, timed out and arrived or not, and
accepted but stored as rejected because the library reported the lost answer
with an exception of its own. `VenueLate` is a submission that arrives after its
timeout. `losses` counts the answers that were lost in a way the row does not
show (that last case, and an amendment accepted without an answer). The modes
other than normal differ in what an operator may do next, not in what the gate
lets through, and are one value.

`overtaken` is a history variable: something a thread had read and acted on was
no longer so. It is set when an order is approved while another approved one is
not recorded yet, when an order becomes final between a thread's reading of the
position and of the open rows. `LimitHolds` speaks of what goes on without it.
`restored` counts, per thread, how often it wrote normal mode since a difference is
open: a reconciliation can commit one between the count and the write of
`set_risk_mode` (`engine.py:988`), so this does happen, and the property says how
often. Rows of unknown outcome have no exchange number here, because every query
finds what got there, and are not amended; that a query comes too early to find
the order is in `RunnerOrders`.

### RunnerReconcile and the code

A pass is cut where `reconcile` is: `ShowOrders` (the list of orders, some of
which are on neither of its pages), `ShowAccount` (trades, balances, positions),
`ReadOrders`, `ReadFills`, `Recover` (one query per row that was on no list), and
the transaction that begins with the first write. With a difference or a fill to
write, the last snapshots are read inside that transaction (`Commit`); with none
the first of them is read before it (`ReadBaseline`, `CommitAccount`), which is where
another pass can come between. `Fail` is a call that raises: nothing has been
written.

Statuses are those the code stores, and what the exchange says goes through
`EXTERNAL_STATUS` with its default. An order has one of OKX's states; the raw calls
give that state and the lists give CCXT's word for it (`ListWord`), which is
external. The code does not know "closed" and takes it for UNKNOWN, and "open" stands
for a partially filled order too. So a FILLED row is recorded as different when a
list says "closed", a PARTIALLY_FILLED one when it says "open" (`Misread`), and an
UNKNOWN row whose order is "closed" compares equal and is never recorded (`Alike`).
The properties except these rows and no others.

Rows move as `_transition` lets them: what an update has read may be any status
the row has had since (`Read`, `had`), the table of `TRANSITIONS` is applied to that,
and the status written is the one of an answer the exchange gave at any earlier
time (`Answers`). A final status can therefore be overwritten, as in
`orders_final`.

Balances and positions are compared key by key (`AccountDiffs`), and only the keys
of the new snapshot are: one that vanishes is left without a word, and one that
is new is stored without one. `Amounts` are what the exchange says of a key, two
numbers in the code; a mark price is one of them. Trades and balances are two
calls but one step, because no difference is about both. Fills are known by their
place in the exchange's list of trades; `Recent` is the window `fetch_my_trades`
returns.

`differed`, `lasting` and `still` keep the history of one pass, `Watched`: what
differed at some moment of it, what differed all through it without its row being
written, and which keys stood still. `said` is the amount last reported of a key or
stored as its first, and `overtaken` the keys whose snapshot one pass has stored
between another's read and write: if the amount then returns to what the other
had read, the change goes by. All passes are alike and the others act on the
same tables whether or not their own history is kept, so one watched pass stands
for any.

### ReconcileScheduler and the code

Each short section under `_lock` is one action, but for `configure`, whose test and
assignment are two, because a loop can be launched between them; `start` is test,
creation and launch of the thread (the test and the launch stand outside the
lock), `stop` is setting the event, reading `_thread` and joining. A join may end by timeout at
any moment. The loop checks the event, reconciles and records, and waits; a
record that cannot be written ends the thread, because `_persist` stands outside
the `try`. The displayed status counters are left out. `raced` remembers that
a start passed the test while another one was between its test and its launch;
`bypassed` that a configure passed its own while a thread was created and not yet
launched, which is not alive then and may be when the account is assigned.

### PrivateStream and the code

`WsManager.start` is one step per access to what threads share: the check of the
thread, the client, the thread object, the choice of `self._thread` to start and
the launch (`StartCheck` ... `StartLaunch`). A client is where its `arun` is: checking
the stop event, connecting, connected, lost, compensating by REST, settled,
waiting. A client and its thread have one number. Messages are left out: the
manager gives the client nobody to hand them to. A compensation that fails and one
that succeeds both go on to the next try. `_log` writes the evidence, and when it
cannot be written the exception leaves `arun`, wherever it is called: that ends the
stream, and `unwritten` holds the clients it happened to (`MaxUnwritten` bounds
them). `collided` is as `raced`.

### AnalysisTasks and the code

A row is its status, its fingerprint (what was asked and the research run a retry
continues), the research run its result names, and whether it succeeded in part.
A request or executor thread carries the copy of the row it has read. One call
of the store is one action. `submit_task` is FindActive, then Duplicate, or
ExpireFound and RefreshFound, or CreateRow, all under the lock; Enqueue is
outside it. `_execute_task` is Take, Claim, the analysis, CheckCurrent and Store;
`_run_evaluation` is StartRun, SaveProgress, per module CheckStopped and
RunModule, then CloseRun; GiveUp and Raise are its other ways out. A single
analysis opens a research run of its own or one its payload names
(`start_module`), and completes it (`complete_module`); what fails in that is
swallowed, and the task goes on. Two reads of the row before each module, with
only a write of progress between them, are one (the later one decides). The
modules a retry leaves out are no part of the fingerprint: two requests that
differ in them alone are one in the model.

`late`, `broken` and `untold` are history variables that name the places where the
code does not keep what it otherwise keeps, so that the properties can say "but
for this race": a stop written between a worker's reading and claiming a task, a
run whose worker raised or was killed, and a run that a single analysis opened
and could not record to the end.

### SimulationOrders, LedgerLots and the code

The rows of signals, orders, executions and ledger are the state; one call of
the store is one action. `create_order` is `CreateLookup`, `CreateAccount`
(`account_snapshot`), `CreateDecide` (open orders and `evaluate_risk`) and
`CreateInsert` (order and signal in one transaction, behind two unique indexes);
`fill_order` is `FillRead`, `FillCommit`, `FillPick` and the copy: `SyncBook`,
`SyncNote`, or `SyncFail`. `executed_at` is read before the lock is taken, so an
execution may sort before those committed meanwhile (`timeline`). `review` reads
and writes in two calls. The isolated account is that of the factor factory; its
orders are those of the market execution class "historical_closed_bar_simulation",
by which the code knows them, because nobody else orders in it.

`account_snapshot` and the open orders are taken from lists of at most 10 000
orders of an account, whatever their status (`Page`, `Listed`): beyond that an
evaluation leaves executions and open orders out. An order has its average price
as `value`, that price times what is filled, so that it is exact; `Reconciled` is
all three comparisons of `account_snapshot`, without its tolerance of 1e-8.

`excused` says that an order was accepted on an evaluation that did not cover what
there was, in one of four ways (`loose`); `crossed` names the orders of which two fills were under way together.

`LedgerLots` translates `apply_trade`, the loop of `account_snapshot` and
`match_closed_trades`. Amounts are whole numbers of 1/36, so that the average
costs of an instance are exact and "about zero" is zero: none of its divisions
leaves a remainder, in any reachable state. On other trades `Added` rounds down,
where the code rounds to what its numbers hold.

### AutomationRuns and the code

The table of runs is shared; each process has the queue and the workers of its
executor in memory. `submit_run` is `SubmitCheck`, `SubmitFind` (scheduled runs
only), `SubmitCreate` and `SubmitDispatch`; `_execute_run` is `WorkerTake`,
`WorkerStart`, then success and its audit, or failure. `retry_run` acknowledges
the failed run before it submits. `recover_pending_runs` reads the list
(`ApiStart`), then marks and hands over one run after the other. APScheduler runs
one dispatch of a job at a time, so a job is also the name of its cron thread.

The recovery lists the newest 10 000 runs of any status and filters them
afterwards (`Window`, `Unfinished`). `lost` holds the unfinished runs whose process,
worker or caller is gone since the API last started, `beyond` those the API found
too old to list when it started, `taken` those it took up although the scheduler
had them.

### Alerts and the code

A check is `Read`, `Start` (the time is taken), `Look` (the latest signal after
`last_checked_at`), `Save`, `Send`, `Insert`; it may be cut off anywhere. `Publish`
inserts a signal whose time is now or earlier. The history variables are sets of
signals: notified, notified again, found by a check that another overlapped or
after its time was taken, and lost in one of the four ways the code has (it came
late, gave way to a later one, fell into the quiet period, or its check was cut
off after the save). Signals of one and the same `ts_epoch` are one signal here (the
latest one is looked for, and of two the query returns either); that an insertion
drops a repetition within 300 seconds (`store.py:1685`) and that only the newest 2000
signals are kept (`signals/service.py:133`) are left out.

## 3. Runs

State counts are distinct states.

| run | instance | shows |
|---|---|---|
| `orders_threads` | 2 threads, 1 intent of 2 lots, 1 crash (64 000), fairness | one submission, no row ahead of the exchange, stored terms were accepted, the refinement of `OrderIntent`, and every request that began ends |
| `orders_final` | 2 threads, 1 intent | *violation*: a final status is overwritten (finding 1) |
| `risk` | 2 threads, 2 buys and a reduce-only order, limit 2, 1 lost answer, 1 difference (7 125 000) | the limit holds until an answer is lost or a check is overtaken; one late order per thread; at most one stale return to normal mode per thread |
| `scheduler` | 3 request threads, 2 accounts, 3 loops, 1 failed record (412 000), fairness | one loop, its account stands, a stop takes effect, until two starts cross or a configure meets a thread about to be launched |
| `tasks_places` | 2 clients, 2 workers, 2 tasks of an evaluation and a single analysis, 1 restart (6 092 000) | one place per task, one live task per request, over is over, runs settle |
| `tasks_ending` | 1 client, 1 worker, 2 tasks of an evaluation and a single analysis (152 000), fairness | a live task that is held comes to an end |
| `simulation` | 2 threads, 2 orders from 5 requests, 1 signal, 3 executions, lists of 1 order, 1 restart or correction (668 000) | booked once, one order per signal, fills add up, the limit holds, no fill forgotten, results agree |
| `simulation_booked` | the same without restart or correction | *violation*: an execution nobody copies (finding 2) |
| `automation` | 1 job, 1 request thread, 1 worker per process, 2 runs of which the recovery lists 1, 1 fault, 1 change of the flag (213 000), fairness | none forgotten, one executor, one scheduled run, retries follow, over is over, every run ends |
| `private_stream` | 2 callers, 3 clients, 1 reconnect, 1 unwritten record (421 000), fairness | one stream, an end only for a reason, a stop takes effect |
| `reconcile` | 2 passes, 1 order, 1 key with 2 amounts, window of 1 trade, 2 changes (479 000) | no false alarm but of misread words, nothing lasting overlooked, changes reported |
| `alerts` | the monitor and 1 request, frequency 2, quiet at 2, 3 moments (1 300 000) | notified once, nothing else lost |

Why the bounds suffice. Every property here fails, where it can fail, by two
actors meeting on one row, so two threads (callers, passes, checkers) and one
row to meet on is what each run has; the mutants confirm that the instance is
large enough for the property to be broken. Two lots give the partial fill; one
crash separates "before" from "after", and a second one starts from a state the
first could leave. In `risk` the two buys can be below, at and above the limit
with quantities 1 and 2, and the reduce-only order is what can be mis-summed.
Three loops are two restarts of the scheduler, three clients one more than can
cross. Two tasks are an original and its retry on the same research run. Two
runs are a run and its retry, or a scheduled one and the next. Three stream
clients are two that crossed and a fresh start. In `reconcile` one order with two
trades and a window of one lets a fill leave the window, and two amounts of a key
are what an older snapshot stored after a newer one needs, and an amount that
returns. The order and the key have nothing in common but the moment at which the
snapshots are read, so `MCRunnerReconcile` looks at both together only as long as
the order has had no answer and no trade (`OneAtATime`), and lets the pass beside
the watched one interfere with an order only by importing its trade
(`OthersImport`): it writes nothing else the watched pass reads of orders. The instance
without these constraints is too large for a run of a few minutes; the theorems
have no such bound. In `tasks_ending` one worker is enough: workers share the queue and
the research runs, and no worker reads a run. A window of one run with two runs,
and a list of one order with two, leave one out; that orders left out of a list
let the limit be exceeded needs a third order, and is in the proof
(`ExposureIsKept` holds for every `Page`). Three
moments of time with a frequency of 2 give a check that is due, one that is not,
and a signal between two checks. In `simulation` the two requests on one signal
race for it, the sale of two lots turns the position through zero, and three
executions let two fills cross before a third. The theorems below cover most of
the safety properties for every bound.

Deadlock is not checked in any configuration: in each the system may come to
rest (all orders final, no request to make, all loops created).

Symmetry is used for threads, clients and workers, only in runs whose properties
are invariants or `[][A]_v` formulas.

### Fairness

- `RunnerOrders!FairSpec`: weak fairness of each thread's own steps once its
  request has begun. The operating system schedules worker threads, and each
  call of the adapter returns or raises (the library has timeouts). Nothing is
  assumed of the exchange, of crashes, or of new requests.
- `ReconcileScheduler!SchedulerFairSpec`: a request in its handler and a launched loop go
  on. Nobody has to start or stop the scheduler.
- `AnalysisTasks!FairSpec`: executor threads take what is queued and go on, and
  a request in its handler goes on. The lock is held over a few store calls
  only, so weak fairness of a waiting submission is what the operating system
  gives; users owe nothing.
- `AutomationRuns!FairSpec`: callers and workers go on while their process does,
  and the API is started again after it stopped and goes on with its recovery.
  No store call has to succeed, and nobody has to submit, retry or acknowledge.
- `PrivateStream!StreamFairSpec`: the event loop of a client goes on. Requests owe nothing,
  and a quiet stream receives nothing; that a stop is seen there at all is what
  `_watch_stop` gives, which polls the event every 0.2 seconds beside `recv`.

## 4. Findings

1. `_transition` (`engine.py:537-597`) checks a status in one statement and
   updates it in another, by order id alone: with two workers a final status is
   overwritten, although the code raises "cannot transition final order" against
   exactly that (`orders_final`).
2. `fill_order` (`service.py:528`) reads its order again after the commit and takes
   the last execution for its own: of two fills that cross, both copy the later
   one, and the earlier is never written to the ledger, although
   `docs/ARCHITECTURE.md:144` says that every one is (`simulation_booked`).

Met on the way. These are named in the models and excepted by the properties
that meet them, so that what does hold can be checked and proved; most are
hazards in `PROJECT.json`.

- Runner. Two submissions approved against one sum exceed the limit together
  (`engine.py:234`, `overtaken`). `submit` (`engine.py:503-511`) stores REJECTED for
  exceptions that do not mean a refusal; the order may work at the exchange, and
  its row then differs in every reconciliation and its fills are never imported.
  A difference can be committed between the count and the write of
  `set_risk_mode` (`engine.py:988`), and the account then trades on over it: once per
  worker thread, as `AtMostOneStaleRestore` bounds it. A row that cannot take its answer ends the
  recovery pass for the rows behind it (`engine.py:971`).
- Reconciliation. The word "closed" is not in `EXTERNAL_STATUS` (`engine.py:28`): a
  FILLED row is recorded as different when a list calls its order so, and an UNKNOWN
  one is not. "open" makes a difference of a PARTIALLY_FILLED row. A balance or
  position that vanishes from the snapshot is never reported, nor one that is new
  (`engine.py:1107`, `:1146`), nor one that returns to an amount after another pass has
  stored a different one between a pass's read and write. Position differences
  appear whenever the mark price moves. A
  fill that has left the window of `fetch_my_trades` is reported as missing by
  every later pass, or never imported. A change may be reported twice by
  overlapping passes.
- Scheduler and stream. Two starts that cross make two loops, or two streams of
  which the manager knows one (`reconcile_scheduler.py:70`, `ws_manager.py:55`). A
  configure that meets a thread created and not yet launched (`:81`) exchanges the
  account under the loop, against its own check. A record that cannot be written
  ends the scheduler's loop silently (`:156`); evidence that cannot be written ends
  the stream (`private_ws.py:306`).
  `arun` clears the stop event when it begins (`private_ws.py:141`), so a stop
  before that is lost. Attempts are never reset after a good session (`:144`).
- Tasks. A cancel during the last module is recorded on the task and overwritten
  on its research run (`tasks/service.py:474`). When recording a single analysis
  fails, the error is swallowed and its research run stays running
  (`strategies/service.py:454`, `news/service.py:217`). `resume_pending_tasks` (`:604`)
  is called nowhere.
- Simulation. `docs/ARCHITECTURE.md:153` knows the sync states pending, synced and
  failed only; the code also writes "isolated". Beyond 10 000 orders of an account an
  evaluation leaves the older ones out (`simulation/service.py:285`, `:564`), and the
  limit can be exceeded.
- Automation. When the API starts it takes up what the scheduler process is still
  executing (`automation/service.py:426`). A scheduled run whose worker was lost
  keeps its job from running until then, and for ever if 10 000 newer runs keep it
  out of what the recovery lists (`:425`).
- Alerts. Checks that overlap notify twice and may set `last_checked_at` back; a
  signal that comes late is never reported; the check is saved before its event
  is stored, so a failure between loses the event.

## 5. Proofs

All theorems hold for every value of the constants that satisfies the named
assumptions of the module (`ConstantsAssumption`, `RiskAssumption`,
`ReconcileAssumption`, `SchedulerAssumption`, `StreamAssumption`,
`EvaluationsAssumption` and `BoundsAssumption`, `SimulationAssumption`,
`AutomationAssumption`, `AlertsAssumption`): sets of any size, any number of
crashes, loops, runs or tasks up to the bound, whatever the bound is. A set is
asked to be finite only where it is counted or summed over: the intents of
`RunnerRisk` and `SimulationOrders`, which are names of at most 128 characters
(`apps/okx_runner/schemas.py:28`, `simulation/schemas.py:17`). `AlertsAssumption`
asks for a clock that has a moment after zero, since zero stands for "never".

Each component has its proofs in a module of its own, named after it; the three
workers of the background, `Alerts`, `ReconcileScheduler` and `PrivateStream`, share
`BackgroundProofs`, which extends all three; that is why the last two name their
specification `SchedulerSpec` and `StreamSpec`. The library proves nothing about
sums and folds; `Sums` does.

**Sums.** The exposure checks and the books add up a function over a set,
`SumFunctionOnSet` of the community modules, whose definition is a recursive
function that takes one element after the other. `Sums` proves what is needed of
it for every finite set: that the sum exists and is a number (`SumType`), that it
does not depend on the order (`SumElement`, taking out any element), and how it
changes with one element, one value or another (`SumAdd`, `SumChange`, `SumPlus`,
`SumMonotone`, `SumFilter`). Induction over a set is not to be had from the library,
whose theorem takes a predicate as a parameter; `RemovalInduction` is induction
over the subsets of a set, stated as a set of sets, and comes from a least number
(`Descent`) and the cardinality of the set. Along a sequence a sum gains one element
at either end (`SumExtend`, `SumShift`).

The loops of the ledger are `FoldLeft`, which is defined by a recursive function
too: one over the sets of places of the sequence, that takes the greatest place
last. `FoldExists` builds such a function for every loop whose steps stay within
some set of values, and `FoldWalk` reads the steps of the loop off it: a value
before the first element, one after each, and the result at the end. From there a
property of a loop is an induction along its steps (`CountTo`). The operator a
particular loop applies cannot be a parameter of a lemma, so each loop has a lemma
of its own that leads from its `FoldLeft` to its steps (`ComputeSteps`,
`AccountSteps`, `LotSteps`, `MatchSteps`, `TradesSteps`), by the same proof.

**RunnerOrders.** `LifecycleInv` is the inductive invariant. The safety
properties are not inductive by themselves: that an intent is sent at most once
depends on what is true of a thread about to send (the row exists, nothing was
sent, and no other thread stands there: `OneSender`), and that a row is never
ahead of the exchange depends on the answers still held by threads, which must
be true of the exchange however old they are (`Witnessed`; it is stable because
fills only grow and a cancelled order stays cancelled). The proof has one lemma
per action and within it one step per conjunct the action can disturb.
`TypeCorrect`, `SubmittedAtMostOnce`, `RowsNeverAhead` and `TermsWereAccepted`
are conjuncts of it. `IntentsRemembered` needs it too: `NoIntentForgotten` is inductive
only beside what is known of a thread about to write (its row exists). `PromiseKept`
proves the refinement of `OrderIntent`: every step maps to Record, Send, Decide,
Revise or a stutter; the invariant supplies that a final status appears only on an
intent that was sent.

**RunnerRisk.** `LateInv` strengthens "one late order per thread" by: a thread
inside the gate has not sent a late order, and in normal mode the count is zero.
`OneStaleRestorePerThread` rests on `RestoreInv`: a thread that has counted no
difference, and is about to write normal mode, has restored nothing since one is
open, because the count was zero and every count of restorations with it, and
only the thread itself adds to its own.
`TypeCorrect` is the type invariant. `LimitIsKept` proves `LimitHolds`, which is far
from inductive: that position and live orders fit says nothing of an order on its
way, of one that timed out and may still arrive, or of a snapshot that fills have
outrun. `LimitInv` counts them: `Possible` is what an order may yet add, by the
exchange if it has arrived and by its row if not, and the invariant is that the
position and all that is possible stay within the limit (`Sound`). For that a
row has to bound what can still become of its order (`RowsOf`, `BoundedOf`), the
snapshot in hand of a thread has to fall short of the position by no more than
the fills that the rows it is about to read will still count (`SeenOf`), and what
was approved has to fit beside all others until it is recorded (`RoomOf`), which
only one thread at a time may owe. It holds while no answer was lost and nothing
overtaken (`Clean`), the exceptions `LimitHolds` has.

**ReconcileScheduler.** `OneLoopInv` says that, while no starts have crossed, one
client at a time is past the test, and until it has launched its loop none is at
work (`Orderly`); and that between the test and the assignment of a configure that
met no thread about to be launched no loop comes to life (`Undisturbed`).
`OneLoopAtATime` and `AccountStands` follow, for any number of clients.

**PrivateStream.** The invariant behind `OneStreamAtATime` is of the same kind:
while no starts have crossed, at most one caller is past the check and no thread
is alive under it. `StreamEndsForAReason` needs that attempts stop at the limit.

**RunnerReconcile.** The three properties speak of the step that ends a pass, so
the invariants relate what a pass holds to what has differed since it began.
`OrdersAgree`, `FillsAgree` and `AccountAgrees` say of an order, a fill or a key that
has not differed yet that it is what the pass was shown, an order in one of the
words for it, and what the pass has read: so what is recorded has differed, or is a
misread word. `LastingAgrees`: what has differed all along differs also between what the
pass was shown and what it has read; that the row is not written meanwhile and is
not what any word for the order's state is taken for is what makes this stable
under the exchange's choice of word. `Told`: what was last said of a key is its
last snapshot, unless that was stored behind the back of a pass, and what the
watched pass was shown of a key that stands still is its amount. They rest on the
types of what a pass holds, on `Grounded` (rows come before orders) and on `Fresh`
(what a pass does not know before it reads). They give `NoFalseAlarm`,
`NothingLastingOverlooked` and `ChangesAreReported` for any number of orders, keys,
passes and trades and any window. `TypeCorrect` says besides types that every fill
stored is of an order whose number the Runner knows.

**AnalysisTasks.** `TasksInv` has three parts. `PlacesInv` adds to `OnePlace`
that every id that is somewhere belongs to an existing row, so that a new id is
nowhere. `ClaimInv` says what a worker about to mark a task running may rely on.
`LockInv` says what the holder of the lock knows between its steps: the row it
found is the newest of its fingerprint, or none is live. `TaskInOnePlace`,
`OneLiveTask` and `OverStaysOver` follow. `TypesInv` adds the types of tables and
threads (`TypeCorrect`), which need that whoever carries a stop over has read its
row, and `RunsHeld`: a research run shown as running is excused (`broken` or
`untold`) or with a worker that has opened it and not closed it, which is stronger than `RunSettles` (a
worker that only writes its row does not count) and is what the steps keep when
two workers are on one run, single analyses on a run their payload names
included. `RunsSettle` follows.

**SimulationOrders.** `AtMostOneTrade` needs that whoever is about to note a copy
works on an execution that exists, belongs to the shared account and has its
trade; `SignalConvertsOnce` that a signal that was converted has its order
whatever its status is by now, the unique index doing the rest; `NeverOverfilled`
is the part of `FillsAddUp` that needs no sum. `BooksReconcile` is all of it:
`Reckoned`, that the executions of an order add up to what its row says was filled,
is kept by each fill because the new execution is the only one that is new, and
by a correction because it changes no execution; `Valued` says the same of the
average price, by the cost of the executions. `ExposureIsKept` proves
`ExposureHolds` from `Snug`: while nothing was overtaken the limit has room for
all that is open on an account (`Within`), and an evaluation that still covers what
is there, its lists having left nothing out, knows the position (before it decides) and has room for its own order
(before it inserts: `Covered`). A fill moves an order's lots from what is open to
the position, so that both sums change by the same, a cancellation takes some
away, and a fill of the other side makes more room on this one; a change that
does not is one of those that set `loose`. `EveryFillHasACopier` proves
`NoFillForgotten` from a stronger statement: the thread about to pick the
execution it has made will find that very one, because without crossing fills it
is the last of its order in the timeline (`NothingLost`, with `LastAfterInsert` for
what an insertion elsewhere in the timeline leaves last).

`BooksTellOneStory` is about calculations, and holds of any sequence of trades:
`apply_trade` and the loop of `account_snapshot` do the same to a position
(`OneRule`), so they arrive at the same one, whose quantity is what the trades add up
to (`OnePosition`); FIFO matching leaves as many lots open, each lot of a trade
moving the open lots by its sign and the balance of result and open cost by its
price (`MatchLotEffect`, `MatchTradeEffect`, `MatchingAddsUp`). The invariant it
needs says that what is read from the timeline are trades, each execution once
(`Enumerated`) and none of nothing (`LotsPositive`, which a thread about to fill
nothing must not undo: `ToFill`); then the position an order is evaluated against,
a sum over the executions in no order, is that of the account (`TradesCover`).
`BooksAreExact` adds the identity of the average cost, and with it all of
`ResultsAgree`, as long as no average cost on the way was rounded (`Unrounded`,
`AverageAddsUp`). The hypothesis is needed, since what a rounded division leaves
over is in neither account, and is met: in the instance of `simulation` it holds
in every reachable state.

**AutomationRuns.** All its safety properties are proved, on four invariants.
`IInv`: every run somebody has is in the table (`Refs`), and every unfinished run
is somewhere (`Kept`, with `Somewhere`: a worker that has written the end of its
run does not count; a run too old for the recovery's list is in `beyond`, and `Old`
says that those have that many newer ones, which no step takes away). `Exclusive`: one queue place, worker, caller or recovery has
a run, and only while it is not over (`OneHas`, `LiveWhileHad`), which needs
`Quiet`: nothing runs in a process that is down. `RetryInv`: what a call read of
the failed run stays true until it has written the retry. `CronInv`: between
finding no scheduled run and creating one, only this caller could create one.
They use two common lemmas, `TableStep` (what a step does to the table and who
does it) and `CallStep` (how a call gets from what it read to what it writes).

**Alerts.** `NotifiedAtMostOnce` needs to know that a signal once notified, or
about to be, will not be found again: `SeenPassed`, the last check that is stored
and every check under way that has read the rule are past it. It is kept because
a check that crossed none is the only one that can save (`Alone`), so nobody sets
the rule back behind it, and what it finds is newer than what it read
(`FoundNew`); `SendsOnce` leaves each signal to one sender. `SignalsAreAccountedFor`
needs its own invariant, `LostInv`: what any check under way knows to be passed is
accounted for as well as what the rule does, since each of them may become the
rule's last check (`Kept`), and whoever is about to save has found what its time
passes or it is noted as lost (`Looked`).

Only model-checked: liveness (`RequestsReturn`, `StopEndsTheLoop`, `StopTakesEffect`,
`TasksEnd`, `EveryRunEnds`), since fairness is out of the prover's reach. Of
`ResultsAgree` nothing is proved of what rounding does to the average cost, and it
would not hold: it is exact only where the divisions are. The two expected
violations are TLC's alone by their nature.

## 6. Not modelled

Listed with their reasons in `PROJECT.json` (`components`). In short: numerical
code (backtests, factors, strategies), pure queries, user interface, prompt
construction, network providers and migrations, most of whose lines have one
caller and one table at a time. The dispatcher (`apps/dispatcher`) is the legacy
path by `docs/ARCHITECTURE.md:12,123`; its one hazard worth a model is that
`flush` replaces a buffer a publisher may have appended to since (`main.py:144`).

Inside the modelled components: precision, leverage, loss and drawdown checks of
`_validate_risk` (they refuse without changing state), short positions and
several symbols of the Runner, quantities, prices and fees of orders and fills in a
reconciliation, the
content of task results, reports and evidence, what an automation job does and
its log, alert conditions other than a new signal, the event chain of orders
beyond the row it accompanies, floating-point residues in the ledger and
tolerances of comparisons, repetitions and the pruning of signals, and displayed
status counters. The limits of 10 000 rows are constants of the models (`Window`,
`Page`), and each theorem holds for every value of them.

## 7. Plan

Done: the Runner's orders, risk gate, reconciliation, scheduler and private
stream; the API's analysis tasks, simulation orders with signals and ledger
arithmetic, automation runs and alerts. What would come next, in this order:

1. The public market streams, which share the shape of `PrivateStream` with one
   thread per subscription.
2. `SignalDispatch`: the buffer, its flush and the confirmation, should the
   dispatcher come back into use.
3. The trading proxy of the API in front of the Runner: a retry at the HTTP level
   above the intents of `RunnerOrders`.

To keep the set of runs readable, closely related questions share one run.
