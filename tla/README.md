# AIOption: a TLA+ model of the trading path

AIOption scans option markets, lets a language model pick candidates, and trades
the result through a broker: it opens positions on a schedule, protects them with
stops and take-profit targets, and closes them. Around that path runs a background
of scans, alerts, reviews and automatic trading. This directory models the part
of the program where money moves and the part where several processes, threads, the
database, redis and the broker act at once. It consists of

* the **lock** of a trading run and its callers, with an abstract specification of
  what a lock is (`RunActionLock`, `RunLock`);
* the **multi-slot scheduler** (`ScheduleSlots`);
* a **single-leg position** and its exits (`SingleLegExit`), and what the trade instance
  shows of it (`TradeInstance`);
* a **strategy position** of two legs from its entry to its end (`StrategyTrade`);
* the **background processes** (`Worker`), which compose nine modules: process life,
  scan queue, notification outbox, triggers and scan loop, reviews, automatic trading,
  the daily trading run, the connection pool and the cache;

the TLC configurations that check them on small instances, and proofs, checked by
TLAPS, of what can be proved for any number of nodes, threads, slots, instances and
callers.

All paths below are relative to `src/`; `trading_x.py` stands for
`ai_option_scanner/trading_x.py`.

## The system

### Components, what they keep and what makes them correct

| component | state | operations | what makes it correct | module |
|---|---|---|---|---|
| **Per-run action lock** (`trading_locks.py`, `redis_runtime.py`) | a `threading.Lock` per run id and process; the redis key `trading:run:<id>:action` with a 120 s lease; a cached answer of `redis_available()` | `run_action_lock` as a context manager | at most one thread works on a run; a lock whose holder died comes back; no caller waits forever | `RunActionLock` implements `RunLock` |
| **Callers of the lock** (`trading_monitor.py`, `trading_instance_actions.py`) | two JSON columns of a row of `trading_runs`, overwritten as a whole | monitor pass, flatten, cancel, risk reset | no write discards what another caller has written | `RunActionLock` |
| **Multi-slot scheduler** (`trading_scheduler.py`, `trading_agent.py`, `trading_store.py`) | leader lock in redis (55 s), `trading_schedule_sessions`, `trading_schedule_fires` (one row per slot and day), runs in an executor | tick, recovery of stale claims, gate, claim, start, mark, finish | each slot is started once per claim, the capital of the day is kept, every due slot is decided | `ScheduleSlots` |
| **Single-leg protection and exits** (`trading_monitor.py`, `trading_instance_actions.py`, `adaptive_pricing.py`, `trading_instance.py`) | one order record: status, filled and covered quantities, stop orders, software stop and take-profit state, retry counters, submitted and closed quantities per kind of exit; the orders at the broker; the lifecycle and protection the instance shows | attach stop, software stop, tiered take profit, smart exit, reconciliation, escalation of a resting limit, flatten | never sell more than is held, never leave open contracts bare, see every exit to its end, show what is bare | `SingleLegExit`, `TradeInstance` |
| **Strategy positions** (rest of `trading_monitor.py`, `trading_agent.py`) | legs of an order record with entry and exit quantities, a position record with flags, the order journal | submit legs, unwind, recognise triggers, close legs, reconcile, walk, track a residual leg, compare with the broker, flatten | no leg is closed twice, no short leg without its long one, no open leg without a keeper, "closed" is flat | `StrategyTrade` |
| **Daily run** (`trading_scheduler.py`, `trading_agent.py`) | date of the last run, scheduler lock, a row per run, the order journal of a run | tick, start, take up, select, submit / wait / cancel / reprice, protect, finish | each contract is bought once a day, what is bought is watched | `TradingRun` |
| **Auto-trade loop** (`auto_trade_scheduler.py`, `auto_trade_loop.py`, `auto_trade_store.py`) | a row per instance (status, `next_run_at`, order counters), leader lock with a token, renewed between cycles | start / pause / stop, tick, claim, cycle | limits are respected, one cycle per due instance | `AutoTradeCycle` |
| **Scan queue** (`scan_jobs.py`, `worker.py`, `redis_queue.py`) | scan rows with a status, a redis list, a local pool with slots | submit, enqueue, pop, run, requeue at start | every scan is run, an ended scan stays ended | `ScanQueue` |
| **Notifications** (`observation_store.py`, `notification_worker.py`) | outbox events with status and attempts | emit with a dedupe key, dispatch inline, fetch batch, send, mark, prune | an alert is delivered once by each sender, none starves | `NotificationOutbox` |
| **Triggers and scan loop** (`observation_store.py`, `observation_scheduler.py`) | trigger rows with count, cooldown and the scan they wait for; loop rows with budgets and items | check, rescan, count; round over symbols, digest | budgets hold, a rescan is settled | `Observation` |
| **Trade reviews** (`post_mortem_worker.py`, `trade_review_store.py`) | a row per review with status and attempts | discover, skip, process, mark | every review is decided | `TradeReviews` |
| **Connection pool** (`db.py`) | a queue of idle connections and a count | take, create, wait, release, close | no connection is lost, none too many | `DbPool` |
| **TTL cache** (`ttl_cache.py`) | items per process, flights with an event, a lock and a value in redis | `get_or_set`, `get_stale`, refresh in the background | one caller asks, nobody waits for nothing | `TtlCache` |
| **Monitor loop** (`trading_monitor.py`) | thread lock and a global redis lock | list runs, process each under the run's lock | one pass at a time over all nodes | not modelled |
| decision and risk rules, AI clients, broker clients, accounts and web API, web front end | no shared state of their own on the trading path | | | not modelled |

### How they interact

The scheduler starts a trading run in the executor of its own process
(`start_trading_run`). The run submits entry orders and stores one record per
order in `trading_runs.orders`. From there on the order monitor, on every node,
visits every run that has a monitorable record, every few seconds, under the
lock of that run. The user's actions (cancel, flatten, risk reset) arrive through
the web API in other threads of other processes and write the same row. The
broker, meanwhile, fills and rejects orders at any moment; the program learns of
it only when it asks. At the end of the run `_finish_trading_run` marks the
schedule slot again.

The background processes are started by `worker.py` and by the web process: threads
that loop for ever and meet in the database, in redis and in memory. A scan
is a row and an id in a redis list; users, the scan loop and a trigger that asks for a
rescan submit it, the scan threads pop it. A check of a trigger, a round of the loop
and a user's test raise alerts, which are rows of the outbox: whoever raises one also
sends it, and a worker thread sends what is left. A run that has closed is entered for
a review by the review worker. The scheduler of automatic trading and that of the daily
run are threads of every process, kept apart by locks in redis with a lease. All of
them use the connection pool and the cache of their process, and the cache talks to
those of other processes through redis. A process that dies loses its memory, its
threads and its pool, and is started again (`restart: unless-stopped`,
`docker-compose.yml:5,24,39,71`).

### What is hard

* **Whole-blob writes.** A pass loads a row, talks to a broker for seconds and
  writes everything back. Only the lock stands between it and the user's actions.
* **A lock in two parts.** The local lock always works; the redis key may expire
  under its holder, has no token, and disappears with redis.
* **Crash between two systems.** Orders are placed at the broker in the middle
  of a pass and written to the database at its end; a slot is claimed, then
  started, then marked.
* **Several exits for the same contracts.** Broker stop, software stop, targets,
  smart exit and flatten each send orders from the same record.
* **Cancel and fill race**, and orders fill in parts.
* **Leases that are outlived** by what they protect.
* **Values that are falsy** although they are meant: a remaining capital of 0.
* **Several legs, one structure.** Legs are sent one by one; after each of them the
  position may be one that nobody asked for, and a crash there leaves the journal as the
  only memory.
* **Rows read, work done, rows written back**: scans, events, reviews, triggers and
  instances are read with a status, worked on for seconds or minutes, and marked by
  key, while other threads, a user or a restarted process do the same.
* **Removed before it is done.** `BLPOP` takes an id out of redis before the scan runs.
* **Counters in two places**: the budget of a loop is counted from its items, the
  orders of a day from a row that a peer may have overwritten, the pool's connections
  in a variable beside the queue.
* **Waiting for another thread's result** that fails, dies, or never stores it.

`PROJECT.json` lists each of these under `hazards`, at its line, with the
properties that would show it going wrong.

## The modules

| module | what it is |
|---|---|
| `RunLock` | abstract specification: one owner at a time |
| `RunActionLock` | the lock and its callers; states that it implements `RunLock` |
| `RunActionLock_proofs` | theorems about `RunActionLock` |
| `MCRunActionLock` | instances of `RunActionLock` for TLC |
| `ScheduleSlots`, `MCScheduleSlots` | the scheduler's slots, and instances |
| `ScheduleSlots_proofs` | theorems about `ScheduleSlots` |
| `Sums` | facts that several proofs need: sums over finite sets, the larger and the smaller of two |
| `SingleLegExit` | the exits of a single-leg position |
| `SingleLegExit_proofs` | a theorem about `SingleLegExit`: no more is closed than held |
| `TradeInstance`, `MCSingleLegExit` | what the instance shows of that position, over `SingleLegExit`; and instances of both |
| `TradeInstance_proofs` | theorems about `SingleLegExit` and `TradeInstance`: what is open is covered; types; the instance only looks on |
| `StrategyPosition` | a strategy position: its record, journal, legs and the broker |
| `StrategyEntry`, `StrategyExit` | the handlers of the entry, and of the monitor's pass and the flatten |
| `StrategyTrade`, `MCStrategyTrade` | both put together, with properties; and instances |
| `StrategyTrade_proofs` | a theorem about `StrategyTrade`: no short leg without its long one |
| `WorkerProcess` | the life of a process, the deployment, and whether redis answers |
| `ScanQueue`, `NotificationOutbox`, `Observation`, `TradeReviews`, `AutoTradeCycle`, `TradingRun`, `DbPool`, `TtlCache` | one part of the background each |
| `Worker`, `MCWorker` | their composition with its properties; and deployments |
| `Worker_proofs` | theorems about `Worker`: the daily run, automatic trading, and the types of all parts |
| `WorkerShared_proofs` | theorems about `Worker`: the scan loop and the notifications, the cache, the pool, scans and reviews |

Every component module has the same layout: constants and their assumption,
variables, `TypeOK`, `Init`, one action per step of the code, `Next`, `Spec`,
fairness and `FairSpec`, and the properties. What a deployment may do to the
component is a record `env`, chosen in `Init` from the constant `Environment` and
never changed. One run therefore covers several deployments, and a property that
only holds for some of them says so in its own text (`Orderly`, `Calm`, `Tame`, `OneTrader`).
Operators marked "Mutant of" are not part of the model. Each is a plausible
mistake in the operator that follows it, and `PROJECT.json` names the property
which notices the mistake.

### RunActionLock

| variable | code |
|---|---|
| `local[n]` | the `threading.Lock` of the run in process `n` (`_LOCAL_LOCKS`), with its owner |
| `runKey`, `keyBy` | the redis key exists; who created it. The value of the key is `"1"` for everybody, so `keyBy` is not known to the code |
| `redisUp`, `sees[n]` | redis answers; what `redis_available()` says in process `n`, from a 2 s cache |
| `pc[p]`, `holdsKey[p]` | where thread `p` is in its call; the variable `acquired_redis` |
| `stale[p][copy]` | the columns somebody else has written since thread `p` loaded this copy of the run |

`Call`, `AcquireLocal`, `LocalTimeout`, `TakeKey`, `KeyBusy`, `LocalOnly`,
`DeleteKey` and `ReleaseLocal` are the steps of `run_action_lock`, in order. The
callers load (`LoadRun`, `LoadForCancel`, `ResetLoad`) and write (`CancelWrite`,
`FlattenWrite`, `MonitorWrite`, `ResetWrite`); `LeaveEarly` is a pass with nothing
to write or an exception. A flatten contains a cancel with its own copy of the run,
which is why `stale` has an outer and an inner copy: the outer copy must not be
made stale by the thread's own nested write, since flatten takes it over.
`KeyExpires`, `RedisFlap`, `RefreshAvailability` and `Crash` are the environment.
The timeouts (3 s and 5 s for the local lock) are nondeterministic: a thread may
give up whenever the lock is taken. A redis call that fails is treated by the
code as "not acquired" or ignored, and so it is here.

The environment: `outlived` (the 120 s pass while the holder is at work), `flaps`,
`crashes`, `redis` (there at the start), `callers` (the threads that call at all).
`Orderly` is: no lease is outlived, redis stays as it is, and without redis there
is one node.

### ScheduleSlots

| variable | code |
|---|---|
| `fires[s]` | the row of slot `s` in `trading_schedule_fires`: status, requested capital, retry count; `old` is "claimed longer ago than `schedule_replay_after_minutes`" |
| `sessionOf` | the configuration hash of the session of the day |
| `config` | the configuration the user has saved |
| `leader` | the token of the leader lock |
| `due` | how much of the agenda the clock has reached |
| `live` | trading runs in the executors: slot, retry count of their claim, node |
| `starts[s]` | history: how often the slot was started |
| `pc[n]`, `at[n]`, `my[n]` | the tick of node `n`: its step, its place in the agenda, what it has read |

The actions follow one tick: `BeginTick`, for each slot `OpenSession`,
`SelectStale` / `RecoverStale` (and the session once more), `Skip` or `ReadClaim`,
`ClaimWon` or `ClaimLost`, `Start` or `StartFails`, `Mark`, and at the end
`AgendaDone` and `EndTick`. Statements of the store that are one SQL statement are
one action; a read followed by a write is two, since another node may come between.
`FinishRun` is `_finish_trading_run` of a run in an executor.

The numbers of the session that `recalc_schedule_session` derives from the rows
(allocated, remaining) are the operators `Allocated` and `Remaining`: every tick
recalculates them before it reads them. When the configuration has been edited the
code returns the stored numbers instead; the gate then blocks for the mismatch
whatever they are, so the model does not store them. Abstracted further: the gate's
tolerance of 0.01, its checks of the template and of `live_enabled` (they
do not depend on the state of the slots), and a database error inside
`claim_schedule_slot`, which the code reports as "not claimed" for this tick.

### SingleLegExit

| variable | code |
|---|---|
| `entry`, `sells` | the broker's side: the entry order, and every closing order in order of submission with kind, quantity, fill and state |
| `rec` | the order record in the database |
| `copy` | the copy a monitor pass or a flatten works on; written back by `Persist` |
| `pc` | the handler at work and its step, split at every broker call |
| `quote` | the option's price as this pass sees it: below the stop, above the next target, between, or not available |
| `rows`, `seen` | exit orders still to reconcile; the answer of the last query |
| `canceled` | this handler has just taken the broker stops away |
| `faults`, `spent` | bounds: failed calls, and what happens at most once |

The status string of a record (`software_take_profit_retry_scheduled`, ...) is two
fields, `of` (which exit) and `is`. The fields `software_stop_*`,
`software_take_profit_*`, `smart_exit_*` and `flatten_*` are functions over the
source of the exit (`submitted`, `closed`, `order`, `exit`, `retries`), the
`*_active` flags the set `active`. Prices are not numbers: the three conditions the code
computes from prices are the members of `quote`, chosen anew by every pass.

One pass is `BeginPass`, then in the order of `_monitor_process_one_run`: attach
(`AttachLook`, `AttachStop`, `AttachUnsupported`, ...), software stop
(`StopWatches`, `StopFires`, ...), take profit (`TakeProfitCancelsStops`,
`TakeProfitCloses`, ...), smart exit, reconciliation (`CollectRows`,
`ReconcileRow`, ...), escalation (`EscalateCancels`, `EscalateSeesFill`,
`EscalateCloses`, ...) and `Persist`. Every broker call has an alternative in which
it raises. Flatten is `FlattenCancels`, `FlattenLook`, `FlattenCloses`. Pass and
flatten exclude each other (there is one `pc`): that is what `RunActionLock`
establishes for them in an orderly deployment.

The environment says what the broker and the deployment may do: `nativeStop`
(stop orders exist), `tiered` (two targets), `adaptive` (exits start as resting
limits and walk), `smart`, `slices` (which orders fill in parts), `rejects`,
`crash` (once), `lost` (a call that raised may have been executed), `late` (a
cancel is a request that the order may outrun), `reserves` (the sellable quantity
leaves out what working orders hold), `flatten`, `outage` (the quote may stay away for
as many passes in a row as it takes to alert the user). `Tame` is the well-behaved part:
exits fill as a whole, quantities are net, cancels are immediate, no crash, no lost call,
and quotes come back before the alert.

An outage is counted per protection (`NoQuote`, `AsksQuote`). The alert is the order's one
`_instance_event`, which the smart exit may replace by its own (`NoAlert`); at the end of
the pass, handing the alert over raises, so `Persist` then writes nothing (finding 6).

Left out of this module: residual legs of strategies (`StrategyTrade` has the leg, not
its software protection, which is that of this module), a plan with
`software_stop_enabled=False`, the user's cancel while an exit is on its way, prices
that are missing or invalid after a trigger, deletion of a run. The branches of
`_try_software_stop` and `_try_software_take_profit` for a protection that is armed
with nothing left to sell have no action, because they are not reachable in what is
modelled: `ArmedProtectionHasContracts`, a part of `OpenContractsAreCovered`, is the
check of that.

### TradeInstance

| variable | code |
|---|---|
| `lifecycle` | `lifecycle_state` of the instance in the database |
| `said.now` | what it has become in this pass through the events in `_instance_events`, which are told in their order |
| `said.event` | the lifecycle asked for by the order's single `_instance_event`, told after them; a later one replaces an earlier |

The protection (`ProtectionState`, `Unprotected`, `RequiresAttention`), the lots that count as sold
(`ClosedLots`) and the lifecycle that the orders ask for (`Lifecycle`) are operators on the order
record, as `build_protection_status`, `_close_lots` and `lifecycle_from_orders` are functions of
it. What the lifecycle becomes depends on what it was (`NextLifecycle`: "closed" stays;
"exiting" and "manual_intervention_required" do not go back to watching). So each action of `SingleLegExit` that has
something to tell is joined with what it tells (`Tells`, `Notes`), the others with
nothing, and `Persist` with `Shows`, which is `refresh_protection_from_orders`. The quantity the
smart exit last saw is not in the record of `SingleLegExit`: `SmartQuantities` leaves it open.

What is shown has gaps, which `ShownAsItIs` leaves out one by one. Where two targets were sent, the
fill of the first books both, so a bare rest of the second is not shown. An escalation that took its
limit away and failed to send it again leaves the target "submitted", and the fill of another exit
then closes the record over it: with faults in an adaptive deployment "closed" does not say sold. And a
flatten whose cancel failed may leave a stop at work beside what it sold.

### StrategyTrade

| variable | code |
|---|---|
| `orders` | the broker's side: every order of a leg, with the part it belongs to (entry, exit, or the user's own), quantity, fill and state |
| `journal[leg, purpose]` | the last row of the order journal for the key of this leg and purpose, which is the entry (all attempts of a leg have one key) or the trigger of an exit: written before the call, completed after it |
| `rec`, `copy` | the order record with its legs and the position of the instance that belongs to it; the copy of the handler at work |
| `pc`, `work` | the step of that handler, split at every broker call; the legs it has still to do, the order it waits for, and what came of each leg |
| `faults`, `spent` | bounds: failed calls; crash, manual close and flatten happen at most once |

The position has two legs, `long` and `short`, one contract each per unit. That is the
shape of the spreads the code builds, and the least for which the order of legs and
"a short leg without its hedge" mean something. The modules divide the life of the
position as the code does. `StrategyEntry` is the submission of the legs in the order of
`_strategy_execution_sequence` (`EntrySubmits`, the wait, `EntryCancels` and the next
attempt, `EntrySubmitFails`, `EntryFails`, `RecheckBreaches` for the recheck between legs), the unwinding of what has
filled when a leg does not (`Unwinds`, `UnwoundLeg`) and `Opened`. `StrategyExit` is one
pass of the monitor over the record: the residual leg (`ResidualLook`,
`ResidualFlat`), the questions about exits on their way (`LegIsFilled`, `LegIsPending`,
`QueryFails`), the walk of a resting limit (`EscalateCancels`, `LookSeesFill`, `Resends`),
their sum (`Settle`), the comparison with `positions()` (`ComparePositions`), what the quotes
say (`Sees`, `Confirms`, `TriggerFires`), the exit of each leg (`LegIsDeferred`, `TakeOver` of an
order the journal knows, `SendExit`, `NoteSent`, `AwaitEnds`, `Conclude`) and `Persist`; and the user's
flatten of both legs. Prices are not numbers: a pass sees a member of `signals`.

The order journal is in `StrategyPosition`, since entry and exit use it alike. Before it sends, the code
looks for rows of the last 900 s: an unfinished one stops it (`Unresolved`), one whose order lives or has
filled is taken over (`TakenOver`). The journal is best effort: a write that fails is swallowed, a read
that fails gives no rows, and rows grow too old. Where `env.forgets` has the part in question, `Notes`
may write nothing and `Recalled` may give nothing, each time anew.

Single-leg and strategy exits are separate models because the code handles them in separate
functions on separate fields; no order record goes through both, except that a
residual long leg is handed over to the functions of `SingleLegExit`.

`Tame` and `TameExit` name the environments in which the properties are to hold: exits fill as
a whole, no call that raised was executed, cancels are immediate, limits that walk do not
meet a crash or a tiered target, a crash meets one kind of trigger only and a journal that keeps the
rows of exits, and the user
flattens a position whose entry is whole (no refusals, failed calls or late fills) and whose monitor has not died. What happens outside
of them is listed below; each exclusion is there because the code does something else. A journal that
forgets exits is among the tame environments as long as the process does not die.
`EntryIsRemembered` excludes, from the properties that need it, a journal that forgets the attempts of a priced entry.

### Worker

| module | variables | code |
|---|---|---|
| `WorkerProcess` | `node`, `crashes` | how far `worker.py` is with the start of a process |
| `ScanQueue` | `scan`, `posting`, `queue`, `slots`, `job`, `lock`, `pending` | rows of `scan_runs`; threads in `submit_scan`; the redis list, or the queue of the local pool with its semaphore; each scan thread; the requeue lock and what its holder still has to push |
| `NotificationOutbox` | `event`, `created`, `sending`, `todo`, `delivered` | rows of `notification_events` in their order; what each sending thread has read; the batch of the worker; the channel |
| `Observation` | `trigger`, `check`, `loop`, `round`, `asked`, `alerted` | a row of `scan_triggers` and whoever checks it; a row of `scan_loop_instances` with its items, and its runner; scans and alerts of the day, as the outside has seen them |
| `TradeReviews` | `closed`, `review`, `reviewer` | terminal runs; rows of `trade_reviews`; the review thread of each process |
| `AutoTradeCycle` | `row`, `day`, `leader`, `tick`, `wakes`, `cycles`, `placed` | rows of `auto_trade_instances`; the trading day; the leader lock; the scheduler thread of each process with its batch; and three counts of what happened |
| `TradingRun` | `ranToday`, `scheduler`, `scheduling`, `run`, `buys` | `last_run_date_et`; the scheduler lock and threads; rows of `trading_runs`, each with the thread that executes it and its journal; the entry orders at the broker |
| `DbPool` | `idle`, `connections`, `client` | `_POSTGRES_POOL`, `_POSTGRES_POOL_CREATED`, the threads that want a connection |
| `TtlCache` | `item`, `shared`, `guard`, `flight`, `call` | the cached item of each process; value and lock of the key in redis; `_inflight`; every caller |

A module's actions leave its own variables unchanged where they do not touch them, and
`Worker` adds the others'. Two parts meet in the model where they meet in the code: a trigger
and the loop submit scans (`AskForRescan`, `SubmitLoopScan` insert into `scan` and `queue`),
checks, rounds and users raise events (`CreateAndDispatch`), and `Crash` takes away what every
part has in the memory of that process. `env` is the deployment: which processes there are
and which threads they run, what fails, what lapses, what the users do. A deployment
in `MCWorker` looks at one part, or at two that meet; parts that share nothing would only
multiply each other's states.

`TradingRun` is one trading day of the single-instance mode. `LeadSchedule` to
`EndSchedule` are the tick, `TakeUp` and `BeginRun` the beginning of `execute_trading_run`.
`Select` stands for everything that leads to a list of contracts: scan, ranking, gates,
the model's choice, risk breakers; the list may be empty and each of them may raise. What
follows is `_submit_orders`, entry by entry and attempt by attempt: `LookIntoJournal`,
`SubmitBuy`, `WaitForFill`, `CancelBuy` (and the next attempt), `ProtectBuy`; then the three
ways in which the end is written (`FinishRun`, `RunFails`, `ForceFinish`). A record says of an
entry what the code's status strings say: failed, ended unfilled, to be waited for, filled
in part, under a stop, under a software stop.

`TtlCache` is one key. `LookUp`, `LookAgain`, `Join`, `Elect`, `Poll`, `Ask`, `Share`, `Unlock`, `Land` are
`get_or_set` from its first look to its return; `ServeStale` starts a refresh, which is a
caller of its own (`Refresher`). The value is not modelled: what matters is whether there is one,
who asks for it and who waits.

## The runs

| run | specification | what it asks | result |
|---|---|---|---|
| `Lock` | `FairSpec` of `RunActionLock`, six environments | who can be inside together; is a write lost; does the lock come back, and with it every call end; does it implement `RunLock` | holds |
| `LockReset` | `Spec`, the reset among the callers | is the reset serialized with the others, as the docstring says | **violated** |
| `Slots` | `FairSpec` of `ScheduleSlots`, four environments | are claims exclusive, starts backed by claims, is there one live run per slot, is capital respected while some is left, is a decided slot left alone, is every due slot decided | holds |
| `SlotsCapital` | `Spec`, three slots of half the capital | do claimed and fired slots fit into the total | **violated** |
| `SlotsReopen` | `Spec`, ticks may outlast their lease | is a decided slot left alone in every deployment | **violated** |
| `Exit` | `InstanceSpec` of `TradeInstance`, thirteen environments | in the tame ones: is more sold, or offered, than held, and is it all in the record; are open contracts covered, and is what is armed worth arming; does the instance show what is bare, and as closed only what is sold. With a crash, a lost call, a late cancel and refused exits: does a triggered target come to an end; do fills get their stop | holds |
| `ExitOverclose` | `InstanceSpec`, exits fill in parts | can the position go short | **violated** |
| `ExitStranded` | `InstanceSpec`, two targets that rest as limits | does each target come to an end | **violated** |
| `Strategy` | `FairSpec` of `StrategyTrade`, nineteen environments | is a leg closed twice; is there a short leg without its long one; has every open leg a keeper; is what is recorded as closed flat; is an exit, and a manual close, seen through | holds |
| `Worker` | `FairSpec` of `Worker`, thirty-four deployments | scans: is each taken, do ended ones stay ended. Alerts: once by each sender, tried. Rescans settled, budgets kept, reviews decided. Automatic trading: one cycle per wake, orders within the cap. The daily run: each contract bought once, what is bought is watched. The pool's count, the cache's flights | holds |
| `ExitOutage` | `InstanceSpec`, quotes may stay away | does the flag for manual attention reach the record | **violated** |
| `DailyTwice` | `Spec`, one crash | does the journal cover a crash between the start of the run and the note of it, as the comment says | **violated** |

### Bounds, and why they are enough

* *Lock*: two nodes and three threads that lock, and one that resets the risk and
  calls in one of the environments. Two threads share a node (so the local lock
  matters), two are on different nodes (so the key matters), and all roles occur. A thread may call any number of times. The fully general statement
  is proved (below), so the bound matters for liveness only. With redis coming and
  going, the threads are those of one node: the properties that hold there speak of
  one node.
* *Slots*: two nodes; two opening slots that do not both fit into the capital and
  one exit-only slot. `MaxRetry = 1` replay and `MaxCrashes = 1`: one crash and one
  replay are what it takes to start a slot twice; the ageing of a claim stops at
  the bound on replays, so the model never has a claim that can be recovered but
  not taken again. In the environments with more disorder fewer slots come due
  (`slots`).
* *Exit*: two contracts, the least for which fills come in parts, for two targets,
  and for an exit of a part with the rest to protect. `Confirm = 2` breaches,
  `MaxRetries = 2` (one retry and giving up), a walk of `MaxCycles = 1` or 2 steps,
  `Outage = 2` passes without a quote instead of five before the alert: what comes before the
  alert, it, and what comes after; `MaxFaults` one failing call (any call). `MaxSells = 8` bounds nothing:
  `InstanceTypeOK` checks that no behaviour sends more closing orders.
* *Strategy*: two units, so that an entry fills in part and a first target closes half of
  it; two attempts of a priced leg, so that there is a first and a last; a walk of one
  step, so that there is a step and the market order at its end; one failing call, any
  call of the part in question. `MaxOrders = 10` bounds nothing: `TypeOK` checks it.
* *Worker*: two processes, since everything that locks or leases protect is between two.
  Three scans on two threads and two slots, so that one waits; two crashes, so that the
  second meets the restart after the first. Four alerts, of which the worker takes one at
  a time and looks at two (`Batch`, `Window`), so that failed ones can fill what it looks
  at; two attempts each. Budgets of one for two symbols: one too few. Two runs to
  review, two attempts, one skipped. Two instances in one batch, a cap of one order a day, one
  change of day. The daily run: two contracts per entry, two attempts, two entries, two
  runs a day. Three clients for a pool of two. Two callers of a key in each process and
  its refresh: one to lead, one to join, one that asks while neither knows of it.
  For the parts with a theorem (automatic trading, cache, pool) the bounds do not matter to
  the properties proved.

`CHECK_DEADLOCK FALSE` is set in every run because the systems may really stop:
nobody has to call, a day ends, a position is closed. That nothing stops which
should go on is what the liveness properties say.

### Fairness

* *Lock*: every thread that has begun a call continues (`run_action_lock` has no
  wait without a timeout, and broker calls return or raise); redis expires keys.
  Nobody has to call, redis need not come back, nodes need not crash.
* *Slots*: a tick that has begun continues on each node; some node begins a tick
  (every node has a thread that ticks every 30 s, the lock decides which gets in);
  leases end; claims age. Runs need not end and the next slot need not come due.
* *Exit* and *Strategy*: the monitor keeps passing and its steps return; a market order
  and a requested cancel come to an end at the broker. Nothing makes a limit or a stop
  order fill, a price move, or the user act.
* *Worker*: a process that has died is started again (`restart: unless-stopped`), and its
  threads, which are loops that catch what they call, go on; the interval of a trigger
  or a loop passes; a failed event gets old enough for its retry; a lock with a lease ends;
  a trading run that an executor has begun goes on. Nobody has to submit a
  scan, press a button, close a run, prune, or make an instance due; nothing makes an
  entry order fill. What is asked of cache, pool and automatic trading is safety.

### What the runs show the code to do otherwise than it says

1. **The risk reset takes no lock** (`trading_instance_actions.py:290`), although
   `trading_locks.py:1-9` names it among the actions the lock serializes.
   `LockReset`: its write discards what a pass or a flatten wrote since it loaded
   the run.
2. **A remaining capital of zero counts as the total** (`trading_agent.py:663`:
   `session.get("remaining_capital") or total_capital`). `SlotsCapital`: a
   third slot of half the capital is started. The pass run keeps the part of the
   promise that does hold, `CapitalRespectedUntilExhausted`.
3. **The recovery updates by key** (`trading_store.py:641`) what it selected by
   status. `SlotsReopen`: when the tick outlasts the 55 s lease, a slot that has been
   marked fired in between is taken up again and started twice.
4. **A resting limit that filled in part while it was being canceled** is
   sent again in full (`trading_monitor.py:1528`). `ExitOverclose`: the
   position goes short.
5. **One of two resting targets fills, and the record is closed**
   (`trading_monitor.py:1646`): the closed quantity counts the other target as
   closed, the record is no longer monitored, and the other limit rests for ever.
   `ExitStranded`.
6. **The alert of a quote outage breaks the pass** (`trading_monitor.py:456`). Its event names
   its type `event`, and `append_instance_event(instance, **event)` knows only `event_type`: it raises
   before anything is written. The order is not flagged, and what this and every later
   pass of the outage does to the orders of the run is lost, stops it has attached
   included. `ExitOutage`: an outage that is never flagged. When the event is dropped and the record
   written, the property holds.
7. **The journal does not cover a crash after the start of the daily run**
   (`trading_scheduler.py:127`), because its keys contain the id of the run and the next
   tick starts a run with another. `DailyTwice`: two orders for one entry of the day.

### What the conditions of the properties stand for

A condition such as `Tame` or `env.crashes = 0` is not a convenience. Outside of it the code
does the following, which the models show as soon as the condition is dropped.

*Strategy positions.* A call that raised but was executed, or a journal row of one
trigger and a later other trigger after a crash, sends a leg's exit twice (the journal's key contains the
trigger). So does a crash in an exit when the journal forgets, although
`trading_idempotency.py:12-15` relies on it "to detect an in-flight/succeeded submit before re-sending": it looks
back 900 s (`trading_monitor.py:2944`), a failed read gives no rows (`trading_store.py:1029-1030`) and a failed
write is swallowed (`1006-1008`). A monitor that dies between the submission of a leg's exit and the save, and is away
for more than 15 minutes or comes back to a journal it cannot read, sends the exit again, and the leg is closed twice.
A priced entry whose earlier attempts the journal has
forgotten is sent again whatever became of them, and the record names the last order only: an attempt
that filled while it was being canceled is then held beside the record, a short one without a hedge. A long leg
is sold while the cover of its short is only submitted: a failed cover holds
it back (`trading_monitor.py:3007`), one that outlasts the wait, or that a monitor which died in the wait
takes over, does not. When that cover is refused, the short leg is bare, against
`docs/trading-risk-and-safety-spec.md:198`. The leg that was deferred "to the next cycle" is
not taken up by the next cycle (`trading_monitor.py:3004-3009`). A confirmed trigger that
finds nothing open to close sets the exit to "no filled legs", and exits still on their way are then neither
reconciled nor walked. When the question about one leg fails in the pass that finds the last
other leg filled, the exit stays "submitted" for ever. A first target that fills at once ends
the tracking of the other half (`trading_monitor.py:2844`). The first target and a walk both
resend what is left. A flatten sells the residual leg of a failed entry twice, as the order's own symbol
and as a leg of the strategy (`trading_instance_actions.py:143` and `:183`), counts exits that were refused as
under way, and sells longs before it covers shorts. The part of an entry leg
that is still working when the other legs are unwound stays working. One that fills between the wait and
the cancel is recorded as not filled, since nobody looks at what became of the cancel
(`trading_agent.py:3560`), and the leg is held with no keeper. A crash in the entry leaves a position no record knows of.

*Single leg.* Besides 4 and 5: an exit that the broker refuses stays counted as under way, so
nothing protects what it was to close until the user acts on the event
"manual_intervention_required"; the fill of a broker's stop is not noticed until an exit finds it.
In an outage with broker stops, a stop that was attached to a new fill is forgotten with the
pass and attached again in the next; a walk is resent likewise.

*What an instance shows.* A refused exit is shown as "exiting" for ever, although its event asked for
manual intervention, because its submitted quantity stays above its closed one; a refused
flatten the same, without asking for attention. A target that fills while another exit is only submitted
closes the record, and "closed" is final: nobody watches the other exit. The first of two targets
that fills shows the position as closed while the other rests. A flatten counts
as closed, or about to be, what it has just canceled, sells only the rest, and the instance is shown closed with contracts
left; a flatten that canceled the stops and then failed leaves it shown as protected, and so does
one failed cancel of two stops. At a broker without stops the position stays
"unprotected" after it has been sold, because the broker's refusal stays in the record. An exit
while the entry is still working ends the wait for its other fills, which come unprotected
while the instance says "closed". The flag `requires_manual_attention` of an order is read by nobody.

*Scans.* With two threads, an id that a restart pushed a second time runs twice. A
scan that was running when its worker died stays "running", and a trigger that waits
for it waits for ever. A death within the 30 seconds of the requeue lock makes the next
start skip the requeue; an id lost by a push or popped before a failed write is only found
by the next start.

*Alerts.* The sender that raised an event and the worker both read it as unsent and both
send it; the later mark wins, also when it says "failed". Events that have used up their
attempts keep their place in the window until they are pruned, and pruning also removes
events that were never tried.

*Triggers, loop, reviews.* Two checks at once count twice for one event. A round that dies or
raises between submission and its items leaves its scans uncounted. A review that was being
worked on when its process died stays "processing"; of two reviewers the later one
overwrites.

*Automatic trading.* With two processes, a tick that has listed the due instances asks none of them
again: when the leader lock lapses in a long cycle, a peer claims and runs the next instance, and the
first process runs it a second time from its batch, although the comments
(`auto_trade_loop.py:256-260`) say `next_run_at` prevents it (`OneCyclePerWake` without `OneTrader`
fails). An order that was placed before its cycle failed is not counted. A stop by
the user does not reach an instance that is already in a batch, and the write at the end of a
cycle may undo what a start wrote.

*The daily run.* A date that could not be written, a lock that was outlived and a redis that is
there for the scheduler and not for the run start a second run of the day, as the crash does. An
order whose wait raised, or whose submission raised although it was taken, is recorded as failed
while it lives; the same holds for all orders of a run whose final write failed. At a
broker without stops only what had filled by then gets a software stop.

*Pool and cache.* A connection that could not be made stays counted, so after as many failures as
the pool is large every caller times out; a waiter is not woken by a close. When the
leader of a flight fails, each one that waited asks the source by itself; the lock in redis is
deleted by whoever holds on to it, also after its lease.

## The proofs

`RunActionLock_proofs` proves, for any set of nodes, any set of threads, any
assignment of threads to nodes and roles and any set of environments that satisfy
`LockAssumption`:

| theorem | statement |
|---|---|
| `TypeCorrect` | `Spec => []TypeOK` |
| `LockInvariant` | `Spec => []LockInv` |
| `SameNodeNeverShared` | `Spec => []SameNodeExclusion`: in one process the lock excludes whatever redis does |
| `NeverShared` | `Spec => []MutualExclusion`: over all nodes, in an orderly environment |
| `LockImplementsRunLock` | `Spec => ImplementsRunLock`: the refinement of `RunLock` |
| `NoUpdateLost` | `Spec => NoLostUpdate`: in an orderly environment in which every caller locks (`LockersOnly`: no caller is a reset) no write is lost |

Neither exclusion property is inductive. "Two threads are never inside together" does
not rule out a state with one thread inside and the lock free, from which the next
one would come in. `LockInv` adds why it cannot:

* `LocalLockInv`: whoever is between the local acquire and the local release is
  recorded as the owner of its node's lock. This is enough for `SameNodeExclusion`,
  and it holds across crashes because the lock dies with the threads that hold it.
* `KeyInv`: in an orderly environment with redis, every node asks redis; whoever is
  inside has `acquired_redis`; and whoever has `acquired_redis` is the creator of the
  key that exists. The last part is where the lease comes in: a key whose creator is
  inside does not expire. A crashed holder leaves a key with a creator who no longer
  has `acquired_redis`; it blocks the others until it expires, and then nobody is
  inside.

TLC checks `TypeOK` in the run `Lock` too. For the refinement
the owner is mapped to the thread inside (`Owner`); the lemma `OneComesIn` and the
ones around it say that a step either lets one thread in when nobody was inside, or
one out, or leaves the owner alone; a crash of a node is an exit. For `NoUpdateLost`
a second invariant says that, in an orderly environment with locking callers only,
a copy that may still be written has no stale column, because nobody else can be
writing. The condition that no caller is a reset is needed: the run `LockReset`
shows that with one a write is lost.

`ScheduleSlots_proofs` proves, for any sets of nodes and slots, any agenda, capital,
bounds and environments that satisfy `SlotAssumption`:

| theorem | statement |
|---|---|
| `TypesOK` | `Spec => []TypeOK` |
| `ClaimsBeforeStarts` | `Spec => []StartersHoldClaims` |
| `ClaimsAreExclusive` | `Spec => []ClaimExclusive` |
| `StartsAreBacked` | `Spec => []StartsBackedByClaims` |
| `OneLiveRun` | `Spec => []OneLiveRunPerSlot`: in a calm deployment |
| `DecidedSlotsStay` | `Spec => DecidedStaysDecided`: in a calm deployment |
| `CapitalIsRespected` | `Spec => CapitalRespectedUntilExhausted`: in a calm deployment |

The claims have no condition on the environment: ticks may outlast the leader
lock, redis may be absent, nodes may crash. What excludes two starters is the row
alone. `ClaimExclusive` is not inductive, because it says nothing of what the row holds
while a node is starting: a replay could then hand out the epoch somebody is
starting with. `StartersHoldClaims` says that the row's count of replays is at least
the epoch of every starter, so that a new claim, which is an insert where no row
was or an increment of the count, has an epoch nobody else has. `StartsBackedByClaims`
adds one claim for every starter that comes in and moves it from "under way"
to "made" when the run is started; a crash only takes starters away. Its proof also
carries that the starters of a slot are finitely many, so that they can be counted.

The last three need the calm: ticks that keep within their lease, and a redis or a single node.
`CalmState` says who may then be doing what. One node ticks, and while redis is there it holds
the leader lock (`OneTicker`). What a recovery has found stale still is, and a claim about to be started
is young (`FoundStale`, `StarterHolds`), so the recovery does not take a claim away from the tick that
starts it. The row of a live run is fired, or its starter stands before marking it (`LiveRowsFired`),
so whoever claims the slot anew has not got one. A start that failed has left no
run. Without the lease any of these fails, as `SlotsReopen` shows.

Types are in two parts: `Shape`, on which the claims rest, leaves out the capital a tick has read,
a sum over the rows; `Amounts` adds that it is a number. A sum is a fold, that is, recursive, and no
backend does induction over data. `Sums` does without the library's induction theorems: a function on
the subsets of the summed set that satisfies the recursion (`IsSum`) exists and is unique, since of
the subsets for which that fails there would be a smallest one (`SmallestSubset`). From there come the
facts the other proofs use: a sum over fewer or smaller summands is not larger, and one summand more
adds its value.

`WorkerShared_proofs` and `Worker_proofs` prove, in the composition with all other parts,
for any sets of processes, instances, callers and clients, any caps and sizes, and any set of
deployments that satisfy the assumptions of the modules:

| theorem | statement |
|---|---|
| `TradeTypesHold` | `Spec => []AutoTypeOK` |
| `OneCyclePerWakeHolds` | `Spec => []OneCyclePerWake` |
| `OrdersWithinCapHolds` | `Spec => []OrdersWithinCap` |
| `CachePromiseHolds` | `Spec => []CachePromise` |
| `PoolIsSoundAlways` | `Spec => []PoolIsSound` |
| `BoughtWithinPlanHolds` | `Spec => []BoughtWithinPlan`: where the journal keeps its rows |
| `BudgetHolds` | `Spec => []BudgetIsKept`: where no round is cut off |
| `DeliveredOnce` | `Spec => []DeliveredOncePerSender`: where nothing is refused, fails or is pruned |
| `WhatEndedStays` | `Spec => EndedStaysEnded`: an action property, of scans and of reviews |
| `WorkerTypesHold` | `Spec => []TypeOK`: the types of all nine parts |

`WorkerShared_proofs` begins with the scan loop, whose types the proofs about scans need (a round
submits scans), and `Worker_proofs` extends it.

The step of the composition is reduced once, by the lemma `StepCases`: it is a step of the part in
question, or leaves its variables alone, or a death.

`OneCyclePerWake` compares two counts and is far from inductive: what keeps them apart is where
a wake is that no cycle has used up yet. `WakeInv` says that it is in one of three places, the row
(due), the batch of the one trader, or the claim of a cycle that is about to run, and that cycles
plus those places never exceed the wakes. An instance is claimed by writing
`next_run_at`, and the row that is due again while the cycle runs is a wake of its own. That the
final write at the end of a cycle does not make up a wake needs `PastInTheRow`: what the row
says has passed was counted when it passed. `OrdersWithinCap` needs more of the batch
(`OrdersInv`): it was read when the row said what it says now (`BatchAgrees`, `CycleAgrees`),
no row is dated in the future (`DaysArePast`), and what has been placed today is what the row counts
plus what the cycle at work has placed and not yet written. All of it holds for one trader; the
others are asleep (`TheOthersSleep`); with two it fails, as said above.

`CachePromise` has two parts. That a flight is led is inductive with the types (`FlightInv`): the
refresh in the background never gets to where a flight is joined. That one caller at a time
asks is not: `GuardInv` adds that in a calm deployment, whoever asks, stores or unlocks made
the lock that is there, has stored before it unlocks, and that those who poll find the lock or the
value. `PoolIsSound` is inductive with the types; its proof counts the clients that have a
connection in hand, one by one.

`BoughtWithinPlan` compares any two orders of a run; what makes it inductive is where the run stands
(`PlanInv`): a run has bought only for the entries it has come to (`BoughtSoFar`), the
journal row of the entry at work names the order that is out or says that one may be (`JournalIsTrue`),
and so the attempt after a raise, a late answer or a death finds it before it submits again. That two
runs do not buy on a day on which nothing fails is `DailyInv`: with redis one run is begun once the day is
marked or about to be, without it none is.

`BudgetIsKept` is about rounds that record at their end what they have submitted before.
`ScansAreCounted` and `AlertsAreCounted` say what is under way: scans asked for are at most
what the loop's items count plus what the round at work has in hand, and what it may
still select fits into the rest. `DeliveredOncePerSender` is a count, too: once an event is noted as sent,
only the threads that already are at the channel with it deliver it again, and before that every
delivery belongs to one that has yet to note it or died with it (`Counted`); who may have an event in hand
at all is `InGoodHands`.

`EndedStaysEnded` says of every step that it leaves alone a scan that has ended, although the
list of redis may hold its id many times (a start requeues what it has listed, whatever is in the list), and
although `_run_scan_job` reads the row before it writes "running". What keeps them apart is
`ScanInv`. `GoingOn`: a scan whose row a thread has read, or that it runs, is not ended; this holds as long
as no two threads have the same id in hand (`NotTwice`), since only the thread that has it ends it.
With redis that is so when one thread takes all (`OneTakesAll`); without redis it rests on
`PoolInv`, by which an id is with its poster, in the pool or with one thread, and never in two places.
The second part needs that the pool has one process, so `ScanAssumption` says that a deployment
without redis has the one process `Home` (`docs/architecture-decision-records.md:192`: SQLite and no
redis are the development mode on one machine). Of reviews, `ReviewInv` says that
what the one reviewer has read of the rows is still so (`Agrees`): it writes only rows it found pending,
and nobody else writes those.

The types of the daily run bound the number of its orders, which is no conjunct of any guard. `Used` is what a run may
have submitted by where it stands: the attempts of the entries behind it, those of the entry it is
at, and the order it waits for. Orders never exceed the sum over all runs (`OrdersFit`), every step of a
run raises its own summand by at least what it submits (`UsedGrows`), and no summand exceeds entries
times attempts, so the sum is within the bound (`SumBound`).

`SingleLegExit_proofs` proves `ClosesNoMoreThanHeld`, that is, `Spec => []NeverOverclosed`, for
any quantity, any number of confirmations, retries, cycles and faults, any number
of passes and all environments that satisfy `ExitAssumption`. The property is about tame environments: with a
crash, a lost call, exits in parts or late cancels, the code does sell too much.

Stops and exits are not counted alike: a stop may be taken away again, an exit that was sent is
kept in the record until it is known to have failed. So what the orders at the broker claim of the position is split
(`ByExits`, `ByStops`); the sum of both is `Sold + Resting` (`SoldAndResting`), which needs that an order
which is not filled has sold nothing (`Whole`, where tameness comes in). The invariant `ExitInv` has five
parts:

* `Claims`: what exits claim is at most what the record holds as submitted (`Booked`), and exits and
  stops together claim at most what the entry has filled. An escalation takes the
  limit away and sends it again; in between it counts as `Flying`.
* `Sound`: the record fits together. What is closed was submitted, what is submitted
  was filled, an armed software stop is for at least all that is left, and pending targets for at
  most that; a stop or smart exit has taken all that was left.
* `StopsAreKnown`, `ExitsAreKnown`: every live stop at the broker is in the record, none is there beside a
  software stop, and the orders of targets and exits are what the record says. That a handler
  may send "all that is left" rests on this.
* `RowsAreKnown`: the rows a reconciliation has yet to look at were sent.
* `Midway`: what a handler relies on from its earlier steps, such as that no stop is at work between
  taking them away and sending the exit, or that between two passes the copy is the record.

An entry may fill at any moment and orders may fill, lapse or be refused between any two steps; `Lapse` and
`BrokerKeeps` say once and for all that this only takes claims away or adds to what they may take. Each of
the handlers' actions then has its lemma.

`TradeInstance_proofs` proves `OpenContractsHaveCover`, that is, `Spec => []OpenContractsAreCovered`, with
the same generality. Half of the property, `ArmedProtectionHasContracts`, is about every environment,
sliced exits, crashes and lost calls included, so it cannot rest on `ExitInv`. `BookInv` is what
remains true in all of them, and it speaks of the books, hardly of the broker:

* `Booking`, `Filling`: of what type orders and rows are, that the record never says more is filled than the
  entry has, and that an order fills at most as a whole.
* `Holds`, of the copy of the pass and of the saved record: it fits together (`Sound`), the orders it
  names were submitted, for no more than it says (`Ordered`), and what is armed has something left to
  sell (`Armed`).
* `UnderWay`: what a handler has seen before it acts.
* `Guards`: where exits fill as a whole and nobody flattens, either nothing is open or somebody is to act
  on what is: fills wait for their stop, a retry is due, the user has been told, the
  software stop is armed, or the status is that of an entry all of whose fills have had their stop attached.

The last case speaks of the broker's stops but only by the record's word. That they are there still is
`StopsHold`, in tame environments: the stops listed are orders of the broker, and as long as the
status is the entry's they claim all that the record holds to be covered. Every handler that takes
a stop away gives the status to its own exit (`Abides`), and the broker lets stops fill but takes none
away that nobody canceled (`StopsAtTheBroker`). `StopsHold` needs `ExitInv`, and the step from the claims of the stops
(`ByStops`) to the sum the property is written with (`Cover`) is `StopsAreCover`: a sum over part of a set
is that over the whole where all else is zero (`SumOfPart`).

`BookInv` also has the types of the record, so `ExitTypesHold` (`Spec => []TypeOK`) needs little more (`Sundry`).
The runs check `InstanceSpec`, not `Spec`: `InstanceImplementsExit` shows that every step
of the instance is one of `SingleLegExit` or leaves it alone (no event and no lifecycle holds a handler up),
so both theorems are about what the runs check (`InstanceIsSafe`). `InstanceTypesHold` adds the types of
what is shown: whatever the instance is told, in whatever order, it is in one of its lifecycle states.

`StrategyTrade_proofs` proves `ShortIsCovered`, that is, `Spec => []NeverNaked`, for any number of units,
attempts, steps of a walk, passes and faults. Its hypothesis, `Covering`, is that of the property: orders are
decided within the wait and as a whole, the process does not die while it exits, nobody flattens. The journal may forget, except for the
attempts of a priced entry (`EntryIsRemembered`). Orders may
be refused, calls may fail, triggers may be seen in any order, limits may rest and be walked, and the
process may die while it opens the position.

What is held of either leg changes with every fill, so the proof looks at what is certain. `Worst` is how
much more of the long leg than of the short one is held, at least: of bought orders what has filled, of sold ones
all that they may still sell. The broker's steps only raise it (`FollowsRises`), and `Held("long") - Held("short")`
is no smaller (`HeldIsWorst`), so what has to be shown of the code is that no order it sends takes `Worst` below
zero. An order is covered by what is certain without it (`WorstBut`). The invariant `CoverInv` has these parts:

* `Typed`: the shapes, and that orders are whole.
* `Opening`, `Leading`: while the position is opened nothing is recorded of an exit, and the short leg is
  opened only once all units of the long one are certain, by one order at a time. An entry order that was
  not filled is canceled for good before the next is sent: `EntryNotes` says that the row of the leg at work, when
  the journal has one and the entry is priced, is of its last order, so that one which filled before its cancel is taken over.
* `Sound`: from the record an order may still be sent, so what it says of its exits is so (`LegsSound`), and
  what is certain is at least what it leaves open of the long leg beyond the short one (`Ahead`). A cover that the
  journal knows has left nothing open that its trigger could close again (`JournalSound`); a later pass that
  takes it over may therefore go on to the long leg.
* `Round`: one round of exits sends the short leg first, and nothing for the long one after the cover has
  failed. `AmountSound` says how much a round may close: all, or what the first target takes.
* `Reconciling`: between the cancel of a resting limit and its next price there is room for the order.
* `Ending`: a record on which an exit has failed, or with a residual leg, is no longer in play.

That the invariant is carried through all steps is `CoverNext`, with one lemma for each handler. TLC has seen
the invariant hold on the instances of the run `Strategy` before it was proved.

Only TLC checks: the liveness properties (`LockComesBack`, `DueSlotsAreDecided`,
`SingleTargetIsResolved`, `FillsGetTheirStop`, `ExitIsSeenThrough`, `ManualCloseIsNoticed`,
`EveryScanIsTaken`, `QueuedIsTried`, `RescanIsSettled`, `EveryReviewIsDecided`, `EveryBuyIsWatched`),
because liveness under fairness is out of the prover's reach; `ShownAsItIs` of `TradeInstance`, and of its
`InstanceTypeOK` the bound `MaxSells`, which is a number of that run; and of `StrategyTrade` its `TypeOK`,
`NeverOverclosed`, `OpenLegsAreKept` and `ClosedMeansFlat`, which are about more environments than `CoverInv`
(exits in parts, crashes while exiting, flattens). Of
`RunActionLock`, `ScheduleSlots`, `SingleLegExit` and `Worker` every invariant and every action property
of a passing run is proved.

## Not modelled, and why

* The monitor's own lock over all nodes (`trading_monitor.py:192`) and its account errors. Two passes
  over one run are kept apart by the lock of the run, which is modelled.
* The shape of strategies with three or four legs and with stock. Their legs go through the
  same loops in the same order.
* What an instance shows of strategies and of profit (`trading_instance.py`), and its log of events.
* Decision rules, smart-exit scoring and market arithmetic: functions of market
  data, on whose results the models leave both answers open.
* AI clients, broker clients and data providers: I/O. The broker's behaviour is the
  environment of `SingleLegExit`, `StrategyTrade` and `TradingRun`.
* The stages of a running scan, the content of reports, reviews and notifications, several
  channels for one event, triggers on other fields than the price, opportunities and
  follow-ups, the report of a round, rounds a user starts by hand.
* The initialisation of the schema once per process, and SQLite, whose connections are not
  pooled.
* Accounts, authentication, routing and the web front end: nothing in them depends on
  the order of events beyond what the actions they call do.
* The deletion of a run (which also takes no lock) and of its records.
* Times: leases, delays, timeouts and ages are nondeterministic; what they may not
  do is said by the environment.

* The states some code could reach in between when it reads and writes in two steps: the merge of a session of
  the scheduler (`trading_store.py:419-456`) and of the condition of a rescan trigger
  (`observation_store.py:5662-5678`) is one step each.
* Errors of the scheduler's own database calls. One of them matters: when the mark "fired" raises after the run was
  started, the same handler marks the slot failed while its run goes on (`trading_agent.py:635-639`).
* A redis that flaps in the middle of one submission of a scan: a deployment has redis or has not, so a scan that
  fell back to the local pool (`scan_jobs.py:87-93`) while a starting worker requeues its row is not seen.
* Limits on how much one step takes, where the models have less than that: the 500 rows of a requeue
  (`worker.py:76`), and the age cap and the limits of the discovery of reviews (`trade_review_store.py:259-285`).
* The 20 s in which the comparison with `positions()` waits after an order (`trading_monitor.py:2287-2297`,
  `2314-2315`), which delays it, and the planned quantity as the filled one of a leg without a fill
  (`1931-1936`), which no leg of a submitted strategy is.

## The plan

1. What an instance shows of the strategies of `StrategyTrade`, as `TradeInstance` does for a
   single leg.
2. The monitor's global lock, with the nodes that skip their pass.
3. The adaptive walk of `adaptive_pricing.py` as functions over bounded prices,
   against a reference definition: it ends in a marketable price.
4. Proofs: the types of `StrategyTrade` in all environments, then its `NeverOverclosed`;
   `ShownAsItIs` of `TradeInstance` over the invariants of `SingleLegExit`.
