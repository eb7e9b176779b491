# EMS: TLA+ models, model checking and proofs

EMS (`src/ems/`) is a Python service that steers a home battery: every few
minutes it reads meters, prices and forecasts, plans, and commands the battery
through a vendor's local HTTP API. Getting the plan wrong costs cents; getting
the *control* wrong leaves a battery charging, discharging into a car or
fighting its owner. This directory models the part of the program that decides
who may write to the battery, when, on whose wish, and what EMS believes
afterwards; the planner that forms the wish; and what the service tells and
books about the day; and the caches through which it sees the battery, the prices
and the sun. TLC checks all of it on small instances, and TLAPS proves most of it
for every value of the constants.

Paths below are relative to the repository, e.g. `src/ems/control/service.py`
is `service.py`.

## 1. The system

| component | state it keeps | operations | talks to |
|---|---|---|---|
| command fence (`control/command_fence.py`) | tickets, supersession, the active writer, recoveries, draining | reserve, admit_routine, begin_recovery, enter, leave, release, mark/clear_draining | every writer; one `threading.Condition` |
| control service (`control/service.py`) | `control_lock`, boxes shared with the API, the running cycle | run_cycle, spawn_override_cycle, overrun recovery, idle_for_restart, restore_for_shutdown | fence, controller, lifecycle, API |
| mode controller (`control/mode_controller.py`) | believed mode, dwell, two daily counters, unconfirmed flag, original mode | decide, restore_state, note_* | driver, control-state store |
| control-state store (`storage/control_state.py`) | one row | save, load | writer gate |
| lifecycle (`lifecycle.py`) | ownership state, readiness | start, tick, mark_* | service |
| driver and readers (`sources/indevolt_driver.py`, `sources/indevolt.py`, service) | arming, quiet time, the cluster reading, the shared live reading | apply, read, current_towers, current_mode | battery towers |
| override API (`web/api.py`) | override box and row | set, clear | service |
| restart and stop (`web/api.py`, `main.py`) | restart latch, watchdog, phase | system_restart, trigger, watchdog, shutdown restore | service, fence |
| SQLite writer gate (`storage/sqlite_guard.py`) | holder, waiting critical writers | acquire, release, the retrying writers | all stores |
| stores (`storage/*.py`) | one SQLite file | queries, self-healing connection, migrations | gate |
| charge commitment (`control/charge_commitment.py`) | a persisted grid-charge contract | evaluate, persist, clear | controller, store |
| car session (`control/car_mode.py`, service) | session box | start, re-command, hold, end | controller |
| floor latch, intent persistence (`control/safety.py`, service) | small boxes | per tick | tick |
| planner (`planner/*.py`) | none of its own | build_plan and its passes, recovery, validation | meters, counters, settings; read by the tick |
| must-charge override (`web/api.py`, `control/override_must_charge.py`) | the override in memory and in the store, a warning | set, cancel, settle | planner, plan memo |
| plan and forward caches (service) | memo, generation | build, invalidate | tick, API threads |
| notification loop (`web/api.py`, `notify.py`, `detectors.py`) | incidents, marks, notifications and ledger rows | one cycle of five stages | history store, cache, ntfy |
| roll-up and finance (`rollups.py`, `storage/history.py`, `web/api.py`) | observations, daily energy, daily finance | catch_up_rollups, _ensure_day_finance, purge | history store |
| sensing (`sense.py`, `freshness.py`) | last samples, staleness latch | sense_once | stores, planner |
| price source (`sources/tibber.py`) | last curve, throttle, outage counters | prices, warm start | Tibber, cache table; asked by tick, planner, API, recorder |
| sun source (`sources/solcast.py`, `sources/forecast_factory.py`) | last forecast, ledger of paid requests, label of the provider | forecast, stamp | Solcast, cache table |
| reporting, consumers, UI | settings | pure arithmetic or I/O | - |

Concurrency is where the difficulty lies. The service is one asyncio event loop
plus worker threads. A control cycle runs its tick in a thread under a deadline;
when the deadline passes the coroutine goes on but the **thread cannot be
stopped**: it may write to the battery minutes later. Meanwhile an operator may
override, a recovery may be ordered, a restart requested, the process stopped or
killed, the device may time out with the command delivered or not, and the
database may be locked.

What makes each part correct:

* fence: one writer; never an older command after a newer one; a command that
  was given up never starts; an operator is neither overtaken nor dropped;
  draining stops routine writes; nobody sleeps through his turn;
* service: every reserved slot is freed; what is believed confirmed is what the
  battery does; a recovery does not overwrite a newer override;
* restart and stop: what the gate saw stays true; a granted restart never wedges
  control; the restore is the last command; a stop leaves no forced mode;
* mode controller: the daily caps, the dwell and the unconfirmed flag mean what
  they say over failures, restarts and midnight;
* control tick: an operator and the data fail-safe act in the very next tick;
  the battery does not drain into the car; a stored charge is acted on or given
  up for a reason; an absent car ends its session;
* writer gate: one writer per file, control state first, no leaked gate;
* planner: each plan keeps the limits (grid energy a day, cycles, floor, evening
  reserve, stale-meter floor) after *all* of its passes, is never stopped by the
  program's own validator, buys only what pays, and promises what it reaches;
  and over a day of replanning against meters that lag the limits hold of what
  really happens;
* must-charge: nobody acts on a plan for another override, a cancelled one is
  gone for good;
* notifications: what must be said is said once, over retries and restarts, and
  a mark never says that something was done that was not;
* books: a finished day has all its rows, from all its samples, for good;
* battery and its readers: a confirmed command holds for the whole cluster, a
  look is recent, and a command that is left out after a fresh look was rightly
  left out;
* price and sun sources: a paid or throttled service is asked once however many
  threads find it due, and control is not told of an outage that is none.

## 2. Modules

| module | models | proofs |
|---|---|---|
| `OrderedWriter` | the promise of the fence: numbered commands, one at a time, never an older after a newer | |
| `CommandFence` | `BatteryCommandFence`, one action per way out of each method | `CommandFence_proofs` |
| `ControlCycle` | run_cycle, override and overrun workers, the controller's beliefs and the device; extends the fence's variables | `SystemRestart_proofs` |
| `ControlTick` | the branches of `_control_tick_body`, and the memory they keep between ticks | `ControlTick_proofs` |
| `SystemRestart` (`MCSystemRestart`) | restart requests and graceful stop, composed with `ControlCycle` | `SystemRestart_proofs` |
| `ModeController` (`MCModeController`) | decide(), its gates, saving and restoring, crashes and days | `ModeController_proofs` |
| `WriterGate` (`MCWriterGate`) | the SQLite gate with thread and task writers, retries and cancellation | `WriterGate_proofs` |
| `PlanRules` | prices that pay, choice of slots, and the passes every plan goes through: day cap, cycles, must-charge, resident overlay, savings floor | `PlanLoop_proofs` |
| `PlanProjection` | the projected state of charge and the passes that read it: evening reserve, floor holds, honest partial, stale caution | `PlanLoop_proofs` |
| `SeasonPlans` | the winter plan and the adaptive plan of the summer season | `PlanLoop_proofs` |
| `TradingPlan` | buying to sell back, and when it replaces the season's plan | `PlanLoop_proofs` |
| `PlanBuild` | build_plan, missed-window recovery, the order the service calls them in, and the hard validator | `PlanLoop_proofs` |
| `PlanLoop` (`MCPlanLoop`) | days lived with plans that are made again every half slot | `PlanLoop_proofs` |
| `MustCharge` (`MCMustCharge`) | the resident's override, its two copies and the memoized plan | `Caches_proofs` |
| `Notices` | the notification loop | `Daily_proofs` |
| `Books` | roll-up, finance rows and retention | `Daily_proofs` |
| `MCDaily` | `Notices` and `Books` side by side, for TLC | |
| `BatteryIO` | a command as register writes to two towers, and the two caches its effect is read through | `Caches_proofs` |
| `PriceFeed` | the Tibber source: throttle, single flight, warm start, fallback, outage | `Caches_proofs` |
| `SolcastFeed` | the Solcast source: refresh times, ledger, single flight, real-P10 stamp | `Caches_proofs` |
| `MCEdges` | `BatteryIO`, `PriceFeed` and `SolcastFeed` side by side, for TLC | |

`SystemRestart` EXTENDS `ControlCycle`, which INSTANCEs `CommandFence` as `F`
over its own variables: every fence step of the service is literally a step of
the fence, `FenceProtocol` checks that the service uses it as its
specification allows, and so everything proved of the fence applies to it.
`CommandFence` implements `OrderedWriter` under the mapping issued <-
generation, holder <- active, newest <- lastEntered (`OrderedWriting`).

**CommandFence.** A ticket is its generation (`_new_ticket`). Method bodies hold
the condition's lock, so each is atomic; only `enter()` blocks, and `asleep` is
the inside of `Condition.wait()`, which only a `notify_all` ends (`NotifyAll`).
`lastEntered` and `givenUp` are history variables.

**ControlCycle.** What a coroutine does between two awaits is one action; a
`wait_for` deadline may fire at any time. `pc` is where a cycle is, `token` and
`recovery` are the tickets it holds, `lockQueue` is `control_lock` (FIFO, its
holder first). A worker decides (`TickDecides`, any mode), enters the fence,
writes (`DriverWrites`, any of the outcomes) and records what it believes
(`WorkerRecords`), whatever its coroutine has done meanwhile. `saved` to
`task` is an override request between storing the override and its cycle.

**ControlTick.** The inside of what `ControlCycle` calls `TickDecides`. `Observe`
fixes what a tick sees (`obs`): the wish that `effective_intent` starts from, by
plan or operator, the quality of the data, the SoC against the reserve floor,
the car, the coalesced and so possibly stale mode of the battery, and whether a
stored commitment is over. A branch of `_control_tick_body` then answers it:
`NothingWanted`, `CarCommand`, `ReserveHold`, `Defer`, `Bridge`, `GraceAtFloor`,
`Resolve`, in the code's order (each negates the guards before it through
`Ordinary`), or `ObservingTick` when the lifecycle may not command. `session`,
`holding` and `pending` are the boxes of `ControlContext`; `committed` is the
persisted charge commitment, reduced to whose wish it came from. `answer` is
what `decide()` said; between `Observe` and the answer the vendor may have
moved the battery (`Drift`). The gates of `decide()` are `ModeController`'s
subject, so here a decision that is not exempt may be held at will.

**SystemRestart.** `request[r]` is one POST of a restart; latch, gate, drain and
watchdog happen without an await (`RequestRestart`), then the audit row and the
response are awaited, during which the client may vanish (`AbortRequest`).
`phase` is the process: a SIGTERM, the drain of the open requests by the server,
`_shutdown_restore` with its thread and deadlines.

**ModeController.** One command at a time is in flight (the fence sees to
that). `Decide` evaluates the gates of `_gate` and `_cap_block` in their order,
resets the counters on a new local day and counts the switch *before* the driver
answers, as `decide` does; `Accepted`, `Unconfirmed` and `Rejected` are what may
come back, each followed by a save that may fail. `Crash` and `Boot` lose the
memory and restore the row. `Corrupt` is a row that cannot be read. `lost` says
that something sent was never saved: the properties about caps hold up to that.
`routineSent`, `commitmentSent`, `lastCounted` and `commandUnknown` record what
really happened, for the properties to compare the controller's books with.

**WriterGate.** `call[w]` is the thread inside `acquire()` for a writer,
`write[w]` the writer itself. A task writer cannot cancel its thread, so it is
`unwinding` until the thread comes back. `TakeStoreLock` is the store's own
`_write_lock`, taken before the gate.

**Planner.** The five modules from `PlanRules` to `PlanBuild` extend each other
and have no state: they are the planner's functions as operators on a request `q`
(prices, forecasts, meters, settings) and a plan, which maps slots to an intent
with target, power, floor, deadline and the reason (`why`) that the code keeps in
a text. Energy is an integer in units of the battery, the one-way efficiency a
fraction, and rounding is down as far as the code truncates; where the code
divides, both sides are multiplied instead. `FinalPlan` is the composition that
`_plan_with_recovery_uncached` returns, `Unsafe` is `validate_plan`. `PlanLoop`
puts this into a day: `Replan` builds a plan from what the counters say, `Follow`
lets the battery obey it for half a slot while the house is on or off its
forecast, and adds the half slot's samples to the counters as
`grid_charge_kwh_from_samples` does; `Outage` is a half slot without EMS,
`Publish` the arrival of tomorrow's prices, and a replan may find a counter
unreadable or a meter stale.

**MustCharge.** A request is a task of the event loop; between two awaits it
is one action, so `Post`, `Put` and `Kept` are the parts of one POST. While
`invalidate_plan_cache` waits for `plan_lock` the loop stands still (`Blocked`).
A thread that asks for the plan reads the key without the lock (`Ask`), then the
plan (`Take`), or waits and builds (`Want`, `Build`, `PublishPlan`,
`PublishKey`). `since`, `misplanned` and `cancelled` are history variables. The
model stays inside one coalescing window, where a key can fit at all.

**Notices.** `pc` runs through a cycle's five stages; each await is a step that
may fail, and between steps the process may die. A notice is its dedupe key. The
first start of a process restores open outages from the rows (`Restore`), the
boxes of the process (`memory`) are gone after a `Crash`, rows, marks and
ledger are not.

**Books.** A sample is its tick, and a row is known by the set of samples it was
made from; so "complete" and "shrinks" are set inclusions. `loop` is the roll-up
with the lists it read when it began; `asks` are the two users of
`_ensure_day_finance`, between whose reads and writes anything else may happen.

**MCDaily, MCEdges.** Components that share nothing are explored in one run, each
with the others at rest: `focus` chooses which one moves.

**BatteryIO.** `driver` is `apply()` at work: the writes of a mode
(`Commands`), master before slave, each `PostAccepted`, `PostRejected` or
`PostTimesOut` (landed or not) up to the retries; `Conclude` is its answer and
its fallback to self-consumption. `quiet` is the settle time during which the
cluster reader stays silent. A reading goes from the towers (`StartRead`,
`Measure`, `KeepReading`) into the reader's cache, from there (`Deliver`) into that
of the service, and a tick takes it (`Look`) or asks the master itself
(`AskMaster`); then it skips (`Skip`) or sends (`Send`). `hushed` and `old` of a
reading are history: handed out while reads were suppressed, or outdated by a
later write.

**PriceFeed, SolcastFeed.** An asker is a thread: it looks at the throttle
without the lock, takes the lock, looks again, and asks the service, which takes
time. A curve or forecast is the time it was asked for. `priceRow` and the saved
forecast are the cache table, which a restart begins with.

Every `Mut...` operator is a deliberately wrong variant of the definition below
it, used to make sure that the properties can fail; no specification uses one.

## 3. What is checked

| run | module | instance | shows |
|---|---|---|---|
| fence | CommandFence | 3 tickets | every order of calls: order, supersession, the refinement, and every ticket released |
| cycle | ControlCycle | 1 tick, 1 override, outcomes applied and unconfirmed, 4 tickets | slots and beliefs (`CycleConsistent`), no stale tick and no timeout recovery after a newer override (`NewestWins`), every slot freed (`SlotsFreed`: no circular wait) |
| restart | MCSystemRestart | 1 restart request, a stop, 1 tick, 1 override; 3 tickets as long as every command is answered, else 2 | the gate's snapshot stays true and a confirmed restore is AUTO (`RestartConsistent`), a granted restart never wedges, the restore is the last command, and nothing is written after a skipped restore while the drain holds (`StopIsFinal`) |
| tick | ControlTick | every observation; 3 grace cycles, 2 persistence cycles, 2 car commands | nothing remembered swallows an operator or the fail-safe; car and commitment |
| controller | MCModeController | 3 modes, 2 days of 2 time units, caps of 1, dwell 2, 2 faults | caps, dwell, the unconfirmed flag |
| gate | MCWriterGate | control_state and cache threads, 2 tasks of one store, 3 attempts, 2 cancellations a write | no leak, priority, control_state always gets its turn |
| planner | MCPlanLoop | 13 scenarios of 6 slots, replanned every half slot; 1 half slot off forecast, 1 outage, 1 unreadable counter or stale meter | every plan validates but for a summer peak above the battery's power (`PlansValidate`), keeps the day's cycles (`CyclesHold`), buys what pays (`BoughtForAPeak`), promises what it reaches (`HonestPromise`) and keeps or sells only energy that is there (`EnergyIsThere`: the evening's need, the stale meter's buffer, the exports); what is really bought stays under the day cap (`CapIsReal`); the resident is served |
| daily | MCDaily | notices: the evening, the closed window and the morning after of a day of 3 ticks, a Sunday, 1 fault, 1 crash, 1 missed charge window; books: 4 days of 2 samples, lookback 2, retention 3, 1 boot (upgrade or not), 1 view, 1 trouble (a failed read or write, a lost sample) | the forecast on record once and marked truly, gaps told, outages told once; both rows of every day, from all its samples, never from fewer |
| mustcharge | MCMustCharge | 2 requests, 2 threads; 2 POSTs, or 1 and a failed write or restart | the plan one is given is that of the override in force, a cancel is final |
| edges | MCEdges | two towers, settle 1, caches 2 and 3, 2 attempts; prices: 2 threads, windows 3 and 1, grace 4, 2 failures, 10 time units; sun: 2 threads, days of 4 hours, refreshes at 1 and 3, budget 2 | a confirmed command holds for both towers, looks are recent, fresh ones right; no phantom outage, services asked once |
| stop_skip | SystemRestart | 1 restart request, a stop, 1 tick, 3 tickets, every outcome | a violation, see below |
| stale_hold | BatteryIO | settle 1, caches 1 and 2, 2 attempts | a violation, see below |

The inductive invariants of the proofs were put to TLC on these instances first,
and are not listed again where they are proved.

Bounds. Three tickets let every two commands conflict before a third (a stale
command, its recovery and an override or a shutdown); the proofs remove the bound,
and the composed runs use up to four. One tick and one override overlap in every
way, time out and are recovered each, with draining at any moment; a second
override adds no new kind of partner, and the outcomes left out (gated, recovered,
unrecovered) differ from these in what is believed afterwards, not in who may
write. The proofs of both modules are for every outcome and any number of
overrides, tickets and restart requests. Caps of one and a dwell that spans
midnight make each limit be reached within three time units, and two faults are a
failed save plus a crash. A retry budget of three is the code's own. Three grace
cycles (the code's default) make a dip that is bridged twice and then ends the
session; two car commands exhaust the budget of six sooner; the SoC is one of five
bands, which are all that the floor latch, the reserve hold and the validator
compare it with; an age of a command is below one cycle, below the car dwell, or
longer. The proofs about the tick remove the three counts. The restart run has
three tickets, tick, override and restore, as long as the device answers, and two
where it does not: a command of unknown fate and what follows it.

The planner's six slots hold a cheap and a dear slot on either side of the evening
and of midnight, which is what its passes tell apart; prices, load and sun are
chosen so that between the thirteen scenarios the day cap, the cycle budget, the
savings floor, the evening reserve, a must-charge, a resident's override, a
negative price, a trade and a recovery each take something out of a plan or put
something in; one has a summer load above the battery's power (`Heavy`), one a
plan that the savings floor emptied (`Held`), one a battery below its floor
(`Drained`). The scenarios are the inputs: other forecasts are not enumerated, and
what is not proved of the planner (section 4) is a claim about these days with
everything that may go wrong in them. In `daily` an evening, a closed window and the morning after let
a retry, a mark of yesterday and a restart meet, and a lookback shorter than the
retention by one day is the closest the code's defaults (7 and 90) allow the two
to come; the proofs are for any calendar and any number of faults, crashes, views
and boots; two overrides and two threads are the least in which a plan of the one
can meet the key of the other. In `edges` each cache lives longer than a read and
than the settle time, so that a look can be fresh, reused, or of the quiet time;
two attempts are a write and its retry. Two threads are what a lock has to keep
apart; the windows of the price source are ordered as the code's are, and a day of
the sun has two refreshes, so that one can be missed.

### Where code and words disagree

Two runs look for a counterexample, and find it (`PROJECT.json` quotes the lines):

* `stop_skip`: a stop looks at the last *confirmed* action only. A charge whose
  answer timed out leaves it at AUTO, the restore is skipped, and the battery
  stays charging after the process is gone.
* `stale_hold`: a wanted charge on a battery that reports idle is held when the
  last command and the last confirmed one are both a charge. If the confirmed one
  was lost and a second one never answered, both are so, and the charge that was
  not confirmed is not retried (`mode_controller.py:375`).

These definitions are in the modules, and TLC refutes each of them when it is
put into a configuration of its own (for `SkipIsFinal` with a restart request
that is aborted, for `UnknownFateFlagged` with the constants of `controller`);
no run is spent on them:

* `SkipIsFinal` (SystemRestart): a restart request whose client disconnects leaves a
  watchdog that lifts the drain two seconds later (`api.py:3896`), also when a
  SIGTERM has meanwhile made the stop rely on it; a cycle then writes after the
  skipped restore. `api.py:1582` says "Freeze admission before inspecting state".
  The weaker second half of `StopIsFinal`, while the drain holds, is
  proved.
* `UnknownFateFlagged` (ModeController): the unconfirmed flag is raised after the
  driver returns; a process killed during the write boots with the flag down
  (`mode_controller.py:476`, against its comment at 160).
* `RecoveryYields` (ControlCycle): a cycle that returned late but in time reserves
  its recovery without looking for a newer command (`service.py:2741`), and AUTO
  overwrites an override (`command_fence.py:85` says why it must not).
* `OverrideLapses` (ControlTick): a charge an operator commanded is stored as a
  commitment like a planned one; when the override lapses or is cleared the next
  tick resumes it instead of the plan (`service.py:1892`, 2219; `override.py:3`
  promises a return to the plan).
* `TradeGateAgrees` (PlanLoop): `economics.py` says that the export term of the
  shared savings estimate does not by itself undercut the trading plan's gate; it
  does: it charges every sale with the dearest purchase, or the cheapest sale
  where nothing is bought, and the trading plan sells stored energy at its wear. A
  trade that passed its own gate may so be refused (`trading.py:482-508`).
* `NeverRefused` (PlanLoop): `validator.py` says of its power check that a caller
  that ran `clamp_plan_power` normally does not hit it. A summer peak slot asks for
  the whole net load of the house (`adaptive.py:331`); where settings and probe
  agree on the battery's power the clamp leaves that alone (`validator.py:142-145`),
  so one slot with a load above it makes the whole plan unsafe, and the controller
  holds AUTO although the battery would have covered what it can (scenario `Heavy`).
  `PlansValidate` is the proof that this is the only reason.
* `NoTradeStays` (PlanLoop): `SPEC.md:423` wants AUTO all day when a plan saves
  less than the minimum; the catch-up of the recovery comes after the savings
  floor and may still buy.
* `MissedMeansMissed` (Notices): whether tomorrow's forecast was recorded is
  remembered in memory; a process that restarts after 20:00 tells the resident that
  a snapshot is missing which is there (`api.py:737`).
* `YesterdayRefreshed` (Books): the comment in `catch_up_rollups` says that it
  refreshes yesterday's finance; `_ensure_day_finance` serves a row of the
  running formula as it is (`api.py:5478`), so a row a view made at 00:01 stays
  without the last samples. Daily energy is refreshed.
* `StoredIsInForce` (MustCharge): `docs/control-model.md:61` says the override
  lives in the key-value store; the rows a settling deletes may be those of a
  newer POST, which is then in force but lost at a restart.
* `StaleObservationHarmless` (BatteryIO): `mode_controller.py` says that a stale
  observation can at worst cause one redundant write; a reading taken before a
  write of another command can also leave a command out.
* `RequestsWithinBudget` (SolcastFeed): `SPEC.md:265` refuses a refresh over the
  budget so that no retry burns it; a request that fails is neither counted nor
  put off, so a service that is down is asked again at every look.
* `LedgerCounts` (SolcastFeed): `can_call` loads the ledger without the lock and
  may write an older one over the count that `record_call` has just made.
* `RealP10IsOwn` (SolcastFeed): the provider label is read after the lock is let
  go (`_stamp_delivered_real_p10`); slots of a fallback may be stamped as having
  a real P10 when another thread has just got a forecast.

Reading also showed, without a run: an overrun recovery that is confirmed calls
`note_confirmed_auto`, which opens the restart gate before a normal cycle ran,
although `mode_controller.py:548` says it must never do so; a resumed commitment
is not put to the validator that has just rejected the plan, and its target
replaces that of a car command of the same tick; inside the band above the
reserve floor the latch turns the car guard's hold into self-consumption; a tick
without any intent sends nothing, also on unsafe data; `battery.py:65` says that
a stopped car ends the forced discharge within one cycle, whereas the end of a
session has a grace of `car_session_end_cycles`; `GateHasAnOwner` needs its
exception because a second cancellation in `_AsyncWriter.__aenter__` abandons the
acquired gate;
`history.py:682` rolls back on `Exception` only, so a cancelled write body
leaves a transaction open (`auth.py:454` guards against exactly that); and the
original vendor mode may be read after EMS has commanded the battery.

Around the battery: the latch of stale meters counts builds of a plan, not control
cycles as `docs/control-model.md:212` has it (`freshness.py:129-155`); a state of
charge that is served from the cache while reads are suppressed is stamped as
fresh (`settings.py:404`); a sample of the live source may be put together from
two readings (`live.py:113-158`); a real-time command that fails after its
setpoints were written leaves the running action with the new ones
(`indevolt_driver.py:127`); an AUTO that a slave never got is thought done once
the master shows it; a battery that charges but reports standby makes a wanted
standby look done; with the master offline for one read the slave's label is taken
for the mode (`service.py:766-768`); a restart forgets that prices were out. And
`POST /api/trading/test-battery` (`api.py:3683-3843`) commands the battery on the
event loop under `control_lock` but without a fence ticket: its failure path and
its restore erase an operator's override made meanwhile, an override cleared
during the probe leaves its window open, in which a planned export that is not
armed becomes a real discharge (against `SPEC.md:440`), and a probe that fails
leaves the discharge until the next tick, subject to the dwell.

In the planner: a slot the meters have no sample of counts as nothing bought
(`SPEC.md:536`), and one that is sampled in part is taken for its mean, so
the counter is off after an outage; a
catch-up drops the charging of a must-charge or of the resident's override
(`SPEC.md:549`) and the raised floor of a stale meter; the cycle budget is
applied after the target was made honest, so the promise may be too high again,
as the cap is after the evening reserve (the properties name these exceptions);
replanning in mid-slot may abandon a catch-up that runs; when the plan a catch-up
makes up for has no peak left there is no price it is measured against, and it buys
at any price under the resident's ceiling (`recovery.py:222`; scenario `Held`, the
exception in `BoughtForAPeak`); `_validate_plan_obj`
(`api.py:2088`) never passes `usable_kwh`, so the validator's projection check
is idle there.

In the notifications: the restore of open outages reads the *oldest* 500 rows
(`api.py:2495`), and is not tried again when its read fails; the look for a
canonical forecast on record counts solar rows only, so an evening without a
solar forecast may be recorded twice; ten minutes of "unbroken contact" are one
reading followed by fourteen minutes of silence (`detectors.py:257`); a digest
the store refused is marked as sent; `down_push_sent` is set before the send and
a failed row of the recovery leaves the outage open; deleting old notifications
forgets their dedupe keys. In the books: a new formula recomputes the day at the
edge of the retention from what is left of it; a view of a day before the first
sample stores an empty row; two askers may store the older row over the newer.
For the must-charge: the key of a plan without an override is the same before and
after one that came and went; and as the key is cleared before the plan, a thread
that reads without the lock may get no plan for a key that fitted.

### Fairness

* fence: weak fairness of each ticket holder. `enter()` threads are scheduled
  when awake, driver calls are bounded by HTTP timeouts, `finally` clauses run.
  Nobody is assumed to reserve, recover or drain.
* cycle: weak fairness of each cycle's steps (asyncio runs what is ready,
  `wait_for` fires) and each worker's; no fairness for requests, ticks or
  readiness.
* tick: `FairSpec` (the periodic loop and its thread keep running) serves to
  refute `OverrideLapses`; the properties of `tick` need no fairness.
* planner, daily, mustcharge, edges: safety only, no fairness is assumed.
* restart: weak fairness of the watchdog's timer only; the trigger may never run.
* gate: weak fairness of each writer once its write has begun, and of unwinding.
  `CriticalWriteEnds` relies on a single critical writer: control_state saves
  are made by whoever holds the fence, one at a time. Two would compete for the
  gate without an order (`Condition` promises none).

`CHECK_DEADLOCK FALSE` stands where the system really may stop: ticks, requests
and time are bounded, the process may be gone, and an abandoned gate stops every
writer. The planner's day ends, and so does the time of `Notices`, `Books`,
`MustCharge`, `PriceFeed` and `SolcastFeed`.

## 4. What is proved

For every value of the constants that the named assumptions allow (`tlapm` checks
every leaf); each invariant below was put to TLC before it was proved:

* `CommandFence_proofs`: `FenceInvariant` (the inductive invariant `IInv`),
  `FenceSafe`, `OperatorFirst`, `StaleStaysOut`, `OperatorKept`, `DrainQuiet`,
  and `Refinement` (`Spec => Writer!Spec`). Assumption: `MaxGeneration` is a
  natural number. `OneWriter` alone is not inductive: that `Enter` cannot admit an
  older ticket needs `EntryOrder` (every eligible ticket that can still enter is
  newer than the last that did), which in turn needs to know that superseded,
  given-up and drained tickets stay that way (`StaleSuperseded`,
  `DrainSupersedes`, `OperatorSupersedes`) and who owns each ticket
  (`HeldTickets`, `BornInOrder`). One lemma per action shows it is preserved;
  the action properties and the refinement follow from it step by step.
* `SystemRestart_proofs`, the service over the fence. First the cycle alone:
  `CycleInvariant`, `NothingAstray` (`CycleConsistent`), `NewestWishWins`
  (`NewestWins`), `ServiceFollowsFence` (`FenceProtocol`), for any number of ticks,
  overrides and tickets, any modes and every outcome. The invariant has three
  layers. The fence's own `IInv` comes first: a step of the service is a step of the
  fence (or leaves it alone), so the fence's lemmas are cited, not proved again. On
  it stands `Owned`, who holds which ticket at which place of a cycle, which a fence
  alone cannot know. `CInv` adds what the two properties rest on: what is believed is
  true up to the outcome that the active writer has still to record
  (`OutcomesAreReal`), a tick that no override superseded decided after the newest
  request (`DecidedLate`), and between a command that timed out and its recovery no
  override is left to write (`OverridesRun`, `NothingNewer`, `RecoveriesFirst`).
  `CycleConsistent` alone is not inductive: the step that records an answer would
  confirm anything. Then restart and stop: `RestartInvariant`, `RestartHolds`
  (`RestartConsistent`), `StopIsLastWord` (`StopIsFinal`), theorems of `SRSpec`.
  Of the cycle's invariant they need only `Owned`. `RInv` adds that a restart that
  still stands has its drain and found the service idle (`RestartKeepsQuiet`), that
  a stop which has something to restore has nobody left to lift its drain
  (`StopStaysDrained`), and that the restore is the newest ticket for good
  (`RestoreComesLast`).
* `ModeController_proofs`: `ControllerInvariant`, `CapsHold`,
  `UnknownFateRemembered`, `DwellHolds`, for any caps, dwell, calendar and
  clock. `IInv` says that the running process, or else the saved row, accounts
  for everything sent: the counts of the day (with the command in flight
  counted already), the time of the last counted command, and the unknown fate.
  Without the part about the row a crash would forget it; without the ordering of
  local dates (`DatesAreOrdered`) midnight would.
* `ControlTick_proofs`: `TickInvariant`, `OperatorHeard`, `FailSafeHeard`,
  `CarGuarded`, `CommitmentHeard`, `AbsenceRunsOut`, for any number of grace
  cycles, persistence cycles and car commands (each positive:
  `TickAssumption`). `IInv` adds to the type invariant what the validator
  guarantees of an observation, without which a charge could be wished for on
  unsafe data; each action property then follows by ruling out, branch by
  branch, the ones that would swallow the wish (`OnlyTicksTick`,
  `ResolveAnswers`). `CarGuarded` needs one thing of the memory: a session that
  is over has an empty command budget, so a first command is never refused.
* `WriterGate_proofs`: `GateInvariant`, `GateSafe` (`GateHasAnOwner`),
  `QueueSafe`, `CriticalFirst` (`CriticalAhead`), for any writers, stores, attempts
  and cancellations. `IInv` ties each writer's place to the acquire made for it. That
  a critical writer is not passed over rests on a second invariant, that the
  count of waiting critical writers is the number of those that wait
  (`CriticalCounted`); with it no sleeper is left without someone to wake it
  (`NoSleeperForgotten`).
* `Caches_proofs`, what is handed out of a cache: `OutagesAreReal`
  (`NoPhantomOutage`), `PollsAreSpaced` (`PollsSpaced`), `RefreshesArePaidOnce`
  (`OneForecastPerRefresh`), `CommandsTakeHold` (`ClusterFollows`),
  `FreshSkipsAreRight` (`FreshLookIsRight`), `ReuseIsBounded` (`ReadsAreRecent`),
  `AskersGetThePlan` (`OverrideIsPlanned`), `CancelsAreFinal` (`CancelIsFinal`). The
  invariants are `PInv`, `SInv`, `BInv` (with `AgesAreTrue`) and `MInv`. They have one
  form: what a thread looked up before it waited is related to what is there
  when it goes on. Assumptions: the retry window of the prices is no longer than the
  window after success (`PriceFeedAssumption`), refresh times are hours of the day
  (`SolcastAssumption`), a write is attempted at least once (`BatteryAssumption`),
  and numbers are natural. `ReuseIsBounded` has the hypothesis `ReadTime <
  Window`: a reading is put into the service's cache under the time its read
  *began*. Two towers with three tries of four seconds each and their pauses take
  some half a minute at worst, against a default window of 60 s; at the
  setting's minimum of 15 s the hypothesis may fail, and then so may the bound.
* `Daily_proofs`, the notification loop and the books. `NoticesInvariant`
  (`NInv`), `ForecastIsOnRecord` (`ForecastOnRecord`), `GapsAreAlwaysTold`
  (`GapsAreTold`), `OutagesAreToldOnce` (`ToldOnce`), for any calendar in which
  the evening comes before the window closes (`NoticesAssumption`), any limits, and
  any number of faults and crashes. Three stories run side by side in `NInv`: where
  the forecast of an evening is between its row, its mark and the memory of it;
  the notice in hand against the rows it is about to join; and the open outage
  in the box of the process against the last row of the device, which is what
  `ToldOnce` needs: the box may lag behind the rows only in stated places.
  `BooksInvariant` (`BooksInv`), `BooksAreComplete` (`BooksComplete`),
  `DaysAreKept` (`DaysKept`), for any lookback below the retention
  (`BooksAssumption`; the code's are 7 and 90 days) and any number of views,
  boots and failures: a run agrees with the day it is at (`RunsTogether`,
  `RunAdvances`), the days it has passed have their rows (`Settled`, `Refreshed`),
  energy is made from samples that are still there or older than the lookback
  (`EnergyIsBacked`), and two requests that ask for one day agree (`AsksAgree`). The
  last two are where `Lookback < Retention` is used: a day that a run may book again
  has not begun to be deleted. Two bounds of the model are part of what is proved:
  a run and a request end within the tick (of hours) they began in, and a sample the
  recorder is kept from writing arrives at most two ticks late (`TimePasses`).

* `PlanLoop_proofs`, the planner: `LoopInvariant` (`LoopInv`), `PlansAreSafe`
  (`PlansValidate`), `CyclesAreKept` (`CyclesHold`), `PromisesAreHonest`
  (`HonestPromise`), `PurchasesPay` (`BoughtForAPeak`), for every battery, horizon,
  forecast, price (negative ones too), setting and season, with any house, outages
  and unreadable counters. Assumptions: the battery's powers, size and efficiency are
  positive, its floor lies within it and what half a slot stores is a whole number of
  units (`PlanAssumption`); the planner's counts and its solar confidence
  (`SeasonAssumption`); trading's wear is part of the battery's (`TradingAssumption`);
  and forecasts are not negative, targets lie on the battery's scale, limits are no
  debt (`ScenarioAssumption`). `LoopInv` says little: the battery is between empty and
  full, the last request is one a plan can be built from (`RequestOK`), and until the
  world moves the plan is `FinalPlan` of it. The weight is in the passes, one lemma
  each, and the invariant *they* keep is `PlanSound`: every slot is one the validator
  lets pass, the exports fit their cap, and a winter slot that buys on speculation
  has a later slot it pays for. Passes that remove charging only thin a plan
  (`Thins`), and keep the day cap where it was kept (`CapStays`, since sums are
  monotone); passes that add charging are each followed by one that bounds it again,
  which is what the order of the calls in `service.py` has to get right, and what
  `BuildPlanSound` and `RecoverSound` are about. `PlanSound` has a parameter for the
  one exception of `BoughtForAPeak`. `HonestPromise` needs more than that: the
  projection promised from is that of the plan *before* floor holds and promise are
  written into it, and they must not change it (`FloorHoldsProject`, `SameProjection`),
  nor may the cycle clamp that follows unless it says so in a slot (`FinalPromise`).

Where an argument wants induction (the *latest* row of an outage, say), the proofs
take a minimal counterexample from the library's `WFMin` instead, whose argument is
a set. In the planner it is what makes three recursive definitions usable: the
library's sums are shown to exist, to be integers, and to be monotone by the
size of the set (`PartSumsExist`, `SumOneOut`, `SumMonotone`), and the projection
and the kept cycles, each a `CHOOSE` of a recursive function over the slots, to
exist and to be unique (`WalkExists`, `WalkUnique`).

Only model-checked:

* three invariants of `PlanLoop`, over the thirteen scenarios. Each is true by the
  numbers of a slot more than by the order of the passes. `CapIsReal`: the counter
  takes a slot for its mean, which nets what was charged in one half against what was
  discharged in the other, so the claim rests on a plan never doing both in a slot
  with the cap nearly used, over all replans of a day. `EnergyIsThere`: a catch-up
  supersedes charging that the evening's reserve, the buffer or an export counted on,
  so that what is left depends on how prices order the slots and on the ratio of the
  charge to the discharge power. `ResidentServed`: whether the energy fits before
  the deadline depends on the resident's own ceiling and cycles, which each may leave
  it unmet;
* all liveness (`EveryTicketReleased`, `SlotsFreed`, `RestartNeverWedges`,
  `CriticalWriteEnds`): TLAPS does not do fairness or ENABLED.

TLC evaluates each ASSUME with the constants of the runs.

`OneWriter`, `OperatorNeverDropped`, `DrainStopsRoutine`, `AbsenceCounts`,
`FenceProtocol`, `CriticalCounted` and `NoSleeperForgotten` are proved
(`FenceSafe`, `OperatorKept`, `DrainQuiet`, `AbsenceRunsOut`,
`ServiceFollowsFence`, `QueueSafe`) and do not spend a place in a run.

## 5. Not modelled, and abstractions

* In `ControlCycle` and `SystemRestart` what a tick decides is any mode;
  `ControlTick` opens that choice up, for one tick after another.
* `ControlTick`: export is not armed; targets, powers and deadlines are left out
  (a commitment is over or not, a car prediction has moved or not); unsafe plans
  appear as the wish for self-consumption they become; the audit rows and their
  dedupe are left out. Dry run never ticks.
* Outside `BatteryIO` a device answer is one of the outcomes of `decide`. In it
  the cluster has two towers, the values of setpoints are left out, and so is the
  probe of `POST /api/trading/test-battery` (section 3).
* Restart: a stop restores AUTO (an original vendor mode of idle is left out); the
  server lets open requests finish before the lifespan stops.
* Dry run is left out: it writes nothing. The lifecycle, once CONTROLLING, stays
  so: `manual_override` and `return_to_default` are called by tests only.
* The audit await of `_handle_overrun` is not cancelled.
* A saved row is read back whole or not at all; single malformed fields are not.
* The writer gate: the pool of threads is not bounded, and what a write does to
  the tables, or leaves in an open transaction, is not modelled.
* Planner: `plan_summer` and the other paths for a missing load or solar forecast,
  the fuse limit and `clamp_plan_power` (settings and probe agree on the battery's
  power here, where it leaves a plan alone), rounding to
  cents and tenths, the explanations, and `evaluate_trading`'s report. A car's
  schedule enters as energy it takes (`ev`).
* Notices: a stage reads the clock once, so time passes, and the store breaks or
  heals, between stages; of the detectors only the one with a memory over days is
  modelled (cheap power, little sun and a blocked charge use a dedupe key of the
  day, as the catch-up does); the mark that follows a rejected catch-up and the
  outcome of a backup are left out.
* Books: a run that is under way over a midnight is left out; prices and what rows
  say in euros are left out, and so are the purges of the other tables.
* MustCharge: one coalescing window; the validation of a request is the guard of
  `Post`, and the window of accepted appliance runs in the key is constant.
* Sources: parsing, the other clients, and the meters' own samples are left out.
* Reporting, consumers, UI: no control state. They are most of the code the map
  does not cover: `export_package.py`, `replay.py`, `start_advice.py`, the
  settings schema and the routes of `web/api.py` that read and render are input
  validation, formatting and arithmetic over stored rows, without an order of
  steps that a model could get wrong.

## 6. Plan

In order of what could hurt most:

1. Proofs: `EveningIsKept`, as a claim about plans that no catch-up reshaped, from
   the lemmas on projections; `CapIsReal` for a battery that either charges or
   discharges in a slot.
2. `ControlTick` composed with `ModeController` (its gates in place of "held at
   will"), with deadlines and targets of a commitment, so that an aborted one
   never resumes and a resumed one ends; the original vendor mode.
3. Histories of ticks: persistence means *consecutive* ticks; the floor latch
   against a reference definition; the meter hysteresis, whose streak advances
   per build of a plan (`freshness.py:147`).
4. Transactions in `WriterGate`; the lost update of `CacheStore.get`.
5. The login limiter: sequential, with its eviction (`web/ratelimit.py:73`).
