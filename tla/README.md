# A verification project for the off-grid power supervisor

The repository runs a trailer's power system on a Raspberry Pi. A lithium pack
with a Pylon-protocol BMS on CAN is charged by two solar charge controllers, a
MidNite **Classic** (Modbus/TCP) and an **EPEver** (Modbus RTU over RS-485). One
Python process, the *supervisor* (`software/pi-controller/src/offgrid_power`,
below `src/`), reads every device, decides what each controller may charge with,
writes its limits, drives relays, records telemetry and serves an HTTP API. A
few shell timers watch the process, the bus and the pack from outside.

This directory holds TLA+ modules for that system, TLC configurations and
machine-checked proofs. `PROJECT.json` says, definition by definition, which
lines of the source each part of a module models.

## 1. Inventory

| Component | State it keeps | Operations | Talks to |
|---|---|---|---|
| Charge ceiling (`charge_ceiling.py`, `ChargeCeiling`) | three latches, scaling factor | `evaluate`, `set_`/`nudge_scaling_factor` | called by the allocation tick and by HTTP threads |
| Charge-enable resolver (`ChargeEnableResolver`) | last request, when the frame was last seen | `resolve` | called by the tick |
| Charge allocator (`charge_allocator.py`) | none (pure); `AllocationOverride`: pause, manual ceilings | `decide`, `apply`, `set_*` | the tick; HTTP threads |
| Charge control loop (`ChargeAllocationLogger`, `cli/supervisor_display.py`) | last coil written, sleep debounce per charger, last view | `record`, `_apply`, `_update_charge_disable` | supervisor, devices, relays |
| Relay supervisor (`relay_control.py`, `relay.py`) | relay states, heat-fan modes and edges | `set_charge_disable`, `update_heat_fan` | GPIO; HTTP threads |
| Device actors (`readers.py`) | queue, last snapshot, value history, enabled, stop | poll, `submit`, `set_enabled`, `stop` | one thread per device; snapshots read by all |
| Supervisor (`supervisor.py`) | device readings, clock offsets, load cohort | `read`, `write_*`, `set_device_enabled` | actors, store, monitor |
| HTTP control API (`web_display.py`) | none of its own | pause, limit, factor, coil, limits, voltages, sync, relays, switches | writes past the loop on its own threads |
| EPEver and Classic adapters (`epever.py`, `classic.py`) | device registers | read snapshot, write coil, write limits and voltages with read-back | Modbus |
| Runtime state (`runtime_state.py`) | JSON file: factor, device switches, relay choices | load, atomic save | written by HTTP threads, read at start |
| BMS CAN client (`canbus.py`) | latest frames | decode, collect with a time limit | bus |
| Telemetry store (`metrics.py`) | database on a removable disk, fallback on the boot card, health | append, fall back, merge, discard | main loop, HTTP threads, export |
| Object-store export (`object_store_export.py`) | upload marks | collect, PUT, mark | store, network |
| Load estimate and totals (`load.py`) | aligned samples, daily sums, midnight SOC | estimate, integrate | tick, store |
| Network monitor (`network_monitor.py`) | debounced LAN state, WAN state | probe, mark | snapshot, events |
| Clock restore (`clock_restore.py`) | none that lasts | wait for the time daemon, confirm the Classic's clock, step | boot, before the supervisor |
| Watchdogs (`src/scripts/*watchdog*.sh`, `*notify*.sh`) | stamp files, cool-downs | check, reboot, ping | systemd timers; the health endpoint |
| Terminal console (`cli/api_terminal_display.py`) | mode, staged changes, typed keys | tune, options, commit, refresh | HTTP API |
| Weather service and event trackers (`weather.py`, `magnum.py`, `network_monitor.py`) | report, cache file, last state seen | `get`, `refresh`, `observe` | tick, HTTP threads, internet |

### What is hard here

* **Two writers, one device.** The tick sends its commands one at a time. Between
  any two of them an HTTP thread may pause the allocator, set a manual ceiling or
  write the same register. `_apply()` and the relay each take *their own* view of
  the override, so one tick can act on two.
* **Commands whose outcome is unknown.** A command runs on its device's thread
  (`readers.py`). Its caller may see an exception after the write took effect, or
  time out while the command stays queued and runs later. A settings request sends
  several of them, and the console waits no longer for an answer than for a page.
* **A cached device state.** The EPEver's coil is written only when it differs from
  the coil the loop *believes* it wrote last; the heat fan likewise; a nudge is
  computed from the last snapshot of the settings.
* **Missing frames.** Any of the BMS's frames may be missing from a snapshot; the
  flags frame is bridged for 45 s, then charging is released unless it is cold;
  other missing frames select other early returns.
* **Order of the stops.** `evaluate()` looks at its stops one after another and
  returns at the first that holds: later latches are then neither set nor cleared.
* **A snapshot is not taken at one time.** Readers, switches and the LAN probe move
  while it is assembled; a device that is hidden must be hidden for a reason that is
  shown, and a load must not mix two cycles.
* **Two databases and a mount.** A write goes to the disk, or to the boot card, or to
  the directory beneath the mount point; merge, unlink, discard and the exporter's
  marks are steps of different threads and processes on the same files.
* **Clocks.** The Pi has none of its own: it is set from a controller whose two boards
  may disagree, and stepped by a daemon while the fan's qualifying time, the day's
  totals and the watchdog's stamps are being measured with it.
* **Restarts.** Latches, sleep debounce, trackers and the cached coil live in memory;
  registers, stamps, databases and the runtime state survive.

`PROJECT.json` lists each hazard at its line, with the properties that would
catch it or why none does.

### What makes each component correct

* Ceiling: each stop latches with its hysteresis and nothing but recovery or a restart
  clears it.
* Resolver: a request to stop is held over a gap; blindness does not stop the
  charge of a warm pack for ever.
* Allocator: the limits in use add up to the budget; a charger is switched off
  only by a genuine stop, and a genuine stop reaches every charger.
* Control loop: a lasting stop ends with the coil open, 0 A on the Classic and its
  relay on; a released stop gives charging back; limits settle instead of hunting.
* Actors: a stopped or disabled reader publishes nothing more, a submitted command
  completes or fails exactly once, nobody waits for ever.
* Settings: a block of voltages in a device is consistent, an answer is true, a raise
  respects the limit the snapshot shows, the file holds what memory holds.
* Store and export: a row is lost only where the code gives it up, and none is uploaded
  under another's mark; a recorder that
  says "ok" has nothing waiting; what waits reaches the object store.
* Snapshots: nothing disappears unexplained; a lasting outage is reported.
* Fan, totals and clock: heat goes off on a hot pack, on only after steady sun; a
  day's total is of that day; the clock is only set to one that counts.
* Watchdogs: a reboot needs a loss that lasted; a wedge that stays is rebooted; the
  operator's channel follows the health report.
* Console: a commit stays within its budget, an armed mode is left by itself.
* Weather and trackers: a report comes back when the internet does; the events tell
  the state.

## 2. Modules

| Module | Models | Depends on |
|---|---|---|
| `HysteresisStop` | abstract: what a latched stop promises | - |
| `Telemetry` | a BMS snapshot, any frame missing | - |
| `ChargeCeiling` | `ChargeCeiling.evaluate`, factor edits, restart | `Telemetry`, three instances of `HysteresisStop` |
| `ChargeEnable` | `ChargeEnableResolver.resolve` | `Telemetry` |
| `ChargeAllocator` | `decide`, apportioning, smoothing, override (pure operators) | `Telemetry` |
| `ChargeControl` | the whole tick with its commands, HTTP handlers, actors, restart | the three above |
| `CommandPort` | abstract: what a device's command port promises its callers | - |
| `DeviceActor` | `PollingReader`, `start_readers`/`stop_readers`, the operator's switch and its persistence | an instance of `CommandPort` |
| `ChargeSettings` | the settings handlers, the devices' blocks and checks, the runtime-state file | - |
| `Snapshots` | `read()` reader by reader, freshness, conditions, LAN monitor, load cohort | - |
| `TelemetryStore` | the recorder, its two databases and their merge, the exporter | - |
| `ClockRestore` | the boot helper, the time daemon, the Classic's clock | - |
| `MainLoop` | heat fan, daily totals and midnight SOC of the loop that runs on that clock | extends `ClockRestore` |
| `Escalation` | watchdog, degradation and protection notifiers, their stamps, the machine | - |
| `Console` | the terminal's tune and options modes against the API | - |
| `Advisory` | weather service with its cache file, trackers of transitions | - |
| `MC*` | constants for TLC | |
| `*_proofs` | theorems of the module of that name (`ChargeControl_proofs`: of `ChargeCeiling` too; `Console_proofs`: of `Advisory` too) | `TLAPS` |

`ChargeControl` composes ceiling, resolver, allocator and the outcomes of the actors;
`MainLoop` composes the boot helper with the loop that starts on the clock it leaves.
The other modules meet the rest of the system through inputs that may take any value
the other side can give: `Snapshots` sees polls succeed, fail and hang as
`DeviceActor` has them, `Escalation` sees any health report, `Console` any answer.

**Units.** Currents of the BMS and budgets are tenths of an ampere, limits and
targets whole amperes, cell voltages millivolts, the voltages of `ChargeSettings`
tenths of a volt, factors percent. `Null` is Python's `None`. Time is counted in the
period of the loop or timer that is modelled; ages saturate at the last value the
code tells apart.

**`ChargeCeiling`.** `lowTempLatched`, `cellLatched`, `fullLatched` are the latches
of the class and `factor` its scaling factor. `seen`, `ceiling`, `reason` are the
input and result of the last `evaluate()`; they are what properties speak of.
`Evaluate` is the method as one step. `evaluate()` takes no lock, but it reads the
operator's factor once, with the configuration it copies at its start, and the latches
are the tick's alone. An allowance is clamped between 0 and the BMS's own limit. The latch
refinements read a snapshot as *trip*, *recovered*, *between* or *none*, and
`HysteresisStop` says what may follow.

**`ChargeControl`.** One `Tick` is `record()` up to the start of `_apply()`: read,
debounce, resolve, evaluate, decide, smooth and overlay the override. Then the
program counter `pc` goes through `coil`, `classic`, `epever`, `relay`: each is one
command, with other threads free to move between any two. A command is *done*,
*refused* (exception, nothing written), *lost its reply* (exception after the write)
or *timed out* (queued in `pending`; `ActorRuns` executes it later). For a limit a
lost reply and success leave the same state, since nothing of a limit write is
cached. The HTTP handlers are `SetPaused`, `SetManualLimit`, `OperatorCoil`,
`OperatorLimit`, `OperatorRelay` and `OperatorFactor`. `Restart` forgets what lives
in memory; queued commands die with the process.

**`DeviceActor`.** One controller's actor (`PollingReader`), the threads that serve
requests and the main thread, from the start of the HTTP server to the end of
`stop_readers()`. `enabled`, `cached`, `queue`, `stopping` and `threaded` are the
reader's `_enabled`, `_value`, `_commands`, `_stop` and `_thread`; `switch` is the
supervisor's operational switch, `stored` its copy in the runtime-state file,
`published` says that `Supervisor._readers` is set. `actor` and `current` are where
`_run()` is and what it runs, `pc[c]` where thread `c` is. One step is what a thread
does under one lock, or between two reads of shared state: a command is `Ask`
(request arrives), `Require` (the switch is looked at), `Route` (are there readers?),
`Submit` or `InlineReturns`; a toggle is `SetSwitch`, `FindReader`, `ReaderOn` or
`ReaderOff` and `DropCache`, then, after a change, `HookReads` and `HookSaves`. The
web server answers before the readers are started, so requests are there from the
first state on. `reply` is what a caller was told; a caller may only ask again when
its last command is over (a thread that gave up is a new caller in the code).
`CommandPort` sees of all this what became of each caller's last command.
`ChargeControl` uses the outcomes of this module (`Done`, `Refused`, `TimedOut`,
`ActorRuns`) and not its steps: the tick's thread is one of the callers.

**`ChargeSettings`.** `block` holds each device's registers, `cache` what the served
snapshot has of them, `queue` the actors' commands and `call[t]` where request `t` is:
it looks at its guards, sends one command after another, waits or gives up, and
answers. The EPEver's check of a block against what the device holds is part of the
command that runs on the actor. `cvl` is the limit in the snapshot's battery reading: a
poll brings another (`BatteryPoll`), and one that fails leaves the last there until it
expires, so the guard may see an old one. `factor`, `enabled`, `file` and `lock` are the
edits that are persisted: set in memory, then load, change and save under `_state_lock`.
A load that fails, at a save or at the start, is that of an empty document: a save then
replaces the file by one with its own key only.

**`Snapshots`.** `age`, `recent`, `error`, `trouble` are a reader's last value, its
history, its last failure and what the value reports; `failures` and `lan` the monitor's
count and verdict. `pc` walks through the readers, the conditions, the balance and the
publication, and `draft` is what was gathered so far. Between any two of these steps a
poll may end, a switch turn and a probe come in.

**`TelemetryStore`.** `file[d]` is the database at `ssd`, `shadow` (the directory
beneath the mount point) and `fallback`: absent, without tables, ready or damaged,
with the rows of its two tables in the order of their numbers, and an `age` that says
which file of that name it is. `pc[w]` is where a writer is in `_write()`: it looks at
the mount once, tries the primary, once more after moving a damaged file aside, then
the fallback; a write to the primary merges (`MergeCopies`) and unlinks (`Unlink`) in
two steps, as the code does. A damaged file is found in one step (`FindsDamage`) and what is
at the path by then discarded in another (`Discard`): moved aside, onto another copy of the
same second if there is one, or deleted when it cannot be renamed. `aside` holds the rows
of what was moved, `gaps` those put beside a merge or destroyed.
`initialized`, `active`, `attempt`, `fallbackError` are the
recorder's fields, `export` the exporter's batch, `bucket` the object store.

**`ClockRestore`, `MainLoop`.** `time` is true time and `skew` the Pi's clock less
that. `phase` walks through `restore_system_clock()`: wait for the daemon, wait for the
Classic, confirm with a second sample, check the marker again, step. The loop then runs
one tick a second of that clock: `update_heat_fan()` with its reactive and preventive
modes and its cached relay state, which go by the coldest cell (`pack`) and for the cut-out
by the hottest (`hottest`), and `LoadTotalsTracker`, `midnight_soc` with theirs.
`sunSince`, `stepped`, `foreign`, `jumps`, `misread` are history for the properties.

**`Escalation`.** `firstBad`, `lastBoot`, `since`, `alerted` are the ages of the stamp
files, `Missing` when there is none. `Watchdog` is a run up to its decision and the
write of its stamps; the notifiers write their mark and then ping (`ping`, `PingEnds`).
The endpoint's 503 under an ERROR condition reads as unreachable, as `curl -f` makes it.
A reboot, a power loss and a step of the clock are the machine's.

**`Console`.** `at` is `main()`'s place, `tty` and `buffer` the keys in the terminal and
those Python has read ahead, `rows` and `option` the staged values, `todo` what a commit
has still to send, `requests` all that was sent and `flight` the one it waits for. The
server's threads get to a request in any order, waited for or given up: a voltage is read
(`ServerReads`, which plans the absolute value) and written (`ServerWrites`) by two
commands, with other writes possibly between them; the factor's delta is added under the
ceiling's lock. `server` and `cache` are the supervisor's settings and the snapshot it
serves of them, `sent` and `drift` a row's commits and what other clients moved it by.

**`Advisory`.** `fetch` is `_fetch_and_store()` in the tick and in the background;
`report` and `file` what it leaves, also when the process dies while writing; `asking` a
visitor between its look at the report and its request. `tracker` and `told` are a
tracker's memory and the last event recorded.

**Abstractions.**
* A tick's view of a limit is the device's register at the tick: staleness of a
  snapshot by less than one poll is left out of `ChargeControl`.
* The allocator's `online` and `enabled` fields are never false in this program and
  the pack current is always read with the limits the path needs; they are left out.
* Water-filling is modelled by its fixpoint (who ends up at the cap, what the others
  share), not by its passes: a charger capped early in a pass only raises what is left
  for the others per weight, so the order in which the set is walked does not matter.
* An odd quantum has no ties, so `round()`'s half-to-even does not show.
* Computing the decision and taking the first view of the override are one step: an
  override that changes between them is one that changed just before the tick.
* In `DeviceActor` a reader's error text and its histories are left out (the value
  history is in `Snapshots`); so is a state file that cannot be written, which is only
  logged. `submit()`'s two tests and its `put` are one step, as are
  `set_enabled(True)`'s test, set and request for a refresh. The queue of the code has no
  bound; `MaxQueue` is the model's, and a request waits for room.
* In `ChargeSettings` every acknowledged write takes effect, the check of the battery
  type counts as a conflict of the block, and turning a switch is one step (its races
  are in `DeviceActor`).
* In `Snapshots` no time passes inside an assembly, and a poll, probe or switch only
  moves before the step that reads it. The history of a reader is bounded by what a
  balance may use; the code's bound of 8 values does not bind there.
* In `TelemetryStore` opening a database and committing to it are one step, a row is its
  source and time, and a database with its `-wal` and `-shm` files is one file, which is
  moved or deleted whole.
* In `MainLoop` the Classic's clock is never ahead of true time and the persisted clock is
  behind (`SurroundingsAssumption`), so a step of the clock goes forward:
  `TotalsWithinDay` relies on that. The
  derived "EPEver today" figure and the buffer of load samples are left out; a heat-fan
  event is not recorded while telemetry is missing.
* In `Console` one controller with one voltage row, one factor row and one switch stand
  for all; keys that do the same share a disjunct; a snapshot that lacks some rows is
  left out.
* In `Advisory` the forecast's decoding and a label that does not match are left out;
  a reading of the internet's state is treated like one of the inverter's.
* Logging and the display's copy of a decision are left out.

## 3. Runs

Every run is expected to pass, and every property has a mutant in `PROJECT.json`: a
plausible slip in a mapped definition that the run then reports.

| Run | Question | Bounds |
|---|---|---|
| `ceiling` | Do the three latches keep their promise? | default thresholds, 19 snapshots (a value on each side of each threshold, each frame missing), factors and steps that leave the band on both sides |
| `control` | Is a stop reserved for a stop, does it reach everybody, is a gap bridged, is the budget kept? | 10 inputs: charging, stop, flags gap with unread limit, limits gap, five constrained budgets (two of them below or near the floor, with sleeping, absent and single chargers, a pack above its allowance); pause and manual ceiling between any two steps; restarts |
| `control_live` | Does a lasting stop get enforced, a released one given back; do limits settle? | 7 inputs with gap, cold gap, latched cell stop, constrained budget, tick without chargers; refused writes; factor changes |
| `control_commands` | Does the Classic's stop survive late and lost commands and an operator? | one timed-out command per device, lost replies, coil, relay and limit written by an operator |
| `device_actor` | Does a reader that is off stay silent; is every caller told the truth about its command; is the adapter the actor's alone while the readers run; are commands taken and does telemetry come back? | a thread that commands and one that operates the switch, a queue of 2, every failure of a poll, time-out, stop and restart |
| `charge_settings` | Is a device's block of voltages always consistent, an answer true, a nudge computed from what was fresh, a raise within the limit the snapshot shows, the file what memory holds? | two requests at once out of every kind of handler, blocks and requests on both sides of each check, a limit that changes or is missing, time-outs and late commands, a file that cannot always be read or written, restarts |
| `snapshots` | Does a device ever disappear unexplained; does a load mix cycles; is an outage reported? | battery and Classic, stale after 1, hidden after 2, LAN down after 2 probes |
| `telemetry_pipeline` | Is "ok" honest; is every lost row accounted for; is a mark honest; does what waits get uploaded? | the loop and one HTTP thread, one tick with a poll, batches of 2, one fault (unmount, damaged file, refused write, restart) at any step |
| `main_loop` | Does a hot pack stop the fan, does only steady sun start it; is a total of its day; is the clock only set to a steady one? | 8 units of true time, a day of 5 (a midnight within every full run), 8 snapshots (cold, hot, one with a cold and a hot cell, sunny, dull, missing), one wrong read, one failed relay write |
| `escalation` | Is a reboot sustained, a wedge rebooted, does the channel follow the health? | two transports with a quorum of 2, blind after 2, cool-down 4, one power loss or step of the clock |
| `console` | Does a commit stay within its budget; is an armed mode left? | five presses out of ten keys, two of them waiting in the terminal, one change by another client, requests served in any order, late or never |
| `advisory` | Do the events tell the state; does the weather come back? | one tracker, reports due after 2, fetches that take 1, internet and disk failing at will, restarts at any step |

**Why these are enough.** Thresholds only compare, so one value on each side of
each is as good as all. The classic's cap is 5 A and the EPEver's 7 A (unequal, as
in the field), the deadband 2 and the quantum 3, so budgets fall below the floors,
between the caps and above their sum and moves fall inside and outside the
deadband. A hold time of 2 ticks has a held and an expired tick; a sleep debounce of
1 tick has a debounced and an asleep tick. One queued command per device is enough
for a late write to land before, between and after the writes of a later tick.
In `device_actor` two queued entries are enough for a command to wait behind a refresh
and for a full queue. `ManualLimits = {0}` is the ceiling that looks most like a stop
and must not be one. In `charge_settings` two requests are enough since every guard
concerns one request and what may come between its steps; the threads are symmetric.
In `telemetry_pipeline` one more writer than the loop is enough for a row beside a
merge, and a batch of 2 leaves a rest; the three safety properties are theorems for any
number of writers, batches and faults. `Day = 5` and `MaxTime = 8` let a total be begun
before and carried over a midnight, before and after a step of the clock; `Confirm = 2` has a
sample before and after a jump of the Classic's clock. In `escalation` the cool-down is
longer than the blind time, as in the scripts, so both bind. `MaxPresses = 5` opens a
mode, stages, commits and presses one key more; `Budget = 2` with steps below and above
it has commits that are clipped. `RefreshAge = 2` and `FetchTime = 1` let a fetch begin
while another is under way and both end in either order.

**Fairness.** `WF(TickStep)`: the main loop calls `record()` every tick and never
blocks for good, since every command has a timeout. `WF(ActorRuns)`: each actor
thread drains its queue. `SF(CoilWritten)`, `SF(LimitWritten)` and the relay's
success: a write tried again every tick gets through some time; an EPEver that
refuses every write for ever cannot be stopped by anyone. In `DeviceActor`,
`WF(ActorStep)`: the actor's thread is scheduled and each adapter call returns or raises
(every bus access has a timeout); `SF(PollStarts)`: a poll comes due again and again
while the reader is on; `SF(ReadReturns)`, used by `TelemetryReturns` only: a device
that is polled for ever answers now and then. In `Snapshots`, `SF(Tick)` and `WF` of the
steps of the assembly: the loop goes on; a reader that is stuck or fails for ever is the
premise of `OutageReported`, not assumed away. In `TelemetryStore`, `WF` of time, of the
loop's snapshots and of a writer's steps, `SF` of a commit to the disk, of the merge, of
an upload and of its mark: what is tried for ever succeeds some time; nothing is assumed
of HTTP threads or faults. In `Escalation`, `WF` of the interval, of the timers' runs and
of the end of a ping (it has a time limit, and may fail). In `Console`, `WF` of the loop's
own steps and of the client's time-out, none of the operator or the server. In `Advisory`,
`WF` of time, of the tick and of a fetch's end, `SF` of an answer to a fetch of the tick.
Nothing is assumed of callers, operators, restarts or the BMS: a property's premise says
what the environment must leave alone (`<>[]Stopping`, `<>[][~Operator]_vars`,
`<>[](net /\ disk)`).

**Bounds.** `Inputs`, `Batteries`, `Factors`, `ManualLimits`, `OperatorSwitches`,
`OperatorLimits`, `OperatorPauses`, `MaxPending`, `MaxQueue`, `Requests`, `Limits`,
`Blocks`, `MaxTicks`, `MaxFaults`, `MaxTime`, `MaxPresses`, `MaxOthers` and `MaxTyped`
bound the environment; each is named as a bound where it is declared. `CHECK_DEADLOCK` is
off in `MainLoop` (bounded time ends) and in `Console` (the operator quits); it is on
everywhere else.

## 4. Proofs

`ChargeControl_proofs`, of the ceiling, for all thresholds with
`FullResetSoc <= FullSoc`, all snapshots and all factor edits:

* `CeilingTyped`: the type invariant is inductive, with the lemma `AllowanceBound` that an
  allowance is a natural number; the factor stays in its band whatever is asked for.
* `LowTempImplementsStop`, `CellImplementsStop`, `FullImplementsStop`: each latch
  implements `HysteresisStop`. The initial state maps to its initial state and each
  step to a step or a stutter; the step proof splits on whether the snapshot
  *consults* the latch. The full-charge latch needs that a reading cannot be both
  full and rested, which is where `FullResetSoc <= FullSoc` is used.

and of the whole loop, for any number of queued commands, any inputs, lost replies
or not:

* `ResolverTyped`, `ControlImplementsCeiling`: the loop's steps are steps of
  `ChargeCeiling` or leave it alone, so what is proved of the ceiling holds in the
  loop.
* `StopsAreReserved`, `StopsReachEveryController`: `DisableOnlyOnStop` and
  `StopReachesEveryController`. Neither is inductive, since both speak of the
  targets being applied and the *current* ceiling. The invariant `HonestTick` adds
  that the decision and the view `_apply()` took both are honest about the ceiling of
  the tick they were made in, and that the ceiling moves only when they are made anew.
* `GapsAreBridged`: `GapHoldsStop`. The invariant `GapInv` ties the resolver's memory of
  the last request to the allowance resolved from it, also while the tick's commands are
  sent: as long as a request to stop is held the resolver answers *disabled*
  (`HeldMeansDisabled`), and `evaluate()` then gives 0 A to any snapshot there is
  (`DisabledMeansZero`).

* `ControlTyped`: the type invariant, with the queued commands' types (`DeviceTypeOK`): what
  a late command writes to a register is still a limit the next tick can compute with.
* `AllocationFitsBudget`: `AllocationBounded`, for any caps, reserve, tolerance, deadband and
  odd quantum. The argument follows a tick: what each round of the water-fill hands out at
  the cap fits the budget (`RoundFits`), so the floored shares and the spare amperes do
  (`SharesFit`); a decision's targets are such shares, at least the floor, or stops
  (`DecidedShares`); the deadband and the bucket add no more than `Slack` (`SmoothedFits`,
  `StabilizedFits`); pause and manual ceiling only lower (`OverrideLowers`). The set that is
  summed is that of the decision because nothing debounces while a tick runs. The slack is
  what the code may really add: a share of 0 held at the EPEver's 1 A, and from there a
  limit that stays a deadband short of moving; with the defaults (5 A) that is 5 A on the
  EPEver and 4 A on the Classic above the budget, which only the feedback of the measured
  current takes back.

* `CacheWrongForThreeReasonsOnly`: without lost replies, late commands and an operator who
  writes the coil, `CoilCacheCoherent` holds, through refused writes, gaps and restarts. No
  run checks it, since the code justifies none of the three premises; it says that departure
  2 of section 5 and its two siblings are all there is.

`DeviceActor_proofs`, for any set of callers, any of whom may command the device,
operate the switch or both, and any queue bound:

* `DeviceTyped`: the type invariant, split into flags, queue and callers.
* `OffIsSilent`: `DisabledPublishesNothing`. Inductive together with `Startup`, which
  says what the main thread's progress implies: before the reader is configured there
  are no published readers and no telemetry, the actor has not started before its
  thread exists, and while the readers run they are published and threaded. The step
  that matters is `Publish`, which looks at the switch again under the lock that
  `DropCache` takes.
* `ActorAlone`: `OnlyActorEnters`, from the same `Startup`.
* `ActorImplementsPort`: `DeviceActor` implements `CommandPort`. The invariant is
  `PortInv`: no command is queued twice; a caller that waits has its command queued or
  running and not both; a command that is queued or runs has a caller that waits or one
  that gave up. The step proof shows that a step concerns the command of at most one
  caller, and how that one's state moves in the port.

`ChargeSettings_proofs`, for any threads, payloads, limits and devices' blocks.
`SettingsInv` states the invariant all the others rest on. Its parts that are not types:

* `PeakInv`: the highest limit since a request arrived is at least the one in the snapshot,
  so a guard that has passed keeps its promise when the limit falls (`PlanInv`: a plan fits
  below that peak, and what has run of it is what was answered for).
* `EntryInv`, `SingleInv`: a queued command belongs to a caller that waits for it or gave
  up, carries that caller's cells, and no caller has two. `BlockSound` is inductive with
  them because `Run` looks at the device's registers again, whatever the caller saw.
* `NudgeInv`: while a nudge is under way, the setpoint the device has is among the seen.
* `SaveInv`: a save that no other edit of its key overlaps carries the value in force,
  and of the other key, under the lock, the file's, unless the load failed (`strayed`).

From these follow `BlockStaysSound`, `AnswersHonest`, `NudgesFromFresh`,
`RaisesWithinLimit` (an action property: the step that raises a voltage is `Run` of the
head of the queue, whose cells fit below its caller's peak) and `FileFollowsMemory`.

`TelemetryStore_proofs`, for any HTTP threads, polls, batch size and number of faults.
It rests on lemmas about tables: `InsertKeeps` (a copied set of rows keeps the numbers of
those that were there and marks none, whatever order the set is written in), `MarkKeeps`,
and one summary per step of what it does to the one database it writes (`DiscardContent`:
what a discard takes from its database is aside or among the `gaps`). `StepsSorted` and
`WriterGentle`, `OtherGentle` then say that all steps but `Discard` and `Unlink` keep
every row at its number, and all but the exporter's marking mark nothing.

* `HealthIsHonest`: `QuietOkMeansDrained`. `DrainHonest` adds who may have left something
  in the fallback without an error: a writer that is still to unlink it or to note it.
* `LossesAccounted`: `GapsAccounted`. `UnlinkSafe`: while a writer is about to unlink the
  fallback, what it holds is copied, moved aside, put there beside the merge, or destroyed
  with the copy.
* `MarksAreHonest`: `OwnMarksHonest`. `BatchHonest`: as long as the file has the age at
  which the batch was collected, the batch's numbers lead to the batch's rows; a file made
  anew has another age. `UploadedFirst`: what is to be marked is in the object store.

`Snapshots_proofs`, for any chargers, severities and limits with
`StaleAfter <= ExpireAfter`:

* `HiddenDevicesExplained`: `HiddenIsExplained`. `DraftInv` adds, for the time before
  the status is known, that every device that was read is shown, or has an error, or is
  put down to the LAN, or something is stale; the LAN's condition then follows unless it
  came back in between (`settled`). `StaleAfter <= ExpireAfter` makes an expired value a
  stale one, which is warned of.
* `LoadOfOneCycle`: `LoadNeverMixesCycles`, from the choice of the newest set of aligned
  values; the greatest and least of a finite set of ages are shown to exist.

`Escalation_proofs`, for any transports, quorum and thresholds: `RebootsAreSustained`.
The invariant `StampsHonest` compares the stamps' ages with the true ages, unless the clock
was stepped: neither stamp is older than what it stamps, and a reboot of which there is no
stamp is a whole cool-down ago.

`MainLoop_proofs`, for any day, window, qualifying time, clock parameters and snapshots:

* `HotPackIsCooled`: `HotPackStopsFan`. `RelayInv`: the relay is what the loop believes of
  it, unless an operator set it, and the loop believes it off after a hot tick whose write
  got through.
* `SunIsSteady`: `FanOnlyAfterSteadySun`. `TimerHonest`: the loop's qualifying timer, in the
  Pi's clock, began no earlier than the true time since which the sun has stood high,
  unless the clock was stepped meanwhile.
* `StepsAreSteady`: `StepsOnlyToSteadyClock`. `HelperInv` says of the sample to be confirmed
  (`SampleSound`): if misread, it shows what no right sample continues; if not, the board
  has counted without a jump since, or stands still, or shows too far back to be continued
  by the clock that the MNGP has set. The lag at power-on, which bounds all later ones, is
  no variable: `ClockInv` has it under a quantifier. `SurroundingsAssumption` is needed: a
  board that is behind by no more than the tolerance when it starts to count would be
  confirmed by a sample of the stopped clock (`ntp_wait_seconds` is 15 and the tolerance 2,
  so the service never reads that early), and a read that is wrong by just what the clock
  then jumps looks steady to any reader.
* `TotalsOfTheDay`: `TotalsWithinDay`. From `ClockInv` the clock is never ahead, so it is
  only set forward under the loop; `TotalsInv`: what is counted lies between the midnight of
  its day and the last sample, which is not in the future.

`Console_proofs`, of the console and of the recorder of transitions, which share nothing:

* `CommitsKeepBudget`: `CommitWithinBudget`, for any rows, steps, budget, number of
  requests and moves of other clients. `ReachInv` bounds a row by a budget for each of its
  requests that has ended, and the drift; a value that is planned, and not yet written, by
  one budget more. What matters is that this bound only grows: a value planned from an old
  base is within the bound of the moment it was read at and one budget, so also within the
  bound of the moment it lands at, when its own request has ended (`ServedKeepsReach`). What
  is staged, and so what is asked for, never outgrows the budget (`StageInv`,
  `RequestInv`).
* `EventsAreTrue`: `EventsTellState`, for any set of observed devices. It is inductive with
  its types: a tracker and the event of its transition move in one step or the event is
  counted as lost.

**Model-checked only.** Every invariant and every action property the runs check is a theorem;
what remains is liveness: `CoilStopEnforced`, `ClassicStopEnforced`,
`ReleaseRestoresCharging`, `LimitsSettle`, `CommandsTaken`, `TelemetryReturns`,
`RowsReachBucket`, `WedgeRebooted`, `ChannelFollowsHealth`, `OutageReported`,
`ArmedModesEnd`, `WeatherComesBack`. Liveness under fairness is out of the proof system's
reach. The type invariants are theorems (`CeilingTyped`, `ControlTyped`, `DeviceTyped`) and no run
repeats them.

## 5. Where the code departs from what is said of it

Modelling met the following. Where a definition is named, it states the sentence that
the code contradicts; it stands in its module beside the weaker property that does hold,
and TLC finds it violated when it is added to the module's configuration.
`PROJECT.json` quotes the sentences.

Charging:
1. `CellStopLatchesUntilSoft` (`ChargeCeiling`): a cell trip seen in the same snapshot as
   an earlier stop is not latched (`charge_ceiling.py:125`). What holds is `CellHolds`.
2. `CoilStopEnforced` with `ReplyLoss = TRUE`: an ON that took effect but raised leaves the
   cached coil wrong, and the next stop skips the coil for as long as it lasts
   (`cli/supervisor_display.py:995`). It is checked where commands take effect or are
   refused (`control_live`). `ClassicStopEnforced` holds even so, because the Classic's
   register is read back every tick and nothing is cached.
3. `MissingDataWritesNothing` (`ChargeControl`): with the limits frame missing the tick
   still reconciles the EPEver's coil, to ON even under a stop (`charge_allocator.py:404`).
4. `PausedWritesNothing` (`ChargeControl`): a pause suppresses limit writes, not the
   coil's (`charge_allocator.py:87`).
5. `AdapterExclusive` (`DeviceActor`): the web server runs before `start_readers()`, and the
   actors' threads run before the readers are published; a command that found no readers
   runs on its own thread while the actor polls the same adapter (`supervisor.py:267`).
   What holds between is `OnlyActorEnters`: nobody *enters* the adapter beside the actor,
   though one who was inside before may still be.
6. `SwitchCoherent` (`DeviceActor`): a toggle sets the switch, the reader and the state file
   one after another; two at once leave them disagreeing (`supervisor.py:338`).
7. The factor is saved outside the lock it was set under: overlapping edits may be saved in
   the other order (`charge_ceiling.py:96`). `FileMatchesMemory` exempts keys whose edits
   overlapped. It also exempts a key that was lost or not read: a load that fails for a
   moment counts as an empty document, and a save then takes the other key from the file
   (`runtime_state.py:42`), although it is to lose no other override. And the guard of the
   voltages reads the snapshot's battery, which outlives failed polls
   (`web_display.py:1042`): `RaisedWithinLimit` speaks of that reading, and says nothing of
   a limit that the BMS has lowered since.
8. A sync request that is refused may have written the voltages before the current was
   refused (`web_display.py:1305`). `AnswerHonest` says of a refusal only that none of the
   request's commands is still to run. Two nudges at once may also lose one.

Telemetry and health:

9. `NoTelemetryGap` (`TelemetryStore`): a row put into the fallback between the merge's copy
   and its unlink is lost (`metrics.py:463`). `OnlyDamagedDiscarded` (`TelemetryStore`): two writers that find the
   same damage discard what they find at the path, the second one the sound file that the
   first has made anew (`metrics.py:413`); a copy of the same second is replaced by it, and
   a file that cannot be renamed is deleted. What holds is `GapsAccounted`: there is no
   fourth way to lose a row.
10. `MarkedRowsUploaded` (`TelemetryStore`): a database made anew between collection and mark
    reuses the row numbers (`object_store_export.py:307`). What holds is `OwnMarksHonest`.
11. `LanConditionCovers` (`Snapshots`): the LAN is read twice; when it recovers in between, the
    Classic's failure is suppressed and no LAN condition raised (`supervisor.py:775`).
12. `ProtectionReported`, `RebootNeedsQuorum` (`Escalation`): an ERROR condition makes the
    endpoint answer 503, which `curl -f` takes for unreachable: the protection notifier
    then sees nothing, and the watchdog reboots with every transport up.
13. An alert's mark is written before its ping: one raised while the network is down is
    never delivered (`supervisor-degraded-notify.sh:88`).

Clock, fan, totals:

14. `NtpIsKept` (`ClockRestore`): the marker may appear between its last check and the step.
15. `OnlyDurableTime` (`ClockRestore`): a main board that counts from a stale time for as long
    as the confirmation takes is confirmed (`clock_restore.py:168`).
16. `MissIsHonest` (`MainLoop`): an unreadable store is cached as a missing midnight for the
    whole day (`load.py:167`).
17. A fan that an operator switched on is not switched off by the hard cut-out, since the
    loop's cached state is off (`relay_control.py:140`).

Console and weather:

18. `RepliesShown` (`Console`): the console looks for a field the scaling reply does not have
    and shows what it asked for (`cli/api_terminal_display.py:812`).
19. `KeysRead` (`Console`): keys that Python has read ahead are not seen by `select()`
    (`cli/api_terminal_display.py:521`).
20. The budget of a tune session starts anew with each commit: `CommitWithinBudget` allows
    one to every commit, not to the session. A commit that was given up may still take effect,
    and the operator's repetition, a second commit, then applies it twice; a late write of a
    voltage also takes back what others wrote since the setting was read; a page that hangs as long as the refresh
    interval leaves no time for keys.
21. `ReportNeverOlder` (`Advisory`): a slow fetch replaces a newer report (`weather.py:147`).
22. `WeatherNeedsNoDisk` (`Advisory`): a cache file that cannot be written throws the fetched
    report away, and every tick fetches again (`weather.py:133`). So does a failing aurora
    request, synchronously in the tick.

## 6. Not modelled

* Decoding of frames and registers, ambient and Tasmota readers: they produce readings,
  which are inputs of the models; the conditions of `Snapshots` that concern ambient
  sensor, Tasmota, CAN link and a BMS limit below the controllers' voltages are left out.
* Rendering: the displays' pages, sizes and drawing, the web pages and
  read-only endpoints. The console's keys and commits are modelled.
* Queries over the telemetry (`metrics.py`'s readers and its energy figures), the encoding
  of a batch for the object store and the report script: read-only computations whose
  correctness is arithmetic, better served by tests.
* The load estimate's arithmetic: its result is the input `load` of the tick; which
  readings it may use is in `Snapshots`.
* The Magnum handler of the HTTP API (one command, no guard of its own).
* `can-watchdog.sh`: it resets an interface and keeps one stamp that nothing else reads.
* The former charger taper: off by default, and refused beside the allocator.
* Configuration and argument parsing, deployment, backup and analysis scripts: run by
  hand, outside the running system.
