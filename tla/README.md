# A verification development for HonorControl

HonorControl is a privileged D-Bus service for Honor laptops (battery
thresholds, power profiles, fan, touchpad gestures) with a GUI, a tray and a
command line in front of it. This directory holds TLA+ models of its stateful
parts, the TLC configurations that check them, and TLAPS proofs. Source paths
below are relative to `src/honor_control/`; `PROJECT.json` maps every definition
that models code to its lines.

## 1. The system

### Components, state and operations

| Component | State it keeps | Operations | Talks to |
|---|---|---|---|
| Hardware command queue (`backend/command_queue.py`) | lock, work queue, one worker thread, `_timed_out_future`, `_closed` | `run` (deadline, optional recovery), `shutdown` | every use case and loop; the adapter's blocking functions |
| Application service (`backend/application.py`) | `_mutation_lock`, fan fail-safe error, pending recovery, desired state, published snapshot | about 25 use cases; loops for refresh, auto-switch, fan curve, manual override; start-up, shutdown | queue, config store, snapshot store, supervisor |
| Hardware adapter (`backend/hardware.py`) | the EC, sysfs, ACPI calls | verified reads and writes, profile apply with rollback | the kernel (external) |
| Configuration store (`backend/config_store.py`) | state in memory, `state.toml`, `state.toml.bak`, health | `load`, `reload`, `update` | file system |
| Snapshot store (`backend/snapshot_store.py`) | immutable snapshot, sequence number, subscribers | `update`, `mark_stale` | D-Bus signal `StateChanged` |
| Runtime supervisor (`backend/supervisor.py`) | tasks by name, health, cleanups | `start`, `stop` (bounded cleanup), `stop_all` | the application's loops |
| Service main (`backend/service.py`) | bus name, signal handlers | `_serve`, `--restore-fan-auto` (systemd's `ExecStopPost`) | systemd, D-Bus |
| D-Bus API, codec, authorizer (`backend/dbus/`) | PolicyKit subject per call | one method per use case | application service |
| D-Bus client (`client/sdbus_client.py`) | connection, listener task, coalescing refresh task, pending sequence | `connect`, `close`, calls, signal handling | the bus, GUI |
| GUI worker and state (`frontend/gui/controller.py`, `state.py`) | held snapshot, connection flag, pending operations | connection loop, polling, ordering of snapshots | client, pages |
| Gesture runtime (`backend/gesture_runtime.py`) | two descriptors, session future, status | session loop, report handling | hidraw, uinput |
| Touchpad firmware (`backend/touchpad_firmware.py`) | device settings | batch apply, support query | hidraw |
| Validation and arithmetic (`core/`) | none | curve, thresholds, key combos, names | everybody |
| `honorctl`, `touchpadctl`, tray, pages | none of their own | presentation and one-shot calls | client |

### What is hard

* **Blocking hardware behind asyncio.** A call that misses its deadline cannot
  be cancelled. It goes on in the thread while its caller has been told it
  failed, and whoever comes next must neither overlap it nor be blocked by it.
* **A safety obligation that crosses tasks.** Once the EC is in manual mode
  somebody must bring it back: the use case while it holds the lock, the
  watchdog, the curve controller, a recovery reserved in the queue, shutdown,
  systemd's emergency restore, or the next start.
* **Time-outs of different layers.** The supervisor gives a cleanup 5 s, the
  queue gives the calls inside it 10 s, shutdown waits 2 s for a recovery.
* **Crash and power failure** while the state file and its backup are replaced.
* **Sequence numbers that start again** when the service does, compared by a
  client that may not have noticed.
* **Hardware changes of several steps with rollback**: the six groups of writes
  of a power profile, whose order the governor dictates; the two battery
  thresholds, which must stay ordered in between; the reports of a touchpad
  profile, of which a prefix may be accepted.
* **A loop that acts on what it read before it waited**: the auto-switch loop
  reads the supply and the policy, queues for the lock, and runs a hook that must
  not run twice; the curve controller looks up its curve before it waits.
* **Devices whose names are reused.** A hidraw number found by a probe may belong
  to another device when it is opened.
* **Two ends of a call.** The GUI's task ends with a time-out or a lost
  connection; the service's handler, and the hardware call in it, go on.

`PROJECT.json` lists these as hazards, each at its line and with the properties
that cover it.

## 2. Modules

| Module | Models | Composition |
|---|---|---|
| `SerialHardware` | what the hardware may be shown: one command at a time, at most one recovery directly behind it | abstract specification |
| `HardwareCommandQueue` | the queue, action by action | implements `SerialHardware` |
| `HardwareCommandQueueProofs` | theorems about the queue | extends the queue |
| `FanControl` | use cases, watchdog, curve controller, recovery, start-up, shutdown, emergency restore | uses the queue as `SerialHardware` describes it |
| `FanControlProofs` | theorems about who answers for a fan in manual mode | extends `FanControl` |
| `FanCurve` | the numbers: accepted curves, interpolation, hysteresis, emergency speeds, and the tasks that use them | beside `FanControl`, with calls abstracted |
| `MCFanCurve` | curves for TLC | extends `FanCurve` |
| `FanCurveProofs` | theorems about the arithmetic and the controllers | extends `FanCurve` |
| `ConfigStore` | load, reload, update and every step of the atomic save | – |
| `ConfigStoreProofs` | theorems about the store | extends the store |
| `StateSync` | service sequence numbers, signals, client refresh, GUI worker and store | – |
| `StateSyncProofs` | theorems about the coalesced refresh | extends `StateSync` |
| `PowerHardware` | `apply_power_profile` and its rollback, as what they leave in the hardware | operators |
| `PowerPolicy` | profile registry, manual choice and AC policy, the use cases that change them, the auto-switch loop, hooks, published observation | extends `PowerHardware` |
| `MCPowerPolicy` | two definitions and a start for TLC | extends `PowerPolicy` |
| `PowerPolicyProofs` | theorems about applies, publication, hooks and the loop | extends `PowerPolicy` |
| `GestureRuntime` | the gesture daemon's session, descriptors and reconnection, its supervisor task, the hidraw nodes, and gesture mappings | – |
| `TouchpadControl` | the firmware transport in the queue's worker, the use cases on settings, gestures and daemon, the published domain, shutdown | extends `GestureRuntime` |
| `TouchpadControlProofs` | theorems about descriptors, firmware, daemon and publication | extends `TouchpadControl` |
| `BatteryThresholds` | `set_battery_thresholds` and `write_battery_thresholds`, one file access per step | – |
| `ControlCalls` | a request from the window through client, bus, PolicyKit and mutation lock, and back | extends `BatteryThresholds` |
| `MCControlCalls` | threshold pairs for TLC | extends `ControlCalls` |
| `ControlCallsProofs` | theorems about calls and thresholds | extends `ControlCalls` |

Definitions whose names contain an underscore (`Admit_Unpoisoned`) are
mutants: the definition that follows them with one plausible bug put in. They
are used in no specification, only to confirm that a property can fail.

### HardwareCommandQueue

`items` is everything ever put on the work queue, and the cursors
`delivered <= returned <= taken` say how far the event loop, the hardware and
the thread have got: item `i` is running while `returned < i <= taken`, its
future is done when `i <= delivered`. `holder` is the task inside
`async with self._lock`, `waiters` is the FIFO of the asyncio lock,
`timedOut` the position of the future in `_timed_out_future`, `stopAfter` the
place of the stop marker. `Call` enters `run`; `RejectClosed`, `RejectBusy` and
`Admit` are the three ways through its head; `Complete`, `Timeout`,
`RaiseTimeoutError` (the hardware function itself raises `TimeoutError`, which
takes the deadline's handler with a future that is done), `CancelPolling` and
`CancelLocking` are its ends. `Deliver` is separate from `Return` because
`call_soon_threadsafe` only schedules the completion. `shutdown` takes no lock,
so it interleaves with all of these.

### FanControl

A task is a frame: the label of the await it is at, the state of the call it
waits for, and where a running `_restore_fan_auto` returns to. `task` has one
frame each for the main task (start-up and shutdown), the use case in progress,
the watchdog `_manual_fan_expiry`, the loop `_fan_curve_loop`, the refresh loop
and the recovery task `_complete_fan_timeout_recovery`. `lock` is
`_mutation_lock`; `q` the command queue: the call running, whom it belongs to
(nobody, when it was abandoned) and whether a recovery is reserved behind it.
`ec` is the mode of the EC, the truth that everything else is about; `snap`,
`cfg`, `err`, `wd` and `cv` are what the service believes. `owned` is a ghost:
the first reads of this run of the service told it of a fan, or it has asked for
manual mode since, so that whatever mode it found is its business.

Data is abstracted to what the control depends on: a temperature is plausible,
too hot or unusable, a speed is accepted or rejected, the curve's hysteresis
allows a hold whenever a speed is remembered, and the TTL is an event.

Things the model leaves out on purpose: nothing in the repository cancels a use
case, so use-case tasks are not cancelled except by process exit; the emission
of failed-safe by the recovery task's registration is part of the time-out step,
with which it is one uninterrupted piece of code.

### ConfigStore

`primary` is the file as a reader sees it, `survivors` what a power cut may leave
of it, `backup` the `.bak`. A save is the steps of `_save_atomic` (check the
primary, copy it over the backup in place, write and sync a temporary file,
rename it, sync the directory), each able to fail, with kills, power cuts and an
administrator's edit in between. A rename adds the new file to the survivors and
only a successful fsync of the directory makes it the only one: `_fsync_dir`
swallows a failed fsync, the caller is told that its state is persisted, and a
power cut may bring back an older file. `acked`, `tried`, `older` and `edited` are
ghosts: the last state a caller was told is persisted, the states whose save began
since, those before it that such a failure left alive, and whether the file was
edited by hand. What is promised of a power cut therefore excepts `older`, and
nothing else.

### StateSync

A snapshot is the run of the service it comes from and its sequence number. The
bus is external: it delivers in order on a connection, and a call made while no
service runs is either answered by an activated service or refused (the
repository installs a D-Bus service file). The worker connects, fetches, then
watches; the listener, the coalescing refresh task and the 5 s poll run beside
it. The listener may fail (`ListenerFails`), after which its signals are lost until
the watch reconnects. A signal may be handled before an answer that was sent
before it: `asyncio.wait_for` runs the call in a task of its own before Python 3.12
(the project supports 3.11), so an answer needs more turns of the loop than a
signal. That is when the refresh task finds its snapshot outrun and fetches again.
`first` is a ghost, the sequence the task's first fetch was made for. Polls are made one at a time, and those made during the handshake are left
out: they fail as not connected and announce again that the GUI is offline.
`gui` is what the state store holds and whether it believes to be connected.

### PowerPolicy and PowerHardware

The hardware is one value each for the daemon's profile, the RAPL limits, the
governor, the EPP and turbo with the performance ceiling; `Mixed` stands for a
group of which only some CPUs or domains were written. The kernel's rules are the
ones the code's comments state: the performance governor forces its own EPP and
refuses others, and so does a daemon that has to write one. Every group of a
transaction may succeed, be refused or be written in part, in the transaction and
again in its rollback; `ApplyPowerProfile` is the result.

`task` has the use case in progress (start-up included) and `_auto_switch_loop`,
both of which go through `_apply_power_profile`: capability (`cap`), the call
(`apply`, then `q` is theirs), then either the read-back that decides (`verify`)
or the refresh after a failure (`look`). An apply that is given up on goes on in
the thread (`q.by = "nobody"`) and poisons the queue, as `HardwareCommandQueue`
has it. `lp` holds the locals of the loop; they are cleared at the end of an
iteration, where the code overwrites them. The ghosts `acVer`, `polVer` and
`hooks` number the changes of supply and policy and remember which had a hook.

Left out: the delay between retries (`failed_key`, `retry_at`), which only makes
the loop later; refused use cases and failed saves other than the one inside
`set_power_profile`, which change nothing; profiles that combine the performance
governor with another EPP, which can never be applied (`DefsAssumption`); the
cancellation of the loop and its hook at shutdown; a restart of the service, so that
`HookOncePerChange` speaks of one run of it. A read that fails inside
`read_power` is published with the supply unknown; an unreadable `online` file
alone counts as battery in the code and is not modelled.

### FanCurve

The complement of `FanControl`: temperatures are millidegrees, speeds are
percentages, and what a task does under the mutation lock is one step, whose
writes succeed or end in a verified stock auto. `ec` is `StockAuto` or the speed of
manual mode; `cv`, `last` and `failures` are the controller's place and locals;
`pub` is mode and target of the published domain; `seen` and `asked` are ghosts,
the temperature the last fan decision was based on and the speed it called for.
`Round` is Python's rounding of
halves to even, `CurveSpeed` is `_curve_speed`, `Held` the hysteresis. The
controller's look-up of its curve and its work under the lock are two steps, so
that use cases, profile switches and the watchdog fall in between.

### GestureRuntime and TouchpadControl

`node` is what the kernel has behind every hidraw node: nothing, the touchpad or
another device. A descriptor remembers the device it was opened on, and is dead
after its removal. The task's look-up, `os.open` and creation of the keyboard
are separate steps with the event loop kept busy (`Busy`) and the kernel free to
act. `fds` counts the descriptors really open; `hid`, `uin`, `reader`, `done`
and `running` are the fields of the object. `MappingFor` and `GestureEntries`
are the two places where a mapping is decided: for dispatch and for display.

In `TouchpadControl` the worker (`wk`) makes the system calls of
`apply_settings` and `query_supported_gestures` one by one, and goes on when its
caller has given up (`waits = FALSE`). `fw` are the registers of the firmware;
two settings stand for all, one of a single report and the composite one of two.
`uc` is the use case inside the mutation lock. `sure` is a ghost: the settings
last answered as applied and persisted.

Left out: the bytes of reports and events; `wait_until_available` and
`touchpadctl`, which run without the service; a registration with the event loop
that itself fails. hidraw delivers input to every reader, so a query that was
given up on overlaps the restarted daemon without disturbing it.

### BatteryThresholds and ControlCalls

`hw` are the two threshold files, `cfg` the saved pair, `pub` the observation
published last, to which a rollback returns. The worker decides the order, makes
two writes and a read-back as separate steps; a write may have no effect or fail,
and a read may fail. `told` is a ghost: an answer since the last success, or the
death of the process in the middle, says that hardware and configuration may
differ.

A call in `calls` has a task in the GUI's worker and a handler in the service.
Handlers are authorized concurrently (`Authorize`) and enter `lockq` in the order
PolicyKit answers. `pending` is the GUI's set of pending operations. The client's
deadline, the lost connection and the cancellation of tasks end only the task;
the process's death ends the handlers. An authorization that fails for whatever
reason (refusal, error, time-out, unknown caller) is one outcome. The battery is
the domain behind the call; other use cases pass the same way.

## 3. Runs

All runs explore the full state space under their bounds. Deadlock is checked in
`curve` and `calls`, where something can always happen. Elsewhere a service at
rest, a service that is down and a queue that was shut down are legitimate ends.

The `TypeOK` of the modules take no place in the runs: they, or stronger
descriptions of the state, are parts of the inductive invariants that are proved
(section 4).

| Run | Bounds | Shows |
|---|---|---|
| `queue` | 3 callers, 4 items | one command outstanding, recoveries directly behind, poison covers unfinished work, implements `SerialHardware`; every caller is answered though the hardware may never return; if it does, poison clears and reserved recoveries run |
| `fan_safety` | 2 use cases or refreshes, 2 runs of the service, all six faults | manual mode is always answered for, also when it was inherited from a dead process; the snapshot never hides it, pending restores are backed, shutdown is honest |
| `fan_live` | 1 use case, fan time-outs, stop and crash, fair | overrides expire, pending restores end, use cases are answered; a stopped or killed service leaves the fan to the firmware |
| `config` | 3 states, all faults | acknowledged states survive (a power cut goes back behind one only after a directory fsync that failed silently), health is honest, the live state outranks the backup |
| `sync` | 3 changes, 2 runs, 1 time-out or failed listener, 2 fetches per task, fair | an answer covers what it was asked for, and a task gives up a signalled change only when outrun by a later one for each fetch; signals alone are enough while nothing fails; with the timer the GUI converges and shows an outage |
| `power` | 2 profiles, 2 definitions, 1 use case, 1 change of supply, fault budget 2, fair | applies are all or nothing, the published observation satisfies the published profile, hooks once per change, the loop comes to follow supply and policy |
| `touchpad` | 2 nodes, 2 hotplug events, 1 fault, 2 use cases, fair | what was answered as saved is in the firmware; no other device is written; the daemon follows the configuration and is away during a query; descriptors are accounted for; what is published is what is dispatched; the session comes back |
| `curve` | 5 curves, 7 temperatures, 3 speeds, 2 profiles, 3 use cases | more heat never means less speed, within half a percent of the line; a speed in the EC is what the last decision called for, up to the hysteresis; a published target is the speed in the EC or the firmware has the fan |
| `calls` | 3 pairs, 2 calls, 2 faults, 1 crash, fair | thresholds stay ordered through writes, rollbacks and abandoned calls; a divergence of hardware, configuration and snapshot is reported; only granted calls write; operations of the window end |
| `fan_read_timeout`, `sync_restart`, `curve_hot` | small; `curve_hot` as `curve` | the disagreements 1 to 3 of section 5 |

Why the bounds are enough. In the queue, three callers give a holder, an
abandoned predecessor and a waiter, and four items an abandonment with its
recovery and two commands around it; the safety properties are proved for any
number. In fan control one use case meets every other task; a second one replaces
the first or follows it after a restart, and two runs give an heir and a dead
process. The refresh loop's ticks share the bound of the use cases. In the store three states tell the persisted, the attempted
and the backed-up one apart. In the synchronisation two runs of the service and
three changes give equal, smaller and larger sequence numbers across a restart.
`MAX_COALESCED_REFRESHES` is 2 where the code has 4, so that a task really gives
up, which takes one change for its start and one per fetch.
In power a use case and a change of supply each fall anywhere into an iteration
of the loop, and the budget pays for a failed write with a failed rollback, an
apply given up on that fails late, or one failed read or meddling program.
In `touchpad` two hotplug events unplug the touchpad and give its number to
another device (or to itself again), and two use cases are a profile and one
that follows, replaces or queries it; the two settings differ in the number of
their reports, which is all the transport tells apart. In `curve` the
temperatures are an unusable one, the lower emergency limit, two a degree apart
between the two limits and one above both, a point of a curve and one that needs
rounding; two of
the five curves must be refused. In `calls` two presets without overlap make both write
orders necessary, and two faults are a failed write with a failed rollback, or a
time-out with a stale snapshot.

### Fairness

* The event loop runs every task and callback that is ready, and timers fire:
  weak fairness of `RunStep`, `Take`, `Deliver` in the queue. In fan control and
  power the fairness of a task is strong, because a task waiting for one of the
  two locks is enabled on and off; asyncio's locks are FIFO.
* Of the hardware nothing is assumed in the queue's specification: `CallsAnswered`
  holds without it, and `PoisonClears` and `ReservedRecoveryRuns` are stated under the hypothesis `HardwareAnswers`. In fan control a hardware
  call returns in the end; in power `HardwareAnswers` (the queue is free again and
  again) says the same.
* An override's watchdog polls again and again and at one of its polls the deadline
  has passed; the GUI's 15 s watch ticks. That the GUI's
  5 s timer fires is a hypothesis of `Converges` and `OutageIsShown`
  (`TimerFires`); `SignalsAreFollowed` does without it and supposes instead that
  nothing fails and that no refresh task is outrun until it gives up (`GivesUp`).
* In `touchpad` the gesture task, the worker and the use case in progress go on
  and hardware calls return (`LiveSpec`); hotplug, reports that fail to be
  emitted and shutdown need not happen. In `calls` only the GUI's worker is fair:
  its loop runs tasks, its deadlines pass, it notices a lost connection. Of the
  service, PolicyKit and the hardware nothing is assumed.
* Time-outs, cancellations, user actions, crashes, changes and edits never have
  to happen.

## 4. Proofs

Checked by TLAPS for every value of the constants.

**Queue** (`HardwareCommandQueueProofs`), for any set of callers. None of the
safety invariants is inductive alone: that a second command is not admitted
follows from the poison covering what is unfinished, and that in turn needs to
know who owns the last item. The inductive invariant `IInv` is the conjunction
of `TypeOK`, `Cursors` (the order of the cursors and of `timedOut`),
`HolderOwnsLast` (the task inside the lock put the last item, and all before it
are done), `OutstandingShape` (unfinished work is nothing, a command, a recovery
or a command and its recovery), `BareAbandonedIsUnsafe` and
`PoisonCoversUnfinished`. `QueueTypeOK`, `QueueSerializes`,
`QueueReservesRecovery` and `QueuePoisonCovers` follow; `QueueImplementsSerial`
shows that under the mapping `Outstanding` every step is one of
`SerialHardware` or leaves it unchanged.

**Fan** (`FanControlProofs`), for any of the faults and requests and any number of
use cases and runs of the service (at least one, `BoundsAssumption`). The safety
properties say who answers for the fan between operations; the code keeps them
because of what each task knows at each of its awaits, which none of them
mentions. `IInv` therefore speaks of every frame:

* `FramesOK` and `LockOK`: the places each task may be at, the restores it may be
  in and where they return to, and which of them are inside the mutation lock;
* `QueueOK`: a call that was sent belongs to the task that waits for it, and an
  abandoned call that names a recovery has it reserved;
* `LifeOK` and `StopsOK`: which tasks exist before, during and after service, and
  that a stopped controller is not started behind the back of whoever stopped it;
* `RecoveryOK` and `PendingOK`: a pending recovery has failed-safe published and
  its `set_fan_auto` in the queue, and meanwhile nobody but the task whose call it
  follows is inside the lock with a fan call of its own;
* `RestoreOK` and `PlaceOK`: what a restore has come to when it answers (stock
  auto verified, or failed-safe published), and what the next steps rely on;
* `GuardOK`: at every place where nothing is under way, manual mode is covered by
  an error, a watchdog or the curve, and the snapshot shows it.

`Danger`, on which the last parts turn, includes a call in the queue that may yet
put the EC into manual mode: the EC's present mode alone is not preserved when an
abandoned call takes effect late. There is one lemma per action (`Keeps...`), and for
every kind of task one on what its steps have in common (`UserMoves`,
`WatchdogMoves`, `CurveMoves`, `RecoveryMoves`, `ShutdownMoves`). From `IInv` follow
`FanManualIsGuarded`, `FanInheritedIsGuarded`, `FanSnapshotNeverHidesManual` and
`FanPendingIsBacked`. `FanTypeOK` needs in addition that a third failure in a row is
the controller's last (`CountersOK`). `FanShutdownIsHonest` speaks of shutdowns that
came to their end; a process that dies while closing has said nothing, and what it
leaves behind is `FanInheritedIsGuarded`'s, which rests on `LifeOK` knowing whether
the first reads told of a fan. Both it and the two guards would
fail at `sdDrain` without the last conjunct of `PlaceOK`, which says that a shutdown
only gets there with stock auto restored or failed-safe told.
`FanUsesSerialQueue` joins the two developments: under the mapping `Outstanding`
every step of `FanControl` is a step of `SerialHardware`, the specification the
queue is proved to implement, except the end of the process, which leaves nothing
outstanding.

**Store** (`ConfigStoreProofs`), for any set of states and faults. `IInv` is
`TypeOK`, `SaveIsTried` (a save in progress is of a state recorded as tried, and
before its directory is synced the file has it unless it was edited),
`AckedSurvives` and `HealthTellsDivergence`. From it follow those properties and
the action property `LiveStateOutranksBackup`.

**Calls and thresholds** (`ControlCallsProofs`), for any threshold pairs, number of
calls, faults and crashes. `IInv` is `TypeOK`, `OrderFits` (the order of the two
writes fits the pair the worker found), `WritersAreGranted` (whoever is in the
lock or left a write in the worker was authorized), `DownIsIdle`,
`WorkerAndUseCase` (what the worker may be doing at each place of the use case)
and `Agreement` (what hardware, configuration and snapshot have in common there
as long as nobody was told otherwise). `DivergenceIsReported` alone is not
inductive: it says nothing of the places in between, where the three differ.
`ThresholdsStayOrdered` and `OnlyGrantedCallsWrite` are action properties that
follow from `OrderFits` and `WritersAreGranted`.

**Curve** (`FanCurveProofs`), for every curve `validate_curve_points` accepts, every
temperature and any number of use cases and profiles. Rounding halves to even is
shown monotone and within half a unit, and with it the interpolation between two
points. That a whole curve is monotone would be an induction over its points;
as a curve has at most twelve, it is shown instead by doubling (neighbours, then
two, four, eight and sixteen points apart). `IInv` adds to the types
`CurvesAreValid`, `DeathIsThird` and `SpeedHasOwner` (a speed in the EC is the
override's published target or the running curve's last speed), which
`PublishedTargetIsReal` and `SpeedFitsDecision` need: the hysteresis compares with the
controller's last speed, and only ownership says that it is the one in the EC.

**Touchpad** (`TouchpadControlProofs`), for any set of hidraw nodes, hotplug events,
faults and use cases, and the two modelled settings. `IInv` is `RuntimeOK` (the
fields of the gesture runtime at each place of its task), `LockOK`, `WorkerOK`,
`TodoOK` and `BatchOK` (what a batch has still to write and what it has
completed), `SavedOK` (every setting answered for, unless the batch in the worker
is just changing it) and `PublishedOK`. The five invariants of the run follow.

**Power** (`PowerPolicyProofs`), for any built-in and custom profiles, any
definitions `DefsAssumption` admits, and any bounds. That a transaction without a
failed write reaches its definition, and a rollback without one the state before,
is a lemma about `ApplyPowerProfile` for every hardware state, including the
mixed ones a failure leaves behind; `ApplyIsAllOrNothing` is its consequence.
`IInv` is `ConfigOK`, `HardwareOK`, `QueueOK`, `TaskOK`, `SnapOK` (a published
profile is satisfied by its own observation at every place of the two tasks),
`WorldOK`, `HooksOK` and `LoopOK` (the locals of the loop against the version
numbers and the hooks that ran). `PublishedProfileIsReal` and `HookOncePerChange`
follow. `DoneMeansApplied`, the safety half of `AutoSwitchFollows`, is proved as
well; that the loop gets there is liveness. Writing this proof showed that two
arms of `WriteEpp` overlapped, so that the model's meaning depended on the order
in which TLC tries them; the arms are now disjoint, as the code's `if` is.

**Synchronisation** (`StateSyncProofs`), for any number of changes, runs, time-outs
and faults. `IInv` is `TypeOK`, `CountsOK` and `RefreshOK` (one fetch of the
refresh task at a time, as a call or as an answer), `Announced` (in the first run
nothing is ahead of the service), `Answered` (no answer on the wire is behind
what the task was asked to cover) and `Outrun` (each fetch of a task but the first
was made for a later change than the one before). `FetchesCover` follows: giving up
at the last fetch means that the pending sequence is at least
`MAX_COALESCED_REFRESHES` above the one the task began with.

The inductive invariants were checked by TLC on the runs' instances before they
were proved. The assumptions are the named `ASSUME`s of the modules: a caller that
is no caller, distinct file contents, faults from the list, natural bounds,
ordered thresholds, curves of the accepted form, built-in names that are not
custom, definitions the hardware can hold. TLC evaluates them in the runs.

Only model-checked: all liveness, since TLAPS does
not reason about fairness here (`CallsAnswered`, `PoisonClears`, `ManualExpires`,
`OperationsEnd`, `SignalsAreFollowed`, `Converges`, `OutageIsShown`, the
eventual half of `AutoSwitchFollows`, and the others of section 3).

## 5. Where the code and what is said of it disagree

Three are runs that TLC must find violated; `PROJECT.json` quotes the lines.

1. `fan_read_timeout`: the telemetry read with which `set_fan_manual` itself ends
   (`_refresh_fan`, `application.py:915`) times out. While it blocks the queue the
   watchdog's next poll is refused as busy and so is the restore it then tries,
   once: the override never ends (`docs/safety.md:12` gives it a TTL).
2. `sync_restart`: a restart the GUI does not notice freezes what it shows.
3. `curve_hot`: at 95 °C and above the hysteresis keeps a running 98 or 99 %
   (`application.py:2088`; `docs/safety.md:14` and the validation of curves ask for
   100 %). What the code does keep is `SpeedFitsDecision`.

The others are behaviours of the models without a run of their own.

Fan:

* when the first capability read is late, start-up skips the stock-auto request
  and nothing makes up for it (`application.py:2332`; `docs/safety.md:5` says
  that it is always requested first);
* `last_speed` survives a failed write, and an override or a stock auto that
  comes and goes between two ticks: a later tick within the hysteresis publishes
  mode curve and a target while the firmware has the fan (`application.py:2086`).
  `PublishedTargetIsReal` shows that this is the only way the two differ;
* the first two unusable temperatures leave the EC in manual mode
  (`application.py:2113`; `docs/safety.md:8` promises an attempt at stock auto).

Store and synchronisation:

* when the directory cannot be opened for its fsync, an update is reported as
  failed although the new file is in place (`config_store.py:543`;
  `config_store.py:464` says that the old state is retained);
* a failed fsync of the directory is swallowed and the update reported as
  persisted, although a power cut may still undo it (`config_store.py:546`; the
  comment there says that not all file systems support it);
* a failed copy destroys the only backup (`config_store.py:501`);
* after a reconnection an equal sequence number hides a new snapshot from the
  pages (`frontend/gui/state.py:57`).

Calls:

* a task that `_cancel_tasks` cancels before its first step emits no result, and
  its operation stays pending (`frontend/gui/controller.py:149`); `OperationsEnd`
  excepts it by name;
* the operation id contains the values (`main_window.py:314`), so duplicates are
  prevented (`controller.py:13`) only for equal values; two changes of one setting
  take effect in the order of their authorization;
* a rollback returns to the pair published last, which may be stale, and is
  reported as verified (`application.py:378`);
* when the new end equals the old start, the end is written first and the two
  thresholds are equal until the start follows (`hardware.py:1169`), so the
  property speaks of the start not passing the end, not of a strict order;
* the order of the two threshold writes is decided on the start read just before;
  when it cannot be read, or the file took a write without effect, the pair may
  be out of order in between (`hardware.py:1169`).

Touchpad:

* the runtime opens the path it found without looking again, as the transport
  does (`gesture_runtime.py:270`): after a quick hotplug it may listen to another
  device until that one is removed. It only reads from it.

## 6. Not modelled, and the plan

Presentation (pages, widgets, tray, `honorctl`), packaging scripts, the codec
and the encoding of the state file have no state that a property here is about.
GPU mitigation is never writable in production.

The supervisor is modelled where it is used, in `FanControl` and
`GestureRuntime`; the validation of names, key combinations and hook commands
changes no state. Details left out of a modelled part are listed with its module
in section 2.

Next, in this order:

1. The auto-switch hook and loop at shutdown, in `PowerPolicy`.
2. `HardwareCommandQueue` implements the queue as `PowerPolicy`, `TouchpadControl`
   and `BatteryThresholds` use it, as `FanUsesSerialQueue` shows for the fan.
