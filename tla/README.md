# Verification of the Runner control stack

This directory holds TLA+ models of the control software of the Runner vehicle,
TLC configurations that check them on small instances, and TLAPS proofs of the
properties that matter most for every size of instance. Paths below are relative
to the root of the repository; `P/` stands for
`src/runner_paddock/runner_paddock/`.

The models cover who may move the vehicle and what it moves on: the latched
global STOP, the control lease and the grants that follow from it, autonomous
missions, the runtimes and maps they need, the web process between browsers and
ROS, and the path of a command from controller, keyboard or browser to the
wheels. How it moves (planners, path tracking, speed profiles) is numeric and
stays outside.

## 1. The system

A browser talks over a WebSocket to the Paddock gateway. The gateway turns input
into `ControlEvent`s. The *command authority* holds the control lease, decides
whether manual or autonomous motion is granted, forwards velocity samples to the
mux, asks the *STOP executor* to latch or clear the global STOP, and asks the
*mission runtime* to select, dispatch or cancel a navigation mission. The *mode
supervisor* starts and stops systemd units (SLAM, localization and Nav2) and
announces which runtime is current by an epoch. `twist_mux` arbitrates between
DualSense teleoperation, Paddock manual and autonomy under the STOP lock; the
drive adapter turns the winner into motor commands. Every node is a process of
its own that systemd restarts independently; nodes talk over ROS 2 topics.

| Component | State it keeps | Operations | Talks to | What makes it hard |
|---|---|---|---|---|
| STOP executor (`P/stop_enforcer.py`) | latch, mux lock, generation, write future, disk record, last acknowledged request | `request`, `tick`, worker write, start | authority (`StopRequest`/`StopState`), mux lock, encoder and local control samples | asynchronous writes, crash between decision and disk, stale or repeated requests |
| Command authority node (`P/command_authority_node.py`) | pending STOP request, last `StopState`, navigation intent, output gates | event, mode, navigation state and status callbacks, 100 Hz timer | all of the others | retransmission, restart with fresh ids, state read from topics that lag |
| Command supervisor and reducer (`P/command_supervisor.py`, `P/state_machine.py`) | lease, RUN, goal, manual demand, takeover, sequence numbers, ages of samples | lease and control events, runtime and takeover reports, samples, `tick` | called by the authority node | lapse and reinstatement, takeover while RUN is held, sequence wrap, early returns |
| Mission runtime (`src/runner_bringup/runner_bringup/navigation_runtime.py`) | mission, action generation, send/result/cancel futures, retry state, last failure | `OP_SELECT`, `OP_DISPATCH`, `OP_CANCEL`, mode state, odometry, futures, feedback, 200 ms tick | authority, mode supervisor, Nav2 | callbacks of old attempts, cancel before acceptance, lost answers |
| Mode supervisor (`P/mode_runtime.py`, `P/mode_supervisor_node.py`, `P/mode_launcher.py`) | mode, lifecycle, epoch, mapping session, readiness evidence, quiescence barrier | mode request, transition, refresh, reconcile, evidence callbacks | systemd, authority, mission runtime, map session | transitions of seconds beside callbacks on other threads, rollback, reconciliation after a restart |
| Map session (`P/map_session.py`, `P/map_session_node.py`) | map bundles, staging directory, session, selection, reset | NEW, SAVE, SELECT, DELETE, semantics | mode supervisor, SLAM services | multi-step file operations, observations during a save or between two lock stretches, a second process that writes manifests |
| Recording (`P/recording.py`, `P/recording_executor_node.py`) | recorder process, runtime record, bags | start, stop, poll, delete, adoption | gateway | a child process that outlives its parent or ends by itself, a record that may not be written |
| Gateway and client streams (`P/gateway.py`, `P/client_stream.py`, `P/state_cache.py`, `P/web_app.py`) | lease holder, sequence, pool threads, cached sections, pending frames per reader | connect, message, disconnect, publish, send | browsers, ROS state node | disconnect during handling, a cache that changes under the reader, values that cannot be encoded |
| ROS state node (`P/ros_state_node.py`, `P/ros_runtime.py`, `P/protocol.py`) | initial pose transaction, tuning and obstacle operations, map reader, pending routes | requests from pool threads, ROS callbacks, timers | gateway, Nav2, parameter services | late answers, halves that arrive in any order |
| Tuning, semantics, speed profiles (`P/autonomy_tuning.py`, `P/semantics.py`, `P/speed_profiles.py`) | values on disk and live | validate, write, read back, save, delete | ROS state node, map session | several owners of one set of values |
| Teleop (`src/runner_teleop`) | controller, keyboard, arming, takeover count | `on_joy`, `on_keyboard`, `publish_cmd` | mux, authority | inputs that expire, keys held through a takeover |
| Drive adapter (`src/runner_drive_adapter`) | selected source, provenance, speed integral | command, demand, encoder, mux output, timer | authority, mux, encoder | identities that restart, integration that is held and resumed |
| Motor and encoder (`src/runner_motor`, `src/runner_encoder`) | duty, direction, pending reversal; edges, stationarity | command, watchdog, sample; edge, window | each other, the wheel | a reversal that waits, a process killed with the duty on, a clock read outside the lock |
| `twist_mux` (`src/runner_bringup/config/twist_mux.yaml`) | last message per input | priority and timeout | all sources | third party |
| Behaviour-tree nodes, path speed profile | commitment state, profile | BT ticks | Nav2 | commitment logic; the profile is numeric |
| Telemetry, battery, IMU, scan helpers, vendored planners and drivers | statistics, numerics | - | - | no control state of their own |

What each must guarantee, in one line:

* STOP: once the operator has seen STOP confirmed, nothing but a newer deliberate
  clear ever releases it, over crashes of both processes and failing writes; and
  a STOP that is asked for gets there.
* Lease and grants: motion is granted only to the current lease owner, for the
  current map and mode, by a deliberate act; a silent owner loses the lease.
* Missions: what is reported as under way is the selected mission, accepted by
  Nav2, in the current runtime; cancels are final; the node never loses an attempt.
* Mode and maps: mapping and autonomy never overlap; map and session announced are
  those of the processes that run; a bundle is published whole and is deleted only
  while not selected.
* Web process: leases begin and end once; what a browser is told of a pose, a
  tuning value, a map, a route or a section is what happened.
* Motion path: a takeover ends remote motion in time and for good; no demand, key,
  reversal or integral of an earlier time moves the wheels.

The list `hazards` in `PROJECT.json` places each of the difficulties at its line.

## 2. Modules

| Module | Models | Uses |
|---|---|---|
| `StopEnforcer` | the STOP executor, its worker thread, its disk record, crash and restart | - |
| `StopProtocol` | the requester half of the authority, a lossy transport, restarts of both | `StopEnforcer` |
| `PaddockStateMachine` | the reducer `reduce` of `state_machine.py` | - |
| `CommandSupervisor` | the supervisor object around the reducer | `PaddockStateMachine` |
| `MissionRuntime` | the mission object, the node around it, Nav2 as an external action server | - |
| `NavigationIntent` | the navigation half of the authority, request and state topics, mode transitions | `MissionRuntime` |
| `MapCatalog` | abstract: what the map executor promises of saved maps | - |
| `MapLibrary` | map bundles on disk, staged save, deletion, semantic layer | - |
| `ModeRuntime` | the mode supervisor, systemd and ROS graph external | `MapLibrary` |
| `MapSession` | the map executor beside the supervisor it follows | `ModeRuntime`, instance of `MapCatalog` |
| `OperatorGateway` | gateway, connections, thread pool | - |
| `InitialPose`, `LiveParameters`, `RouteView` | three state machines of the ROS state node | - |
| `RecordingExecutor` | the recording executor and its recorder | - |
| `ClientStream` | state cache and fan-out to browsers | `OperatorGateway` |
| `PaddockGateway` | the web process: gateway and each part behind it | the six above |
| `Teleop` | the teleoperation node | - |
| `CommandOutput` | local-control watch and output gate of the authority, mux (external) | `Teleop` |
| `DriveAdapter` | a manual demand from gateway to adapter and back to the authority | - |
| `SpeedLoop` | the adapter's speed controller | - |
| `Wheels` | motor driver, encoder, wheel (external) | - |
| `MotionPath` | the motion path | the four above |
| `MCCommandSupervisor`, `MCNavigationIntent`, `MCPaddockGateway` | symmetry sets for TLC | the module they are named after |
| `StopEnforcerProofs`, `StopProtocolProofs`, `CommandSupervisorProofs`, `MissionRuntimeProofs`, `NavigationIntentProofs`, `MapSessionProofs`, `PaddockGatewayProofs`, `MotionPathProofs` | theorems | the module they are named after; `StopProtocolProofs` uses `StopEnforcerProofs`, `NavigationIntentProofs` uses `MissionRuntimeProofs` |

Conventions. A handler of the code is one action and keeps its name in CamelCase;
a method that only computes is an operator on the record that stands for the
object. A callback is atomic where its node has one executor thread; where it has
several, or hands work to a pool, each stretch under one lock is a step (the STOP
worker, a mode transition, a save, a message of a browser). An operator
whose name is that of another plus a remark (`SelectKeepsAction`) and whose comment
says *Mutant of* is a plausible mistake in the same code: checking the project with
it must break the property it is listed for in `PROJECT.json`.

### StopEnforcer

`disk` survives a crash, all else is the process. `generation`, `stopped`,
`locked`, `durable`, `fault`, `clear_at` are the fields of the same names;
`queue` is what was submitted to the one-thread worker, `write` the future that
`tick` harvests. `Request(r)` is `request()` with all of its outcomes (duplicate,
superseded, other boot, STOP, clear, refused clear). `Tick` is the whole of
`tick()`, in the code's order: harvest, abort or release of a drained clear,
publication. `Persist` is the worker; its outcome `failed_late` is a write that
failed at the directory fsync, after the record had been replaced. `Crash` and
`Start` may come at any moment. Times become events: a sample expires
(`OnSensors(FALSE)`, `FinalZeroExpires`), the drain elapses.

### StopProtocol

`requests` is the set of requests in flight: each may be delivered late, out of
order or never, and twice because it is retransmitted while it is pending. `state_pub` is
the one `StopState` under way; `TickLost` is a publication that does not arrive.
Every authority process draws a fresh requester id. `clear_target` is what
`_stop_state` is used for: the boot and generation a clear is bound to.
`confirmed` is a history variable.

### PaddockStateMachine and CommandSupervisor

One operator for each event of the reducer. `SET_ACTIVE_MAP` and `request_mode`
have no caller but tests; the first is left out. The supervisor is one record
`self`; a method is an action. A receive time is reduced to what the code asks of
it: the lease is `fresh` (motion dead-man), `stale` (still owned) or `lapsed`
(ownership backstop), samples are fresh or not, and any sample may age between any
two inputs. Sequence comparison is modulo `SequenceModulus` (2^64 in the code).
Velocities, clamping and reasons are left out. `demand.by` and the `by` of grants
are history fields.

### MissionRuntime

One record `runtime` has the fields of `MissionRuntime` and of the node: mission,
action generation, `pending_send` (a goal that waits for the action server),
`send_future`, `goal_handle`, `result_future`, `cancel_future`, attempts. An
operator that calls Nav2 returns a set of records, one for each thing the call may
do: go through, find the server not ready, raise. `_run_commands` is inlined in
each handler (`RunCancel`, `RunSend`), its trailing clean-up included
(`AfterCommands`). `nav2` is external: the goal accepted last and its status.
`UnitRestart` restarts the node and Nav2 together, as their unit does. The refusal
of a mission of a superseded epoch in `dispatch()` is modelled but cannot happen
(proved in `DispatchGood`): `observe_runtime` has revoked such a mission before.

### NavigationIntent

`auth` has the navigation fields of `CommandAuthorityNode`; `SyncNavigation` is
`_sync_navigation` and runs at the end of every input. Of the command supervisor
the proved contract is used: navigation is active only with a goal, and a goal is
only on the map of a ready runtime. `mode_state` is the last `ModeState`.
Assumptions: requests are reliable and in order (RELIABLE, depth 10); states are
keep-last, so a state may replace those not yet read; the authority has seen that
a transition began before the unit has been stopped and started (this takes
seconds); a runtime gets a new epoch. A mode supervisor that restarts may hand out
an old epoch again (`reconcile`); `ModeRuntime` has that restart.

### MapLibrary, ModeRuntime, MapSession

A file's content is the SLAM run that made it, which is all a hash or a manifest
can tell apart. A bundle is a directory whose two pairs of core files, manifest
and listing come in steps; staging and tombstones have names no map has.
`ModeRuntime` has a worker with a program counter: stop everything, wait for the
processes and the graph to be clean, write the map file, start one unit, wait for
readiness. Evidence callbacks run at any of its steps; requests, lease and refresh
share a callback group with it and wait. `minted` is a history of which SLAM run a
session id was given to. `MapSession` adds the executor: it sees the newest
`ModeState` late, a save is a thread of its own, and either process may crash
between any two steps. NEW MAP is two steps, as `_handle_new_map` takes its lock
twice: `HandleNewMap` checks the session and draws the request's id, `ForwardNewMap`
notes what the new session must not be and sends the request; a `ModeState` may come
between. `write_semantics` is three: the PNG, the hashes (`HashManifest`), the
manifest (`PaintManifest`). With `SlowPaint` a whole save may fit between the last
two, in another process; without it, `MayPublish` holds the publication of the same
map back for that moment. `CatalogIsImplemented` is the refinement: under the mapping
in `MapSession` every step of all that is a publication, a deletion, a selection or
a stutter of `MapCatalog`.

### The web process

`OperatorGateway` is the object under the gateway lock; a message goes from the
connection to the pool (`Receive`) and is carried out later, the end of a
connection (`Drop`, `Disconnect`) does not wait for it. Behind it:
`InitialPose` (STOP, stand still, seed, confirm, clear both costmaps),
`LiveParameters` (one write and one read at a time per store, overtaken or timed
out, answers late; the files beside them), `RecordingExecutor` (a recorder that is
started, adopted, escalated, over a runtime record whose writing, reading or removal
may fail, so that a death between `Popen` and `_persist` is a failed write and then a
death), `RouteView` (map reader bound to a runtime, plan and
profile joined in either order) and `ClientStream` (a publication that reads the
cache several times; of a value it keeps whether there is one and whether
`encode_message` accepts it). Two history fields name what the code loses sight of: a
recorder is `lost` when the executor that started did not find it on its record, a
section of a reader is `misled` when the frame offered to the reader had another key
than the reader was marked with. The parts share only the lease and the connections, so
`PaddockGateway` composes the gateway with one of them in each behaviour (`part`).

### The motion path

`Teleop` and `CommandOutput` run in ticks of 50 ms: a limit of T ticks may be over
when T are counted and is over after T + 1, which covers every phase of the timers.
Status is delivered within its tick or lost. A *grant* is a RUN press the supervisor
accepted; the rules for it are those proved of `CommandSupervisor`. `DriveAdapter`
follows one demand: neither authority nor web process is named in any message, so
`of` (the origin) is history. `SpeedLoop` has the controller with efforts as small
integers; samples come in the order they were taken, their stamps as the clock shows
them, which may step (`ClockLags`). `learned` is the history of the periods between
samples: integrated, skipped by a driving cycle, or held since the last driving cycle
by one that brakes or is silent; the next driving cycle decides what becomes of those.
`Wheels` has driver, encoder and a wheel that turns as it likes. The driver ends by
`stop()` or is killed (`KillMotor`), which leaves the duty in the PWM channel; `newest`
is the last command given to the present driver process. A publication of the encoder
is two steps, the clock reading (`PublishWindow`) and the measurement under the lock
(`TakeMeasurement`); an edge recorded between them is later than the reading. The line
reader may fail and the encoder restart. `blind` is history: a sample taken when the
encoder could not know whether the wheel turns. `MotionPath` runs one part in each
behaviour; the parts exchange commands only through what the properties fix (sign,
silence).

## 3. Runs

| Run | Instance | Distinct states | Shows |
|---|---|---|---|
| `stop_executor` | 1 requester, 2 ids, generations to 3, 2 boots | 42 760 | lock, promises and disk agree under any requests, failing writes and a crash; the proof's invariant holds |
| `stop_restarts` | 2 requests, executor or authority replaced | 2 340 983 | a confirmed STOP holds; a STOP is never rejected; late requests of a dead authority neither clear nor block |
| `stop_liveness` | 1 STOP, executor crashes once | 18 886 | every STOP is eventually applied, unless its own write failed or the authority died |
| `supervisor` | 2 browsers, 2 maps, 4 sequence numbers, 3 lease generations | 68 088 | no grant outlives lease, map or mode; autonomy opens only by RUN or a goal of the owner; events in order |
| `supervisor_liveness` | 2 browsers, 1 map | 16 020 | the lease of a silent browser is freed |
| `navigation` | 2 poses, 2 revisions, 2 epochs or 2 authority processes, up to 2 dispatches in a runtime | 976 306 | reported actions are current, accepted and carried; cancels are final; output that stays open serves the selected goal as long as the first authority lives |
| `map_session` | 2 maps, 2 unit starts, 2 mode requests, 1 crash, 3 operator actions | 525 808 | runtimes exclusive, map and session those of the running processes, a NEW MAP noted with a session succeeds only with a later SLAM run, files implement the catalog |
| `web_process` | 2 browsers, 2 owners, 2 bags; lease, pose, tuning, files, layer, map and route, recorder and stream in turn | 1 407 223 | leases bracketed; seeds, read-backs, maps and routes as reported; every recorder on record is known; readers marked with what they are sent |
| `motion_path` | 2 takeovers or restarts, 2 grants, 4 events, 3 generations, samples at 4 times, stamps right or 2 behind; takeover, keyboard, manual, speed and wheels part in turn | 2 066 304 | takeover final and in time; no outdated demand, key or command takes effect; frozen time stays out of the integral; reversal at rest |
| `manual_release` | 1 browser | violation | finding 1 |
| `authority_restart` | 2 poses, 1 authority restart | violation | finding 2 |
| `lease_orphan` | 2 browsers, 3 messages | violation | finding 3 |

Bounds. They bound how often something happens, never whether a step is allowed in a
state. One crash on each side, two requests and two generations more than the first
are enough for every pair of decisions to meet in either order, with a restart between
them. Two browsers and three lease generations let a lease lapse, be reinstated, lapse
again and be taken by the other; four sequence numbers wrap. In `navigation` a bound
on epochs, processes and dispatches *together* (`MaxEffort`) allows two dispatches in
the first runtime and one in a second runtime or under a second authority, so that the
callbacks of one attempt meet the next and a restart may fall between any two steps.
In `stop_restarts` one restart of either side is allowed in a behaviour. In
`map_session` two unit starts are what NEW MAP and a change of mode need, and the
crash may hit supervisor or executor at any step of worker or save; two requests let a
NEW MAP meet a change of mode. In `web_process` a read, a write and its verification
fit in three operations, so that each can meet the answers of another; three routes
and missions and a candidate store of one let every half of a route be overtaken. In
`motion_path` time is not bounded (ages saturate just above their limits); a takeover,
a restart and a second grant can follow each other. In its speed part times to three
with an integration limit of two and a lag of two give valid, overlong, repeated and
negative intervals, and the efforts (feedforward 1, limit 3, integral 1) reach
saturation on both sides. Symmetry (sessions and maps, poses, connections, owners,
bags) is used in safety runs only.

Deadlock is checked where nothing bounds the inputs. The runs of `MapSession` and
`PaddockGateway` bound the number of operator actions, after which everything may
have come to rest; there it is off.

Fairness. `stop_liveness` assumes what the deployment provides: the timers fire
(50 ms retransmission, executor tick), systemd restarts the executor, the worker
executes what is queued, the mux goes on publishing zeros under its lock, and a
message that is sent again and again is received at last (strong fairness of
delivery). It does not assume that a write succeeds. `supervisor_liveness`
assumes the 100 Hz supervision timer and that time passes. The safety runs assume
nothing.

## 4. Findings

1. `manual_release` (`P/state_machine.py:283` against
   `docs/runner_spec_v1.3.md:102`). RUN pressed during manual control arms
   autonomy although manual control outranks it, so the release of the joystick
   hands over to autonomy. The specification says *Return IDLE; no fallback to old
   autonomy*.
2. `authority_restart` (`P/command_authority_node.py:676`). A restarted authority
   counts mission revisions from zero, so the mission runtime refuses its goals as
   stale, but a dispatch is executed without comparing the mission it names: Nav2
   drives to the goal of the dead process while the permit is open.
3. `lease_orphan` (`P/web_app.py:264` against `P/gateway.py:240`). A message still
   in the thread pool when its connection ends is carried out after the
   disconnection: an acquisition then leaves the lease with a connection that is
   gone, until another browser takes over. The docstring of `on_disconnect` says
   *never leaves it stuck*.

What the properties exclude. Seven properties hold but for one behaviour the code has.
The models have that behaviour, the property names it, and it is this:

- `DutyFollowsCommand` is about a driver that runs. The watchdog that is to cut the
  duty 200 ms after the last command (`docs/runner_spec_v1.4.md:85`) is a timer of the
  process that set it (`motor_node.py:285`): a driver that is killed leaves the duty on
  until its successor finds the channel enabled (`:122`, *hot recovery*), however long
  that takes to start. The successor's first act is to clear it, which is in the
  property.
- `ReversesAtRest` is about samples that are not `blind`. The encoder reads the clock
  before it takes the lock (`encoder_node.py:319`); an edge recorded in between is later
  than the reading, is taken for a broken clock (`encoder_state.py:129`), and rest is
  reported. A pending reversal is then carried out on a turning wheel, though the gate
  is to be *fail-closed until it receives post-request stationary evidence*
  (`docs/runner_spec_v1.0.md:688`). The same goes for a line reader that has failed
  (`encoder_node.py:308` only logs it) and for the first 200 ms of a new encoder.
- `FrozenTimeStaysOut` speaks of the time of a brake or a silence only from the first
  driving cycle after it. Only driving cycles move the reference of the integral on
  (`drive_adapter.py:635`), so this first one integrates the time of a brake or silence
  that was short enough, though *freeze means hold* (`docs/runner_spec_v1.2.md:430`).
  The property says that this adds at most `MaxIntegrationDt`, and that what the cycle
  leaves out is never made up for.
- `ResetIsFresh` is about a NEW MAP that noted a session. One whose session ends between
  the check and the note (`P/map_session_node.py:375`, `:392`) waits for any session at
  all; when the transition is rolled back, the old one is reported as the new, against
  *a fresh session begins on ... every NEW MAP* (`docs/runner_spec_v1.4.md:413`). It
  takes three requests, one more than the run has.
- `CatalogIsImplemented` is proved and checked without `SlowPaint`. A manifest hashed
  before its map was deleted, and written after another was saved under its name
  (`P/semantics.py:195`), makes that one invalid, against
  `src/runner_paddock/test/test_semantics.py:158`. It takes a web process that pauses
  for the seconds of a save.
- `OneKnownRecorder` is about recorders that are not `lost`. A record that cannot be
  written is passed over (`P/recording.py:498`); the next executor knows nothing of the
  recorder and starts a second, against *own exactly one recorder process* (`:227`).
  Under the shipped unit, which kills the recorder with its executor, this cannot
  happen; an executor started by hand is exposed to it.
- `MarkedIsSent` is about sections that are not `misled`. When the whole state cannot be
  encoded, new readers are offered the frame of an earlier publication and marked with
  the keys of the present one (`P/client_stream.py:146`), so what changed between is not
  sent to them until it changes again; `docs/runner_spec_v1.5.md:1090` promises them a
  complete state first.

Smaller observations. The models have these behaviours, and no property speaks
against them.

*STOP and lease:* a clear while already clear is accepted again; `applied` stays true
while a clear drains, when the record already says clear (hence the exclusion in
`AppliedIsDurable`); an aborted drain leaves the authority's clear pending, which is
fail-safe; a failed STOP write is not tried again by a retransmission, the mux
staying locked; a STOP the executor never received dies with the authority; the
sequence number of the heartbeat that reinstates a lease is not compared; a goal
selected again while RUN is held needs RUN to be pressed again, as the v1.3
transition contract asks.

*Runtimes and maps:* during NEW MAP a late grid of the discarded session may count
as evidence of the new one (`P/mode_supervisor_node.py:176`), and readiness is
withdrawn again when the transition returns (`:331`); a restarted supervisor begins
with epoch 1 (`P/mode_runtime.py:539`); an unauthorized NEW MAP clears the owner's
pending reset (`P/map_session_node.py:357`); a map is deleted by what the executor
last heard of the active map (`:442`), which a transition under way may be about to
load; a reset whose session never comes stays RUNNING; selecting the running mode
again does not restart a unit that has died.

*Web process:* an obstacle layer read overwrites an operation begun
since its lock was released; a late plan of an earlier commitment shows the old
route and drops the pending profile of the newer one (`P/ros_state_node.py:711`);
a rejected second initial pose aborts the pending one; the runtime record lies in the
`RuntimeDirectory=` of the mode supervisor's unit and vanishes when that unit is
stopped (`services/runner-mode-supervisor.service:14`), as in `RecordVanishes`.

*Motion path:* the adapter keeps manual selected when the authority dies with a demand
asserted, and ignores Nav2 until the next manual demand ends
(`drive_adapter_node.py:151`); the motor takes any stationary sample that arrives
after the request for a reversal, whatever its stamp (hence `MaxDelay` in
`ReversesAtRest`); a driver that starts sets the direction to forward whatever the
wheel does, with the duty off (`ReversesAtRest` is about a running driver); driving by
keyboard masks remote commands but does not end the grant.

## 5. Proofs

`tlapm` checks about 12 000 obligations. The constants are arbitrary, the only
assumptions those named `...Constants` in the modules. Every safety property that a
passing run checks, invariant or action property, is a theorem; so is the refinement
of `MapCatalog`, under the assumption `~SlowPaint`. Each inductive invariant below
was first checked by TLC on the instance of the run whose properties it proves (for
the parts of `PaddockGateway` and `MotionPath`, with the part's own steps).

**StopEnforcerProofs.** `StopSpec => []StopIInv`, and from it
`UnlockedIsPersistedClear`, `AppliedIsDurable`, `RecordsAdvance` and
`ReleaseWasAnnounced`. None of these is inductive. That the lock is released only
on a persisted clear depends on what the queued writes will do to the disk: queued
decisions are newer than the record and in order (`QueueInv`), a future that is
not harvested is about the current generation (`FutureInv`), and what the latch
believes about the disk is so (`LatchInv`). `PublishedInv` carries the promise
made in a published state over crashes, and `BetweenLives` what a new process
finds. All but `PublishedInv` together are `MemoryInv`, which the handshake uses.

**StopProtocolProofs.** `ConfirmedStopHolds` and `StopIsNeverRejected` relate two
processes that may each be replaced at any time, so the invariant `ProtocolIInv`
has to speak of every message in flight. Every request is numbered by the process
that sent it and a number stands for one request (`RequestsAreNumbered`); the
executor has decided only what was sent (`DecisionsAreOfRequests`); every clear
names a boot that has been and, for the present one, a generation already reached
(`ClearsAreBound`). So once a process has decided the pending STOP, its generation
is beyond that of every clear in flight, no write under way or queued is a clear,
and latch and lock are set (`DecidedIsHeld`). A STOP that is confirmed, or whose
confirmation is on its way, is moreover on disk and every queued write keeps it
there (`PromiseIsKept`), which is what a crash needs. `MemoryInv` supplies what the
executor's memory says of its disk. The executor's lock rule,
`UnlockedIsPersistedClear`, is proved again for the requests the authority really
sends.

**CommandSupervisorProofs.** Each operator of the reducer keeps `StateOK` (one
lemma per event); each method is a composition of these and keeps `SelfOK`, which
adds the age, demand and lapsed-lease fields. Results: type correctness,
`GrantsAreCurrent`, `DemandIsCurrent`, `LapsedLeaseIsFree`. The action properties
follow from a classification of every step: an input first expires the lease or
does not (`Expired`), and then keeps it, takes an event of its owner in order,
loses it or grants it (`StepFrom`). Only a taken RUN or goal opens autonomy
(`GrantIsDeliberate`); losing and granting leave nothing armed
(`OwnershipChangeDisarms`). `SequencesAdvance` needs that a lease which is held has
a sequence number since its acquisition (`SequenceIInv`), and that the modular
comparison is antisymmetric, whatever the modulus.

**MissionRuntimeProofs.** `MissionSpec` is the node under every request, mode and
answer its environment may give. The invariant `MissionGood` says that the state
agrees with the flags, that a mission is bound only to the present epoch and map,
that an attempt has exactly one carrier, how much Nav2 can have heard of it, that
the poses sent are those of the mission as long as it is the one in flight, that
no id is newer than the newest revision (so a newly selected mission can be
confused with nothing), and whom a failure is charged to. Between two calls of one
handler a cancelled attempt has no carrier; `Loose` allows for that, and
`ResolveGood` shows that the handler repairs it before it returns. Results:
`ActiveIsCurrent`, `ActiveIsAccepted`, `InflightIsCarried`,
`OnlyTriedMissionsBlocked` and, as an action property, `CanceledStaysDown`.

**NavigationIntentProofs.** `NavigationSpec => MissionSpec`: every step of the
composition is a step of the mission runtime or leaves it alone, because what the
topics carry is well formed (`NavigationTypeOK`, proved too). The mission
properties hold in the composition for any bounds. `FirstMotionIsSelected` says that
permitted output serves the goal selected last. It needs `IntentIInv`: the last
state on its way is the one published last (`StatesArrive`); a runtime that sees
AUTONOMY, and an authority that is ready, are in the present epoch, because a unit
starts between two epochs and none while the authority is ready (`ModeIsPresent`);
selections on their way are of that epoch, each newer than the one before and than
any the runtime has seen, so none will be refused (`SelectsInOrder`); and the last
of them, or else the mission that is bound, is the goal (`LastSelectIsGoal`). The
last two hold for the first process only: a second one counts from the start again,
which is finding 2.

**MapSessionProofs.** `SessionIInv` is about supervisor and executor, `FilesIInv` about
the files. That mapping and autonomy never overlap rests on what the worker has
established at each of its stages (`WorkerStages`): it starts a unit only when every
unit is clean and the graph is empty. That a ready autonomy announces the map it has
loaded rests on the map file not being written while a unit runs (`UnitsHost`,
`ActiveMapIsStored`). That a session id names one SLAM run, even when a restarted
supervisor finds units running, rests on the session in force being the newest ever
made and its run the one alive (`SessionIsNewest`), where in force is, during NEW
MAP, the session that may have to be given back. For `ResetIsFresh` the session NEW
MAP was accepted for, the one it noted later and the one followed are in the order
they were made (`FollowsSessions`), unless none was noted. For the files: whatever
stands under a map name is complete (`WholeMaps`), a save that is about to publish has
staged all it needs (`SavesAreStaged`), a manifest about to be written speaks of the
files that are there (`PaintsWhole`), and the selection is of a saved map and memory
agrees with the file (`SelectionIsStored`). `PaintsWhole` needs `~SlowPaint`: with it a
save may change the files under a manifest that has been hashed.
`FilesImplementCatalog` then maps each step: only the
publishing step of a save, the first step of a deletion and the write of the
selection change the catalog, each as one step of `MapCatalog`; every other step,
crashes and restarts included, is a stutter. Also proved: `SessionTypeOK` and the
other type invariants.

**PaddockGatewayProofs.** One invariant for each part, and lemmas that every other
step leaves the part alone. *Leases*: the events published are a ledger in which
numbers increase and no ended lease is the one held (`LeaseInv`). *Initial pose*: a
costmap the transaction no longer waits for was cleared for this very transaction,
and STOP stands as long as there is one, because a clear is refused meanwhile
(`PoseInv`). *Tuning*: an owner the current read no longer waits for has served that
read; late answers name the read they belong to (`TuningInv`). *Recording*: process
ids are not used twice, so of the recorders that were not lost there is one, and a
running executor holds its id (`RecorderInv`); a failed write changes what the next
executor will find, and thereby who is lost, but not this. *Map and route*: maps are
told apart by the number of the runtime they come from, and every half of a route
that is kept came within the present mission (`ViewInv`). *Stream*: the pending
frames of a reader are one of each kind, with the whole state before any section; the
whole state is offered only to a reader that is not marked, and such a reader waits
for no section; so each offer decides alone what the browser will show of what it is
about, and a section is misled only from a stale whole state to its next update
(`StreamInv`, with `OfferShape`, `OfferKeeps` and `OfferShows` about the queue).

**MotionPathProofs.** That the motor is driven only for the newest command while it
is young (`DutyFollowsCommand`) and reverses only at rest (`ReversesAtRest`) follows
from `WheelIInv`: a driver that drives, or waits to reverse, does so for the newest
command, whose age the watchdog has counted, and the watchdog runs before time
passes again (`DriverHeeds`); a driver that starts has cleared the duty it found and
has been given no command yet. Since
a sample that shows rest and was not taken blind, the wheel can have turned for no
longer than the sample is old: an encoder that reads has counted no more time since
the last edge than there was (`SampleHolds`). `FrozenTimeStaysOut` rests on
`SpeedIInv`: the controller remembers the sample of its last driving cycle or none, and
everything learned or skipped by a driving cycle was before it was taken
(`LearnsOnce`), so the next interval meets neither, whatever its stamps say. What has
been held since then is over and in neither set (`HeldIsOpen`), until the next driving
cycle puts it into one of them. That an interval counts between one and
`MaxIntegrationDt` is the guard of `_integration_dt`, and bounds what a step of the
clock or a brake can add.

`TakeoverIsNotUndone` and `RemoteYieldsInTime` rest on `TakeoverIInv`. The authority
learns of a takeover by a status that may be lost, so it is *behind* or knows the
last takeover (`StatusIsPresent`). A grant under which a takeover has begun is left
only while the authority is behind, and for no longer than it has heard nothing;
for a grant that a command of the takeover has overridden, the mask of the mux is
younger than that silence (`GrantIsShort`). Silence is noticed within three ticks
(`SilenceIsCounted`), before the mask ends: the two time limits together, and
neither alone, keep the old grant from the wheels. Keys voided by a takeover are
neither armed nor ready (`TeleopIInv`). `ConvertedIsCurrent` rests on `AdapterIInv`:
a demand is told from all others by its sequence number and the web process that
counted it, neither of which a command names in full; within a lease generation the
owner is one web process, and at most one of the two processes is not the first
(the model allows one restart in a behaviour), so a conversion with the number and
generation in place is of the demand in place.

Only model-checked: liveness (`PendingStopIsApplied`, `SilentLeaseLapses`), which is
out of the prover's reach, and the violations of section 4.

## 6. What is not modelled

The components with status `not_modelled` or `partly` in `PROJECT.json`, with the
reason for each. Out of the models that exist: velocities and their clamping,
steering, edge rates, texts, logging, JSON and ROS encodings, the speed ceiling
setting, the error codes of Nav2, the ordered-poses mission type (nothing requests
it), the numeric redispatch tolerances (a posture is a class of poses that are
within them), rejection of malformed browser messages, the wait of
`clear_obstacles` under the gateway lock. Most of the ROS state node's
subscriptions convert one message and store it; they have no state of their own.
The behaviour-tree commitment nodes and the profile matching of the controller
(`commitment_nodes.cpp`, `regulated_pure_pursuit_controller.cpp`) have control
state worth modelling and are next. The analysis tools, speed profile, planners,
filters and lidar driver are numerics, offline or third-party code and will not be
modelled.

Limits of what is modelled: `DriveAdapter` allows one restart of either the authority
or the web process in a behaviour; a bundle carries no session, so that a save whose
session ends between its last check and its publication (`P/map_session_node.py:546`)
is not told from one whose session does not; the direction the encoder publishes with
its rate (`active_direction`) has no reader in the models.

## 7. Plan

1. *Commitment*: the behaviour-tree nodes that hold, validate and hand off a path,
   with the profile cache and cusp stops of the controller; property: the path
   driven is the one whose profile was accepted.
2. The hazards without a property: a STOP that dies with the authority before the
   executor has received it, and RUN pressed again before Nav2 has confirmed the
   cancel.
3. Composition of `ModeRuntime` with `NavigationIntent`, whose assumption of fresh
   epochs a restarted supervisor does not meet.
4. `ConvertedIsCurrent` over more than one restart: it needs an argument about which
   demands can still be under way when a second process starts to count again.

## 8. Running the checks

    tlc -workers 2 -config <file>.cfg <module>     # module and cfg per run: PROJECT.json
    tlapm <module>Proofs.tla
