# Verification of robot_runtime

TLA+ specifications, TLC checks and TLAPS proofs for the robot runtime of this
repository: the ROS 2 nodes that decide who may move the robot, carry a stop to
the servos and take it back again, the bridges and players in front of them and
the drivers behind them. Paths below are relative to the repository;
`EM/` stands for `src/execution/execution_manager/execution_manager/`, `SH/` for
`src/execution/servo_hardware/servo_hardware/`, `CT/` for
`src/control/parallel_3dof_controller/parallel_3dof_controller/`, `TB/` for
`src/bridges/task_service_bridge/task_service_bridge/`, `WB/` for
`src/bridges/teleoperation_bridge/websocket_bridge/`, `RL/` for
`src/tools/record_load_action/record_load_action/`, `HW/` for `src/hardware/src/`.

## 1. The system

```
websocket client --> websocket_bridge --teleop control/command--+
speech, task API --> task_service_bridge --> /motion/execute    |
                        parallel_3dof_controller --task control,+--> execution_manager
                                       task/motion command------+      |        |
                                                          /servo/command   /servo/driver_safety,
                                                                 |        stop and release services
                                                             bus_protocol_router
                                                              |              |
                                                     bus_port_driver ... bus_port_driver --> servos
```

### Inventory

| component | state | operations and partners | what is hard | what makes it correct |
|---|---|---|---|---|
| arbitration (`EM/arbitrator.py`) | task identity, lease and time; teleop holder, lease and time; motion time; estop; tombstones; cached mode; counters | task control start/keepalive/finish/cancel, teleop claim/keepalive/release, commands, estop; called by every callback of the manager node | expiry is only noticed by the next call; replayed starts; pre-emption; late keepalives | one owner at a time, nobody under an estop, no lost lease revived, no ended task replayed within the window, the state other nodes read is not ahead of the truth |
| execution manager node (`EM/execution_manager_node.py`) | active stop operations, latched stop fault, last safety stamp, known actuators | estop topic, stop and read services, `/servo/driver_safety`, calls to the router; default callback group exclusive, services reentrant, 4 threads | operations overlap, calls time out and are served late, the safety topic and the release call overtake each other | a stop that was acknowledged is not undone, FALSE is published only after all drivers acknowledged, a failed stop is never forgotten, every operation ends |
| execution adapters (`EM/*_adapter.py`) | none | map fields between commands, services and feedback | unit and range checks | the mapping of each encoding |
| driver safety latch (`SH/safety_latch.py`) | latched, fence, last authority stamp | `activate`, `observe_authority`, `admit` in the router and in every port | stamps arrive in any order | a move from before a stop never passes, a release newer than the stop opens |
| bus protocol router (`SH/bus_protocol_router.py`) | `safety_command_lock`, latch, probe queue, registry | forwards commands, stops, reads; calls every port on a release; all callbacks reentrant on 4 threads | waits for answers on threads that the answers need; partial acknowledgements | acknowledges only what every port did; every callback ends |
| bus port driver (`SH/bus_port_driver.py`) | latch, serial port, input buffer | moves, stops, releases, reads of one serial bus | late moves; late, foreign, echoed and damaged answers; four units of position | writes no move the latch refuses; reports what the servo asked really said, in the units of the client |
| protocol registry (`SH/bus_protocol_registry.py`) | cached protocol per servo, a JSON file | read, remember, replace the file; probes, reads and commands register | crash between write and replace; failed probes; commands that succeed without an answer | a servo is spoken to in the protocol it answered in, but for what clients wrote to it blindly, and found if it answers |
| bus/pca servo drivers (`SH/bus_servo.py`, `pca_servo.py`, `servo_router.py`) | limits, offsets, the servos commanded so far, the board's registers | older nodes with a board of their own: command, write, state; reset of every servo at their end | a block of registers that comes through in part, bytes that fail behind it, a signal that ends a callback anywhere | what is answered without an error is written; what was answered is centred at the end |
| codecs (`SH/protocols/*.py`) | none | frames and checksums of the LX and ZL protocols | bytes and widths | an answer is found in the buffer, nothing else is taken for one |
| parallel_3dof_controller (`CT/controller_node.py`, `motion_execution.py`) | single goal slot, latest task state, pending cleanups | motion action: start, commands, keepalive, polls, finish or cancel; `/execution/task/state` | awaits between check and use; lost or late answers; orphaned leases | a goal that ended leaves no lease behind, no cleanup waits for ever |
| scene admission (`CT/scene_admission.py`) | latest scene, seen observation ids | update, evaluate, commit under one lock | replays after eviction, ageing between evaluation and commit | commands are committed only against a fresh scene |
| kinematics (`CT/tdpm.py`, `kinematics_solver.py`) | none | floating point geometry | numeric | outside this method |
| task_service_bridge (`TB/`) | slot, goal handles, context | `/task/execute` to `/motion/execute` | cancel callbacks race the execution at every await, each of which may raise | one motion at a time, true results, a slot that always comes back |
| websocket_bridge (`WB/`) | connections, lease per session, two caches of the execution state | websocket messages to teleop control and commands | disconnect while holding; decisions on cached state; asyncio and ROS threads | a client acts for itself only, a lost client does not keep the robot, a holder can command |
| servo messages (`WB/message_handler.py`) | none | three formats of positions | ranges that overlap | the client sees what it asked for |
| BVH player (`RL/`) | gate, playback workers, stop events | play, stop, blocked, close | worker and stop race; a join that times out | no frame after a confirmed stop |
| speech interface (`src/speech/speech_interface/`) | per intent its request, its futures and its last status | parses an intent, waits for the task server, sends a goal, tells how it ends; reentrant callbacks on 2 threads | requests keep their threads while they wait; a server that refuses, breaks or goes away | every intent comes to an end that is told, and none told to be rejected runs |
| vision | none that others share | validation of single messages | - | - |
| ros2_control actuators (`HW/position_actuator_system.cpp`, `bus_servo_system.cpp`, `pca9685_system.cpp`) | lifecycle, commands, last commands, states, error counts, feedback index | configure, activate, read, write, deactivate, cleanup | missing feedback, partial failure, reactivation | feedback of bounded age, no jump, everything stopped that can be and is meant to be |
| ros2_control IMU (`HW/yb_imu_sensor.cpp`) | receive buffer, stored reports and flags, exported values | lifecycle, read | frames cut, damaged, interleaved; silence | no mixture of old and new values |
| simulation bridges, messages, launch files | last values or none | conversions | - | - |

`PROJECT.json` lists these components with their status, and every hazard with
the line where it bites.

## 2. Modules

| module | models | extends / instances |
|---|---|---|
| `ExecutionAuthority` | what the execution layer promises: one owner, leases, estop | - |
| `CommandArbitrator` | `EM/arbitrator.py`, every method | refines `ExecutionAuthority` |
| `CommandArbitrator_proofs` | its invariants, and that it implements `ExecutionAuthority` | `CommandArbitrator`, TLAPS |
| `DriverSafetyLatch` | `SH/safety_latch.py` as operators | - |
| `DriverSafety` | stop path: manager node, router, ports, safety topic, service calls | `DriverSafetyLatch` |
| `DriverSafety_proofs` | a stop fault is sticky, acknowledgements are true, stale moves are not written | `DriverSafety`, TLAPS |
| `RouterPool` | the threads and the lock of the router | - |
| `SpeechInterface` | intents from request to status, on the threads they share | - |
| `TaskMotion` | the motion action of `CT/` against task control and task state | `CommandArbitrator` |
| `TaskMotion_proofs` | no lease outlives its release, none is orphaned, the arbitrator behaves as alone | `TaskMotion`, `CommandArbitrator_proofs` |
| `ProtocolProbe` | probes of `SH/bus_protocol_router.py`, the registry and its file | - |
| `ServoUnits` | positions in the units of clients, pulses and protocols, as operators | - |
| `PortSerial` | the exchange on one serial line, the codecs' frames and scanners | `ServoUnits` |
| `BusServos_proofs` | never misrouted, what was saved stays; what was asked for is read back | `ProtocolProbe`, `PortSerial`, TLAPS |
| `SceneGate` | `CT/scene_admission.py` | - |
| `TaskBridge` | `TB/bridge_node.py` with the motion server's side of a goal | `SceneGate` |
| `TaskBridge_proofs` | replay window, one motion, cancels, outcomes, current scene | `TaskBridge`, TLAPS |
| `TeleopBridge` | `WB/`: connections and sessions, with the manager's handlers | `CommandArbitrator` |
| `ClientInterfaces_proofs` | rejected intents never run; a session answers only to its holder, the arbitrator behaves as alone | `SpeechInterface`, `TeleopBridge`, `CommandArbitrator_proofs` |
| `BvhPlayer` | `RL/bvh_player.py`, `bvh_runtime.py` and the adapters around them | - |
| `BvhPlayer_proofs` | a confirmed stop is silent, the context is true | `BvhPlayer`, TLAPS |
| `PositionActuator` | the bus servo and PCA9685 plugins and their base class | - |
| `ImuSensor` | `HW/yb_imu_sensor.cpp` | - |
| `ServoNodes` | `SH/pca_servo.py`, `bus_servo.py`, `servo_router.py` | - |
| `HardwarePlugins` | who may own the boards: a plugin or an older node | `PositionActuator`, `ImuSensor`, `ServoNodes` |
| `HardwarePlugins_proofs` | no jump, still when inactive, no mixture, feedback of bounded age, answers are written, the end is centred | `HardwarePlugins`, TLAPS |
| `MC...` | instances for TLC; `MCThreadPools` joins `RouterPool`, `SpeechInterface` and `BvhPlayer`, `MCBusServos` joins `ProtocolProbe` and `PortSerial`: one behaviour is that of one part, the others stand still | |

### CommandArbitrator

Each public method of `ExecutionArbitrator` is one or several actions; the
opening `_refresh_mode` (drop what expired) and the closing one are part of the
action. `receive_task_control` is `TaskStart`, `TaskRenew`, `TaskEnd` and
`TaskReject` by its verdict; `receive_teleop_control` and `receive_command` are
split in the same way; a refused command and the pure refreshes share `Refresh`,
because they change the same state. A `last_..._time` is modelled by its age
(`taskAge`, ...), so that the state space is finite without a clock: an age stops
one unit past its timeout, where nothing distinguishes it from a larger one. The
three ids of a task are one value, a uuid lease is the next number of a counter,
`since` is a history variable: how many ends were recorded after each task's own.
Counters and snapshot texts are left out; `tombs` keeps the deque and the set the
code keeps beside each other.

### DriverSafety

An operation (`ops[o]`) is one run of the stop service, of the estop callback or
of its release, and its `pc` names the await at which it is suspended. The stop
service runs in a reentrant group, so operations overlap; estop and release hold
the default group (`busy`), as rclpy holds a mutually exclusive group until the
coroutine is done, and so exclude commands and each other. The topic
`/servo/driver_safety` is transient local with depth 1: `last` is the retained
sample, `topic[d]` the one driver `d` has not taken, which a newer one replaces.
Service calls are records in `inbox` and `portCalls`. A caller may give up at any
moment (`CallTimeout`, `RouterTimeout`) while the request stays and is served
later. `serving` is the request under the router's `safety_command_lock`. Moves
carry the stamp of their command; they may be delayed for ever, and reach port
and router in any order. `quiet[p]` is a history variable: when the last stop of
port `p` was acknowledged to the manager.

Simplifications, all of them on the safe side or without effect: the reasons
of an estop are left out, because only reports depend on them; drawing the
stamp of an announcement and publishing it is one step; the check that an
operation is still active inside `_stop_driver_actuators` is left out because
nothing ends an operation from outside while it runs; an actuator whose protocol
cannot be determined is `StopUnreadable`; each port stands for one actuator.
A restarted manager publishes FALSE from its constructor (`ManagerRestart`), and
a restarted driver starts open with fence 0 and receives the retained sample
(`DriverRestart`).

### RouterPool

All callbacks of the router share `MultiThreadedExecutor(num_threads=4)`. A
callback is `ready`, on a thread (`started`, also while it blocks on the lock),
or `calling`: blocked on `done_event.wait(timeout)`. The event is set by a client
callback, which needs a thread itself (`MarkDone`). The order in which ready
callbacks get a thread is left open.

### TaskMotion

The controller and the arbitrator, joined by two topics that keep their order
(`control`, `states`; reliable, and assumed not to overflow their depths of 10
and 20) and one that need not arrive in their order (`commands`). The manager's
handlers are the actions of `CommandArbitrator` followed by `_publish_state`;
`view` is the latest state the controller took, `fresh` whether one came after
the sequence number a goal noted. `goal.pc` is where `_execute_motion` is
suspended: `waiting` for the lease, `moving`, `releasing`, ... Every await may end
in a cancel, a timeout or an exception, in any order with the states that arrive:
those paths share `LeaseNotAwaited`, `Abandon` and `ReleaseUnseen`, because they
call the same release and leave the same cleanup. `_motion_goal_callback` tests
the cleanups under one lock and the slot under another, so it is two actions
(`AskGoal`, `AdmitGoal`). The scene gate is an open choice, position samples are
`reached` or not, and teleop and motion commands take no part.

`released` is a history variable: the leases a result reported as released. With
`MayRetry = FALSE` every goal has ids of its own; the code leaves that to its
callers (`task_service_bridge` passes the ids it is given). With `TRUE` a caller
may ask again under the same ids, which the `recoverable` result of a refused goal
invites; `LeaseAccounted` then fails in the way `motion_retry` shows.

### ProtocolProbe

A command for a servo of unknown protocol is dropped and leaves an entry in
`queue` and `pending`; `TakeProbe` is the timer. `calls` are the calls of port
drivers under way, each with the protocols it has left to try: probes, and the
reads and commands of clients (`Serve`), which try the protocol the client names,
or the known one and then the other. `Succeeds` and `TimesOut` are what becomes of
one try, `GiveUp` the end without a protocol, `Register` the entry in the registry
(`_update_registry`), whoever asked, and `Saved` and `Replace` the two halves of
`save_cache`: the `.tmp` file, then the rename. What asks for an answer succeeds in
the servo's own protocol only; a command that only writes (`answers` is FALSE)
succeeds in any, because the port driver answers "ok" behind the write, and
`blind`, a history variable, notes the foreign protocols in which that happened.
`Crash` may come between any two steps and keeps only the files. The minimal
interval between probes of one servo is a bit (`resting`, `Rested`). Timeouts may
come although the servo answers. The file holds the map that was saved; a file
that is not JSON is read as no file. `Served` and `MaxClients` bound the calls of
clients.

### ServoUnits and PortSerial

`ServoUnits` has the conversions as exact integer functions; over the ranges of
the code the float arithmetic and Python's `round` (half to even) give the same
values. `PortSerial` follows a request through the parser, the bridge, the
driver and the frame to the servo, and its position back to the client. LX
frames are bytes with their checksum; the digits of a ZL text are one symbol.
The driver has one thread, so exchanges do not overlap. The line is external: it
may echo, put noise before an answer, damage a byte, lose it, or deliver it after
the deadline, when it lies in the way of the next exchange. `reset_input_buffer`
drops what has arrived, not what is still to come. `ServoRequest` is what a client
can ask: any integer in any of the three forms (the web form has no raw pulse).
`PositionsAreFound` is a hypothesis of the proofs about the noise and the damage,
see section 4; TLC evaluates it for the instance it checks. `meant`, `sent`, `whole` and
the `fresh` and `answered` parts of `call` are history.

### SceneGate and TaskBridge

`SceneGate` is the gate: `Sound` is `SceneGeometryPolicy.evaluate`, `Update` the
subscription, `Accepted` the evaluation at a given time; `taken` is history.
`TaskBridge` runs one coroutine per task (`at[g]` names its await), one callback
per cancel request (`cancel[g]`: it reads the handles under `_state_lock`, then
decides without it), and the motion server's side of each goal, with the scene
check that reads the clock first and takes the gate's lock later (`MotionDates`,
`MotionChecks`), and the commit under that lock (`MotionCommits`). Only rclpy
marks a task as canceling, after the callback has returned. Every await of the
execution may raise (`Raises`): the task then ends and its slot comes back while
its motion stays where it is, and goes on; `raised` is history. The motion server
has a slot of its own, so it admits a goal only when no other is under way
(`MotionAccepts`).

### TeleopBridge

Clients are connections on the asyncio thread; `Ask` and `Acknowledge` are the
two halves of a claim or release around the await of the reply. The ROS thread
stores a state in `latest` (bridge) and then in `known` (handler), and schedules
a broadcast (`castDue`); `ReadHolder` and `StoreLease` are the two reads of a
broadcast between which that thread may come. `session[c]` is the
`teleop_lease_id` of a connection, `Unsynced` what a reply without lease fields
does to it. The manager's handlers are the actions of `CommandArbitrator` with
the publication of the state. An estop stands for
the start of a task as well, which takes teleop away in the same way.

### BvhPlayer

`call` is the operation that holds the adapter's lock: it grabs the thread and
sets its event (`Grab`), joins it (`Joined`, `JoinTimeout`), and a play then
starts the next generation. `worker[g]` is where that generation's thread is;
between `check` and `publish` it can no longer be stopped. `gate` holds the
runtime's flags.

### PositionActuator, ImuSensor

One thread makes all calls, so the hard part is time and failure: between two
exchanges of one `read()` or `write()` servos move, answers are lost or late, and
a write fails (`pc` counts the joints done). `age`, `touched` and `refused` are
history. The IMU's parser is modelled on bytes; a report carries one byte of
payload and values are known by their origin (`new` since the last gap, `old`).
`kind` is one of the plugins, with `read_position` ("blind" without it) and
`deactivate_full_off` ("held" without it: a deactivation sends no stop to a
PCA9685, whose channels stay driven, see `StopNext`) as its parameters; `trim` is the
`offset_raw` of a channel. Activating the IMU does not flush its port, so what
`NoMixtureAcrossGaps` says has come in since is what `read()` took since, which the
IMU may have sent before.
`controller_manager` is modelled after ROS 2 Jazzy: a component that answers
ERROR is finalized. `HardwarePlugins` lets a behaviour be that of one of them, or
of one of the older nodes, which have to be stopped before a plugin is loaded.

### ServoNodes

A node runs its callbacks in one thread, so `writing` is the one write under way
and `writing.step` how far it is: the block of four registers, the bytes one by
one when the block failed, the notes taken behind them. Every step may fail, with
any part of it on the board. A block steps through the registers only while the
chip's auto-increment is on; the node asks for it, and goes on if that fails.
SIGINT leaves the callback wherever it is and resets the servos the node took note
of; a kill resets nothing; the registers outlive both. `told` is the last state
per servo, `answered` (told without an error in this life), `unreset` (the reset
failed) and the count of lives are history. Temperatures and the protocol commands
that no callback uses are left out.

### SpeechInterface

A request keeps its thread while it waits for the task server (`waiting`,
`sending`); the callbacks of the two futures only need a free one for a step. Which
intents the parser accepts is an open choice. The task server is external: it may
refuse, end a goal in any way (a result says "rejected" of a task that did run if
its motion was rejected or the bridge failed, and is passed on word for word),
break a future, go away and come back without its goals. `MCThreadPools` checks it
beside `RouterPool`, the other process whose callbacks wait on threads they share,
and `BvhPlayer`, whose operations join threads.

## 3. Runs

`tlc -workers 2 -config <cfg> <module>`; all bounds are in the cfg files.

| run | checks | bounds |
|---|---|---|
| `arbitrator` | exclusivity, estop, replay window, refinement of `ExecutionAuthority`, fresh leases, expiry noticed (fairness) | 3 identities (two sessions of one task), 2 requesters, 3 leases, timeouts 1, 1 and 2, 2 tombstones |
| `drivers_safety` | fault sticky, every operation ends (fairness) | 1 port, 2 overlapping operations, 1 move |
| `drivers_restart` | acknowledged before FALSE, stale moves fenced, with a restart of any node | 2 ports with symmetry, 1 operation, 1 move, 1 restart |
| `drivers_stuck` | a documented promise of the stop path, violated | 1 port, 2 operations |
| `thread_pools` | every router callback ends, every intent concludes (fairness), a rejected intent never runs; a confirmed stop is silent, the gate's context, silence in the end (fairness) | router: 2 threads for 4 callbacks, 2 ports, 2 protocols; speech: 2 threads for 3 intents; player: 5 playbacks one after another, 2 close attempts |
| `motion_safety` | a released lease is over, no lease is orphaned | 2 goals with their own ids, 2 leases, 1 message per topic beyond the answers owed |
| `teleop_bridge` | own messages only, a lost client loses control, a holder may command (fairness) | 2 clients, 2 leases, 1 control message under way, state depth 1, `TeleopTimeout` 1 |
| `task_bridge` | one motion, cancels, outcomes, every task ends (fairness), replay window, current scene | 2 goals, an exception at any await, 4 scenes of 3 observations, 2 sessions and 13 pictures, window 2, age 1, times 0 to 2; both goals only while there was at most one scene and no time has passed |
| `task_raised` | a documented promise of the bridge, violated | 2 goals, 2 scenes, 2 times |
| `protocol_found` | never misrouted, every servo found (fairness) | 2 servos, one with a wrong range and a right manual entry; 1 call of a client at a time, 1 crash |
| `bus_servos` | never misrouted, saved is kept; command reads back, never misread, answer is found | registry: 2 servos of 2 protocols nobody described, one of them also called by clients, 1 call at a time, 1 crash; line: 2 servos, 19 requests and 4 other targets at the edges of the ranges, 2 moves or exchanges |
| `hardware_plugins` | bounded age, no mixture, no jump, still when inactive; what a node reports is written, what it answered for is centred at its end | 3 joints, 2 read per cycle, 2 consecutive errors; IMU line of 9 bytes with 6-byte frames; 3 servo ids (one no channel), an angle and a pulse, 2 lives of a node |

Why the bounds suffice: with two tombstones and three identities the deque
overflows and an old identity may return; with three leases a lease can be lost,
another drawn, and the first presented again; unequal timeouts let a motion
window outlive a teleop session. Two operations are the least that overlap, and
the manager distinguishes only "another operation is active" from "none", so a
third adds no decision. One move is enough for a property about each single
move. Two ports are the least that acknowledge differently. Two goals are the
least where one meets the cleanup or the states of another; a lease expires at the
first tick (`TaskTimeout = 0`), which is as soon as any, and keepalives then race
it. `MaxQueue` bounds only what timers add to a topic. Two threads for four
callbacks exhaust the pool as three commands and a stop exhaust four.

A teleop session must outlive a tick, or no message could ever renew it; two
leases let a client hold a second one while the first lingers in a cache. A worker
that outlives its join keeps the handle, and no other is started before it ended:
at most one is alive, and a second playback is enough for a stop or a play that
meets the worker of an earlier request; of two close attempts the first can time
out and the second confirm. A replay window of two overflows with the third scene,
and the fourth may repeat the first; a scene of age 1 is current at one tick and
too old at the next. The slots of bridge and motion server tell "mine" from
"another's", so two goals are enough for them; and since a gate that is told of no
scene does not change, two goals need not meet more than one scene (`Narrow` of
`MCTaskBridge`, which holds back only new scenes, time and the arrival of a task,
to which no fairness is owed). One call of a client beside the
probes is enough to overwrite an entry between its registration and its save: the
registry knows one writer at a time, and its lock orders the rest. Two exchanges are the least where one
meets the late answer of the other. Three intents are one more than the threads
they wait on. The second life of a node meets the registers the first one left;
id 16 is a bus servo but no channel, and one of the ids has a limit that forces one
position, and an offset. Three joints at two per cycle make the feedback index
wrap unevenly; two errors in a row let a servo fail, recover and fail again.
9 bytes hold a frame and a half, and the parser keeps the rest of a frame itself.

Deadlock is not checked where an idle robot has nothing to do, or where a model
stops with its bounds used up; `protocol_found` checks it.

### Fairness

`CommandArbitrator!FairSpec`: weak fairness of `Refresh` only, the state timer of
the node (5 Hz by default). Clients and time owe nothing.
`TaskMotion!MotionFairSpec`: weak fairness of the handler of control messages, the
state timer, the task state subscription and the steps of a goal in the slot, all
driven by executors that never stop.
`DriverSafety!FairSpec`: weak fairness of `ManagerStep(o)` for each operation,
that is, the executor resumes a coroutine that can go on and the timer of a
pending call fires. Router, ports and the network owe nothing: the property is
that the timeouts suffice. `RouterPool!PoolFairness`: weak fairness of starting a
ready callback, of a command that has a thread, and of each call, whose wait has
a timeout. Ports and client callbacks owe nothing. Weak fairness on the lock
suffices because in a finite instance the lock is eventually free for good.
`SpeechInterface!SpeechFairness`: weak fairness of the callbacks, of the end of a
wait, which looks for the server a bounded number of times, and of a server that
stays: it answers what it was asked, as `EveryTaskEnds` shows of `TaskBridge`.
A server that goes owes nothing, and then the intent may stay without an end
(`EveryIntentConcludes` excepts it).
`TeleopBridge!BridgeFairSpec`: weak fairness of the handlers of the manager, of
its state timer, of time, of the two halves of the ROS thread's callback and of
the rest of a coroutine behind its await; strong
fairness of the broadcast, because asyncio runs scheduled callbacks in the order
in which they were scheduled, however many messages come in between. Clients owe
nothing. `BvhPlayer!PlayerFairness`: weak fairness of each worker thread and of the
operation in the adapter's lock, whose join has a timeout.
`TaskBridge!TaskFairness`: weak fairness of the execution of goals (four executor
threads) and of the motion server, which ends every goal at its execution timeout at the latest; cancel
requests and exceptions are owed nothing: a task ends without them. One goal at a time holds the slot, so fairness to some
goal is fairness to each. `ProtocolProbe!FairSpec`: weak
fairness of the router's callbacks and timers; strong fairness of the answers of a
servo that is asked again and again in its own protocol, and of what follows them,
since only one crash cuts them short; commands for every servo keep coming, and the
calls of clients are owed nothing.

### Disagreements found

The first two are runs with `expect: violation`. The others fail under the
configuration named with them, which is kept for that purpose; the trace TLC
prints is the scenario.

* `drivers_stuck` (`DriverSafety_stuck.cfg`, `ClearOpensDrivers`): a TRUE sample
  delivered after the release call latches the driver again, and the FALSE sample
  that follows carries the stamp the driver has already seen. The manager is
  clear, the driver refuses every move.
* `task_raised` (`TaskBridge_raised.cfg`, `AlwaysWaits`): the exception handler of
  `_execute_callback` (`TB/bridge_node.py:224`) ends the task and frees its slot; its
  motion is neither cancelled nor waited for, although
  `docs/current_module_responsibilities.md:769` says the bridge always waits for its
  final result. The next task is then kept apart by the slot of the motion server
  alone (`OneMotionUnderWay`), and a task may be told to be aborted whose motion
  succeeds (`OutcomeIsTrue` excepts these).
* `ProtocolProbe_blind.cfg` (`MCProtocolProbe`, `CachedIsAnswered`): a client's command
  that only writes is a success in whatever protocol is tried
  (`SH/bus_port_driver.py:568`), and `SH/bus_protocol_router.py:763` registers and
  saves it; `README.md:11` says protocols are recognised by probing. The commands
  that follow go out in it. `NeverMisrouted` and `SavedIsKept` therefore except
  what was written blindly, and nothing else.
* `DriverSafety_open.cfg` (module `MCDriverSafety`, `EstopLatchesDrivers`):
  `_finish_stop_operation` checks for an estop, then draws the stamp of its
  release (`EM/execution_manager_node.py:671`). An estop announced in between is
  older than the release, which opens router and ports while the safety state is
  active; `docs/current_module_responsibilities.md:226-227` says they refuse moves
  then. The estop then stops its known actuators itself, and those calls latch
  each port again, but the drivers are open meanwhile, and stay so when no
  actuator is known yet.
* `RouterPool_starved.cfg` (`RouterPool`, `ForwardingNotBlocked`): three commands
  waiting for the lock and the stop that holds it take all four threads; the
  port's answer is there but cannot be delivered. The comment at
  `SH/bus_protocol_router.py:133` says the callback groups prevent it.
* `TaskMotion_retry.cfg` (`MCTaskMotion`, `RefusalIsOfThisStart`):
  `task_start_was_rejected` (`CT/motion_execution.py:110`) compares ids only. A
  state that still shows the refusal of an earlier start ends the new goal under
  the same ids while its start is on its way; the lease it is then given has no
  owner. The repeated ids are the only cause: theorem `RefusalsOwn` proves the same
  property for clients that use their ids once.
* `TaskMotion_stuck.cfg` (`MCTaskMotion`, `CleanupEnds`): the arbitrator reports
  the last control message it saw. If a cleanup's cancel is handled when the lease
  has expired and the timer has not published that yet, its refusal hides the
  expiry. The cleanup waits for ever, and the controller rejects every goal
  (`CT/controller_node.py:428`).
* `TeleopBridge_kept.cfg` (`MCTeleopBridge`, `ConfirmedLeaseKept`): a reply
  without lease fields, such as that of a heartbeat, erases the lease of the
  session it is sent to (`WB/ws_server.py:500`), and until the next broadcast the
  holder's commands are refused with `teleop_control_lease_required`;
  `src/bridges/teleoperation_bridge/README.md:105-106` says the confirmed lease
  is cached in the context of the connection.
* `TaskBridge_lost.cfg` (`MCTaskBridge`, `CancelPassedOn`): a cancel callback that
  runs before the motion handle is stored passes nothing on, and the execution
  looks for a request before rclpy has marked the task
  (`TB/bridge_node.py:169`, `:210`): the task waits for a motion nobody cancelled.
  `docs/current_module_responsibilities.md:769` says the bridge passes cancels on.

Met while reading, not stated as properties:

* States report angles from -90 to 90, and `WB/websocket_handler.py:476` tells
  clients to send such angles as `{b, c, p}`; that format clamps `p` to 500..2500,
  so 30 becomes 500, and in the other formats 0 to 180 is read as an angle from
  the end of the range. `CommandReadsBack` therefore speaks of what a request means
  by its own format.
* `src/hardware/README.md:12` says the state of a PCA9685 joint is its last
  successful write; `read()` copies the commands, NaN before the first, and
  `write()` answers ERROR to NaN, so a component that is activated before any
  controller commands it is finalized in its first cycle.
  `HW/pca9685_system.cpp` ends with a repeated brace and export, which does not
  compile.
* The base class lets the first exception of a deactivation out, so further
  PCA9685 channels stay on; after an ERROR nobody stops the actuators, and with
  `deactivate_full_off` switched off no channel is ever stopped
  (`InactiveIsStill` excepts that).
* A bus servo that is commanded to the very position it was read at on activation
  is sent nothing, although it may still be moving to an older goal.
* The barometer values of the IMU plugin outlive a silence, and the quaternion is
  exported as long as reports of motion come in: `NoMixtureAcrossGaps` speaks of
  both having come since the last gap, not of their age.
* `SH/pca_servo.py:293` logs a failure to set auto-increment as harmless, in debug mode only, and goes on: the
  bytes of every block then land in one register, and each command is answered as
  a success. `ReportedIsWritten` and `CentredWhenGone` are about boards that do
  step. The reset at the end leaves the offset out in the PCA9685 node and applies
  it in the bus node.
* The limits are applied to a position in whatever unit it came; the shipped
  `servo_limit_map.json` is in microseconds, so a command in degrees is raised to
  the minimum.
* `ServoCommand.msg` says of speed 0 that it is the fastest; `SH/bus_servo.py`
  replaces it by its default speed.
* `main` of the speech node says its executor keeps action futures and input
  callbacks from blocking each other: two requests that
  wait for the server keep both threads, until the wait times out. A future that
  breaks behind an accepted goal is told as "failed" although the task may run.
* A noise byte 0x55 before an LX answer looks like a header and hides the answer
  until the deadline; a late answer of the same servo to the same command is taken
  for the present one. Both are excluded in the properties (`whole`, `fresh`).

## 4. Proofs

`tlapm <module>` checks each of `CommandArbitrator_proofs`, `DriverSafety_proofs`,
`TaskMotion_proofs`, `ClientInterfaces_proofs`, `TaskBridge_proofs`,
`BvhPlayer_proofs`, `BusServos_proofs` and `HardwarePlugins_proofs`.

| theorem | states | of |
|---|---|---|
| `TypeCorrect`, `TaskExclusion`, `EstopRevokesAll`, `ReplayWindow`, `ModeTruthful`, `FreshLeases` | types; `TaskExcludesOthers`, `EstopHoldsNothing`, `NoEarlyReplay`, `ModeNeverUnderstates`, `RegainNeedsFreshLease` | `CommandArbitrator` |
| `AuthorityImplemented` | `ImplementsAuthority`, the refinement | `CommandArbitrator` |
| `FaultSticky` | `FaultIsSticky` | `DriverSafety` |
| `DriversTyped`, `AcknowledgedBeforeFalse`, `StaleMovesNeverWritten` | types; `AckBeforeFalse`, `StaleMovesFenced` | `DriverSafety` |
| `MotionTypeCorrect`, `ReleasedOver`, `LeasesAccounted`, `RefusalsOwn` | types; `ReleasedIsOver`, `LeaseAccounted`, `RefusalIsOfThisStart` | `TaskMotion` |
| `MotionArbitrates`, `MotionKeepsAuthority` | a behaviour of `TaskMotion` is one of `CommandArbitrator`; `ImplementsAuthority` | `TaskMotion` |
| `BridgeTypeCorrect`, `OwnMessages` | types; `OwnMessagesOnly` | `TeleopBridge` |
| `BridgeArbitrates`, `BridgeKeepsAuthority` | a behaviour of `TeleopBridge` is one of `CommandArbitrator`; `ImplementsAuthority` | `TeleopBridge` |
| `RejectionsTrue` | `RejectedNeverRuns` | `SpeechInterface` |
| `ReplayFenced`, `CommandsCurrent` | `ReplayIsFenced`, `CommandsUnderCurrentScene` | `SceneGate` in `TaskBridge` |
| `SlotExcludes`, `CancelsOwnMotion`, `OutcomesTrue` | `OneMotionUnderWay`, `CancelStaysWithItsTask`, `OutcomeIsTrue` | `TaskBridge` |
| `ConfirmedSilence`, `ContextTruthful` | `StopConfirmedIsSilent`, `ContextFollowsGate` | `BvhPlayer` |
| `ProtocolNeverWrong`, `EntriesSurvive` | `NeverMisrouted`, `SavedIsKept` | `ProtocolProbe` |
| `MovesReadBack` | any request that is not refused is read back within 0.18 degree | `ServoUnits` |
| `LineReadsBack` | `CommandReadsBack` | `PortSerial` |
| `ImuShowsOneSide`, `ActivationMovesNothing`, `InactiveStandsStill`, `FeedbackIsFresh` | `NoMixtureAcrossGaps`, `NoJumpOnActivate`, `InactiveIsStill`, `FeedbackBounded` | the plugins |
| `AnswersAreWritten`, `EndsCentred` | `ReportedIsWritten`, `CentredWhenGone` | `ServoNodes` |

They hold for every value of the constants under the named assumptions, none of
which limits a size: `NamesAssumption`, `HandleAssumption` and part of
`PlayerAssumption` (values such as "nothing" differ from the real ones),
`BoundsAssumption` (timeouts are naturals, at least one tombstone),
`DriversAssumption` (finitely many ports, distinct names), `GateAssumption` (a
window of at least one), `ProbeAssumption` (the maps name protocols),
`ActuatorAssumption` (a calibrated range is not empty, an actuator stands
somewhere), `ServoNodeAssumption` (ids and positions are naturals, the pulse range
lies in 12 bits), `QueueAssumption` (queues hold something), `SpeechAssumption`
(finitely many intents, a thread), `LineAssumption` (ids are below 254, noise is
bytes, the rest has its type), `MotionAssumption`. The bounds on leases, operations, moves,
restarts, goals, plays, crashes and lives are arbitrary naturals. `LeasesAccounted`
and `RefusalsOwn` have the hypothesis `MayRetry = FALSE`, an obligation of the
callers; without it both properties are false, as `TaskMotion_retry.cfg` shows of
the second. `LineReadsBack` has the hypothesis `PositionsAreFound`: of what comes
in after a read of a servo, with the echo, the noise and the damage that the line may
add, however much of it has arrived, the scanner makes the position that was
answered, or nothing. It speaks of single exchanges and of the codecs alone, and a
real line may break it (noise that forms a packet with a right checksum); that it
holds is an induction over the bytes of a frame and so left to TLC, which evaluates
it for every position of the instance.

*Arbitrator.* None of the properties is inductive: `TaskExcludesOthers` could be
lost when an expired lease that was not yet dropped still hid a teleop session,
and `NoEarlyReplay` needs to know what the deque holds. The invariant `IInv`
therefore says of every lease not dropped yet, expired or not, that it excludes
the others, that its task is not in the tombstones and that its number was
issued (`ControlInv`); and that the tombstones are exactly the last ends in
order, the k-th from the end having `since = k` (`TombInv`). `StepTombs` proves
that each step leaves the tombstones alone or records the current task, once,
and `RememberKeepsTombs` that recording keeps `TombInv`; `StepRest` goes through
the actions for the remainder, `StepMode` for the cached mode,
which is proved only: every reader of it refreshes it first.

*Refinement.* The owner is the highest source whose lease or window has not
expired, so that the tick that lets it expire is the step that yields, and what
the next call drops was over before: each action of the arbitrator is at most one
step of the authority. `AuthorityStep` names the kinds (it stutters, a source
acquires, yields or executes, an estop stops or clears), `AuthorityStepMaps` maps
each, and `TaskAuthority`, `TeleopAuthority`, `CommandAuthority` and
`OtherAuthority` show of which kind each action is. That an acquisition takes a
lease that is not the present one follows from `IInv`: leases are numbers up to
`issued`, and a new one is larger.

*Stop path.* `FaultSticky`: no step but a restart of the manager clears a stop
fault, its estop, or its token. The danger is a release that is under way while
something fails, because it clears the estop at its end. `FaultInv` shows that a
release is alone (`Alone`): it begins with no token in use, it holds the default
group, and under its estop no stop can begin; that every operation that can fail
holds a token (`Held`); and that the token of the one that failed stays behind
(`Witness`).

*Fences.* `StaleMovesNeverWritten` needs to know where a move is: at the router or
at its port, and there the fence must be as high as the move once its stop was
acknowledged (`Behind`). The fence must be that high already while the answer is
under way, since an answer may be given up or come late (`Guarded`); that holds
because a stop is served at the one port it names (`OnePort`), under a lock that
keeps moves from passing on, for an operation whose token keeps new ones out, and
because a request is made once (`Once`): a late repetition could acknowledge what
another operation asked for. A restart lowers fences, and drops the moves behind
them. `AcknowledgedBeforeFalse` follows the stamp of a release: the request carries
the stamp of the operation that waits (`Drawn`), each port the router has called
has seen it (`SeenByCalled`), and all of them when the operation goes on
(`SeenByAll`). Both rest on latches never falling (`Activated`, `Observed`).

*Motion action.* What the controller knows of the arbitrator is old: the state it
took, those on their way to it, and the present one form a sequence (`Shown`).
`ReleasedOver` is about that sequence: a lease is shown without a gap (`Leases`),
so that when the controller sees the end of the lease it holds, neither a state
under way nor the present shows it again (`Gone`); and a lease a goal was granted
is in its own view as long as it is in any (`Granted`). For `LeasesAccounted` the
sequence must also say of identities that one that has not been started is not
shown (`Unseen`), and that one whose end or refusal was shown is never active
behind it (`Final`); both rest on a start being in the channel once at most and
only for the goal or a cleanup that waits (`Once`). The refinement of the
arbitrator is used through its effect on the task alone (`ManagerTask`).

*The arbitrator in company.* `TaskMotion` and `TeleopBridge` extend the arbitrator's
module and use its actions inside their own. `MotionArbitrates` and
`BridgeArbitrates` show that each of their steps is, on the arbitrator's variables,
one of the arbitrator's own or a stutter; all that is proved of `Spec`, and the
refinement of `ExecutionAuthority`, then holds there too.

*Websocket bridge.* A control message is handled long after it was sent and under a
cache that may be older or newer than the session. `BridgeInv` says what survives
that: a message in the queue names the connection it came over as its requester
(`ControlsOwn`), since the server puts the id of the connection into it; and a lease that
a session, a cache, a state under way or a message shows was issued
(`SessionsHeld`, `CachesHeld`, `StatesShown`). `OwnMessages` then goes through the
verdicts of the manager, which renews and ends only by requester and lease.

*Speech.* `ToldTruly` ties the status to the request and the future: as long as a
request is not done nothing was sent, and a rejection is the end of a request that
sent nothing, of a goal that the server refused, or of a task that its server ended
with that word. No thread count matters. That the task is over does not say that
its motion is: the server is the bridge, see `AlwaysWaits`.

*Scene gate.* `ReplayIsFenced` is a statement about the whole history and the gate
knows only its end, so `WindowInv` says that the window is that end: its k-th
entry is the k-th of the last observations accepted, and it is full as soon as
enough were accepted. `RememberedIsSuffix` proves that `update` keeps this,
`UpdateIsFenced` that an id outside the window was accepted long ago if at all,
and `OthersKeepWindow` that no other step of the bridge touches the gate's window.

*Task bridge.* The slot is released in the last step of the execution, several
steps behind the result, and a cancel callback decides on handles it read before
(`cancel[g]`). `BridgeInv`: the goal inside has the slot and is alone (`Solo`); the
handles are its own between the steps that set and clear them (`Handles`); a
motion ends before its task leaves, but for a task that left through the exception
handler and was not told to have succeeded (`MotionFirst`); the motion server has
one at a time (`OneAdmitted`); and the two handles a request read are of one moment,
so that it can reach only the motion of its task (`Requests`).

*Player.* A worker past its look at the stop event cannot be stopped, so a set
event proves nothing. `Alone`: a thread that has not ended is the one the handle
names, and whoever joined it or found none knows that there is none.

*Registry.* An entry has grounds if the servo speaks that protocol or was written to
in it blindly. `ProbeInv`: memory, file and temporary file hold only entries with
grounds (`OnlyGrounded`), a call that is done has grounds for the entry it is about
to make (`CallsGrounded`), grounds are never withdrawn, and memory has all that the
temporary file has, which has all that the file has (`NothingLost`), so that a
rename never drops an entry; a router that is down has no call under way (`Quiet`),
so that none registers before the file is loaded.
`NeverMisrouted` excepts servos that the operator's map or the ranges misdescribe.

*Requests and positions.* Each conversion is off by half a step at most
(`Rounding`, for any offset and ratio). `PulseComesBack` chains the two of a
protocol: a pulse width that goes to its units and back is off by one microsecond at
most, 0.09 degree. `PositionIsMeant` goes through the ranges and the three message
forms and finds the pulse width within a microsecond of what the client's words
stand for. `MoveIsAimed` covers the positions of other nodes, where the ranges of
angles, units and pulses overlap.

*Serial line.* `LineInv`: servos stand and go where their units are defined
(`Standing`); what the last move asked for is what is shown where it goes
(`GoalMeant`); and while an exchange with a servo at rest is under way, the bytes
read so far with any part of those still on the wire decode to its position or to
nothing (`Promised`). The last holds at the write by `PositionsAreFound` and is kept
by each read because the pieces join to a prefix of the same bytes (`Pieces`), and
because neither a move nor a stop can come between.

*Plugins and nodes.* `ActivationMovesNothing` needs that a joint no controller has
commanded since the activation has nothing to send (`NothingToSend`), through read
and write cycles that fail half way; `InactiveStandsStill` that a deactivation has
stopped what is behind its count, or noted the refusal, unless it stops nothing by
its configuration (`StoppedSoFar`). The IMU's
flags vouch only for values since the last gap (`Vouched`). `FeedbackIsFresh` needs a measure, because a
servo waits for its turn: joints per cycle times its age plus the joints asked
before it stay within one round of all joints per failure in a row, and one more
(`Budget`). Waiting moves from the second term to the first, a failed turn starts
another round, a good one starts over, and the quotient of the property follows at
the end. For the nodes, a write
knows each register byte behind it (`Behind`) and what it aims at (`Aims`), and a
node that ends still has pending, or has centred, or has noted as failed, each
servo it answered for (`Owed`). `HardwarePlugins_proofs` proves an invariant per
owner and joins them for the composed specification.

Only model-checked:

* liveness (`ExpiryNoticed`, `OperationsEnd`, `EveryCallbackEnds`,
  `EveryIntentConcludes`, `GoneLosesControl`, `HolderMayCommand`,
  `BlockedFallsSilent`, `EveryTaskEnds`, `EveryServoFound`), which is out of the
  prover's reach;
* `NeverMisread` and `AnswerIsFound` of `PortSerial`, and `PositionsAreFound`: what a
  scanner finds in a sequence of bytes, late remains of earlier answers included, is
  an induction over data;
* the runs that show a property to fail or a limit of the code.

## 5. Not modelled, and what remains

All safety invariants and action properties of the passing runs are proved, but for
the two of the last list. What could still be done: the arithmetic of a scanner over
single frames, where the packets before the answer are known one by one; and with a
prover that handles fairness, `OperationsEnd` and `EveryTaskEnds`.

Not modelled: kinematics and calibration (floating point); the Python IMU drivers,
one timer that reads and publishes; adapters, the task context and the vision
interface, which translate or check one message at a time without state that
others share; debug streams and logs of the websocket bridge; parsing and
conversion of BVH files; device I/O system calls; simulation bridges, message
definitions, launch files and the robot description.
