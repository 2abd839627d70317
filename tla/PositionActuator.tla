---------------------------- MODULE PositionActuator ----------------------------
(***************************************************************************)
(* A hardware component of ros2_control that drives position actuators:    *)
(* position_actuator_system.cpp with its two plugins, bus_servo_system.cpp *)
(* (servos on a serial line, read back one by one) and pca9685_system.cpp  *)
(* (PWM channels, no feedback).  One thread, that of controller_manager,   *)
(* makes every call; between two exchanges on the line the servos move.    *)
(*                                                                         *)
(* external: controller_manager (configure, activate, the read and write   *)
(* of every control cycle, deactivate, cleanup; a component that answers   *)
(* ERROR is finalized, on_error being inherited), the controllers, which   *)
(* own commands_, and the actuators.                                       *)
(***************************************************************************)
EXTENDS Integers, FiniteSets

CONSTANTS
  NaN,               \* no number
  Joints,            \* how many; they are 1 .. Joints
  Calibration,       \* joint -> [low, high, raw, offset, direction, trim], in raw steps
  StandsAt,          \* external: joint -> the raw position it is found at
  Commands,          \* what controllers command, maybe NaN
  FeedbackPerCycle,
  MaxErrors          \* max_consecutive_errors

Joint == 1 .. Joints

ASSUME ActuatorAssumption ==
  /\ Joints \in Nat \ {0} /\ FeedbackPerCycle \in Nat \ {0} /\ MaxErrors \in Nat \ {0}
  /\ \A j \in Joint : Calibration[j].low < Calibration[j].high
                      /\ Calibration[j].direction \in {-1, 1}
  /\ StandsAt \in [Joint -> Int]

VARIABLES
  kind,      \* "bus", or "blind" where its read_position is false; "pca", or
             \* "held" where its deactivate_full_off is false
  life,      \* external: where the component stands in its lifecycle
  open,      \* serial_ or device_ is open
  commands,  \* commands_, shared with the controllers
  states,    \* states_
  servo,     \* servo.state of the bus, per joint
  last,      \* servo.last_command, or last_pwm_ (NaN for -1)
  errors,    \* servo.consecutive_errors
  next,      \* next_feedback_index_
  pc,        \* the call under way and the joints it is done with
  pos,       \* external: raw position of an actuator
  goal,      \* external: raw position it was sent to
  late,      \* external: {} or {an answer that missed its exchange}
  age,       \* history: read() calls since states[j] was measured
  touched,   \* history: joints commanded by a controller since activation
  refused    \* history: joints whose stop was not sent, in this deactivation

object == <<commands, states, servo, last, errors, next>>
world == <<pos, goal, late>>
actuatorVars == <<kind, life, open, object, pc, world, age, touched, refused>>

Bus == kind \in {"bus", "blind"}
ReadPosition == kind = "bus"
Stops == kind # "held"      \* deactivate_full_off_, true by default
Idle == [op |-> "none", done |-> 0]
Fresh(value) == [j \in Joint |-> value]
-----------------------------------------------------------------------------
(* conversion.hpp, in units in which a raw step is a step of position *)
Clamped(v, low, high) == IF v < low THEN low ELSE IF v > high THEN high ELSE v
RawMax(c) == c.raw + c.high - c.low

PositionToRaw(c, position) ==
  c.raw + Clamped(c.direction * position + c.offset, c.low, c.high) - c.low
RawToPosition(c, raw) ==
  c.direction * (c.low + Clamped(raw, c.raw, RawMax(c)) - c.raw - c.offset)

Midpoint(c) == (c.low + c.high) \div 2
FirstFinite(value, fallback) == IF value # NaN THEN value ELSE fallback
-----------------------------------------------------------------------------
ActuatorInit ==
  /\ kind \in {"bus", "blind", "pca", "held"}
  /\ life = "unconfigured" /\ open = FALSE
  /\ commands = Fresh(NaN) /\ states = Fresh(NaN)
  /\ servo = Fresh(NaN) /\ last = Fresh(NaN) /\ errors = Fresh(0) /\ next = 0
  /\ pc = Idle
  /\ pos = StandsAt /\ goal = StandsAt /\ late = {}
  /\ age = Fresh(0) /\ touched = {} /\ refused = {}

(* external: the process is started again, the actuators stay as they are *)
Load ==
  /\ life = "finalized"
  /\ life' = "unconfigured" /\ open' = FALSE /\ pc' = Idle
  /\ commands' = Fresh(NaN) /\ states' = Fresh(NaN)
  /\ servo' = Fresh(NaN) /\ last' = Fresh(NaN) /\ errors' = Fresh(0) /\ next' = 0
  /\ age' = Fresh(0) /\ touched' = {} /\ refused' = {}
  /\ UNCHANGED <<kind, world>>

(* Opening the device may throw; of the PCA9685, initialize_controller as  *)
(* well, and then the device stays open.                                   *)
OpenAfterFailure == IF Bus THEN {FALSE} ELSE BOOLEAN

Configure ==
  /\ life = "unconfigured"
  /\ \/ life' = "inactive" /\ open' = TRUE
     \/ life' = "finalized" /\ open' \in OpenAfterFailure
  /\ last' = IF ~Bus /\ life' = "inactive" THEN Fresh(NaN) ELSE last
  /\ UNCHANGED <<kind, commands, states, servo, errors, next, pc, world, age, touched, refused>>

Cleanup ==
  /\ life = "inactive" /\ pc = Idle
  /\ life' = "unconfigured" /\ open' = FALSE
  /\ last' = IF Bus THEN last ELSE Fresh(NaN)
  /\ UNCHANGED <<kind, commands, states, servo, errors, next, pc, world, age, touched, refused>>
-----------------------------------------------------------------------------
(* The exchange of read_servo: flush, ask, take what comes until the line  *)
(* is silent, look for an answer of this servo.  An answer that is too     *)
(* late is flushed by the next exchange or comes in during it.             *)
(* got is {} or the one answer found, left what is still to come.          *)
Answer(j) == [joint |-> j, raw |-> pos[j], age |-> 0]

Exchange(j, got, left) ==
  \/ got = {Answer(j)} /\ left = {}
  \/ got = {a \in late : a.joint = j} /\ left \in {{}, {Answer(j)}}
  \/ got = {} /\ left \in {{}, {Answer(j)}}

Exchanges(j) == {x \in [got : SUBSET (late \cup {Answer(j)}), left : {{}, {Answer(j)}}] :
                   Exchange(j, x.got, x.left)}

(* read_servo, with the age of what it found *)
ReadServo(j, got) ==
  /\ errors' = [errors EXCEPT ![j] = IF got = {} THEN @ + 1 ELSE 0]
  /\ servo' = IF got = {} THEN servo
              ELSE [servo EXCEPT ![j] = RawToPosition(Calibration[j], (CHOOSE a \in got : TRUE).raw)]

AgeAfter(j, got) ==
  IF got = {} THEN age ELSE [age EXCEPT ![j] = (CHOOSE a \in got : TRUE).age]

(* PositionActuatorSystem::on_activate; the PCA9685 is done with it *)
Activate ==
  /\ life = "inactive" /\ pc = Idle
  /\ states' = [j \in Joint |-> FirstFinite(states[j],
                  FirstFinite(commands[j], Midpoint(Calibration[j])))]
  /\ touched' = {} /\ refused' = {}
  /\ IF Bus THEN pc' = [op |-> "activate", done |-> 0] /\ life' = life
                     ELSE life' = "active" /\ pc' = pc
  /\ UNCHANGED <<kind, open, commands, servo, last, errors, next, world, age>>

(* Mutant: commands_ keeps what an earlier activation left there. *)
Adopt_KeepsCommand(j) ==
  LET here == FirstFinite(servo'[j], Midpoint(Calibration[j])) IN
  /\ last' = [last EXCEPT ![j] = here]
  /\ states' = [states EXCEPT ![j] = here]
  /\ commands' = [commands EXCEPT ![j] = FirstFinite(@, here)]

Adopt(j) ==
  LET here == FirstFinite(servo'[j], Midpoint(Calibration[j])) IN
  /\ last' = [last EXCEPT ![j] = here]
  /\ states' = [states EXCEPT ![j] = here]
  /\ commands' = [commands EXCEPT ![j] = here]

(* BusServoSystem::on_activate, one servo: where it stands is what it is   *)
(* told; if it does not say, the port is closed and activation fails.      *)
ActivateServo ==
  LET j == pc.done + 1 IN
  /\ pc.op = "activate"
  /\ IF ReadPosition
     THEN \E x \in Exchanges(j) : /\ ReadServo(j, x.got)
                                  /\ late' = x.left /\ age' = AgeAfter(j, x.got)
     ELSE UNCHANGED <<servo, errors, late, age>>
  /\ IF errors'[j] > errors[j]
     THEN /\ open' = FALSE /\ life' = "finalized" /\ pc' = Idle
          /\ UNCHANGED <<commands, states, last, next>>
     ELSE /\ Adopt(j)
          /\ open' = open
          /\ IF j = Joints THEN life' = "active" /\ pc' = Idle /\ next' = 0
             ELSE pc' = [pc EXCEPT !.done = j] /\ UNCHANGED <<life, next>>
  /\ UNCHANGED <<kind, pos, goal, touched, refused>>
-----------------------------------------------------------------------------
(* The control cycle: read, the controllers, write. *)

InService == life = "active" /\ pc = Idle

BeginRead ==
  /\ InService /\ ReadPosition
  /\ IF open THEN pc' = [op |-> "read", done |-> 0] /\ life' = life
             ELSE life' = "finalized" /\ pc' = pc
  /\ UNCHANGED <<kind, open, object, world, age, touched, refused>>

(* read() without feedback: the PCA9685 echoes the commands, the bus the   *)
(* last ones it wrote                                                      *)
ReadEcho ==
  /\ InService /\ ~ReadPosition
  /\ states' = IF Bus THEN last ELSE commands
  /\ servo' = IF Bus THEN last ELSE servo
  /\ UNCHANGED <<kind, life, open, commands, last, errors, next, pc, world, age, touched, refused>>

Count == IF FeedbackPerCycle < Joints THEN FeedbackPerCycle ELSE Joints

(* Mutant: one failure more than max_consecutive_errors. *)
TooMany_OneMore(n) == n > MaxErrors
TooMany(n) == n >= MaxErrors

Older(answers) == {[a EXCEPT !.age = @ + 1] : a \in answers}

(* read(), one of the servos of this cycle *)
ReadNext ==
  LET j == ((next + pc.done) % Joints) + 1 IN
  /\ pc.op = "read"
  /\ \E x \in Exchanges(j) :
       /\ ReadServo(j, x.got)
       /\ IF x.got = {} /\ TooMany(errors'[j])
          THEN /\ life' = "finalized" /\ pc' = Idle /\ late' = x.left
               /\ UNCHANGED <<states, next, age>>
          ELSE /\ states' = [states EXCEPT ![j] = servo'[j]]
               /\ life' = life
               /\ IF pc.done + 1 < Count
                  THEN /\ pc' = [pc EXCEPT !.done = @ + 1] /\ next' = next
                       /\ late' = x.left /\ age' = AgeAfter(j, x.got)
                  ELSE /\ pc' = Idle /\ next' = (next + Count) % Joints
                       /\ late' = Older(x.left)
                       /\ age' = [k \in Joint |-> AgeAfter(j, x.got)[k] + 1]
  /\ UNCHANGED <<kind, open, commands, last, pos, goal, touched, refused>>

(* external: a controller *)
Control(j, v) ==
  /\ InService
  /\ commands' = [commands EXCEPT ![j] = v]
  /\ touched' = touched \cup {j}
  /\ UNCHANGED <<kind, life, open, states, servo, last, errors, next, pc, world, age, refused>>

BeginWrite ==
  /\ InService
  /\ IF open THEN pc' = [op |-> "write", done |-> 0] /\ life' = life
             ELSE life' = "finalized" /\ pc' = pc
  /\ UNCHANGED <<kind, open, object, world, age, touched, refused>>

(* what a frame or a channel is told, and what is compared with last *)
Target(j) ==
  LET c == Calibration[j]
      raw == PositionToRaw(c, commands[j]) IN
  IF Bus THEN raw ELSE Clamped(raw + c.trim, c.raw, RawMax(c))
Order(j) == IF Bus THEN commands[j] ELSE Target(j)

(* write(), one joint: a command that is no number or that the device does *)
(* not take is an ERROR, with the joints before it already on their way.   *)
WriteNext ==
  LET j == pc.done + 1
      onward == IF j = Joints THEN Idle ELSE [pc EXCEPT !.done = j] IN
  /\ pc.op = "write"
  /\ \/ /\ commands[j] = NaN
        /\ life' = "finalized" /\ pc' = Idle
        /\ UNCHANGED <<states, servo, last, goal>>
     \/ /\ commands[j] # NaN /\ last[j] = Order(j)
        /\ pc' = onward
        /\ UNCHANGED <<life, states, servo, last, goal>>
     \/ /\ commands[j] # NaN /\ last[j] # Order(j)
        /\ \E sent \in BOOLEAN :
             /\ last' = IF sent THEN [last EXCEPT ![j] = Order(j)] ELSE last
             /\ IF sent THEN pc' = onward /\ life' = life
                        ELSE pc' = Idle /\ life' = "finalized"
             /\ goal' = IF sent THEN [goal EXCEPT ![j] = Target(j)] ELSE goal
             /\ IF sent /\ kind = "blind"
                THEN /\ servo' = [servo EXCEPT ![j] = commands[j]]
                     /\ states' = [states EXCEPT ![j] = commands[j]]
                ELSE UNCHANGED <<servo, states>>
  /\ UNCHANGED <<kind, open, commands, errors, next, pos, late, age, touched, refused>>
-----------------------------------------------------------------------------
Deactivate ==
  /\ InService
  /\ IF open THEN pc' = [op |-> "stop", done |-> 0] /\ life' = life
             ELSE life' = "inactive" /\ pc' = pc
  /\ UNCHANGED <<kind, open, object, world, age, touched, refused>>

GoesOnStopping(j) ==
  IF j = Joints THEN pc' = Idle /\ life' = "inactive"
  ELSE pc' = [pc EXCEPT !.done = j] /\ life' = life

(* Mutant: the exception of a failed stop ends the loop. *)
AfterFailedStop_Ends(j) == pc' = Idle /\ life' = "inactive"

(* The bus goes on with the next servo; the PCA9685 lets the exception out *)
AfterFailedStop(j) ==
  IF ~Bus THEN pc' = Idle /\ life' = "finalized"
  ELSE GoesOnStopping(j)

(* the PCA9685 will write this channel again, whatever it was *)
Forget(j) == last' = IF Bus THEN last ELSE [last EXCEPT ![j] = NaN]

(* on_deactivate, one joint: a stopped servo stays where it is, a channel  *)
(* that is off drives nothing; without deactivate_full_off nothing is sent *)
(* and the channel goes on driving its actuator.                           *)
StopNext ==
  LET j == pc.done + 1 IN
  /\ pc.op = "stop"
  /\ \/ /\ Stops
        /\ goal' = [goal EXCEPT ![j] = pos[j]]
        /\ Forget(j) /\ GoesOnStopping(j)
        /\ refused' = refused
     \/ /\ ~Stops
        /\ GoesOnStopping(j)
        /\ UNCHANGED <<goal, last, refused>>
     \/ /\ Stops
        /\ AfterFailedStop(j)
        /\ refused' = refused \cup {j}
        /\ UNCHANGED <<goal, last>>
  /\ UNCHANGED <<kind, open, commands, states, servo, errors, next, pos, late, age, touched>>

(* external: an actuator arrives *)
Arrive(j) ==
  /\ pos[j] # goal[j]
  /\ pos' = [pos EXCEPT ![j] = goal[j]]
  /\ UNCHANGED <<kind, life, open, object, pc, goal, late, age, touched, refused>>

ActuatorNext ==
  \/ Load \/ Configure \/ Cleanup
  \/ Activate \/ ActivateServo
  \/ BeginRead \/ ReadEcho \/ ReadNext
  \/ BeginWrite \/ WriteNext
  \/ Deactivate \/ StopNext
  \/ \E j \in Joint : Arrive(j) \/ \E v \in Commands : Control(j, v)
-----------------------------------------------------------------------------
(* What read() shows of a servo was measured at most this many cycles ago, *)
(* whatever answers are missing or late: one in Rounds cycles asks for it, *)
(* and max_consecutive_errors failures take the component out of service.  *)
(* Only a servo that is alone can be shown an answer to the read before.   *)
Rounds == (Joints + Count - 1) \div Count

FeedbackBounded ==
  ReadPosition /\ life = "active"
    => \A j \in Joint :
         age[j] <= Rounds * MaxErrors + (IF Joints = 1 THEN 1 ELSE 0)

(* Activation moves nothing: from on_activate to the first command of a    *)
(* controller a servo of the bus is sent nowhere, however it stood, what-  *)
(* ever an earlier activation left behind, and also if activation fails.   *)
NoJumpOnActivate ==
  [][Bus => \A j \in Joint :
       goal'[j] # goal[j] => j \in touched \/ goal'[j] = pos[j]]_actuatorVars

(* A component that becomes inactive has stopped every actuator whose stop *)
(* the device took, the ones behind a failure included; but for a PCA9685  *)
(* that is configured to leave its channels on (deactivate_full_off).      *)
InactiveIsStill ==
  [][life = "active" /\ life' = "inactive" /\ Stops
       => \A j \in Joint : goal'[j] = pos[j] \/ j \in refused']_actuatorVars
=============================================================================
