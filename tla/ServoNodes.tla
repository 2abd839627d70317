------------------------------ MODULE ServoNodes ------------------------------
(***************************************************************************)
(* The servo drivers that are ROS nodes with a board of their own, and the *)
(* router in front of them (pca_servo.py, bus_servo.py, servo_router.py).  *)
(* One of them runs, in one thread: a command is limited, converted to     *)
(* what the board counts in, offset, written, and answered by a state; at  *)
(* its end a node sends every servo it ever commanded to the middle.       *)
(*                                                                         *)
(* The PCA9685 driver writes the four registers of a channel as a block    *)
(* and, when that fails, one by one.  external: the board, whose registers *)
(* outlive the node and which steps through them in a block only while its *)
(* auto-increment is on; the serial line; SIGINT, which ends a callback    *)
(* wherever it is; a kill.                                                 *)
(***************************************************************************)
EXTENDS Integers

CONSTANTS
  ServoIds,          \* ids that commands name: channels or bus servos
  Positions,         \* positions that commands name, in whatever unit
  LimitMap,          \* limit_map: id -> [min, max], for some of the ids; a side that
                     \* the file leaves out is one no uint16 position passes
  OffsetMap,         \* offset_map: id -> offset, for some of the ids
  BoardIds,          \* servo_ids of the bus node, {} if it takes all
  MinPwm, MaxPwm,    \* in ticks
  Frequency,         \* in Hz
  MaxStarts          \* bound on the lives of a node; not in the code

Id == ServoIds

ASSUME ServoNodeAssumption ==
  /\ ServoIds \subseteq Nat /\ Positions \subseteq Nat
  /\ DOMAIN LimitMap \subseteq ServoIds /\ DOMAIN OffsetMap \subseteq ServoIds
  /\ \A id \in DOMAIN LimitMap : LimitMap[id].min \in Int /\ LimitMap[id].max \in Int
  /\ \A id \in DOMAIN OffsetMap : OffsetMap[id] \in Int
  /\ MinPwm \in 0 .. 4095 /\ MaxPwm \in MinPwm .. 4095
  /\ Frequency \in Nat \ {0} /\ MaxStarts \in Nat

NoState == [position |-> 0, error |-> -1]

(* steps of a write: the block of the PCA9685 or the frame of the bus, then *)
(* its bytes 1 to 4, then the notes taken behind it *)
WholeWrite == 0
NotesTaken == 5
NoWrite == [id |-> -1, value |-> 0, position |-> 0, step |-> -1]

VARIABLES
  driver,      \* "pca" or "bus"
  service,     \* "off", "deaf" (no device, no subscription), "up", "ending" or "gone"
  increments,  \* external: the auto-increment bit of the PCA9685
  reg,         \* external: channel -> its ON and OFF registers, two bytes each
  pulseOf,     \* external: bus servo -> pulse of the last position frame it got
  writing,     \* the write under way
  controlled,  \* controlled_channels or connected_servos
  pending,     \* the servos that reset_servos has before it
  told,        \* the last ServoState of this life, per id, as the router passes it on
  answered,    \* history: ids this life answered without an error
  unreset,     \* history: ids whose reset write failed
  starts       \* counts the lives of the node

nodeVars == <<driver, service, increments, reg, pulseOf, writing, controlled, pending, told,
              answered, unreset, starts>>
board == <<increments, reg, pulseOf>>
-----------------------------------------------------------------------------
(* From a position to what the board counts in. *)

Within(v, low, high) == IF v < low THEN low ELSE IF v > high THEN high ELSE v
Offset(id) == IF id \in DOMAIN OffsetMap THEN OffsetMap[id] ELSE 0

(* in the unit of the command, whatever unit the map is in; the upper limit *)
(* comes last *)
ApplyLimits(id, position) ==
  IF id \notin DOMAIN LimitMap THEN position
  ELSE LET raised == IF position < LimitMap[id].min THEN LimitMap[id].min ELSE position
       IN IF raised > LimitMap[id].max THEN LimitMap[id].max ELSE raised

AngleToTicks(angle) == MinPwm + (angle * (MaxPwm - MinPwm)) \div 180
UsToTicks(us) ==
  Within((us * Frequency * 4096 + 500000) \div 1000000, MinPwm, MaxPwm)
ToTicks(position) ==
  IF position \in 0 .. 180 THEN AngleToTicks(position)
  ELSE IF position > 1000 THEN UsToTicks(position) ELSE position

ToPulse(position) ==
  IF position \in 0 .. 180 THEN 500 + (position * 2000) \div 180 ELSE position

WantedTicks(id, position) == Within(ToTicks(position) + Offset(id), MinPwm, MaxPwm)
WantedPulse(id, position) == Within(ToPulse(position) + Offset(id), 0, 9999)
Wanted(id, position) ==
  IF driver = "pca" THEN WantedTicks(id, position) ELSE WantedPulse(id, position)

(* the PCA9685 is reset without its offset, a bus servo with it *)
MiddlePca == Within(AngleToTicks(90), MinPwm, MaxPwm)
Middle(id) == IF driver = "pca" THEN MiddlePca ELSE Wanted(id, 1500)

(* the four register bytes of a channel: ON is 0 *)
Bytes(ticks) == <<0, 0, ticks % 256, ticks \div 256>>
Untouched == <<0, 0, 0, 16>>     \* at power up: off

(* what the channel holds when the first n bytes of a block came through;   *)
(* without auto-increment each lands in the first register                  *)
AfterBlock(old, ticks, n) ==
  IF increments THEN [k \in 1 .. 4 |-> IF k <= n THEN Bytes(ticks)[k] ELSE old[k]]
  ELSE IF n = 0 THEN old ELSE [old EXCEPT ![1] = Bytes(ticks)[n]]

Holds(id, value) == IF driver = "pca" THEN reg[id] = Bytes(value) ELSE pulseOf[id] = value
-----------------------------------------------------------------------------
NodeInit ==
  /\ driver \in {"pca", "bus"} /\ service = "off" /\ increments = FALSE
  /\ reg = [id \in Id |-> Untouched] /\ pulseOf = [id \in Id |-> -1]
  /\ writing = NoWrite /\ controlled = {} /\ pending = {}
  /\ told = [id \in Id |-> NoState] /\ answered = {} /\ unreset = {} /\ starts = 0

Begun ==
  /\ service \in {"off", "gone"} /\ starts < MaxStarts /\ starts' = starts + 1
  /\ controlled' = {} /\ pending' = {} /\ writing' = NoWrite
  /\ told' = [id \in Id |-> NoState] /\ answered' = {} /\ unreset' = {}
  /\ UNCHANGED <<driver, reg, pulseOf>>

(* The PCA9685 is reset, which ends auto-increment, given its frequency,    *)
(* and asked for auto-increment again, which may fail; any earlier failure  *)
(* leaves a node that hears nothing. *)
InitDevice ==
  /\ driver = "pca" /\ Begun
  /\ \/ service' = "up" /\ increments' \in BOOLEAN
     \/ service' = "deaf" /\ increments' \in {increments, FALSE}

(* A port that does not open is tried again at every write. *)
InitSerial == driver = "bus" /\ Begun /\ service' = "up" /\ UNCHANGED increments

Tell(id, position, error) == told' = [told EXCEPT ![id] = [position |-> position, error |-> error]]

Writes(id, position) ==
  writing' = [id |-> id, value |-> Wanted(id, position), position |-> position, step |-> WholeWrite]
Heard == UNCHANGED <<driver, service, board, controlled, pending, answered, unreset, starts>>

(* command_callback up to the first write, of a command that servo_router   *)
(* passed on to it by its type *)
CommandPca(id, asked) ==
  LET position == ApplyLimits(id, asked) IN
  /\ driver = "pca" /\ service = "up" /\ writing = NoWrite
  /\ \/ id > 15 /\ Tell(id, position, 1) /\ UNCHANGED writing
     \/ id <= 15 /\ Writes(id, position) /\ UNCHANGED told
  /\ Heard

CommandBus(id, asked) ==
  /\ driver = "bus" /\ service = "up" /\ writing = NoWrite
  /\ BoardIds = {} \/ id \in BoardIds
  /\ Writes(id, ApplyLimits(id, asked)) /\ UNCHANGED told
  /\ Heard
-----------------------------------------------------------------------------
(* set_pwm and send_position *)

Moved(bytes) == reg' = [reg EXCEPT ![writing.id] = bytes] /\ UNCHANGED <<increments, pulseOf>>
GoesOn(step) ==
  /\ writing' = [writing EXCEPT !.step = step]
  /\ UNCHANGED <<driver, service, controlled, pending, told, answered, unreset, starts>>

ResetFailed_EndsReset(id) == pending' = {} /\ unreset' = unreset \cup {id}
ResetFailed(id) == pending' = pending \ {id} /\ unreset' = unreset \cup {id}

(* An exception ends the callback with an error, and the reset of a servo   *)
(* with a log entry. *)
Failed ==
  /\ writing' = NoWrite
  /\ \/ service = "up" /\ Tell(writing.id, writing.position, 1) /\ UNCHANGED <<pending, unreset>>
     \/ service = "ending" /\ ResetFailed(writing.id) /\ UNCHANGED told
  /\ UNCHANGED <<driver, service, controlled, answered, starts>>

WriteBlock ==
  /\ driver = "pca" /\ writing.step = WholeWrite
  /\ \/ Moved(AfterBlock(reg[writing.id], writing.value, 4)) /\ GoesOn(NotesTaken)
     \/ \E n \in 0 .. 4 : Moved(AfterBlock(reg[writing.id], writing.value, n)) /\ GoesOn(1)

ByteFailed_GoesOn == GoesOn(writing.step + 1)
ByteFailed == Failed

(* a byte that is not acknowledged may have been taken all the same *)
WriteByte ==
  LET k == writing.step
      taken == [reg[writing.id] EXCEPT ![k] = Bytes(writing.value)[k]] IN
  /\ driver = "pca" /\ k \in 1 .. 4
  /\ \/ Moved(taken) /\ (GoesOn(k + 1) \/ ByteFailed)
     \/ UNCHANGED board /\ ByteFailed

(* the port may not open, or the write may fail with part of the frame out *)
WriteFrame ==
  /\ driver = "bus" /\ writing.step = WholeWrite
  /\ \/ /\ pulseOf' = [pulseOf EXCEPT ![writing.id] = writing.value] /\ UNCHANGED <<increments, reg>>
        /\ GoesOn(NotesTaken)
     \/ UNCHANGED board /\ Failed

Written ==
  /\ writing.step = NotesTaken /\ writing' = NoWrite
  /\ controlled' = controlled \cup {writing.id}
  /\ \/ /\ service = "up" /\ Tell(writing.id, writing.position, 0)
        /\ answered' = answered \cup {writing.id} /\ UNCHANGED pending
     \/ service = "ending" /\ pending' = pending \ {writing.id} /\ UNCHANGED <<told, answered>>
  /\ UNCHANGED <<driver, service, board, unreset, starts>>
-----------------------------------------------------------------------------
(* SIGINT: the callback under way is left, destroy_node resets the servos *)
Interrupt ==
  /\ service \in {"up", "deaf"}
  /\ service' = "ending" /\ pending' = controlled /\ writing' = NoWrite
  /\ UNCHANGED <<driver, board, controlled, told, answered, unreset, starts>>

ResetServo(id) ==
  /\ service = "ending" /\ writing = NoWrite /\ id \in pending
  /\ writing' = [id |-> id, value |-> Middle(id), position |-> 0, step |-> WholeWrite]
  /\ UNCHANGED <<driver, service, board, controlled, pending, told, answered, unreset, starts>>

DestroyNode ==
  /\ service = "ending" /\ writing = NoWrite /\ pending = {}
  /\ service' = "gone"
  /\ UNCHANGED <<driver, board, writing, controlled, pending, told, answered, unreset, starts>>

(* external: SIGKILL, or a second SIGINT *)
Kill ==
  /\ service \in {"up", "deaf", "ending"}
  /\ service' = "off" /\ writing' = NoWrite /\ pending' = {} /\ controlled' = {}
  /\ told' = [id \in Id |-> NoState] /\ answered' = {} /\ unreset' = {}
  /\ UNCHANGED <<driver, board, starts>>

NodeNext ==
  \/ InitDevice \/ InitSerial
  \/ \E id \in Id, position \in Positions : CommandPca(id, position) \/ CommandBus(id, position)
  \/ WriteBlock \/ WriteByte \/ WriteFrame \/ Written
  \/ Interrupt \/ \E id \in Id : ResetServo(id)
  \/ DestroyNode \/ Kill
-----------------------------------------------------------------------------
(* A state without an error is the truth: the board holds the whole of what *)
(* the position in that state stands for, in spite of blocks that came       *)
(* through in part, bytes that failed behind them and callbacks that were    *)
(* left, as long as the board takes a block for a block.                     *)
ReportedIsWritten ==
  service = "up" /\ (driver = "pca" => increments) =>
    \A id \in Id :
      told[id].error = 0 /\ writing.id # id => Holds(id, Wanted(id, told[id].position))

(* A node that ended on SIGINT left every servo that it ever answered for in *)
(* the middle, except where the write that resets it failed: wherever the    *)
(* signal met it, and whichever of the resets before failed.                 *)
CentredWhenGone ==
  service = "gone" /\ (driver = "pca" => increments) =>
    \A id \in answered : Holds(id, Middle(id)) \/ id \in unreset
=============================================================================
