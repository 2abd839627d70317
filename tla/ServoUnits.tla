------------------------------ MODULE ServoUnits ------------------------------
(***************************************************************************)
(* The numbers that a servo position goes through, as pure operators: what *)
(* message_handler.py and bridge_node.py make of a client's request, what  *)
(* bus_port_driver.py makes of a pulse width for either protocol, and what *)
(* clients are shown.  Pulses are in microseconds.                         *)
(*                                                                         *)
(* The code computes with floats and Python's round; over the ranges used  *)
(* here every result is the exact quotient, rounded half to even.          *)
(***************************************************************************)
EXTENDS Integers

Refused == -1     \* no pulse: the request is turned away with an error

Limited(v, low, high) == IF v < low THEN low ELSE IF v > high THEN high ELSE v

(* int(round(base + v * n / d)) for v >= 0: a half goes to the even one *)
Scaled(base, v, n, d) ==
  LET q == base + (v * n) \div d
      r == 2 * ((v * n) % d)
  IN  IF r > d \/ (r = d /\ q % 2 = 1) THEN q + 1 ELSE q
-----------------------------------------------------------------------------
(* Requests of clients: [form, raw, encoded, value].  `form` is the parser  *)
(* the message ends up in; `raw` says that the position stands under the   *)
(* key "pulse", which the web form does not know; `encoded` that            *)
(* value_encoding is bus_pulse_us.                                         *)
ServoRequest ==
  {r \in [form : {"web", "bcp", "full"}, raw : BOOLEAN, encoded : BOOLEAN, value : Int] :
     r.form = "web" => ~r.raw}

AngleToUs(angle) == Limited(500 + (angle * 2000) \div 180, 500, 2500)
CenteredAngleToUs(angle) == Scaled(500, Limited(angle, -90, 90) + 90, 2000, 180)

(* a plain position is an angle or a pulse width, by its range *)
NormalizeBusPosition(v, encoded, raw) ==
  IF encoded THEN IF v \in 500 .. 2500 THEN v ELSE Refused
  ELSE IF raw THEN Limited(v, 500, 2500)
  ELSE IF v \in 500 .. 2500 THEN v
  ELSE IF v \in 0 .. 180 THEN AngleToUs(v)
  ELSE IF v \in -90 .. -1 THEN CenteredAngleToUs(v)
  ELSE Refused

ParseBcp(request) == Limited(request.value, 500, 2500)
ParseWebServo(request) == NormalizeBusPosition(request.value, request.encoded, FALSE)
ParseFullFormat(request) ==
  NormalizeBusPosition(request.value, request.encoded, request.raw)

ParseServoControl(request) ==
  CASE request.form = "web"  -> ParseWebServo(request)
    [] request.form = "bcp"  -> ParseBcp(request)
    [] request.form = "full" -> ParseFullFormat(request)

(* _normalize_motion_position of the bridge, for what the parser returns: a *)
(* position whose value_encoding is bus_pulse_us                           *)
NormalizeMotionPosition(pulse) == IF pulse \in 500 .. 2500 THEN pulse ELSE Refused

(* of a servo command that reaches the manager *)
Position(request) == NormalizeMotionPosition(ParseServoControl(request))
-----------------------------------------------------------------------------
(* The port driver: pulses and the protocols' own units. *)

PulseToLxUnit(pulse) == Scaled(125, Limited(pulse, 500, 2500) - 500, 750, 2000)
PulseToZlPosition(pulse) == Scaled(833, Limited(pulse, 500, 2500) - 500, 1334, 2000)

(* Mutant: the offset of the LX units is forgotten on the way back. *)
LxUnitToPulse_FromZero(unit) == Scaled(500, Limited(unit, 125, 875), 2000, 1000)
LxUnitToPulse(unit) == Scaled(500, Limited(unit, 125, 875) - 125, 2000, 750)
ZlPositionToPulse(pos) == Scaled(500, Limited(pos, 833, 2167) - 833, 2000, 1334)

UnitToPulse(protocol, unit) ==
  IF protocol = "lx" THEN LxUnitToPulse(unit) ELSE ZlPositionToPulse(unit)

(* _normalize_move_target: the ranges of angles, units and pulses overlap, *)
(* the first that fits decides; what fits none is limited as a unit.       *)
LxTarget(v) ==
  IF v \in 500 .. 2500 THEN [unit |-> PulseToLxUnit(v), pulse |-> v]
  ELSE IF v \in 0 .. 180
  THEN LET pulse == Scaled(500, v, 2000, 180)
       IN  [unit |-> PulseToLxUnit(pulse), pulse |-> pulse]
  ELSE LET unit == Limited(v, 125, 875)
       IN  [unit |-> unit, pulse |-> LxUnitToPulse(unit)]

ZlTarget(v) ==
  IF v \in 500 .. 2500 THEN [unit |-> PulseToZlPosition(v), pulse |-> v]
  ELSE IF v \in 0 .. 180
  THEN LET pulse == Scaled(500, v, 2000, 180)
       IN  [unit |-> PulseToZlPosition(pulse), pulse |-> pulse]
  ELSE LET pos == Limited(v, 833, 2167)
       IN  [unit |-> pos, pulse |-> ZlPositionToPulse(pos)]

MoveTarget(protocol, v) == IF protocol = "lx" THEN LxTarget(v) ELSE ZlTarget(v)

(* encode_move_command limits once more, and the servo goes there *)
FrameTarget(protocol, unit) == Limited(unit, 0, IF protocol = "lx" THEN 1000 ELSE 9999)
-----------------------------------------------------------------------------
(* What clients are shown for a pulse: the centred angle, in 1/100 degree. *)
CenteredAngle(pulse) == (Limited(pulse, 500, 2500) - 500) * 9 - 9000

(* Reference: what a client's words stand for, a centred angle in 1/100    *)
(* degree.                                                                 *)
Meaning(request) ==
  LET v == request.value IN
  IF request.form = "bcp" \/ request.raw \/ v >= 500 THEN CenteredAngle(v)
  ELSE IF v >= 0 THEN 100 * (v - 90) ELSE 100 * v
=============================================================================
