------------------------------ MODULE PortSerial ------------------------------
(***************************************************************************)
(* One serial line of bus servos, from the request of a client to what the *)
(* clients are shown: bus_port_driver.py with the codecs lx_protocol.py    *)
(* and zl_protocol.py.  The driver spins in one thread, so a move and an   *)
(* exchange (command out, answer back) never overlap; what can overlap is  *)
(* an exchange and the answers of an earlier one that timed out.           *)
(*                                                                         *)
(* LX frames are sequences of bytes.  In the text of ZL a group of digits  *)
(* is one symbol, the rest are characters: #009P1500! is 35,9,80,1500,33.  *)
(* The line is external: it echoes or not, puts noise before an answer,    *)
(* damages a byte of it or loses it, and delivers it late and in pieces.   *)
(***************************************************************************)
EXTENDS ServoUnits, SequencesExt

CONSTANTS
  LineServo, \* ids on this line
  Codec,     \* external: servo -> "lx" or "zl", what it speaks
  LxIds,     \* lx_servo_ids and zl_servo_ids, empty for all
  ZlIds,
  Requests,  \* what clients ask (see ServoUnits)
  Targets,   \* positions of MotionCommands that come from elsewhere
  Noise,     \* external: bytes that precede an answer
  Damage,    \* external: [at, to] bytes of an answer that are overwritten
  MaxOps     \* bound on the moves and exchanges; not in the code

ASSUME LineAssumption ==
  /\ LineServo \subseteq 0 .. 253 /\ LxIds \subseteq LineServo /\ ZlIds \subseteq LineServo
  /\ Codec \in [LineServo -> {"lx", "zl"}]
  /\ \A r \in Requests : r \in ServoRequest
  /\ Targets \subseteq Int
  /\ \A lead \in Noise : lead \in Seq(0 .. 255)
  /\ \A d \in Damage : d.to \in 0 .. 255
  /\ MaxOps \in Nat

VARIABLES
  pose,    \* external: the position register of a servo, in its own units
  goal,    \* external: where it is moving to
  echoes,  \* external: whether the line echoes what is written
  wire,    \* bytes that are still to come in
  whole,   \* history: they are undamaged answers, without a false header
  call,    \* the exchange under way
  ops,     \* moves and exchanges begun
  shown,   \* per servo: what clients were shown last
  meant,   \* history: the centred angle the last move asked for, in 1/100
  sent,    \* history: values each servo ever answered, by command code
  answer   \* the response of the last exchange

line == <<pose, goal, echoes, wire, whole>>
lineVars == <<line, call, ops, shown, meant, sent, answer>>

PosRead == 28      \* CMD_POS_READ
VinRead == 27      \* CMD_VIN_READ
MoveStop == 12     \* CMD_MOVE_STOP
Voltage == 7400    \* external: what every servo measures, in mV
Nobody == -1
NoAngle == 10000
Idle == [at |-> "idle"]
NoAnswer == [servo |-> Nobody]

(* command_specs: those of the commands with a decoder that matter here.   *)
(* pos_read, vin_read; position_read of ZL under the same name.            *)
Decoded == [lx |-> {PosRead, VinRead}, zl |-> {PosRead}]

(* The state message of the port, as the manager and the bridge pass it on *)
Shown(pulse, error) == [angle |-> CenteredAngle(pulse), error |-> error]

LineInit ==
  /\ pose = [s \in LineServo |-> IF Codec[s] = "lx" THEN 500 ELSE 1500]
  /\ goal = pose
  /\ echoes \in BOOLEAN /\ wire = << >> /\ whole = TRUE
  /\ call = Idle /\ ops = 0
  /\ shown = [s \in LineServo |-> Shown(500, 0)]
  /\ meant = [s \in LineServo |-> NoAngle]
  /\ sent = [s \in LineServo |-> {}]
  /\ answer = NoAnswer
-----------------------------------------------------------------------------
(* LX frames *)

Checksum(body) == 255 - (FoldSeq(+, 0, body) % 256)

LxPacket(id, cmd, params) ==
  LET body == <<id, 3 + Len(params), cmd>> \o params
  IN  <<85, 85>> \o body \o <<Checksum(body)>>

U16(v) == <<v % 256, v \div 256>>

Intact(data, i, total) ==
  data[i + total - 1] = Checksum(SubSeq(data, i + 2, i + total - 2))

(* _first_params: of this command and servo, with enough parameters; the   *)
(* echo of a read has none                                                 *)
(* Mutant: not told apart from what it answered before.                    *)
Wanted_AnyCommand(data, i, id, cmd, count) ==
  data[i + 2] = id /\ data[i + 3] - 3 >= count
Wanted(data, i, id, cmd, count) ==
  data[i + 4] = cmd /\ data[i + 2] = id /\ data[i + 3] - 3 >= count

(* Mutant: the first good packet decides, also when it is the echo. *)
LxValue_FirstOnly(data, id, cmd) ==
  LET n == Len(data)
      scan[i \in 1 .. n + 1] ==
        IF i + 5 > n THEN << >>
        ELSE IF data[i] # 85 \/ data[i + 1] # 85 THEN scan[i + 1]
        ELSE LET total == (data[i + 3] % 256) + 3 IN
             IF total < 6 THEN scan[i + 1]
             ELSE IF i + total - 1 > n THEN << >>
             ELSE IF ~Intact(data, i, total) THEN scan[i + total]
             ELSE IF Wanted(data, i, id, cmd, 2)
             THEN <<data[i + 5] + 256 * data[i + 6]>>
             ELSE << >>
  IN  scan[1]

(* _iter_valid_packets and _first_params: << >>, or the value it found.  A *)
(* header whose packet is not complete yet ends the scan, one that is      *)
(* wrong is skipped with its whole length.                                 *)
LxValue(data, id, cmd) ==
  LET n == Len(data)
      scan[i \in 1 .. n + 1] ==
        IF i + 5 > n THEN << >>
        ELSE IF data[i] # 85 \/ data[i + 1] # 85 THEN scan[i + 1]
        ELSE LET total == (data[i + 3] % 256) + 3 IN
             IF total < 6 THEN scan[i + 1]
             ELSE IF i + total - 1 > n THEN << >>
             ELSE IF Intact(data, i, total) /\ Wanted(data, i, id, cmd, 2)
             THEN <<data[i + 5] + 256 * data[i + 6]>>
             ELSE scan[i + total]
  IN  scan[1]

(* ZL: the first #iiiPdddd! of this servo *)
ZlValue(data, id) ==
  LET At(i) == SubSeq(data, i, i + 2) = <<35, id, 80>> /\ data[i + 4] = 33
      found == {i \in 1 .. Len(data) - 4 : At(i)}
  IN  IF found = {} THEN << >>
      ELSE <<data[(CHOOSE i \in found : \A j \in found : i <= j) + 3]>>

Value(protocol, data, id, cmd) ==
  IF protocol = "lx" THEN LxValue(data, id, cmd) ELSE ZlValue(data, id)
-----------------------------------------------------------------------------
(* What goes out, and what the servos make of it (external). *)

(* a command without parameters, as its echo comes back; in ZL #iiiPRAD!   *)
(* or #iiiPDST!                                                            *)
Frame(protocol, id, cmd) ==
  IF protocol = "lx" THEN LxPacket(id, cmd, << >>)
  ELSE <<35, id, 80>> \o (IF cmd = PosRead THEN <<82, 65, 68>> ELSE <<68, 83, 84>>) \o <<33>>

Reading(s, cmd) == IF cmd = PosRead THEN pose[s] ELSE Voltage

AnswerFrame(s, cmd, reading) ==
  IF Codec[s] = "lx" THEN LxPacket(s, cmd, U16(reading))
  ELSE <<35, s, 80, reading, 33>>

Allowed(protocol, s) ==
  LET ids == IF protocol = "lx" THEN LxIds ELSE ZlIds IN ids = {} \/ s \in ids

(* _pick_protocol_order: those that are allowed, or both *)
Order(requested, s) ==
  IF requested # "auto" THEN <<requested>>
  ELSE IF Allowed("lx", s) = Allowed("zl", s) THEN <<"lx", "zl">>
  ELSE <<IF Allowed("lx", s) THEN "lx" ELSE "zl">>
-----------------------------------------------------------------------------
(* A move: from the request of a client over the bridge, the manager and   *)
(* the router to the line; the state is published behind the write, good   *)
(* or bad.  A request that is refused changes nothing.                     *)

ExecuteMove(s, position, meaning, written) ==
  LET p == Codec[s]
      target == MoveTarget(p, position) IN
  /\ call = Idle /\ ops < MaxOps
  /\ Allowed(p, s)
  /\ ops' = ops + 1
  /\ shown' = [shown EXCEPT ![s] = Shown(target.pulse, IF written THEN 0 ELSE 1)]
  /\ goal' = [goal EXCEPT ![s] = IF written THEN FrameTarget(p, target.unit) ELSE @]
  /\ meant' = [meant EXCEPT ![s] = IF written THEN meaning ELSE NoAngle]
  /\ answer' = NoAnswer
  /\ UNCHANGED <<pose, echoes, wire, whole, call, sent>>

ClientMove(s, request, written) ==
  /\ Position(request) # Refused
  /\ ExecuteMove(s, Position(request), Meaning(request), written)

(* a MotionCommand of the BVH player or a controller, read by its range *)
OtherMove(s, v, written) ==
  ExecuteMove(s, v, CenteredAngle(MoveTarget(Codec[s], v).pulse), written)

(* external: a servo arrives *)
Arrive(s) ==
  /\ pose[s] # goal[s]
  /\ pose' = [pose EXCEPT ![s] = goal[s]]
  /\ UNCHANGED <<goal, echoes, wire, whole, call, ops, shown, meant, sent, answer>>
-----------------------------------------------------------------------------
(* Exchanges. *)

Begin(s, order, cmd) ==
  /\ call = Idle /\ ops < MaxOps
  /\ call' = [at |-> "ask", servo |-> s, left |-> order, cmd |-> cmd]
  /\ ops' = ops + 1
  /\ answer' = NoAnswer
  /\ UNCHANGED <<line, shown, meant, sent>>

(* _handle_read_position *)
Read(s, requested) == Begin(s, Order(requested, s), PosRead)

(* _handle_execute_command of a command with a decoder, in the protocol    *)
(* that was named                                                          *)
Execute(s, protocol, cmd) ==
  /\ Allowed(protocol, s) /\ cmd \in Decoded[protocol]
  /\ Begin(s, <<protocol>>, cmd)

(* One without: nobody waits for the echo.  The servo stops where it is.   *)
ExecuteStop(s, protocol, dropped) ==
  LET late == SubSeq(wire, dropped + 1, Len(wire)) IN
  /\ call = Idle /\ ops < MaxOps
  /\ Allowed(protocol, s)
  /\ ops' = ops + 1
  /\ wire' = late \o (IF echoes THEN Frame(protocol, s, MoveStop) ELSE << >>)
  /\ whole' = (late = << >> \/ (whole /\ dropped = 0))
  /\ goal' = [goal EXCEPT ![s] = IF protocol = Codec[s] THEN pose[s] ELSE @]
  /\ meant' = [meant EXCEPT ![s] = NoAngle]
  /\ answer' = NoAnswer
  /\ UNCHANGED <<pose, echoes, call, shown, sent>>

Replies(s, protocol, cmd, reading) ==
  IF Codec[s] # protocol THEN {<< >>}
  ELSE LET frame == AnswerFrame(s, cmd, reading)
           spoilt(d) == [frame EXCEPT ![d.at] = d.to]
       IN  {<< >>, frame}
           \cup (IF protocol = "lx" THEN {spoilt(d) : d \in Damage} ELSE {})

(* What the line brings after a command: its echo, noise and the reply. *)
Traffic(echo, s, protocol, cmd, lead, reply) ==
  (IF echo THEN Frame(protocol, s, cmd) ELSE << >>) \o lead \o reply

(* reset_input_buffer and write: what arrived so far is dropped, and the   *)
(* servo answers.  call remembers, for the properties only, what else is   *)
(* on the line.                                                            *)
Ask(dropped, lead, reply) ==
  LET s == call.servo
      protocol == Head(call.left)
      late == SubSeq(wire, dropped + 1, Len(wire)) IN
  /\ call.at = "ask"
  /\ wire' = late \o Traffic(echoes, s, protocol, call.cmd, lead, reply)
  /\ sent' = [sent EXCEPT ![s] = IF reply = << >> THEN @
                                 ELSE @ \cup {<<call.cmd, Reading(s, call.cmd)>>}]
  /\ call' = [at |-> "await", servo |-> s, left |-> call.left, cmd |-> call.cmd,
              buffer |-> << >>,
              fresh |-> late = << >> /\ pose[s] = goal[s],
              answered |-> reply # << >>]
  /\ whole' = /\ late = << >> \/ (whole /\ dropped = 0)
              /\ reply = << >> \/ reply = AnswerFrame(s, call.cmd, Reading(s, call.cmd))
              /\ ~Contains(lead, 85)
  /\ UNCHANGED <<pose, goal, echoes, ops, shown, meant, answer>>

(* _maybe_publish_read_state: positions become servo states *)
Publishes(cmd) == cmd = PosRead

(* one turn of the loop: n bytes came in, the whole buffer is decoded *)
Poll(n) ==
  LET s == call.servo
      protocol == Head(call.left)
      buffer == call.buffer \o SubSeq(wire, 1, n)
      value == Value(protocol, buffer, s, call.cmd) IN
  /\ call.at = "await"
  /\ wire' = SubSeq(wire, n + 1, Len(wire))
  /\ IF value = << >>
     THEN call' = [call EXCEPT !.buffer = buffer] /\ UNCHANGED <<shown, answer>>
     ELSE /\ call' = Idle
          /\ answer' = [servo |-> s, cmd |-> call.cmd, value |-> value[1],
                        fresh |-> call.fresh]
          /\ shown' = IF Publishes(call.cmd)
                      THEN [shown EXCEPT ![s] = Shown(UnitToPulse(protocol, value[1]), 0)]
                      ELSE shown
  /\ UNCHANGED <<pose, goal, echoes, whole, ops, meant, sent>>

(* read_timeout: on to the next protocol, or an error *)
Deadline ==
  /\ call.at = "await"
  /\ call' = IF Len(call.left) = 1 THEN Idle
             ELSE [at |-> "ask", servo |-> call.servo, left |-> Tail(call.left), cmd |-> call.cmd]
  /\ UNCHANGED <<line, ops, shown, meant, sent, answer>>
-----------------------------------------------------------------------------
LineNext ==
  \/ \E s \in LineServo :
       \/ \E r \in Requests, written \in BOOLEAN : ClientMove(s, r, written)
       \/ \E v \in Targets, written \in BOOLEAN : OtherMove(s, v, written)
       \/ Arrive(s)
       \/ \E requested \in {"auto", "lx", "zl"} : Read(s, requested)
       \/ \E p \in {"lx", "zl"}, cmd \in {PosRead, VinRead} : Execute(s, p, cmd)
       \/ \E p \in {"lx", "zl"}, dropped \in 0 .. Len(wire) : ExecuteStop(s, p, dropped)
  \/ call.at = "ask"
     /\ \E dropped \in 0 .. Len(wire), lead \in Noise,
           reply \in Replies(call.servo, Head(call.left), call.cmd,
                            Reading(call.servo, call.cmd)) :
          Ask(dropped, lead, reply)
  \/ \E n \in 1 .. Len(wire) : Poll(n)
  \/ Deadline

LineSpec == LineInit /\ [][LineNext]_lineVars
-----------------------------------------------------------------------------
(* What the proofs ask of the noise and the damage of a line: they do not   *)
(* make a whole packet.  Then of what comes in after a read, however much   *)
(* of it, the scanner makes the position that was answered, or nothing.     *)
Places(protocol) == IF protocol = "lx" THEN 125 .. 875 ELSE 833 .. 2167

ReadsAs(values, protocol, s, data) ==
  \A n \in 0 .. Len(data) :
    Value(protocol, SubSeq(data, 1, n), s, PosRead) \in {<< >>} \cup values

PositionsAreFound ==
  \A s \in LineServo, protocol \in {"lx", "zl"}, echo \in BOOLEAN, lead \in Noise :
    \A place \in Places(Codec[s]) :
      \A reply \in Replies(s, protocol, PosRead, place) :
        ReadsAs(IF reply = << >> THEN {} ELSE {<<place>>}, protocol, s,
                Traffic(echo, s, protocol, PosRead, lead, reply))
-----------------------------------------------------------------------------
(* What a client asked for is what it is shown, once the servo is there    *)
(* and was read: within 0.18 degree, through two conversions to the units  *)
(* of the protocol and back, each of them rounded.                         *)
CommandReadsBack ==
  answer # NoAnswer /\ answer.cmd = PosRead /\ answer.fresh /\ meant[answer.servo] # NoAngle
    => LET error == shown[answer.servo].angle - meant[answer.servo]
       IN  -18 <= error /\ error <= 18

(* A value that is returned was sent by the servo that was asked, for that *)
(* command: not by its neighbour, not by the echo of the command, not made *)
(* of noise, of damaged bytes or of the remains of an answer cut short.    *)
NeverMisread ==
  answer # NoAnswer => <<answer.cmd, answer.value>> \in sent[answer.servo]

(* An exchange whose answer came whole finds it, behind whatever came late *)
(* of earlier ones and behind noise, unless the noise looks like a header. *)
AnswerIsFound == call.at = "await" /\ call.answered /\ whole => wire # << >>
=============================================================================
