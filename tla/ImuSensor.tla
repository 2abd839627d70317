------------------------------- MODULE ImuSensor -------------------------------
(***************************************************************************)
(* The IMU as a sensor component of ros2_control: yb_imu_sensor.cpp, which *)
(* polls registers over I2C or parses a stream of reports from a serial    *)
(* line.  Every read() answers OK with a complete set of values or ERROR   *)
(* with none.                                                              *)
(*                                                                         *)
(* A report carries one byte here, so frames have 6 bytes and every size   *)
(* from 5 to 64 is accepted as in the code.  Values are known by where     *)
(* they come from: "none" is NaN, "new" arrived since the last gap, "old"  *)
(* before it; a gap is an activation, a silent read or invalid data.       *)
(***************************************************************************)
EXTENDS SequencesExt

CONSTANTS
  BarometerDeclared,
  Damages,     \* external: [report, at, to] bytes of a frame that are overwritten
  MaxBytes     \* bound on the bytes under way; not in the code

VARIABLES
  transport,   \* "i2c" or "serial"
  imuLife,     \* external: where the component stands in its lifecycle
  stream,      \* external: bytes that are still to come in
  rx,          \* serial_rx_buffer_
  stored,      \* serial_states_, per report
  have,        \* have_serial_raw_, have_serial_quaternion_
  updates,     \* SerialUpdates of the read() under way, or NoUpdates
  exported,    \* states_, per report
  result       \* what the last read() answered

imuVars == <<transport, imuLife, stream, rx, stored, have, updates, exported, result>>

Reports == {"raw", "quat", "baro"}
FunctionOf == [raw |-> 4, quat |-> 22, baro |-> 50]
Declared == {"raw", "quat"} \cup (IF BarometerDeclared THEN {"baro"} ELSE {})
NoUpdates == {"-"}
AllNone == [r \in Reports |-> "none"]
-----------------------------------------------------------------------------
(* Frames: two head bytes, the size, the function, the payload, the sum.   *)
(* payload 1 is numbers, 0 is values that are no numbers.                  *)

Sum(bytes) == FoldSeq(+, 0, bytes) % 256
ImuFrame(r, payload) ==
  LET body == <<126, 35, 6, FunctionOf[r], payload>> IN Append(body, Sum(body))

HeaderAt(data, i) == data[i] = 126 /\ i < Len(data) /\ data[i + 1] = 35

(* parse_serial_buffer: the frames it finds, "bad" for what it could not   *)
(* take for one, and the bytes it keeps.  After a bad frame the search     *)
(* goes on behind the first byte, not behind the size that it claims.      *)
ParseSerialBuffer(data) ==
  LET n == Len(data)
      scan[i \in 1 .. n + 1] ==
        LET heads == {h \in i .. n : HeaderAt(data, h)} IN
        IF heads = {}
        THEN [found |-> << >>, kept |-> IF i <= n /\ data[n] = 126 THEN <<126>> ELSE << >>]
        ELSE
          LET h == CHOOSE k \in heads : \A m \in heads : k <= m
              size == data[h + 2]
              incomplete == [found |-> << >>, kept |-> SubSeq(data, h, n)]
              after(what, k) == [found |-> <<what>> \o scan[k].found, kept |-> scan[k].kept] IN
          IF h + 2 > n THEN incomplete
          ELSE IF size \notin 5 .. 64 THEN after("bad", h + 1)
          ELSE IF h + size - 1 > n THEN incomplete
          ELSE IF Sum(SubSeq(data, h, h + size - 2)) # data[h + size - 1] THEN after("bad", h + 1)
          ELSE after(<<data[h + 3], data[h + 4]>>, h + size)
  IN  scan[1]

(* decode_f32_le and all_finite: the payload holds numbers *)
IsNumbers(payload) == payload = 1

(* parse_serial_frame: the report of a frame, "invalid" or "ignored" *)
ParseSerialFrame(frame) ==
  IF frame = "bad" THEN "invalid"
  ELSE IF frame[1] = FunctionOf.raw THEN "raw"
  ELSE IF frame[1] = FunctionOf.quat THEN IF IsNumbers(frame[2]) THEN "quat" ELSE "invalid"
  ELSE IF frame[1] = FunctionOf.baro /\ BarometerDeclared
       THEN IF IsNumbers(frame[2]) THEN "baro" ELSE "invalid"
  ELSE "ignored"

(* bytes come in: the parser updates serial_states_, have_serial_* and the *)
(* flags of this read()                                                    *)
Take(n, seen) ==
  LET parsed == ParseSerialBuffer(rx \o SubSeq(stream, 1, n))
      got == {ParseSerialFrame(parsed.found[k]) : k \in 1 .. Len(parsed.found)} IN
  /\ stream' = SubSeq(stream, n + 1, Len(stream))
  /\ rx' = parsed.kept
  /\ stored' = [r \in Reports |-> IF r \in got THEN "new" ELSE stored[r]]
  /\ have' = have \cup (got \cap {"raw", "quat"})
  /\ updates' = IF seen = NoUpdates THEN NoUpdates ELSE seen \cup (got \ {"ignored"})
-----------------------------------------------------------------------------
ImuInit ==
  /\ transport \in {"i2c", "serial"}
  /\ imuLife = "unconfigured"
  /\ stream = << >> /\ rx = << >>
  /\ stored = AllNone /\ have = {} /\ updates = NoUpdates
  /\ exported = AllNone /\ result = "ERROR"

(* external: the IMU reports on its own; a frame may be damaged on the way *)
Send(frame) ==
  /\ transport = "serial" /\ Len(stream) + Len(frame) <= MaxBytes
  /\ stream' = stream \o frame
  /\ UNCHANGED <<transport, imuLife, rx, stored, have, updates, exported, result>>

(* calibrate_serial: the reports of that time are parsed into the same     *)
(* buffer and flags; otherwise n is 0                                      *)
Calibrated(n) ==
  LET parsed == ParseSerialBuffer(SubSeq(stream, 1, n))
      got == {ParseSerialFrame(parsed.found[k]) : k \in 1 .. Len(parsed.found)} IN
  /\ stream' = SubSeq(stream, n + 1, Len(stream))
  /\ rx' = parsed.kept
  /\ stored' = [r \in Reports |-> IF r \in got THEN "old" ELSE "none"]
  /\ have' = got \cap {"raw", "quat"}

(* on_configure with reset_runtime_state; opening the device or a          *)
(* calibration over I2C may fail                                           *)
ImuConfigure ==
  /\ imuLife = "unconfigured"
  /\ imuLife' \in {"inactive", "finalized"}
  /\ \E n \in 0 .. Len(stream) : Calibrated(n)
  /\ exported' = AllNone
  /\ UNCHANGED <<transport, updates, result>>

ImuActivate ==
  /\ imuLife = "inactive"
  /\ imuLife' = "active"
  /\ exported' = AllNone /\ rx' = << >> /\ stored' = AllNone /\ have' = {}
  /\ UNCHANGED <<transport, stream, updates, result>>

ImuDeactivate ==
  /\ imuLife = "active" /\ updates = NoUpdates
  /\ imuLife' = "inactive"
  /\ exported' = AllNone /\ have' = {}
  /\ stored' = [r \in Reports |-> IF stored[r] = "none" THEN "none" ELSE "old"]
  /\ UNCHANGED <<transport, stream, rx, updates, result>>

ImuCleanup ==
  /\ imuLife = "inactive"
  /\ imuLife' = "unconfigured"
  /\ exported' = AllNone /\ rx' = << >> /\ stored' = AllNone /\ have' = {}
  /\ UNCHANGED <<transport, stream, updates, result>>
-----------------------------------------------------------------------------
(* read() *)

(* of a component that is not active *)
ImuReadOff ==
  /\ imuLife = "inactive"
  /\ exported' = AllNone /\ result' = "ERROR"
  /\ UNCHANGED <<transport, imuLife, stream, rx, stored, have, updates>>

(* read_i2c: all registers in one go; a register that cannot be read, or a *)
(* value that is no number, and there is nothing                           *)
ReadI2c ==
  /\ imuLife = "active" /\ transport = "i2c"
  /\ \/ exported' = [r \in Reports |-> IF r \in Declared THEN "new" ELSE "none"] /\ result' = "OK"
     \/ exported' = AllNone /\ result' = "ERROR"
  /\ UNCHANGED <<transport, imuLife, stream, rx, stored, have, updates>>

BeginReadSerial ==
  /\ imuLife = "active" /\ transport = "serial" /\ updates = NoUpdates
  /\ updates' = {}
  /\ UNCHANGED <<transport, imuLife, stream, rx, stored, have, exported, result>>

(* receive_serial_updates: until a pair or invalid data *)
Receive(n) ==
  /\ updates # NoUpdates
  /\ "invalid" \notin updates /\ ~({"raw", "quat"} \subseteq updates)
  /\ Take(n, updates)
  /\ UNCHANGED <<transport, imuLife, exported, result>>

(* Mutant: a silent line is no reason to forget what was received before. *)
Silence_Keeps == have' = have
Silence == have' = {}

Fail == exported' = AllNone /\ result' = "ERROR"
Gap == stored' = [r \in Reports |-> IF stored[r] = "none" THEN "none" ELSE "old"]

(* the rest of read_serial; an exception of the port counts as invalid.    *)
(* What silence leaves in serial_states_ is no longer new, but stays.      *)
EndReadSerial(threw) ==
  /\ updates # NoUpdates
  /\ \/ /\ threw \/ "invalid" \in updates
        /\ Fail /\ stored' = AllNone /\ have' = {}
     \/ /\ ~threw /\ updates = {}
        /\ Fail /\ Silence /\ Gap
     \/ /\ ~threw /\ updates # {} /\ "invalid" \notin updates
        /\ IF have = {"raw", "quat"} /\ \A r \in Declared : stored[r] # "none"
           THEN exported' = stored /\ result' = "OK"
           ELSE Fail
        /\ UNCHANGED <<stored, have>>
  /\ updates' = NoUpdates
  /\ UNCHANGED <<transport, imuLife, stream, rx>>

ImuNext ==
  \/ \E r \in Reports : Send(ImuFrame(r, 1))
  \/ Send(ImuFrame("quat", 0))
  \/ \E d \in Damages : Send([ImuFrame(d.report, 1) EXCEPT ![d.at] = d.to])
  \/ ImuConfigure \/ ImuActivate \/ ImuDeactivate \/ ImuCleanup
  \/ ImuReadOff \/ ReadI2c
  \/ BeginReadSerial \/ \E n \in 1 .. Len(stream) : Receive(n)
  \/ \E threw \in BOOLEAN : EndReadSerial(threw)
-----------------------------------------------------------------------------
(* A read() that answers OK shows motion and orientation that both came in *)
(* since the last gap: never a mixture with what was received before the   *)
(* component was activated, before the line fell silent or before invalid  *)
(* data; and outside an OK no value is left to be used.  "Came in" means   *)
(* taken by a read(): activation leaves the port alone, where bytes sent   *)
(* before it may be waiting.                                               *)
NoMixtureAcrossGaps ==
  exported # AllNone
    => /\ imuLife = "active" /\ result = "OK"
       /\ exported["raw"] = "new" /\ exported["quat"] = "new"
=============================================================================
