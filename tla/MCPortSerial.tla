----------------------------- MODULE MCPortSerial -----------------------------
(* Two servos on one line, one of each protocol. *)
EXTENDS PortSerial

MCCodec == [s \in LineServo |-> IF s = 9 THEN "zl" ELSE "lx"]
Request(form, raw, encoded, values) ==
  [form : {form}, raw : {raw}, encoded : {encoded}, value : values]
MCRequests ==
  Request("web", FALSE, FALSE, {-90, -1, 0, 1, 45, 90, 180, 300, 500, 504, 1341, 2500})
  \cup Request("web", FALSE, TRUE, {508, 2501})
  \cup Request("bcp", TRUE, FALSE, {30, 1500})
  \cup Request("full", TRUE, FALSE, {2600})
  \cup Request("full", FALSE, FALSE, {-45, 300})
MCNoise == {<< >>, <<0, 85>>}
MCDamage == {[at |-> 7, to |-> 0]}

(* The hypothesis of the proofs about the line holds of this one. *)
ASSUME NoFalsePackets == PositionsAreFound
=============================================================================
