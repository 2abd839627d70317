--------------------------- MODULE MCProtocolProbe ---------------------------
(* Instances of ProtocolProbe for TLC: servos that nobody has described,   *)
(* of either protocol, and one that the ranges describe wrongly and the    *)
(* operator rightly.                                                       *)
EXTENDS ProtocolProbe

CONSTANTS s1, s2, s3

MCSpeaks == [s \in Servo |-> IF s = s1 THEN "lx" ELSE "zl"]
MCManual == [s \in Servo |-> IF s = s3 THEN "zl" ELSE Unknown]
MCInRange == [s \in Servo |-> IF s = s3 THEN "lx" ELSE Unknown]
=============================================================================
