--------------------------- MODULE MCHardwarePlugins ---------------------------
(* Actuators that stand outside their travel, three damages that leave the *)
(* parser something to find behind them, and a servo that only ever goes   *)
(* to one place, off by an offset.                                         *)
EXTENDS HardwarePlugins

MCCalibration == [j \in Joint |->
  IF j = 1 THEN [low |-> 0, high |-> 2, raw |-> 5, offset |-> 0, direction |-> 1, trim |-> 1]
           ELSE [low |-> 0, high |-> 2, raw |-> 3, offset |-> 2, direction |-> -1, trim |-> -4]]
MCStandsAt == [j \in Joint |-> 7]
(* a size that reaches into the next frame, an impossible one, a wrong payload *)
MCDamages == {[report |-> "raw", at |-> 3, to |-> 9], [report |-> "quat", at |-> 3, to |-> 1],
              [report |-> "quat", at |-> 5, to |-> 9]}
MCLimitMap == [id \in {2} |-> [min |-> 1500, max |-> 1500]]
MCOffsetMap == [id \in {2} |-> 12]
=============================================================================
