--------------------------- MODULE MCTeleopBridge ---------------------------
(* Instances of TeleopBridge for TLC. *)
EXTENDS TeleopBridge

CONSTANTS c1, c2, i1, t1
MCTaskOf == [i \in Identity |-> t1]
MCSymmetry == Permutations({c1, c2})
=============================================================================
