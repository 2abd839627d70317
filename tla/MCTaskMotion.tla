---------------------------- MODULE MCTaskMotion ----------------------------
(* Instances of TaskMotion for TLC. *)
EXTENDS TaskMotion

CONSTANTS i1, i2, t1
MCIdentity == {i1, i2}
MCTaskOf == [i \in Identity |-> t1]
=============================================================================
