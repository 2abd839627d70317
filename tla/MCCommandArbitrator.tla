------------------------ MODULE MCCommandArbitrator ------------------------
(* Instances of CommandArbitrator for TLC. *)
EXTENDS CommandArbitrator

CONSTANTS i1, i2, i3, t1, t2, r1, r2

(* i1 and i2 are two sessions of one task. *)
MCIdentity == {i1, i2, i3}
MCTaskName == {t1, t2}
MCTaskOf == [i \in Identity |-> IF i = i3 THEN t2 ELSE t1]
MCRequester == {r1, r2}
=============================================================================
