--------------------------- MODULE MCDriverSafety ---------------------------
(* Instances of DriverSafety for TLC. *)
EXTENDS DriverSafety, TLC

MCSymmetry == Permutations(Port)
=============================================================================
