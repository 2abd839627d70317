------------------------- MODULE ExecutionAuthority -------------------------
(***************************************************************************)
(* What the execution layer promises, whatever its bookkeeping: actuator   *)
(* commands come from one owner at a time, a command that reaches the      *)
(* drivers was sent under the lease its source holds at that moment,       *)
(* ownership passes upwards only (motion < teleop < task), and an          *)
(* emergency stop leaves nobody in control.                                *)
(***************************************************************************)
EXTENDS Integers

CONSTANT NoLease, Lease, None

Source == {"motion", "teleop", "task"}
Rank == [s \in Source \cup {"none"} |->
          CASE s = "none" -> 0 [] s = "motion" -> 1
            [] s = "teleop" -> 2 [] s = "task" -> 3]

VARIABLES owner,     \* the source in control, or "none"
          lease,     \* the lease it controls under; motion needs none
          stopped,   \* the emergency stop
          executed   \* source and lease of the last command let through

vars == <<owner, lease, stopped, executed>>

Init ==
  /\ owner = "none"
  /\ lease = NoLease
  /\ stopped = FALSE
  /\ executed = None

(* A source takes over from a lower one, with a lease unless it is motion. *)
Acquire(s) ==
  /\ ~stopped
  /\ Rank[s] > Rank[owner]
  /\ owner' = s
  /\ lease' \in IF s = "motion" THEN {NoLease} ELSE Lease \ {lease}
  /\ UNCHANGED <<stopped, executed>>

(* Control ends; only a teleop session can uncover an older motion window. *)
Yield ==
  /\ owner # "none"
  /\ owner' \in IF owner = "teleop" THEN {"none", "motion"} ELSE {"none"}
  /\ lease' = NoLease
  /\ UNCHANGED <<stopped, executed>>

(* A command goes through to the drivers. *)
Execute(s) ==
  /\ ~stopped
  /\ IF s = "motion" THEN owner \in {"none", "motion"} ELSE owner = s
  /\ owner' = s
  /\ executed' = [source |-> s, lease |-> lease]
  /\ UNCHANGED <<lease, stopped>>

Stop ==
  /\ stopped' = TRUE
  /\ owner' = "none"
  /\ lease' = NoLease
  /\ UNCHANGED executed

Clear ==
  /\ stopped
  /\ stopped' = FALSE
  /\ UNCHANGED <<owner, lease, executed>>

Next == Yield \/ Stop \/ Clear \/ \E s \in Source : Acquire(s) \/ Execute(s)

Spec == Init /\ [][Next]_vars
=============================================================================
