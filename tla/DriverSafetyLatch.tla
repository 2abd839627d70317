------------------------- MODULE DriverSafetyLatch -------------------------
(***************************************************************************)
(* servo_hardware/safety_latch.py: the gate the bus router and every port  *)
(* driver put before a motion command.  A stop or an active safety state   *)
(* latches it and raises the fence; a release newer than the fence and     *)
(* than every authoritative state before it opens it; a move passes an     *)
(* open latch if it is stamped after the fence.  Stamp 0 is an empty one.  *)
(***************************************************************************)
EXTENDS Integers

NewLatch == [latched |-> FALSE, fence |-> 0, authority |-> 0]

Later(a, b) == IF a >= b THEN a ELSE b

(* activate: a protocol stop enters the driver. *)
Activate(l, now) == [l EXCEPT !.latched = TRUE, !.fence = Later(@, now)]

(* Mutant: a release forgets the fence. *)
Observe_DropsFence(l, active, stamp, now) ==
  IF active
  THEN [latched   |-> TRUE,
        fence     |-> Later(l.fence, IF stamp > 0 THEN stamp ELSE now),
        authority |-> Later(l.authority, stamp)]
  ELSE IF stamp <= l.authority THEN l
  ELSE IF stamp <= l.fence THEN [l EXCEPT !.authority = stamp]
  ELSE [latched |-> FALSE, fence |-> 0, authority |-> stamp]

(* observe_authority *)
Observe(l, active, stamp, now) ==
  IF active
  THEN [latched   |-> TRUE,
        fence     |-> Later(l.fence, IF stamp > 0 THEN stamp ELSE now),
        authority |-> Later(l.authority, stamp)]
  ELSE IF stamp <= l.authority THEN l
  ELSE [l EXCEPT !.authority = stamp,
                 !.latched = @ /\ stamp <= l.fence]

(* admit, for a motion command *)
Admits(l, stamp) == ~l.latched /\ (l.fence = 0 \/ stamp > l.fence)
=============================================================================
