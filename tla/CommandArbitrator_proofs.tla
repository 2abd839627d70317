---------------------- MODULE CommandArbitrator_proofs ----------------------
(***************************************************************************)
(* Proofs about the arbitrator, for every set of identities and            *)
(* requesters, every timeout and every tombstone limit.                    *)
(***************************************************************************)
EXTENDS CommandArbitrator, TLAPS

USE NamesAssumption, BoundsAssumption DEF NoTime, NoLease, Never, Age

(* The tombstones are the last ends, newest last: since[i] is the number   *)
(* of ends after that of i exactly while i is still in the deque.          *)
TombsType ==
  /\ tombs \in [order : Seq(Identity), members : SUBSET Identity]
  /\ since \in [Identity -> Never .. TombstoneLimit]
TombInv ==
  /\ TombsType
  /\ Len(tombs.order) <= TombstoneLimit
  /\ tombs.members = {tombs.order[k] : k \in 1 .. Len(tombs.order)}
  /\ \A k \in 1 .. Len(tombs.order) :
       since[tombs.order[k]] = Len(tombs.order) - k
  /\ \A i \in Identity : since[i] \in 0 .. TombstoneLimit - 1 => i \in tombs.members

(* Expired or not, a lease that was not dropped yet excludes the others.   *)
ControlInv ==
  /\ taskAge # NoTime =>
       /\ teleopAge = NoTime
       /\ motionAge = NoTime
       /\ taskIdent \in Identity
       /\ taskIdent \notin tombs.members
       /\ taskLease \in 1 .. issued
  /\ teleopAge # NoTime => teleopLease \in 1 .. issued
  /\ estop => taskAge = NoTime /\ teleopAge = NoTime /\ motionAge = NoTime

IInv == TypeOK /\ TombInv /\ ControlInv /\ ModeNeverUnderstates

(* The two ways a step may treat the tombstones. *)
TaskRemembered ==
  /\ taskIdent \in Identity
  /\ taskIdent \notin tombs.members
  /\ tombs' = Remember(tombs, taskIdent)
  /\ since' = EndNoted(taskIdent)
TombStep == UNCHANGED <<tombs, since>> \/ TaskRemembered
-----------------------------------------------------------------------------
(* Recording an end keeps the tombstones the last TombstoneLimit ends.     *)
LEMMA RememberKeepsTombs ==
  ASSUME TombInv, TaskRemembered PROVE TombInv'
<1> DEFINE n == Len(tombs.order)
           full == n >= TombstoneLimit
           kept == IF full THEN Tail(tombs.order) ELSE tombs.order
           live == IF full THEN tombs.members \ {Head(tombs.order)}
                   ELSE tombs.members
<1>1. /\ tombs' = [order |-> Append(kept, taskIdent),
                   members |-> live \cup {taskIdent}]
      /\ taskIdent \in Identity
      /\ taskIdent \notin tombs.members
  BY DEF TaskRemembered, Remember
<1>2. /\ tombs.order \in Seq(Identity) /\ tombs.members \in SUBSET Identity
      /\ n \in Nat /\ n <= TombstoneLimit
      /\ since \in [Identity -> -1 .. TombstoneLimit]
  BY DEF TombInv, TombsType
<1>3. full => n = TombstoneLimit /\ n >= 1
  BY <1>2
<1>4. /\ kept \in Seq(Identity)
      /\ full => Len(kept) = n - 1 /\ \A k \in 1 .. n - 1 : kept[k] = tombs.order[k + 1]
      /\ ~full => kept = tombs.order
  BY <1>2, <1>3
<1>5. /\ tombs'.order \in Seq(Identity)
      /\ Len(tombs'.order) = Len(kept) + 1
      /\ tombs'.order[Len(kept) + 1] = taskIdent
      /\ \A k \in 1 .. Len(kept) : tombs'.order[k] = kept[k]
  BY <1>1, <1>4
<1>6. /\ since' \in [Identity -> -1 .. TombstoneLimit]
      /\ since'[taskIdent] = 0
      /\ \A j \in Identity \ {taskIdent} :
           since'[j] = IF since[j] \in 0 .. TombstoneLimit - 1
                       THEN since[j] + 1 ELSE since[j]
  BY <1>1, <1>2 DEF TaskRemembered, EndNoted
<1>7. \A k \in 1 .. n : /\ tombs.order[k] \in Identity
                        /\ tombs.order[k] # taskIdent
                        /\ since[tombs.order[k]] = n - k
                        /\ since'[tombs.order[k]] = n - k + 1
  <2> TAKE k \in 1 .. n
  <2>1. tombs.order[k] \in tombs.members /\ since[tombs.order[k]] = n - k
    BY DEF TombInv
  <2>2. n - k \in 0 .. TombstoneLimit - 1
    BY <1>2
  <2> QED
    BY <1>1, <1>2, <1>6, <2>1, <2>2
<1>8. \A k \in 1 .. Len(tombs'.order) :
        since'[tombs'.order[k]] = Len(tombs'.order) - k
  <2> SUFFICES ASSUME NEW k \in 1 .. Len(tombs'.order)
               PROVE  since'[tombs'.order[k]] = Len(tombs'.order) - k
    OBVIOUS
  <2>1. CASE k = Len(kept) + 1
    BY <1>5, <1>6, <2>1
  <2>2. CASE k # Len(kept) + 1 /\ full
    <3>1. k \in 1 .. n - 1 /\ Len(tombs'.order) = n
      BY <1>3, <1>4, <1>5, <2>2
    <3>2. tombs'.order[k] = tombs.order[k + 1] /\ k + 1 \in 1 .. n
      BY <1>2, <1>4, <1>5, <2>2, <3>1
    <3>3. since'[tombs.order[k + 1]] = n - (k + 1) + 1
      BY <1>7, <3>2
    <3> QED
      BY <1>2, <3>1, <3>2, <3>3
  <2>3. CASE k # Len(kept) + 1 /\ ~full
    <3>1. k \in 1 .. n /\ Len(tombs'.order) = n + 1
      BY <1>2, <1>4, <1>5, <2>3
    <3>2. tombs'.order[k] = tombs.order[k]
      BY <1>4, <1>5, <2>3, <3>1
    <3>3. since'[tombs.order[k]] = n - k + 1
      BY <1>7, <3>1
    <3> QED
      BY <1>2, <3>1, <3>2, <3>3
  <2> QED
    BY <2>1, <2>2, <2>3
<1>9. live = {kept[k] : k \in 1 .. Len(kept)}
  <2>1. tombs.members = {tombs.order[k] : k \in 1 .. n}
    BY DEF TombInv
  <2>2. CASE ~full
    BY <1>4, <2>1, <2>2
  <2>3. CASE full
    <3>1. /\ Head(tombs.order) = tombs.order[1]
          /\ Len(kept) = n - 1
          /\ live = tombs.members \ {tombs.order[1]}
      BY <1>2, <1>3, <1>4, <2>3
    <3>2. \A k \in 2 .. n : tombs.order[k] # tombs.order[1]
      <4> TAKE k \in 2 .. n
      <4>1. since[tombs.order[k]] = n - k /\ since[tombs.order[1]] = n - 1
        BY <1>2, <1>3, <1>7, <2>3
      <4> QED
        BY <1>2, <4>1
    <3>3. \A k \in 1 .. n - 1 : kept[k] = tombs.order[k + 1] /\ k + 1 \in 2 .. n
      BY <1>2, <1>4, <2>3
    <3>4. \A k \in 2 .. n : k - 1 \in 1 .. n - 1 /\ kept[k - 1] = tombs.order[k]
      BY <1>2, <1>4, <2>3
    <3>5. ASSUME NEW x \in live PROVE x \in {kept[k] : k \in 1 .. Len(kept)}
      <4>1. PICK k \in 1 .. n : x = tombs.order[k]
        BY <2>1, <3>1
      <4>2. k \in 2 .. n
        BY <1>2, <3>1, <4>1
      <4> QED
        BY <3>1, <3>4, <4>1, <4>2
    <3>6. ASSUME NEW k \in 1 .. Len(kept) PROVE kept[k] \in live
      <4>1. k \in 1 .. n - 1 /\ k + 1 \in 1 .. n
        BY <1>2, <3>1
      <4> QED
        BY <2>1, <3>1, <3>2, <3>3, <4>1
    <3> QED
      BY <3>5, <3>6
  <2> QED
    BY <2>2, <2>3
<1>10. tombs'.members = {tombs'.order[k] : k \in 1 .. Len(tombs'.order)}
  <2>1. Len(kept) \in Nat /\ tombs'.members = live \cup {taskIdent}
    BY <1>1, <1>4
  <2>2. ASSUME NEW x \in tombs'.members
        PROVE  \E k \in 1 .. Len(tombs'.order) : x = tombs'.order[k]
    <3>1. CASE x = taskIdent
      BY <1>5, <2>1, <3>1
    <3>2. CASE x \in live
      <4>1. PICK k \in 1 .. Len(kept) : x = kept[k]
        BY <1>9, <3>2
      <4>2. k \in 1 .. Len(tombs'.order) /\ tombs'.order[k] = kept[k]
        BY <1>5, <2>1
      <4> QED
        BY <4>1, <4>2
    <3> QED
      BY <2>1, <2>2, <3>1, <3>2
  <2>3. ASSUME NEW k \in 1 .. Len(tombs'.order)
        PROVE  tombs'.order[k] \in tombs'.members
    <3>1. CASE k = Len(kept) + 1
      BY <1>5, <2>1, <3>1
    <3>2. CASE k \in 1 .. Len(kept)
      BY <1>5, <1>9, <2>1, <3>2
    <3> QED
      BY <1>5, <2>1, <3>1, <3>2
  <2> QED
    BY <2>2, <2>3
<1>11. Len(tombs'.order) <= TombstoneLimit
  BY <1>2, <1>3, <1>4, <1>5
<1>12. ASSUME NEW i \in Identity, since'[i] \in 0 .. TombstoneLimit - 1
       PROVE  i \in tombs'.members
  <2>1. CASE i = taskIdent
    BY <1>1, <2>1
  <2>2. CASE i # taskIdent
    <3>1. since[i] \in 0 .. TombstoneLimit - 2
      BY <1>2, <1>6, <1>12, <2>2
    <3>2. i \in tombs.members
      BY <1>2, <3>1 DEF TombInv
    <3>3. full => i # Head(tombs.order)
      BY <1>2, <1>3, <1>7, <3>1
    <3> QED
      BY <1>1, <3>2, <3>3
  <2> QED
    BY <2>1, <2>2
<1>13. tombs'.members \in SUBSET Identity
  BY <1>1, <1>2
<1>14. tombs' \in [order : Seq(Identity), members : SUBSET Identity]
  BY <1>1, <1>4, <1>13
<1> QED
  BY <1>6, <1>8, <1>10, <1>11, <1>12, <1>14 DEF TombInv, TombsType
-----------------------------------------------------------------------------
(* A step that leaves the tombstones alone keeps what is known of them.    *)
LEMMA TombsUntouched ==
  ASSUME TombInv, UNCHANGED <<tombs, since>> PROVE TombInv'
<1>1. tombs' = tombs /\ since' = since
  OBVIOUS
<1>2. TombsType'
  BY <1>1 DEF TombInv, TombsType
<1>3. Len(tombs'.order) <= TombstoneLimit
  BY <1>1 DEF TombInv
<1>4. tombs'.members = {tombs'.order[k] : k \in 1 .. Len(tombs'.order)}
  BY <1>1 DEF TombInv
<1>5. \A k \in 1 .. Len(tombs'.order) :
        since'[tombs'.order[k]] = Len(tombs'.order) - k
  BY <1>1 DEF TombInv
<1>6. \A i \in Identity :
        since'[i] \in 0 .. TombstoneLimit - 1 => i \in tombs'.members
  BY <1>1 DEF TombInv
<1> QED
  BY <1>2, <1>3, <1>4, <1>5, <1>6 DEF TombInv

(* The effect of the shared first half of every method. *)
LEMMA TaskSettlesEffect ==
  ASSUME IInv, TaskSettles
  PROVE  /\ TombStep
         /\ taskIdent' = taskIdent
         /\ TaskHeld => /\ taskAge' = taskAge
                        /\ taskLease' = taskLease
                        /\ UNCHANGED <<tombs, since>>
         /\ ~TaskHeld => taskAge' = NoTime
         /\ taskLease' \in Nat
<1>1. TaskExpired => taskIdent \in Identity /\ taskIdent \notin tombs.members
  BY DEF IInv, TypeOK, ControlInv, TaskExpired
<1>2. TombStep
  BY <1>1 DEF TaskSettles, TaskForgotten, TombStep, TaskRemembered
<1> QED
  BY <1>2 DEF IInv, TypeOK, TaskSettles, TaskForgotten, TaskExpired, TaskHeld

LEMMA TeleopSettlesEffect ==
  ASSUME IInv, TeleopSettles
  PROVE  /\ TeleopHeld => UNCHANGED teleopVars
         /\ ~TeleopHeld => teleopAge' = NoTime
         /\ teleopHolder' \in Requester \cup {NoName}
         /\ teleopLease' \in Nat
         /\ teleopAge' # NoTime => teleopLease' = teleopLease
BY DEF IInv, TypeOK, TeleopSettles, TeleopCleared, TeleopExpired, TeleopHeld,
       teleopVars

(* Each step leaves the tombstones alone or records the current task.      *)
LEMMA StepTombs ==
  ASSUME IInv, Next PROVE TombStep
<1> USE DEF TombStep, TaskRemembered
<1>1. taskAge # NoTime => taskIdent \in Identity /\ taskIdent \notin tombs.members
  BY DEF IInv, ControlInv
<1>2. /\ TaskHeld => taskAge # NoTime
      /\ TaskExpired => taskAge # NoTime
  BY DEF IInv, TypeOK, TaskHeld, TaskExpired
<1>3. CASE TaskSettles
  BY <1>3, TaskSettlesEffect
<1>4. CASE \E i \in Identity : TaskStart(i)
  BY <1>1, <1>2, <1>4 DEF TaskStart, TaskForgotten
<1>5. CASE \E i \in Identity, l \in Presented, a \in {"finish", "cancel"} :
             TaskEnd(a, i, l)
  <2>1. TaskForgotten(TRUE)
    BY <1>5 DEF TaskEnd
  <2>2. TaskHeld
    BY <1>5 DEF TaskEnd, TaskControlVerdict, TaskAction
  <2> QED
    BY <1>1, <1>2, <2>1, <2>2 DEF TaskForgotten
<1>6. CASE \E r \in StopReason : SetEstop(r)
  BY <1>1, <1>2, <1>6 DEF SetEstop, TaskForgotten
<1>7. CASE UNCHANGED <<tombs, since>>
  BY <1>7
<1> QED
  BY <1>3, <1>4, <1>5, <1>6, <1>7
     DEF Next, TaskNext, TeleopNext, CommandNext, TaskRenew, TaskReject,
         TaskRejectPending, TaskControlRefused, TeleopClaim, TeleopKeepalive,
         TeleopRelease, TaskCommand, TeleopCommand, HeldCommand, MotionCommand,
         ClearEstop, Refresh, Tick

(* The rest of the invariant, without what StepTombs settles.              *)
Rest ==
  /\ taskIdent \in Identity \cup {NoIdentity}
  /\ taskLease \in Nat
  /\ taskAge \in Age(TaskTimeout)
  /\ teleopHolder \in Requester \cup {NoName}
  /\ teleopLease \in Nat
  /\ teleopAge \in Age(TeleopTimeout)
  /\ motionAge \in Age(MotionTimeout)
  /\ estop \in BOOLEAN
  /\ issued \in Nat
  /\ forwarded \in [source : {"none", "motion", "teleop", "task"}, lease : Nat]
  /\ ControlInv

(* Every method but Tick leaves the cached mode right.                     *)
LEMMA ModeIsRight ==
  ASSUME ModeRefreshed, ControlInv', estop' \in BOOLEAN
  PROVE  /\ ModeNeverUnderstates'
         /\ mode' \in {"estop", "task_active", "teleop_active",
                       "motion_active", "idle"}
BY DEF ModeRefreshed, ModeOf, ModeNeverUnderstates, ControlInv, TaskHeld,
       TeleopHeld, MotionHeld

(* The methods that decide nothing about task and teleop control.          *)
LEMMA SettlesRest ==
  ASSUME IInv, TaskSettles, TeleopSettles,
         issued' = issued,
         estop' \in BOOLEAN, estop' => estop,
         motionAge' = motionAge \/ (motionAge' = 0 /\ ~TaskHeld /\ ~estop),
         forwarded' \in [source : {"none", "motion", "teleop", "task"}, lease : Nat]
  PROVE  Rest'
<1> USE DEF IInv, TypeOK, ControlInv, TaskHeld, TeleopHeld
<1>1. taskAge' # NoTime =>
        /\ TaskHeld
        /\ taskAge' = taskAge /\ taskLease' = taskLease
        /\ tombs' = tombs
        /\ taskIdent' = taskIdent
  BY TaskSettlesEffect
<1>2. /\ taskAge' \in Age(TaskTimeout)
      /\ taskLease' \in Nat
      /\ taskIdent' = taskIdent
  BY TaskSettlesEffect
<1>3. teleopAge' # NoTime => teleopAge # NoTime /\ teleopLease' = teleopLease
  BY TeleopSettlesEffect
<1>4. /\ teleopAge' \in Age(TeleopTimeout)
      /\ teleopHolder' \in Requester \cup {NoName}
      /\ teleopLease' \in Nat
  BY DEF TeleopSettles, TeleopCleared, teleopVars
<1>5. /\ motionAge' \in Age(MotionTimeout)
      /\ estop' \in BOOLEAN
      /\ TaskHeld => motionAge' = motionAge
      /\ estop => motionAge' = motionAge
  OBVIOUS
<1>6. estop' => taskAge' = NoTime /\ teleopAge' = NoTime /\ motionAge' = NoTime
  BY <1>1, <1>3, <1>5
<1>7. ASSUME taskAge' # NoTime
      PROVE  /\ teleopAge' = NoTime
             /\ motionAge' = NoTime
             /\ taskIdent' \in Identity
             /\ taskIdent' \notin tombs'.members
             /\ taskLease' \in 1 .. issued'
  BY <1>1, <1>3, <1>5, <1>7
<1>8. teleopAge' # NoTime => teleopLease' \in 1 .. issued'
  BY <1>3
<1> QED
  BY <1>2, <1>4, <1>5, <1>6, <1>7, <1>8 DEF Rest

LEMMA StepRest ==
  ASSUME IInv, Next PROVE Rest'
<1>0. Rest /\ TypeOK
  BY DEF IInv, TypeOK, Rest
<1>1. ASSUME NEW i \in Identity, TaskStart(i) PROVE Rest'
  <2>1. tombs' = TombsNow
    BY <1>1 DEF TaskStart, TaskForgotten, TombsNow
  <2>2. i \notin tombs'.members /\ ~estop
    BY <1>1, <2>1 DEF TaskStart, TaskControlVerdict, TaskAction
  <2> QED
    BY <1>0, <1>1, <2>2 DEF TaskStart, TeleopCleared, Rest, ControlInv
<1>2. ASSUME NEW a \in {"start", "keepalive"}, NEW i \in Identity,
             NEW l \in Presented, TaskRenew(a, i, l)
      PROVE  Rest'
  BY <1>0, <1>2, TeleopSettlesEffect DEF TaskRenew, Rest, ControlInv, TaskHeld, TeleopHeld
<1>3. ASSUME NEW a \in {"finish", "cancel"}, NEW i \in Identity,
             NEW l \in Presented, TaskEnd(a, i, l)
      PROVE  Rest'
  <2>1. TeleopSettles /\ taskAge' = NoTime /\ taskLease' = NoLease
        /\ UNCHANGED <<taskIdent, motionAge, estop, estopReason, issued, forwarded>>
    BY <1>3 DEF TaskEnd
  <2>2. /\ teleopAge' # NoTime => teleopAge # NoTime /\ teleopLease' = teleopLease
        /\ teleopAge' \in Age(TeleopTimeout)
        /\ teleopHolder' \in Requester \cup {NoName}
        /\ teleopLease' \in Nat
    BY <1>0, <2>1 DEF TeleopSettles, TeleopCleared, teleopVars, TeleopExpired, Rest
  <2> QED
    BY <1>0, <2>1, <2>2 DEF Rest, ControlInv
<1>4. ASSUME NEW a, NEW i, NEW r, TaskControlRefused(a, i, r) PROVE Rest'
  <2>1. TaskSettles /\ TeleopSettles /\ UNCHANGED <<motionAge, estop, issued, forwarded>>
    BY <1>4 DEF TaskControlRefused
  <2>2. estop' \in BOOLEAN /\ (estop' => estop)
    BY Zenon, <1>0, <2>1 DEF TypeOK
  <2>3. /\ forwarded' \in [source : {"none", "motion", "teleop", "task"}, lease : Nat]
        /\ issued' = issued
        /\ motionAge' = motionAge \/ (motionAge' = 0 /\ ~TaskHeld /\ ~estop)
    BY <1>0, <2>1 DEF TypeOK
  <2> QED
    BY <2>1, <2>2, <2>3, SettlesRest
<1>15. ASSUME NEW s \in {"task", "teleop"}, NEW l \in Presented, HeldCommand(s, l)
       PROVE  Rest'
  <2>1. /\ TaskSettles /\ TeleopSettles
        /\ UNCHANGED <<motionAge, estop, issued>>
        /\ forwarded' = [source |-> s, lease |-> l]
    BY <1>15 DEF HeldCommand, Forward
  <2>2. l \in Nat
    BY <1>0 DEF Presented, TypeOK
  <2>3. estop' \in BOOLEAN /\ (estop' => estop)
    BY Zenon, <1>0, <2>1 DEF TypeOK
  <2>4. /\ forwarded' \in [source : {"none", "motion", "teleop", "task"}, lease : Nat]
        /\ issued' = issued
        /\ motionAge' = motionAge \/ (motionAge' = 0 /\ ~TaskHeld /\ ~estop)
    BY <1>0, <2>1, <2>2 DEF TypeOK
  <2> QED
    BY <2>1, <2>3, <2>4, SettlesRest
<1>5. ASSUME NEW r \in Requester \cup {NoName}, TeleopClaim(r) PROVE Rest'
  <2>1. ~estop /\ ~TaskHeld /\ TaskSettles
        /\ UNCHANGED <<motionAge, estop, estopReason, forwarded>>
        /\ teleopHolder' = r /\ teleopAge' = 0
    BY <1>5 DEF TeleopClaim
  <2>2. taskAge' = NoTime /\ taskLease' \in Nat /\ taskIdent' = taskIdent
    BY <2>1, TaskSettlesEffect
  <2>3. issued' \in Nat /\ teleopLease' \in 1 .. issued'
    BY <1>0, <1>5 DEF TeleopClaim, Rest, ControlInv, TeleopHeld
  <2> QED
    BY <1>0, <2>1, <2>2, <2>3 DEF Rest, ControlInv
<1>6. ASSUME NEW r \in Requester \cup {NoName}, NEW l \in Presented,
             TeleopKeepalive(r, l)
      PROVE  Rest'
  BY <1>0, <1>6, TaskSettlesEffect
     DEF TeleopKeepalive, TeleopPermitted, Rest, ControlInv, TaskHeld, TeleopHeld
<1>7. ASSUME NEW r \in Requester \cup {NoName}, NEW l \in Presented,
             TeleopRelease(r, l)
      PROVE  Rest'
  BY <1>0, <1>7, TaskSettlesEffect
     DEF TeleopRelease, TeleopPermitted, TeleopCleared, Rest, ControlInv, TaskHeld, TeleopHeld
<1>8. ASSUME NEW t, NEW l \in Presented, TaskCommand(t, l) PROVE Rest'
  BY <1>8, <1>15 DEF TaskCommand
<1>9. ASSUME NEW r, NEW l \in Presented, TeleopCommand(r, l) PROVE Rest'
  BY <1>9, <1>15 DEF TeleopCommand
<1>10. CASE MotionCommand
  <2>1. /\ TaskSettles /\ TeleopSettles
        /\ UNCHANGED <<estop, issued>>
        /\ motionAge' = 0 /\ ~TaskHeld /\ ~estop
        /\ forwarded' = [source |-> "motion", lease |-> NoLease]
    BY <1>10 DEF MotionCommand, Forward
  <2>2. estop' \in BOOLEAN /\ (estop' => estop)
    BY Zenon, <1>0, <2>1 DEF TypeOK
  <2>3. /\ forwarded' \in [source : {"none", "motion", "teleop", "task"}, lease : Nat]
        /\ issued' = issued
        /\ motionAge' = motionAge \/ (motionAge' = 0 /\ ~TaskHeld /\ ~estop)
    BY <1>0, <2>1 DEF TypeOK
  <2> QED
    BY <2>1, <2>2, <2>3, SettlesRest
<1>11. ASSUME NEW r \in StopReason, SetEstop(r) PROVE Rest'
  BY <1>0, <1>11 DEF SetEstop, TeleopCleared, Rest, ControlInv
<1>12. CASE ClearEstop
  <2>1. /\ TaskSettles /\ TeleopSettles
        /\ UNCHANGED <<motionAge, issued, forwarded>>
        /\ estop' = FALSE
    BY <1>12 DEF ClearEstop
  <2>2. estop' \in BOOLEAN /\ (estop' => estop)
    BY Zenon, <1>0, <2>1 DEF TypeOK
  <2>3. /\ forwarded' \in [source : {"none", "motion", "teleop", "task"}, lease : Nat]
        /\ issued' = issued
        /\ motionAge' = motionAge \/ (motionAge' = 0 /\ ~TaskHeld /\ ~estop)
    BY <1>0, <2>1 DEF TypeOK
  <2> QED
    BY <2>1, <2>2, <2>3, SettlesRest
<1>13. CASE Refresh
  <2>1. /\ TaskSettles /\ TeleopSettles
        /\ UNCHANGED <<motionAge, estop, issued, forwarded>>
    BY <1>13 DEF Refresh
  <2>2. estop' \in BOOLEAN /\ (estop' => estop)
    BY Zenon, <1>0, <2>1 DEF TypeOK
  <2>3. /\ forwarded' \in [source : {"none", "motion", "teleop", "task"}, lease : Nat]
        /\ issued' = issued
        /\ motionAge' = motionAge \/ (motionAge' = 0 /\ ~TaskHeld /\ ~estop)
    BY <1>0, <2>1 DEF TypeOK
  <2> QED
    BY <2>1, <2>2, <2>3, SettlesRest
<1>14. CASE Tick
  BY <1>0, <1>14 DEF Tick, Older, Rest, ControlInv
<1> QED
  BY <1>1, <1>2, <1>3, <1>4, <1>5, <1>6, <1>7, <1>8, <1>9, <1>10, <1>11, <1>12,
     <1>13, <1>14, <1>15
     DEF Next, TaskNext, TeleopNext, CommandNext, TaskReject, TaskRejectPending

LEMMA StepMode ==
  ASSUME IInv, Next, Rest'
  PROVE  /\ ModeNeverUnderstates'
         /\ mode' \in {"estop", "task_active", "teleop_active",
                       "motion_active", "idle"}
<1>1. CASE ModeRefreshed
  BY <1>1, ModeIsRight DEF Rest
<1>2. CASE Tick
  BY <1>2 DEF Tick, Older, IInv, TypeOK, ModeNeverUnderstates, TaskHeld,
              TeleopHeld
<1> QED
  BY <1>1, <1>2
     DEF Next, TaskNext, TeleopNext, CommandNext, TaskStart, TaskEnd, TaskRenew,
         TaskReject, TaskRejectPending, TaskControlRefused, TeleopClaim,
         TeleopKeepalive, TeleopRelease, TaskCommand, TeleopCommand,
         HeldCommand, MotionCommand, SetEstop, ClearEstop, Refresh
-----------------------------------------------------------------------------
(* The invariant is inductive.                                             *)
LEMMA InitIInv ==
  ASSUME Init PROVE IInv
<1>0. /\ taskIdent = NoIdentity
      /\ taskLease = NoLease
      /\ taskAge = NoTime
      /\ tombs = [order |-> << >>, members |-> {}]
      /\ teleopHolder = NoName
      /\ teleopLease = NoLease
      /\ teleopAge = NoTime
      /\ motionAge = NoTime
      /\ mode = "idle"
      /\ issued = 0
      /\ forwarded = [source |-> "none", lease |-> NoLease]
      /\ since = [i \in Identity |-> Never]
      /\ estop \in BOOLEAN
      /\ ~estop
  BY Zenon DEF Init
<1>1. TypeOK
  BY <1>0 DEF TypeOK
<1>2. TombInv
  BY <1>0 DEF TombInv, TombsType
<1>3. ControlInv /\ ModeNeverUnderstates
  BY <1>0 DEF ControlInv, ModeNeverUnderstates, TaskHeld, TeleopHeld
<1> QED
  BY <1>1, <1>2, <1>3 DEF IInv

LEMMA StepIInv ==
  ASSUME IInv, [Next]_vars PROVE IInv'
<1>1. CASE Next
  <2>1. TombInv'
    <3>1. TombInv /\ TombStep
      BY <1>1, StepTombs DEF IInv
    <3> QED
      <4>1. CASE TaskRemembered
        BY <3>1, <4>1, RememberKeepsTombs
      <4>2. CASE UNCHANGED <<tombs, since>>
        BY <3>1, <4>2, TombsUntouched
      <4> QED
        BY <3>1, <4>1, <4>2 DEF TombStep
  <2>2. Rest'
    BY <1>1, StepRest
  <2>3. /\ ModeNeverUnderstates'
        /\ mode' \in {"estop", "task_active", "teleop_active",
                      "motion_active", "idle"}
    BY <1>1, <2>2, StepMode
  <2> QED
    BY <2>1, <2>2, <2>3 DEF IInv, TypeOK, Rest, TombInv, TombsType
<1>2. CASE UNCHANGED vars
  <2>1. UNCHANGED <<tombs, since>>
    BY <1>2 DEF vars
  <2>2. TombInv'
    BY <2>1, TombsUntouched DEF IInv
  <2>3. TypeOK'
    BY <1>2, <2>2 DEF vars, taskVars, teleopVars, IInv, TypeOK, TombInv, TombsType
  <2>4. ControlInv' /\ ModeNeverUnderstates'
    BY <1>2 DEF vars, taskVars, teleopVars, IInv, ControlInv, ModeNeverUnderstates,
                TaskHeld, TeleopHeld
  <2> QED
    BY <2>2, <2>3, <2>4 DEF IInv
<1> QED
  BY <1>1, <1>2

LEMMA Invariance == Spec => []IInv
<1>1. Init => IInv
  BY InitIInv
<1>2. IInv /\ [Next]_vars => IInv'
  BY StepIInv
<1> QED
  BY <1>1, <1>2, PTL DEF Spec

(* Every variable stays in its range, for all timeouts and limits.         *)
THEOREM TypeCorrect == Spec => []TypeOK
BY Invariance, PTL DEF IInv

(* A task in control shares it with neither teleop nor motion.             *)
THEOREM TaskExclusion == Spec => []TaskExcludesOthers
<1>1. IInv => TaskExcludesOthers
  BY DEF IInv, ControlInv, TaskExcludesOthers, TaskHeld, TeleopHeld, MotionHeld
<1> QED
  BY <1>1, Invariance, PTL

(* The emergency stop leaves nobody in control, for all timeouts.          *)
THEOREM EstopRevokesAll == Spec => []EstopHoldsNothing
<1>1. IInv => EstopHoldsNothing
  BY DEF IInv, ControlInv, EstopHoldsNothing, TaskHeld, TeleopHeld, MotionHeld
<1> QED
  BY <1>1, Invariance, PTL

(* No ended task returns before TombstoneLimit ends were recorded after    *)
(* its own, whatever the limit.                                            *)
THEOREM ReplayWindow == Spec => []NoEarlyReplay
<1>1. IInv => NoEarlyReplay
  BY DEF IInv, ControlInv, TombInv, NoEarlyReplay, TaskHeld
<1> QED
  BY <1>1, Invariance, PTL

(* The cached mode never hides who is in control.                          *)
THEOREM ModeTruthful == Spec => []ModeNeverUnderstates
BY Invariance, PTL DEF IInv

(* Lost control is only regained with a lease nobody was given before.     *)
THEOREM FreshLeases == Spec => RegainNeedsFreshLease
<1> DEFINE Fresh ==
      /\ TaskHeld' /\ ~TaskHeld => taskLease' > issued
      /\ TeleopHeld' /\ (~TeleopHeld \/ teleopHolder' # teleopHolder)
           => teleopLease' > issued
<1>1. IInv /\ [Next]_vars => [Fresh]_vars
  <2> SUFFICES ASSUME IInv, Next PROVE Fresh
    OBVIOUS
  <2>0. issued \in Nat
    BY DEF IInv, TypeOK
  <2>n. /\ taskAge' = NoTime => ~TaskHeld'
        /\ teleopAge' = NoTime => ~TeleopHeld'
    BY DEF TaskHeld, TeleopHeld
  <2>1. ASSUME TaskSettles, TeleopSettles PROVE Fresh
    <3>1. TaskHeld' => TaskHeld
      BY <2>1, <2>n, TaskSettlesEffect
    <3>2. TeleopHeld' => TeleopHeld /\ teleopHolder' = teleopHolder
      BY <2>1, <2>n, TeleopSettlesEffect DEF teleopVars
    <3> QED
      BY <3>1, <3>2
  <2>2. ASSUME NEW i \in Identity, TaskStart(i) PROVE Fresh
    BY <2>0, <2>2, <2>n DEF TaskStart, TeleopCleared
  <2>3. ASSUME NEW a, NEW i, NEW l, TaskRenew(a, i, l) \/ TaskEnd(a, i, l)
        PROVE  Fresh
    <3>1. TeleopSettles /\ (TaskHeld \/ taskAge' = NoTime)
      BY Zenon, <2>3 DEF TaskRenew, TaskEnd
    <3>2. TeleopHeld' => TeleopHeld /\ teleopHolder' = teleopHolder
      BY <2>n, <3>1, TeleopSettlesEffect DEF teleopVars
    <3> QED
      BY <2>n, <3>1, <3>2
  <2>4. ASSUME NEW r, TeleopClaim(r) PROVE Fresh
    <3>1. ~TaskHeld'
      BY <2>4, <2>n, TaskSettlesEffect DEF TeleopClaim
    <3>2. (TeleopHeld /\ teleopHolder' = teleopHolder) \/ teleopLease' > issued
      BY <2>0, <2>4 DEF TeleopClaim
    <3> QED
      BY <3>1, <3>2
  <2>5. ASSUME NEW r, NEW l, TeleopKeepalive(r, l) \/ TeleopRelease(r, l)
        PROVE  Fresh
    <3>1. TaskHeld' => TaskHeld
      BY <2>5, <2>n, TaskSettlesEffect DEF TeleopKeepalive, TeleopRelease
    <3>2. TeleopHeld' => TeleopHeld /\ teleopHolder' = teleopHolder
      BY <2>5, <2>n DEF TeleopKeepalive, TeleopRelease, TeleopPermitted, TeleopCleared
    <3> QED
      BY <3>1, <3>2
  <2>6. ASSUME NEW r, SetEstop(r) PROVE Fresh
    BY <2>6, <2>n DEF SetEstop, TeleopCleared
  <2>7. CASE Tick
    BY <2>7 DEF Tick, Older, TaskHeld, TeleopHeld, IInv, TypeOK
  <2> QED
    BY <2>1, <2>2, <2>3, <2>4, <2>5, <2>6, <2>7
       DEF Next, TaskNext, TeleopNext, CommandNext, TaskReject,
           TaskRejectPending, TaskControlRefused, TaskCommand, TeleopCommand,
           HeldCommand, MotionCommand, ClearEstop, Refresh
<1> QED
  BY <1>1, Invariance, PTL DEF Spec, RegainNeedsFreshLease
-----------------------------------------------------------------------------
(* The arbitrator implements ExecutionAuthority, step by step.             *)
LeaseNow ==
  IF TaskHeld THEN taskLease ELSE IF TeleopHeld THEN teleopLease ELSE NoLease

(* Nobody gains or loses control. *)
ControlKept ==
  /\ TaskHeld' = TaskHeld /\ TeleopHeld' = TeleopHeld /\ MotionHeld' = MotionHeld
  /\ TaskHeld => taskLease' = taskLease
  /\ TeleopHeld => teleopLease' = teleopLease

LEMMA AuthorityKept ==
  ASSUME ControlKept
  PROVE  OwnerNow' = OwnerNow /\ LeaseNow' = LeaseNow
BY DEF ControlKept, OwnerNow, LeaseNow

LEMMA TaskKept ==
  ASSUME IInv, TaskSettles
  PROVE  TaskHeld' = TaskHeld /\ (TaskHeld => taskLease' = taskLease)
BY TaskSettlesEffect DEF TaskHeld

LEMMA TeleopKept ==
  ASSUME IInv, TeleopSettles
  PROVE  TeleopHeld' = TeleopHeld /\ (TeleopHeld => teleopLease' = teleopLease)
BY TeleopSettlesEffect DEF TeleopHeld, teleopVars

LEMMA SettlesKeepControl ==
  ASSUME IInv, TaskSettles, TeleopSettles, UNCHANGED motionAge
  PROVE  ControlKept
BY TaskKept, TeleopKept DEF ControlKept, MotionHeld

(* Who is in control, and under which lease. *)
LEMMA OwnerNames ==
  ASSUME IInv
  PROVE  /\ TaskHeld <=> OwnerNow = "task"
         /\ TeleopHeld <=> OwnerNow = "teleop"
         /\ MotionHeld /\ ~TaskHeld /\ ~TeleopHeld <=> OwnerNow = "motion"
         /\ OwnerNow \in {"none", "motion", "teleop", "task"}
         /\ LeaseNow \in 0 .. issued
         /\ ~TaskHeld /\ ~TeleopHeld => LeaseNow = NoLease
         /\ issued \in Nat
BY DEF IInv, TypeOK, ControlInv, OwnerNow, LeaseNow, TaskHeld, TeleopHeld, MotionHeld

LEMMA Ranks ==
  /\ Authority!Rank["none"] = 0 /\ Authority!Rank["motion"] = 1
  /\ Authority!Rank["teleop"] = 2 /\ Authority!Rank["task"] = 3
BY DEF Authority!Rank, Authority!Source

(* The step of the authority behind each kind of step of the arbitrator. *)
Stutters == UNCHANGED <<OwnerNow, LeaseNow, estop, forwarded>>
Acquires(s) ==
  /\ ~estop /\ OwnerNow' = s /\ estop' = estop /\ forwarded' = forwarded
  /\ ~TaskHeld
  /\ s = "task" \/ (s = "teleop" /\ ~TeleopHeld)
  /\ LeaseNow' = issued + 1
Yields ==
  /\ OwnerNow # "none" /\ LeaseNow' = NoLease /\ estop' = estop
  /\ forwarded' = forwarded
  /\ OwnerNow' = "none" \/ (OwnerNow = "teleop" /\ OwnerNow' = "motion")
Executes(s) ==
  /\ ~estop /\ estop' = estop /\ OwnerNow' = s /\ LeaseNow' = LeaseNow
  /\ forwarded' = [source |-> s, lease |-> LeaseNow]
  /\ IF s = "motion" THEN OwnerNow \in {"none", "motion"} ELSE OwnerNow = s
Stops == estop' = TRUE /\ OwnerNow' = "none" /\ LeaseNow' = NoLease /\ forwarded' = forwarded
Clears == estop /\ estop' = FALSE /\ UNCHANGED <<OwnerNow, LeaseNow, forwarded>>

AuthorityStep ==
  \/ Stutters \/ Yields \/ Stops \/ Clears
  \/ \E s \in {"motion", "teleop", "task"} : Acquires(s) \/ Executes(s)

LEMMA AuthorityStepMaps ==
  ASSUME IInv, AuthorityStep PROVE [Authority!Next]_(Authority!vars)
<1> USE DEF Authority!Next, Authority!Source
<1>1. CASE Stutters
  BY <1>1 DEF Stutters, Authority!vars, LeaseNow
<1>2. CASE Yields
  <2>1. Authority!Yield
    BY <1>2 DEF Yields, Authority!Yield, LeaseNow
  <2> QED BY <2>1
<1>3. CASE Stops
  <2>1. Authority!Stop
    BY <1>3 DEF Stops, Authority!Stop, LeaseNow
  <2> QED BY <2>1
<1>4. CASE Clears
  <2>1. Authority!Clear
    BY <1>4 DEF Clears, Authority!Clear, LeaseNow
  <2> QED BY <2>1
<1>5. ASSUME NEW s \in {"motion", "teleop", "task"}, Acquires(s)
      PROVE  Authority!Next
  <2>1. LeaseNow \in 0 .. issued /\ issued \in Nat /\ LeaseNow' = issued + 1
        /\ s # "motion"
    BY <1>5, OwnerNames DEF Acquires
  <2>2. LeaseNow' \in (Nat \ {NoLease}) \ {LeaseNow}
    BY <2>1
  <2>3. Authority!Rank[s] > Authority!Rank[OwnerNow]
    BY <1>5, OwnerNames, Ranks DEF Acquires
  <2>4. Authority!Acquire(s)
    BY <1>5, <2>1, <2>2, <2>3 DEF Acquires, Authority!Acquire, LeaseNow
  <2> QED BY <2>4
<1>6. ASSUME NEW s \in {"motion", "teleop", "task"}, Executes(s)
      PROVE  Authority!Next
  <2>1. Authority!Execute(s)
    BY <1>6 DEF Executes, Authority!Execute, LeaseNow
  <2> QED BY <2>1
<1> QED BY <1>1, <1>2, <1>3, <1>4, <1>5, <1>6 DEF AuthorityStep

(* The steps of the arbitrator, by what they decide. *)
LEMMA TaskAuthority ==
  ASSUME IInv, TaskNext PROVE AuthorityStep
<1> USE DEF AuthorityStep
<1>1. ASSUME NEW i \in Identity, TaskStart(i) PROVE Acquires("task")
  <2>1. /\ ~estop /\ estop' = estop /\ forwarded' = forwarded /\ ~TaskHeld
        /\ taskAge' = 0 /\ taskLease' = issued + 1
    BY <1>1 DEF TaskStart, TaskControlVerdict, TaskAction
  <2>2. TaskHeld'
    BY <2>1 DEF TaskHeld
  <2> QED BY <2>1, <2>2 DEF Acquires, OwnerNow, LeaseNow
<1>2. ASSUME NEW a \in {"start", "keepalive"}, NEW i \in Identity, NEW l \in Presented,
             TaskRenew(a, i, l)
      PROVE  Stutters
  <2>1. /\ TaskHeld /\ taskAge' = 0 /\ TeleopSettles
        /\ UNCHANGED <<taskLease, motionAge, estop, forwarded>>
    BY <1>2 DEF TaskRenew
  <2>2. TaskHeld' = TaskHeld
    BY <2>1 DEF TaskHeld
  <2>3. ControlKept
    BY <2>1, <2>2, TeleopKept DEF ControlKept, MotionHeld
  <2> QED BY <2>1, <2>3, AuthorityKept DEF Stutters
<1>3. ASSUME NEW a \in {"finish", "cancel"}, NEW i \in Identity, NEW l \in Presented,
             TaskEnd(a, i, l)
      PROVE  Yields
  <2>1. TaskHeld
    BY <1>3 DEF TaskEnd, TaskControlVerdict, TaskAction
  <2>2. /\ taskAge' = NoTime /\ TeleopSettles
        /\ UNCHANGED <<motionAge, estop, forwarded>>
    BY <1>3 DEF TaskEnd
  <2>3. teleopAge = NoTime /\ motionAge = NoTime
    BY <2>1 DEF IInv, ControlInv, TaskHeld
  <2>4. ~TaskHeld' /\ ~TeleopHeld' /\ ~MotionHeld'
    BY <2>2, <2>3, TeleopKept DEF TaskHeld, TeleopHeld, MotionHeld
  <2> QED BY <2>1, <2>2, <2>4 DEF Yields, OwnerNow, LeaseNow
<1>4. ASSUME NEW a, NEW i, NEW r, TaskControlRefused(a, i, r) PROVE Stutters
  <2>1. /\ TaskSettles /\ TeleopSettles /\ UNCHANGED <<motionAge, estop, forwarded>>
    BY <1>4 DEF TaskControlRefused
  <2> QED BY <2>1, SettlesKeepControl, AuthorityKept DEF Stutters
<1>5. CASE \E i \in Identity : TaskStart(i)
  BY <1>1, <1>5
<1>6. CASE \E i \in Identity, l \in Presented, a \in {"start", "keepalive"} :
             TaskRenew(a, i, l)
  BY <1>2, <1>6
<1>7. CASE \E i \in Identity, l \in Presented, a \in {"finish", "cancel"} :
             TaskEnd(a, i, l)
  BY <1>3, <1>7
<1>8. CASE \E a, i, r : TaskControlRefused(a, i, r)
  BY <1>4, <1>8
<1> HIDE DEF AuthorityStep
<1> QED BY <1>5, <1>6, <1>7, <1>8 DEF TaskNext, TaskReject, TaskRejectPending

LEMMA TeleopAuthority ==
  ASSUME IInv, TeleopNext PROVE AuthorityStep
<1> USE DEF AuthorityStep
<1>1. ASSUME NEW r \in Requester \cup {NoName}, TeleopClaim(r)
      PROVE  Acquires("teleop") \/ Stutters
  <2>1. /\ ~estop /\ ~TaskHeld /\ teleopAge' = 0 /\ TaskSettles
        /\ UNCHANGED <<motionAge, estop, forwarded>>
    BY <1>1 DEF TeleopClaim
  <2>2. ~TaskHeld' /\ TeleopHeld'
    BY <2>1, TaskKept DEF TeleopHeld
  <2>3. CASE TeleopHeld
    <3>1. teleopLease # NoLease
      BY <2>3 DEF IInv, ControlInv, TypeOK, TeleopHeld
    <3>2. teleopLease' = teleopLease
      BY <1>1, <2>3, <3>1 DEF TeleopClaim
    <3> QED BY <2>1, <2>2, <2>3, <3>2 DEF Stutters, OwnerNow, LeaseNow
  <2>4. CASE ~TeleopHeld
    <3>1. teleopLease' = issued + 1
      BY <1>1, <2>4 DEF TeleopClaim
    <3> QED BY <2>1, <2>2, <2>4, <3>1 DEF Acquires, OwnerNow, LeaseNow
  <2> QED BY <2>3, <2>4
<1>2. ASSUME NEW r \in Requester \cup {NoName}, NEW l \in Presented,
             TeleopKeepalive(r, l)
      PROVE  Stutters
  <2>1. /\ TeleopHeld /\ teleopAge' = 0 /\ TaskSettles
        /\ UNCHANGED <<teleopLease, motionAge, estop, forwarded>>
    BY <1>2 DEF TeleopKeepalive, TeleopPermitted
  <2>2. TeleopHeld' = TeleopHeld
    BY <2>1 DEF TeleopHeld
  <2>3. ControlKept
    BY <2>1, <2>2, TaskKept DEF ControlKept, MotionHeld
  <2> QED BY <2>1, <2>3, AuthorityKept DEF Stutters
<1>3. ASSUME NEW r \in Requester \cup {NoName}, NEW l \in Presented,
             TeleopRelease(r, l)
      PROVE  Yields
  <2>1. /\ TeleopHeld /\ teleopAge' = NoTime /\ TaskSettles
        /\ UNCHANGED <<motionAge, estop, forwarded>>
    BY <1>3 DEF TeleopRelease, TeleopPermitted, TeleopCleared
  <2>2. ~TaskHeld /\ ~TeleopHeld'
    BY <2>1 DEF IInv, ControlInv, TypeOK, TaskHeld, TeleopHeld
  <2>3. ~TaskHeld'
    BY <2>1, <2>2, TaskKept
  <2> QED BY <2>1, <2>2, <2>3 DEF Yields, OwnerNow, LeaseNow
<1> QED BY <1>1, <1>2, <1>3 DEF TeleopNext

LEMMA CommandAuthority ==
  ASSUME IInv, CommandNext PROVE AuthorityStep
<1> USE DEF AuthorityStep
<1>1. ASSUME NEW s \in {"task", "teleop"}, NEW l \in Presented, HeldCommand(s, l),
             OwnerNow = s, LeaseNow = l
      PROVE  Executes(s)
  <2>1. /\ ~estop /\ TaskSettles /\ TeleopSettles /\ UNCHANGED <<motionAge, estop>>
        /\ forwarded' = [source |-> s, lease |-> l]
    BY <1>1 DEF HeldCommand, Forward
  <2>2. OwnerNow' = OwnerNow /\ LeaseNow' = LeaseNow
    BY <2>1, SettlesKeepControl, AuthorityKept
  <2> QED BY <1>1, <2>1, <2>2 DEF Executes
<1>2. ASSUME NEW t, NEW l \in Presented, TaskCommand(t, l) PROVE Executes("task")
  BY <1>1, <1>2 DEF TaskCommand, OwnerNow, LeaseNow
<1>3. ASSUME NEW r, NEW l \in Presented, TeleopCommand(r, l) PROVE Executes("teleop")
  BY <1>1, <1>3 DEF TeleopCommand, OwnerNow, LeaseNow
<1>4. CASE MotionCommand
  <2>1. /\ ~estop /\ estop' = estop /\ ~TaskHeld /\ ~TeleopHeld /\ motionAge' = 0
        /\ TaskSettles /\ TeleopSettles
        /\ forwarded' = [source |-> "motion", lease |-> NoLease]
    BY <1>4 DEF MotionCommand, Forward
  <2>2. ~TaskHeld' /\ ~TeleopHeld' /\ MotionHeld'
    BY <2>1, TaskKept, TeleopKept DEF MotionHeld
  <2>3. OwnerNow \in {"none", "motion"} /\ OwnerNow' = "motion"
        /\ LeaseNow = NoLease /\ LeaseNow' = NoLease
    BY <2>1, <2>2 DEF OwnerNow, LeaseNow
  <2>4. Executes("motion")
    BY <2>1, <2>3 DEF Executes
  <2> QED BY <2>4
<1> QED BY <1>2, <1>3, <1>4 DEF CommandNext

LEMMA OtherAuthority ==
  ASSUME IInv,
         (\E r \in StopReason : SetEstop(r)) \/ ClearEstop \/ Refresh \/ Tick
  PROVE  AuthorityStep
<1> USE DEF AuthorityStep
<1>1. ASSUME NEW r \in StopReason, SetEstop(r) PROVE Stops
  <2>1. /\ estop' = TRUE /\ taskAge' = NoTime /\ teleopAge' = NoTime
        /\ motionAge' = NoTime /\ forwarded' = forwarded
    BY <1>1 DEF SetEstop, TeleopCleared
  <2>2. ~TaskHeld' /\ ~TeleopHeld' /\ ~MotionHeld'
    BY <2>1 DEF TaskHeld, TeleopHeld, MotionHeld
  <2>3. OwnerNow' = "none" /\ LeaseNow' = NoLease
    BY <2>2 DEF OwnerNow, LeaseNow
  <2> QED BY <2>1, <2>3, Zenon DEF Stops
<1>2. CASE ClearEstop
  <2>1. /\ estop' = FALSE /\ TaskSettles /\ TeleopSettles
        /\ UNCHANGED <<motionAge, forwarded>>
    BY <1>2 DEF ClearEstop
  <2>2. OwnerNow' = OwnerNow /\ LeaseNow' = LeaseNow
    BY <2>1, SettlesKeepControl, AuthorityKept
  <2>3. estop \in BOOLEAN
    BY DEF IInv, TypeOK
  <2>4. estop \/ estop = FALSE
    BY <2>3, Zenon
  <2>5. forwarded' = forwarded
    BY <2>1
  <2>6. CASE estop
    BY <2>1, <2>2, <2>5, <2>6, Zenon DEF Clears
  <2>7. CASE estop = FALSE
    <3>1. estop' = estop
      BY <2>1, <2>7, Zenon
    <3> QED BY <2>2, <2>5, <3>1 DEF Stutters
  <2> QED BY <2>4, <2>6, <2>7
<1>3. CASE Refresh
  BY <1>3, SettlesKeepControl, AuthorityKept DEF Refresh, Stutters
<1>4. CASE Tick
  <2>1. /\ taskAge' = Older(taskAge, TaskTimeout)
        /\ teleopAge' = Older(teleopAge, TeleopTimeout)
        /\ motionAge' = Older(motionAge, MotionTimeout)
        /\ UNCHANGED <<taskLease, teleopLease, estop, forwarded>>
    BY <1>4 DEF Tick
  <2>2. /\ taskAge \in Age(TaskTimeout) /\ teleopAge \in Age(TeleopTimeout)
        /\ motionAge \in Age(MotionTimeout)
    BY DEF IInv, TypeOK
  <2>3. /\ TaskHeld' => TaskHeld
        /\ TeleopHeld' => TeleopHeld
        /\ MotionHeld' => MotionHeld
    BY <2>1, <2>2 DEF Older, TaskHeld, TeleopHeld, MotionHeld
  <2>4. TaskHeld => ~TeleopHeld /\ ~MotionHeld
    BY DEF IInv, ControlInv, TaskHeld, TeleopHeld, MotionHeld
  <2>5. CASE ControlKept
    BY <2>1, <2>5, AuthorityKept DEF Stutters
  <2>6. CASE TaskHeld /\ ~TaskHeld'
    BY <2>1, <2>3, <2>4, <2>6 DEF Yields, OwnerNow, LeaseNow
  <2>7. CASE ~TaskHeld /\ TeleopHeld /\ ~TeleopHeld'
    BY <2>1, <2>3, <2>7 DEF Yields, OwnerNow, LeaseNow
  <2>8. CASE TeleopHeld' /\ ~TaskHeld /\ ~MotionHeld'
    BY <2>1, <2>3, <2>8 DEF Stutters, OwnerNow, LeaseNow
  <2>9. CASE ~TaskHeld /\ ~TeleopHeld /\ MotionHeld /\ ~MotionHeld'
    BY <2>1, <2>3, <2>9 DEF Yields, OwnerNow, LeaseNow
  <2>10. \/ ControlKept
         \/ TaskHeld /\ ~TaskHeld'
         \/ ~TaskHeld /\ TeleopHeld /\ ~TeleopHeld'
         \/ TeleopHeld' /\ ~TaskHeld /\ ~MotionHeld'
         \/ ~TaskHeld /\ ~TeleopHeld /\ MotionHeld /\ ~MotionHeld'
    <3>1. /\ TaskHeld \in BOOLEAN /\ TaskHeld' \in BOOLEAN
          /\ TeleopHeld \in BOOLEAN /\ TeleopHeld' \in BOOLEAN
          /\ MotionHeld \in BOOLEAN /\ MotionHeld' \in BOOLEAN
      BY DEF TaskHeld, TeleopHeld, MotionHeld
    <3> QED BY <2>1, <2>3, <2>4, <3>1 DEF ControlKept
  <2> QED BY <2>5, <2>6, <2>7, <2>8, <2>9, <2>10
<1> QED BY <1>1, <1>2, <1>3, <1>4

(* Whatever the arbitrator does is a step of the authority it promises: at *)
(* any time one source owns the actuators, commands pass only under the    *)
(* lease of the owner, and an estop leaves nobody in control.              *)
THEOREM AuthorityImplemented == Spec => ImplementsAuthority
<1>1. Init => Authority!Init
  <2> SUFFICES ASSUME Init PROVE Authority!Init
    OBVIOUS
  <2>1. /\ taskAge = NoTime /\ teleopAge = NoTime /\ motionAge = NoTime
        /\ estop = FALSE /\ forwarded = [source |-> "none", lease |-> NoLease]
    BY DEF Init
  <2>2. ~TaskHeld /\ ~TeleopHeld /\ ~MotionHeld
    BY <2>1 DEF TaskHeld, TeleopHeld, MotionHeld
  <2> QED BY <2>1, <2>2, Zenon DEF Authority!Init, OwnerNow
<1>2. IInv /\ [Next]_vars => [Authority!Next]_(Authority!vars)
  <2> SUFFICES ASSUME IInv, [Next]_vars PROVE [Authority!Next]_(Authority!vars)
    OBVIOUS
  <2>1. CASE Next
    BY <2>1, TaskAuthority, TeleopAuthority, CommandAuthority, OtherAuthority,
       AuthorityStepMaps
    DEF Next
  <2>2. CASE UNCHANGED vars
    <3>1. Stutters
      BY <2>2 DEF vars, taskVars, teleopVars, Stutters, OwnerNow, LeaseNow, TaskHeld,
                  TeleopHeld, MotionHeld
    <3> QED BY <3>1, AuthorityStepMaps DEF AuthorityStep
  <2> QED BY <2>1, <2>2
<1> QED
  BY <1>1, <1>2, Invariance, PTL DEF Spec, ImplementsAuthority, Authority!Spec
=============================================================================
