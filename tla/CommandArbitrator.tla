-------------------------- MODULE CommandArbitrator --------------------------
(***************************************************************************)
(* execution_manager/arbitrator.py: the arbitration of task, teleop and    *)
(* motion commands.                                                        *)
(*                                                                         *)
(* Every public method of the Python class is one or several actions: it   *)
(* first drops what has expired (_refresh_mode), then decides, then        *)
(* refreshes again.  A `last_..._time` is modelled by the time elapsed     *)
(* since it, an age that Tick advances and that saturates one unit past    *)
(* its timeout; NoTime stands for None.  A task identity (task, trace and  *)
(* session id) is one value, a uuid lease the next number of a counter.    *)
(***************************************************************************)
EXTENDS Integers, Sequences, FiniteSets

CONSTANTS
  Identity,        \* complete task identities, and ...
  Incomplete,      \* ... a request lacking one of the three ids
  NoIdentity,      \* the three empty fields before the first start
  TaskName,        \* task ids, and ...
  TaskOf,          \* ... the one of each identity
  Requester,       \* teleop requester ids
  NoName,          \* an empty id
  StopReason,      \* reasons an estop is latched with
  TaskTimeout, TeleopTimeout, MotionTimeout,
  TombstoneLimit,  \* task_tombstone_limit
  MaxLeases        \* bound on the leases issued; not in the code

ASSUME NamesAssumption ==
  /\ Identity # {}
  /\ NoIdentity \notin Identity
  /\ Incomplete \notin Identity
  /\ TaskOf \in [Identity -> TaskName]
  /\ NoName \notin Requester \cup TaskName

ASSUME BoundsAssumption ==
  /\ TaskTimeout \in Nat
  /\ TeleopTimeout \in Nat
  /\ MotionTimeout \in Nat
  /\ TombstoneLimit \in Nat \ {0}
  /\ MaxLeases \in Nat

NoTime  == -1
NoLease == 0
Age(timeout) == NoTime .. timeout + 1

VARIABLES
  taskIdent, taskLease, taskAge,
  tombs,           \* the deque and the set of ended task identities
  teleopHolder, teleopLease, teleopAge,
  motionAge,
  estop, estopReason,
  lastControl,     \* last_task_control_*
  mode,            \* the cached mode; active_source is a function of it
  issued,          \* leases drawn so far
  forwarded,       \* source and lease of the last command sent to the drivers
  since            \* history: task ends since each identity's own, capped

taskVars   == <<taskIdent, taskLease, taskAge>>
teleopVars == <<teleopHolder, teleopLease, teleopAge>>
vars == <<taskVars, tombs, teleopVars, motionAge, estop, estopReason,
          lastControl, mode, issued, forwarded, since>>

-----------------------------------------------------------------------------
(* Who is in control: the three _is_..._active tests. *)

TaskHeld   == taskAge \in 0 .. TaskTimeout
TeleopHeld == teleopAge \in 0 .. TeleopTimeout
MotionHeld == motionAge \in 0 .. MotionTimeout

TaskExpired   == taskAge > TaskTimeout
TeleopExpired == teleopAge > TeleopTimeout

ModeOf(stop, task, teleop, motion) ==
  IF stop THEN "estop"
  ELSE IF task THEN "task_active"
  ELSE IF teleop THEN "teleop_active"
  ELSE IF motion THEN "motion_active" ELSE "idle"

(* The closing _refresh_mode of every method. *)
ModeRefreshed == mode' = ModeOf(estop', TaskHeld', TeleopHeld', MotionHeld')

-----------------------------------------------------------------------------
(* Terminal identities: a bounded deque with a set beside it. *)

(* Mutant: the deque drops its head one entry too early. *)
Remember_EvictsEarly(ts, i) ==
  IF i \notin Identity \/ i \in ts.members THEN ts
  ELSE LET full == Len(ts.order) + 1 >= TombstoneLimit /\ ts.order # << >>
       IN [order   |-> Append(IF full THEN Tail(ts.order) ELSE ts.order, i),
           members |-> (IF full THEN ts.members \ {Head(ts.order)}
                                ELSE ts.members) \cup {i}]

Remember(ts, i) ==
  IF i \notin Identity \/ i \in ts.members THEN ts
  ELSE LET full == Len(ts.order) >= TombstoneLimit
       IN [order   |-> Append(IF full THEN Tail(ts.order) ELSE ts.order, i),
           members |-> (IF full THEN ts.members \ {Head(ts.order)}
                                ELSE ts.members) \cup {i}]

Never == -1
EndNoted(i) ==
  [j \in Identity |-> IF j = i THEN 0
                      ELSE IF since[j] \in 0 .. TombstoneLimit - 1
                           THEN since[j] + 1 ELSE since[j]]

Control(a, i, acc, r) ==
  [action |-> a, ident |-> i, accepted |-> acc, reason |-> r]

(* The current task, if there is one, ends and is remembered. *)
TaskForgotten(ends) ==
  /\ tombs' = IF ends THEN Remember(tombs, taskIdent) ELSE tombs
  /\ since' = IF ends /\ taskIdent \in Identity THEN EndNoted(taskIdent)
              ELSE since

(* _clear_expired_task_control: what every method does before it decides.  *)
TombsNow == IF TaskExpired THEN Remember(tombs, taskIdent) ELSE tombs
ControlNow ==
  IF TaskExpired THEN Control("timeout", taskIdent, FALSE, "task_lease_expired")
  ELSE lastControl

(* Mutant: an expired lease is dropped without remembering its task. *)
TaskSettles_Forgets ==
  /\ taskAge' = IF TaskExpired THEN NoTime ELSE taskAge
  /\ taskLease' = IF TaskExpired THEN NoLease ELSE taskLease
  /\ UNCHANGED <<taskIdent, tombs, since>>

TaskSettles ==
  /\ taskAge' = IF TaskExpired THEN NoTime ELSE taskAge
  /\ taskLease' = IF TaskExpired THEN NoLease ELSE taskLease
  /\ TaskForgotten(TaskExpired)
  /\ UNCHANGED taskIdent

(* Mutant: holder and lease are cleared, the time of the lease is not. *)
TeleopCleared_KeepsTime ==
  /\ teleopLease' = NoLease
  /\ teleopHolder' = NoName
  /\ UNCHANGED teleopAge

TeleopCleared ==
  /\ teleopAge' = NoTime
  /\ teleopLease' = NoLease
  /\ teleopHolder' = NoName

TeleopSettles == IF TeleopExpired THEN TeleopCleared ELSE UNCHANGED teleopVars

(* A method that decides nothing new: tick, snapshot,                      *)
(* validate_task_operation, reject_command and every rejected command.     *)
Refresh ==
  /\ TaskSettles
  /\ TeleopSettles
  /\ lastControl' = ControlNow
  /\ UNCHANGED <<motionAge, estop, estopReason, issued, forwarded>>
  /\ ModeRefreshed
-----------------------------------------------------------------------------
(* receive_task_control *)

TaskAction == {"start", "keepalive", "finish", "cancel"}

(* Why an action is refused; "accepted" if it is not. *)
TaskControlVerdict(a, i, l) ==
  IF a \notin TaskAction THEN "unsupported_task_control_action"
  ELSE IF i \notin Identity THEN "task_id_required"
  ELSE IF estop THEN "estop"
  ELSE IF ~TaskHeld THEN
    IF a # "start" THEN "task_control_not_granted"
    ELSE IF i \in TombsNow.members THEN "task_control_replay" ELSE "accepted"
  ELSE IF i # taskIdent THEN "task_control_held_by_other_task"
  ELSE IF l = NoLease THEN "task_lease_required"
  ELSE IF l # taskLease THEN "task_lease_mismatch" ELSE "accepted"

TaskStart(i) ==
  /\ ~TaskHeld
  /\ TaskControlVerdict("start", i, NoLease) = "accepted"
  /\ issued < MaxLeases
  /\ taskIdent' = i
  /\ issued' = issued + 1
  /\ taskLease' = issued + 1
  /\ taskAge' = 0
  /\ TaskForgotten(TaskExpired)
  /\ TeleopCleared
  /\ motionAge' = NoTime
  /\ lastControl' = Control("start", i, TRUE, "accepted")
  /\ UNCHANGED <<estop, estopReason, forwarded>>
  /\ ModeRefreshed

(* start and keepalive by the holder *)
TaskRenew(a, i, l) ==
  /\ TaskHeld
  /\ TaskControlVerdict(a, i, l) = "accepted"
  /\ taskAge' = 0
  /\ TeleopSettles
  /\ lastControl' = Control(a, i, TRUE, "accepted")
  /\ UNCHANGED <<taskIdent, taskLease, tombs, since, motionAge, estop,
                 estopReason, issued, forwarded>>
  /\ ModeRefreshed

(* finish and cancel *)
TaskEnd(a, i, l) ==
  /\ TaskControlVerdict(a, i, l) = "accepted"
  /\ TaskForgotten(TRUE)
  /\ taskLease' = NoLease
  /\ taskAge' = NoTime
  /\ TeleopSettles
  /\ lastControl' = Control(a, i, TRUE, "accepted")
  /\ UNCHANGED <<taskIdent, motionAge, estop, estopReason, issued, forwarded>>
  /\ ModeRefreshed

TaskControlRefused(a, i, r) ==
  /\ TaskSettles
  /\ TeleopSettles
  /\ lastControl' = Control(a, i, FALSE, r)
  /\ UNCHANGED <<motionAge, estop, estopReason, issued, forwarded>>
  /\ ModeRefreshed

TaskReject(a, i, l) ==
  /\ TaskControlVerdict(a, i, l) # "accepted"
  /\ TaskControlRefused(a, i, TaskControlVerdict(a, i, l))

(* reject_task_control: the node refuses a start while a stop is pending. *)
TaskRejectPending(i) == TaskControlRefused("start", i, "task_stop_pending")
-----------------------------------------------------------------------------
(* receive_teleop_control *)

TeleopClaim(r) ==
  /\ ~estop
  /\ ~TaskHeld
  /\ TeleopHeld => r = teleopHolder
  /\ LET kept == TeleopHeld /\ teleopLease # NoLease
     IN /\ kept \/ issued < MaxLeases
        /\ issued' = IF kept THEN issued ELSE issued + 1
        /\ teleopLease' = IF kept THEN teleopLease ELSE issued + 1
  /\ teleopHolder' = r
  /\ teleopAge' = 0
  /\ TaskSettles
  /\ lastControl' = ControlNow
  /\ UNCHANGED <<motionAge, estop, estopReason, forwarded>>
  /\ ModeRefreshed

(* Mutant: a keepalive is not checked against the expiry of the lease. *)
TeleopPermitted_Late(r, l) ==
  /\ teleopAge # NoTime
  /\ r = teleopHolder
  /\ l \in {NoLease, teleopLease}

(* keepalive and release; the empty lease is let through *)
TeleopPermitted(r, l) ==
  /\ TeleopHeld
  /\ r = teleopHolder
  /\ l \in {NoLease, teleopLease}

TeleopKeepalive(r, l) ==
  /\ TeleopPermitted(r, l)
  /\ teleopAge' = 0
  /\ UNCHANGED <<teleopHolder, teleopLease>>
  /\ TaskSettles
  /\ lastControl' = ControlNow
  /\ UNCHANGED <<motionAge, estop, estopReason, issued, forwarded>>
  /\ ModeRefreshed

TeleopRelease(r, l) ==
  /\ TeleopPermitted(r, l)
  /\ TeleopCleared
  /\ TaskSettles
  /\ lastControl' = ControlNow
  /\ UNCHANGED <<motionAge, estop, estopReason, issued, forwarded>>
  /\ ModeRefreshed
-----------------------------------------------------------------------------
(* receive_command *)

Forward(s, l) == forwarded' = [source |-> s, lease |-> l]

(* A task or teleop command changes nothing but what it lets through. *)
HeldCommand(s, l) ==
  /\ ~estop
  /\ Forward(s, l)
  /\ TaskSettles
  /\ TeleopSettles
  /\ lastControl' = ControlNow
  /\ UNCHANGED <<motionAge, estop, estopReason, issued>>
  /\ ModeRefreshed

(* Mutant: a task command only has to name the task. *)
TaskCommand_AnyLease(t, l) ==
  /\ TaskHeld
  /\ t # NoName
  /\ t = TaskOf[taskIdent]
  /\ HeldCommand("task", l)

TaskCommand(t, l) ==
  /\ TaskHeld
  /\ t # NoName
  /\ t = TaskOf[taskIdent]
  /\ l # NoLease
  /\ l = taskLease
  /\ HeldCommand("task", l)

TeleopCommand(r, l) ==
  /\ ~TaskHeld
  /\ TeleopHeld
  /\ r # NoName
  /\ r = teleopHolder
  /\ l = teleopLease
  /\ HeldCommand("teleop", l)

MotionCommand ==
  /\ ~estop
  /\ ~TaskHeld
  /\ ~TeleopHeld
  /\ motionAge' = 0
  /\ Forward("motion", NoLease)
  /\ TaskSettles
  /\ TeleopSettles
  /\ lastControl' = ControlNow
  /\ UNCHANGED <<estop, estopReason, issued>>
  /\ ModeRefreshed
-----------------------------------------------------------------------------
(* set_estop *)

SetEstop(r) ==
  /\ estop' = TRUE
  /\ estopReason' = r
  /\ TaskForgotten(TaskHeld \/ TaskExpired)
  /\ lastControl' = IF TaskHeld THEN Control("estop", taskIdent, FALSE, "estop")
                    ELSE ControlNow
  /\ taskLease' = NoLease
  /\ taskAge' = NoTime
  /\ TeleopCleared
  /\ motionAge' = NoTime
  /\ UNCHANGED <<taskIdent, issued, forwarded>>
  /\ ModeRefreshed

ClearEstop ==
  /\ estop' = FALSE
  /\ TaskSettles
  /\ TeleopSettles
  /\ lastControl' = ControlNow
  /\ UNCHANGED <<estopReason, motionAge, issued, forwarded>>
  /\ ModeRefreshed

(* One unit of time passes between two calls. *)
Older(age, timeout) ==
  IF age \in 0 .. timeout THEN age + 1 ELSE age

Tick ==
  /\ taskAge' = Older(taskAge, TaskTimeout)
  /\ teleopAge' = Older(teleopAge, TeleopTimeout)
  /\ motionAge' = Older(motionAge, MotionTimeout)
  /\ UNCHANGED <<taskIdent, taskLease, tombs, teleopHolder, teleopLease, estop,
                 estopReason, lastControl, mode, issued, forwarded, since>>
-----------------------------------------------------------------------------
Init ==
  /\ taskIdent = NoIdentity
  /\ taskLease = NoLease
  /\ taskAge = NoTime
  /\ tombs = [order |-> << >>, members |-> {}]
  /\ teleopHolder = NoName
  /\ teleopLease = NoLease
  /\ teleopAge = NoTime
  /\ motionAge = NoTime
  /\ estop = FALSE
  /\ estopReason = ""
  /\ lastControl = Control("", NoIdentity, FALSE, "")
  /\ mode = "idle"
  /\ issued = 0
  /\ forwarded = [source |-> "none", lease |-> NoLease]
  /\ since = [i \in Identity |-> Never]

(* Clients may present any lease issued so far, or none. *)
Presented == NoLease .. issued

TaskNext ==
  \/ \E i \in Identity : TaskStart(i) \/ TaskRejectPending(i)
  \/ \E i \in Identity, l \in Presented :
       \/ \E a \in {"start", "keepalive"} : TaskRenew(a, i, l)
       \/ \E a \in {"finish", "cancel"} : TaskEnd(a, i, l)
  \/ \E a \in TaskAction \cup {"unsupported"}, i \in Identity \cup {Incomplete},
        l \in Presented : TaskReject(a, i, l)

TeleopNext ==
  \/ \E r \in Requester \cup {NoName} : TeleopClaim(r)
  \/ \E r \in Requester \cup {NoName}, l \in Presented :
       TeleopKeepalive(r, l) \/ TeleopRelease(r, l)

CommandNext ==
  \/ \E t \in TaskName \cup {NoName}, l \in Presented : TaskCommand(t, l)
  \/ \E r \in Requester \cup {NoName}, l \in Presented : TeleopCommand(r, l)
  \/ MotionCommand

Next ==
  \/ TaskNext
  \/ TeleopNext
  \/ CommandNext
  \/ \E r \in StopReason : SetEstop(r)
  \/ ClearEstop
  \/ Refresh
  \/ Tick

Spec == Init /\ [][Next]_vars

(* The state timer of the node refreshes the arbitrator every 0.2 s. *)
FairSpec == Spec /\ WF_vars(Refresh)
-----------------------------------------------------------------------------
(* What the rest of the system reads off the arbitrator. *)

(* _task_status *)
TaskStatus ==
  IF estop THEN "blocked"
  ELSE IF TaskHeld THEN "active"
  ELSE IF lastControl.accepted /\ lastControl.action = "finish" THEN "finished"
  ELSE IF lastControl.accepted /\ lastControl.action = "cancel" THEN "cancelled"
  ELSE IF lastControl.action = "timeout" THEN "expired"
  ELSE IF lastControl.action = "estop" THEN "blocked"
  ELSE IF lastControl.reason # "" /\ ~lastControl.accepted THEN "rejected"
  ELSE "idle"

-----------------------------------------------------------------------------
(* Properties. *)

(* Every variable stays in its range; ages saturate past their timeout. *)
TypeOK ==
  /\ taskIdent \in Identity \cup {NoIdentity}
  /\ taskLease \in Nat
  /\ taskAge \in Age(TaskTimeout)
  /\ tombs \in [order : Seq(Identity), members : SUBSET Identity]
  /\ teleopHolder \in Requester \cup {NoName}
  /\ teleopLease \in Nat
  /\ teleopAge \in Age(TeleopTimeout)
  /\ motionAge \in Age(MotionTimeout)
  /\ estop \in BOOLEAN
  /\ mode \in {"estop", "task_active", "teleop_active", "motion_active", "idle"}
  /\ issued \in Nat
  /\ forwarded \in [source : {"none", "motion", "teleop", "task"}, lease : Nat]
  /\ since \in [Identity -> Never .. TombstoneLimit]

(* A task in control shares it with nobody: its start revoked the teleop   *)
(* lease and wiped the motion window, and neither came back since.         *)
TaskExcludesOthers == TaskHeld => ~TeleopHeld /\ ~MotionHeld

(* While the emergency stop is on nobody holds a lease or a window, so     *)
(* none is found there when it is released.                                *)
EstopHoldsNothing == estop => ~TaskHeld /\ ~TeleopHeld /\ ~MotionHeld

(* A task that ended is not in control again before TombstoneLimit task    *)
(* ends were recorded after its own: a delayed start cannot replay it.     *)
NoEarlyReplay ==
  \A i \in Identity :
    since[i] \in 0 .. TombstoneLimit - 1 => ~(TaskHeld /\ taskIdent = i)

(* The cached mode may be late in noticing an expiry, but it never hides   *)
(* whoever is in control from a reader of /execution/state.                *)
ModeNeverUnderstates ==
  /\ estop <=> mode = "estop"
  /\ TaskHeld => mode = "task_active"
  /\ TeleopHeld => mode = "teleop_active"

(* Control that had ended, or that passes to another teleop requester, is  *)
(* only ever gained with a lease nobody was given before: a keepalive that *)
(* arrives late revives nothing.                                           *)
RegainNeedsFreshLease ==
  [][/\ TaskHeld' /\ ~TaskHeld => taskLease' > issued
     /\ TeleopHeld' /\ (~TeleopHeld \/ teleopHolder' # teleopHolder)
          => teleopLease' > issued]_vars

(* A lease that ran out is recorded as a terminal identity even if no      *)
(* client ever speaks again.                                               *)
ExpiryNoticed ==
  \A i \in Identity : TaskExpired /\ taskIdent = i ~> i \in tombs.members

(* The arbitrator implements the authority it promises. *)
OwnerNow ==
  IF TaskHeld THEN "task" ELSE IF TeleopHeld THEN "teleop"
  ELSE IF MotionHeld THEN "motion" ELSE "none"
Authority == INSTANCE ExecutionAuthority WITH
  owner    <- OwnerNow,
  lease    <- IF TaskHeld THEN taskLease
              ELSE IF TeleopHeld THEN teleopLease ELSE NoLease,
  stopped  <- estop,
  executed <- forwarded,
  Lease    <- Nat \ {NoLease},
  None     <- [source |-> "none", lease |-> NoLease]
ImplementsAuthority == Authority!Spec

=============================================================================
