------------------------------ MODULE TaskMotion ------------------------------
(***************************************************************************)
(* The motion action of parallel_3dof_controller (controller_node.py,      *)
(* motion_execution.py) against the arbitrator of the execution manager.   *)
(* A goal asks for the task lease on /execution/task/control, learns from  *)
(* /execution/task/state whether it has it, commits its commands, keeps    *)
(* the lease alive and gives it back.  Both topics keep their order; the   *)
(* command topic is a third channel, ordered with neither.                 *)
(*                                                                         *)
(* The goals of one node share a slot.  A goal that ends without knowing   *)
(* what became of its lease leaves a cleanup behind, which cancels the     *)
(* lease as soon as a state shows it and holds back new goals until then.  *)
(* Teleop and motion commands take no part here.                           *)
(***************************************************************************)
EXTENDS CommandArbitrator

CONSTANTS
  MayRetry,   \* clients ask again for a goal under the ids of an earlier one
  MaxGoals,   \* bound on the goals asked for; not in the code
  MaxQueue    \* bound on what the timers add to a topic; not in the code

ASSUME MotionAssumption ==
  MayRetry \in BOOLEAN /\ MaxGoals \in Nat /\ MaxQueue \in Nat

VARIABLES
  control,    \* task control messages on their way
  states,     \* task states on their way
  commands,   \* command batches on their way
  view,       \* _latest_task_state
  fresh,      \* a state came since the goal last noted the sequence number
  goal,       \* the goal in the slot
  admitting,  \* goals between the test of the cleanups and that of the slot
  cleanup,    \* _pending_start_cleanups, and whether the cancel was sent
  asked,      \* the identities asked for so far, in order
  released    \* history: the leases reported as released

arbitrator == vars
topics     == <<control, states, commands>>
controller == <<view, fresh, goal, admitting, cleanup, asked, released>>
motionVars == <<arbitrator, topics, controller>>

(* The TaskExecutionState message of _publish_state. *)
TaskState ==
  [ident |-> taskIdent, active |-> TaskHeld,
   lease |-> IF TaskHeld THEN taskLease ELSE NoLease,
   status |-> TaskStatus,
   last |-> [action |-> lastControl.action, ident |-> lastControl.ident,
             accepted |-> lastControl.accepted]]

NoGoal == [pc |-> "idle", ident |-> NoIdentity, lease |-> NoLease, action |-> ""]

MotionInit ==
  /\ Init
  /\ control = << >> /\ states = << >> /\ commands = {}
  /\ view = TaskState       \* _task_admission_ready: one has been received
  /\ fresh = FALSE
  /\ goal = NoGoal
  /\ admitting = {}
  /\ cleanup = [i \in Identity |-> "none"]
  /\ asked = << >>
  /\ released = {}
-----------------------------------------------------------------------------
(* What a task state says about a goal: motion_execution.py. *)

ActiveLease(s, i) == IF s.ident = i /\ s.active THEN s.lease ELSE NoLease

(* terminal_task_status; "" if there is none *)
TerminalStatus(s, i) ==
  IF /\ s.ident = i
     /\ ~s.active
     /\ s.lease = NoLease
     /\ s.status \in {"finished", "cancelled", "expired", "blocked"}
  THEN s.status ELSE ""

StartRejected(s, i) ==
  /\ s.last.action = "start"
  /\ s.last.ident = i
  /\ ~s.last.accepted

StartAccepted(s, i) ==
  /\ s.last.action = "start"
  /\ s.last.ident = i
  /\ s.last.accepted
  /\ ActiveLease(s, i) # NoLease
-----------------------------------------------------------------------------
(* The execution manager. *)

Message(a, i, l) == [action |-> a, ident |-> i, lease |-> l]

PublishState == states' = Append(states, TaskState')

(* _handle_task_control *)
HandleControl ==
  /\ control # << >>
  /\ Len(states) <= MaxQueue
  /\ LET m == Head(control) IN
     \/ m.action = "start" /\ (TaskStart(m.ident) \/ TaskRejectPending(m.ident))
     \/ m.action \in {"start", "keepalive"} /\ TaskRenew(m.action, m.ident, m.lease)
     \/ m.action \in {"finish", "cancel"} /\ TaskEnd(m.action, m.ident, m.lease)
     \/ TaskReject(m.action, m.ident, m.lease)
  /\ control' = Tail(control)
  /\ PublishState
  /\ UNCHANGED <<commands, controller>>

(* _handle_command: refused, too, while a stop is pending *)
HandleCommand ==
  \E c \in commands :
    /\ Len(states) <= MaxQueue
    /\ TaskCommand(TaskOf[c.ident], c.lease) \/ Refresh
    /\ commands' = commands \ {c}
    /\ PublishState
    /\ UNCHANGED <<control, controller>>

(* state_timer *)
StateTimer ==
  /\ Len(states) < MaxQueue
  /\ Refresh
  /\ PublishState
  /\ UNCHANGED <<control, commands, controller>>

(* _handle_estop, or a stop that failed *)
EstopChanges ==
  /\ Len(states) < MaxQueue
  /\ ClearEstop \/ \E r \in StopReason : SetEstop(r)
  /\ PublishState
  /\ UNCHANGED <<control, commands, controller>>

Passes == Tick /\ UNCHANGED <<topics, controller>>
-----------------------------------------------------------------------------
(* Goals come in: _motion_goal_callback. *)

AskGoal(i) ==
  /\ Len(asked) < MaxGoals
  /\ MayRetry \/ \A k \in 1 .. Len(asked) : asked[k] # i
  /\ asked' = Append(asked, i)
  /\ admitting' = IF \A j \in Identity : cleanup[j] = "none"
                  THEN admitting \cup {i} ELSE admitting
  /\ UNCHANGED <<arbitrator, topics, view, fresh, goal, cleanup, released>>

(* try_acquire *)
AdmitGoal(i) ==
  /\ i \in admitting
  /\ admitting' = admitting \ {i}
  /\ goal' = IF goal.pc = "idle" THEN [NoGoal EXCEPT !.pc = "accepted", !.ident = i]
             ELSE goal
  /\ UNCHANGED <<arbitrator, topics, view, fresh, cleanup, asked, released>>
-----------------------------------------------------------------------------
(* _execute_motion *)

Send(a, l) == control' = Append(control, Message(a, goal.ident, l))

(* _register_pending_start_cleanup *)
Register(i) ==
  LET l == ActiveLease(view, i) IN
  /\ cleanup' = [cleanup EXCEPT ![i] =
                   IF TerminalStatus(view, i) # "" THEN "none"
                   ELSE IF l # NoLease THEN "cancelled" ELSE "waiting"]
  /\ control' = IF cleanup'[i] = "cancelled"
                THEN Append(control, Message("cancel", i, l)) ELSE control

(* The goal is rejected before it asked for anything. *)
SceneRefusesGoal ==
  /\ goal.pc = "accepted"
  /\ goal' = NoGoal
  /\ UNCHANGED <<arbitrator, topics, view, fresh, admitting, cleanup, asked, released>>

StartTask ==
  /\ goal.pc = "accepted"
  /\ Send("start", NoLease)
  /\ fresh' = FALSE
  /\ goal' = [goal EXCEPT !.pc = "waiting"]
  /\ UNCHANGED <<arbitrator, states, commands, view, admitting, cleanup, asked, released>>

(* _wait_for_task_lease *)
LeaseRefused ==
  /\ goal.pc = "waiting"
  /\ fresh
  /\ StartRejected(view, goal.ident)
  /\ goal' = NoGoal
  /\ UNCHANGED <<arbitrator, topics, view, fresh, admitting, cleanup, asked, released>>

LeaseGranted ==
  /\ goal.pc = "waiting"
  /\ fresh
  /\ StartAccepted(view, goal.ident)
  /\ goal' = [goal EXCEPT !.pc = "granted", !.lease = ActiveLease(view, goal.ident)]
  /\ UNCHANGED <<arbitrator, topics, view, fresh, admitting, cleanup, asked, released>>

(* Mutant: a goal that gives up leaves no cleanup behind. *)
LeaseNotAwaited_Forgets ==
  /\ goal.pc = "waiting"
  /\ goal' = NoGoal
  /\ UNCHANGED <<arbitrator, topics, view, fresh, admitting, cleanup, asked, released>>

(* a cancel request, the timeout or an exception *)
LeaseNotAwaited ==
  /\ goal.pc = "waiting"
  /\ Register(goal.ident)
  /\ goal' = NoGoal
  /\ UNCHANGED <<arbitrator, states, commands, view, fresh, admitting, asked, released>>

(* _commit_task_commands *)
CommitCommands ==
  /\ goal.pc = "granted"
  /\ commands' = commands \cup {[ident |-> goal.ident, lease |-> goal.lease]}
  /\ goal' = [goal EXCEPT !.pc = "moving"]
  /\ UNCHANGED <<arbitrator, control, states, view, fresh, admitting, cleanup, asked,
                 released>>

(* of the feedback loop and of _confirm_stopped *)
Keepalive ==
  /\ goal.pc = "moving"
  /\ Len(control) < MaxQueue
  /\ Send("keepalive", goal.lease)
  /\ UNCHANGED <<arbitrator, states, commands, view, fresh, goal, admitting, cleanup,
                 asked, released>>

(* A read or a stop is let through only under the lease: the manager       *)
(* refreshes and compares, and publishes nothing.                          *)
ReadPositions ==
  /\ goal.pc = "moving"
  /\ Refresh
  /\ \/ UNCHANGED goal
     \/ /\ TaskHeld /\ taskIdent = goal.ident /\ taskLease = goal.lease
        /\ goal' = [goal EXCEPT !.pc = "reached"]
  /\ UNCHANGED <<topics, view, fresh, admitting, cleanup, asked, released>>

(* The goal is over; status is the terminal status of the task, if known. *)
Conclude(action, status) ==
  /\ released' = IF status = "" THEN released ELSE released \cup {goal.lease}
  /\ goal' = NoGoal
  /\ IF status = "" \/ (action = "finish" /\ status # "finished")
     THEN Register(goal.ident) ELSE UNCHANGED <<cleanup, control>>

(* _release_task_admission *)
Release(action) ==
  /\ LET status == TerminalStatus(view, goal.ident) IN
     IF status # ""
     THEN Conclude(action, status) /\ UNCHANGED fresh
     ELSE /\ Send(action, goal.lease)
          /\ fresh' = FALSE
          /\ goal' = [goal EXCEPT !.pc = "releasing", !.action = action]
          /\ UNCHANGED <<cleanup, released>>
  /\ UNCHANGED <<arbitrator, states, commands, view, admitting, asked>>

Finish == goal.pc = "reached" /\ Release("finish")

(* a cancel request, a lost scene, a failed read, a timeout, an exception *)
Abandon == goal.pc \in {"granted", "moving", "reached"} /\ Release("cancel")

(* _wait_for_task_terminal *)
ReleaseSeen ==
  /\ goal.pc = "releasing"
  /\ fresh
  /\ TerminalStatus(view, goal.ident) # ""
  /\ Conclude(goal.action, TerminalStatus(view, goal.ident))
  /\ UNCHANGED <<arbitrator, states, commands, view, fresh, admitting, asked>>

(* Mutant: no answer in time is taken for the end of the lease. *)
ReleaseUnseen_Trusts ==
  /\ goal.pc = "releasing"
  /\ Conclude(goal.action, "cancelled")
  /\ UNCHANGED <<arbitrator, states, commands, view, fresh, admitting, asked>>

ReleaseUnseen ==
  /\ goal.pc = "releasing"
  /\ Conclude(goal.action, "")
  /\ UNCHANGED <<arbitrator, states, commands, view, fresh, admitting, asked>>
-----------------------------------------------------------------------------
(* _on_task_state *)
TakeState ==
  /\ states # << >>
  /\ LET s == Head(states)
         found == {i \in Identity : cleanup[i] = "waiting" /\ ActiveLease(s, i) # NoLease}
         closed == {i \in Identity : \/ TerminalStatus(s, i) # ""
                                     \/ StartRejected(s, i)}
     IN /\ view' = s
        /\ cleanup' = [i \in Identity |->
                         IF i \in found THEN "cancelled"
                         ELSE IF i \in closed THEN "none" ELSE cleanup[i]]
        /\ control' = IF found = {} THEN control
                      ELSE Append(control, Message("cancel", s.ident, s.lease))
  /\ fresh' = (goal.pc \in {"waiting", "releasing"})
  /\ states' = Tail(states)
  /\ UNCHANGED <<arbitrator, commands, goal, admitting, asked, released>>
-----------------------------------------------------------------------------
ManagerNext == HandleControl \/ HandleCommand \/ StateTimer \/ EstopChanges \/ Passes

GoalStep ==
  \/ SceneRefusesGoal \/ StartTask \/ LeaseRefused \/ LeaseGranted \/ LeaseNotAwaited
  \/ CommitCommands \/ ReadPositions \/ Finish \/ Abandon
  \/ ReleaseSeen \/ ReleaseUnseen

MotionNext ==
  \/ ManagerNext
  \/ GoalStep \/ Keepalive
  \/ TakeState
  \/ \E i \in Identity : AskGoal(i) \/ AdmitGoal(i)

MotionSpec == MotionInit /\ [][MotionNext]_motionVars

(* The manager and the controller go on, and so does a goal in the slot.   *)
MotionFairSpec ==
  /\ MotionSpec
  /\ WF_motionVars(HandleControl)
  /\ WF_motionVars(StateTimer)
  /\ WF_motionVars(TakeState)
  /\ WF_motionVars(GoalStep)
-----------------------------------------------------------------------------
(* Types; a goal that moves anything has a lease, the slot is free or has  *)
(* a goal, whatever answers came late or never.                            *)
MotionTypeOK ==
  /\ goal \in [pc : {"idle", "accepted", "waiting", "granted", "moving", "reached",
                     "releasing"},
               ident : Identity \cup {NoIdentity}, lease : Nat,
               action : {"", "finish", "cancel"}]
  /\ goal.pc = "idle" <=> goal.ident = NoIdentity
  /\ goal.lease # NoLease <=> goal.pc \in {"granted", "moving", "reached", "releasing"}
  /\ cleanup \in [Identity -> {"none", "waiting", "cancelled"}]
  /\ admitting \subseteq Identity
  /\ released \subseteq 1 .. issued

(* A goal that reported admission_released has no lease left, however old  *)
(* the state was that it concluded this from.                              *)
ReleasedIsOver == TaskHeld => taskLease \notin released

(* A lease the manager still honours belongs to the goal in the slot, or   *)
(* is about to be given back: a cancel or finish is on its way, or a       *)
(* cleanup waits for the state that shows it.                              *)
LeaseAccounted ==
  TaskHeld =>
    \/ goal.ident = taskIdent
    \/ cleanup[taskIdent] = "waiting"
    \/ \E k \in 1 .. Len(control) :
         /\ control[k].action \in {"cancel", "finish"}
         /\ control[k].ident = taskIdent /\ control[k].lease = taskLease

(* motion_execution.py:111: task_start_was_rejected recognises the         *)
(* manager's refusal of the current start; so a goal that ends on it has   *)
(* neither a start on its way nor a lease.                                 *)
RefusalIsOfThisStart ==
  [][LeaseRefused =>
       /\ ~(TaskHeld /\ taskIdent = goal.ident)
       /\ \A k \in 1 .. Len(control) :
            ~(control[k].action = "start" /\ control[k].ident = goal.ident)]_motionVars

(* docs/current_module_responsibilities.md:383: after a lease was revoked  *)
(* its identity stays, to tell the terminal state of its task; so every    *)
(* cleanup that waits for that terminal state is closed in the end, and    *)
(* with it the node takes goals again.                                     *)
CleanupEnds == \A i \in Identity : cleanup[i] # "none" ~> cleanup[i] = "none"
=============================================================================
