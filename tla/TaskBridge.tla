------------------------------ MODULE TaskBridge ------------------------------
(***************************************************************************)
(* task_service_bridge: the action server of /task/execute that hands each *)
(* task on to /motion/execute (bridge_node.py, task_contract.py), together *)
(* with what the motion server does to the goal and its scene gate.        *)
(*                                                                         *)
(* Four threads of a MultiThreadedExecutor run the callbacks of one        *)
(* reentrant group: the execution of a goal, the callback of a cancel      *)
(* request and the next goal's admission interleave at every await and     *)
(* between the sections under _state_lock.  rclpy is external: it marks a  *)
(* goal as canceling only after the cancel callback returned ACCEPT, and a *)
(* future of its client may end with an exception.                         *)
(***************************************************************************)
EXTENDS SceneGate

CONSTANTS
  Goal,    \* task goals that pass validate_task_goal
  NoGoal,  \* a handle that is None
  TaskSession   \* the session_id of the goals

ASSUME HandleAssumption == NoGoal \notin Goal

VARIABLES
  slot,      \* _occupied of SingleGoalAdmission
  external,  \* _external_goal_handle
  inner,     \* _motion_goal_handle, by the goal it belongs to
  at,        \* how far _execute_callback of a goal is
  status,    \* what rclpy says of the goal
  cancel,    \* how far the cancel request for the goal is, and what it read
  motion,    \* how far the motion goal sent for the goal is
  stamp,     \* the time that _scene_rejection_reason read
  told,      \* the motion goals that were asked to cancel
  raised     \* history: goals whose execution ended in its exception handler

bridge == <<slot, external, inner, at, status, cancel>>
owner  == <<motion, stamp, told>>
taskVars == <<gate, bridge, owner, raised>>

(* SceneState messages, with what the policy says of their picture; the    *)
(* tasks belong to one session of several.                                 *)
Scenes == Session \X {TRUE : p \in {q \in Picture : Sound(q)}}
          \cup {<<TaskSession, Sound(p)>> : p \in Picture}
NoCancel == [step |-> "none", external |-> NoGoal, inner |-> NoGoal]
CancelOver == [NoCancel EXCEPT !.step = "over"]

TaskInit ==
  /\ GateInit
  /\ slot = FALSE
  /\ external = NoGoal /\ inner = NoGoal
  /\ at = [g \in Goal |-> "new"]
  /\ status = [g \in Goal |-> "none"]
  /\ cancel = [g \in Goal |-> NoCancel]
  /\ motion = [g \in Goal |-> "none"]
  /\ stamp = [g \in Goal |-> 0]
  /\ told = {}
  /\ raised = {}

Admitted(g) == motion[g] \in {"accepted", "dated", "checked", "committed"}
Moving(g) == motion[g] = "sent" \/ Admitted(g)
Canceling(g) == status[g] = "canceling"     \* is_cancel_requested
-----------------------------------------------------------------------------
(* _goal_callback *)
AskTask(g) ==
  /\ at[g] = "new"
  /\ IF slot
     THEN at' = [at EXCEPT ![g] = "refused"] /\ UNCHANGED <<slot, status>>
     ELSE /\ slot' = TRUE
          /\ at' = [at EXCEPT ![g] = "accepted"]
          /\ status' = [status EXCEPT ![g] = "executing"]
  /\ UNCHANGED <<gate, owner, external, inner, cancel, raised>>
-----------------------------------------------------------------------------
(* _execute_callback *)

Goes(g, from, to) == at[g] = from /\ at' = [at EXCEPT ![g] = to]

(* _finish_failed_goal *)
FinishFailed(g) ==
  status' = [status EXCEPT ![g] = IF Canceling(g) THEN "canceled" ELSE "aborted"]

Enter(g) ==
  /\ Goes(g, "accepted", "connecting")
  /\ external' = g
  /\ UNCHANGED <<gate, owner, slot, inner, status, cancel, raised>>

ServerMissing(g) ==
  /\ Goes(g, "connecting", "closing")
  /\ FinishFailed(g)
  /\ UNCHANGED <<gate, owner, slot, external, inner, cancel, raised>>

(* send_goal_async, with what map_task_goal made of the goal *)
SendGoal(g) ==
  /\ Goes(g, "connecting", "sent")
  /\ motion' = [motion EXCEPT ![g] = "sent"]
  /\ UNCHANGED <<gate, stamp, told, slot, external, inner, status, cancel, raised>>

(* Mutant: a motion goal that was refused leaves the callback early. *)
GoalRefused_Returns(g) ==
  /\ motion[g] = "refused"
  /\ Goes(g, "sent", "left")
  /\ FinishFailed(g)
  /\ UNCHANGED <<gate, owner, slot, external, inner, cancel, raised>>

GoalRefused(g) ==
  /\ motion[g] = "refused"
  /\ Goes(g, "sent", "closing")
  /\ FinishFailed(g)
  /\ UNCHANGED <<gate, owner, slot, external, inner, cancel, raised>>

StoreHandle(g) ==
  /\ motion[g] \notin {"sent", "refused"}
  /\ Goes(g, "sent", "stored")
  /\ inner' = g
  /\ UNCHANGED <<gate, owner, slot, external, status, cancel, raised>>

(* Mutant: the bridge does not wait for the result of a cancelled motion. *)
CheckCancel_Leaves(g) ==
  /\ Goes(g, "stored", IF Canceling(g) THEN "closing" ELSE "awaiting")
  /\ told' = IF Canceling(g) THEN told \cup {g} ELSE told
  /\ status' = [status EXCEPT ![g] = IF Canceling(g) THEN "canceled" ELSE @]
  /\ UNCHANGED <<gate, motion, stamp, slot, external, inner, cancel, raised>>

CheckCancel(g) ==
  /\ Goes(g, "stored", "awaiting")
  /\ told' = IF Canceling(g) THEN told \cup {g} ELSE told
  /\ UNCHANGED <<gate, motion, stamp, slot, external, inner, status, cancel, raised>>

(* Mutant: whatever was not cancelled counts as done. *)
Outcome_Optimist(g) == IF Canceling(g) THEN "canceled" ELSE "succeeded"

(* _finish_external_goal: canceled() raises in a goal that nobody asked to *)
(* cancel, and the exception handler then ends it with abort()             *)
Outcome(g) ==
  IF Canceling(g) THEN "canceled"
  ELSE IF motion[g] = "succeeded" THEN "succeeded" ELSE "aborted"

TakeResult(g) ==
  /\ motion[g] \in {"succeeded", "aborted", "canceled"}
  /\ Goes(g, "awaiting", "closing")
  /\ status' = [status EXCEPT ![g] = Outcome(g)]
  /\ UNCHANGED <<gate, owner, slot, external, inner, cancel, raised>>

(* except Exception: an await raised, or what was done with its result     *)
Raises(g) ==
  /\ \/ at[g] \in {"sent", "awaiting"}
     \/ at[g] = "stored" /\ Canceling(g)
  /\ Goes(g, at[g], "closing")
  /\ FinishFailed(g)
  /\ raised' = raised \cup {g}
  /\ UNCHANGED <<gate, owner, slot, external, inner, cancel>>

(* finally: the handles under the lock, then the slot *)
ClearHandles(g) ==
  /\ Goes(g, "closing", "cleared")
  /\ external' = NoGoal /\ inner' = NoGoal
  /\ UNCHANGED <<gate, owner, slot, status, cancel, raised>>

FreeSlot(g) ==
  /\ Goes(g, "cleared", "ended")
  /\ slot' = FALSE
  /\ UNCHANGED <<gate, owner, external, inner, status, cancel, raised>>
-----------------------------------------------------------------------------
(* _cancel_callback *)

AskCancel(g) ==
  /\ status[g] = "executing"
  /\ cancel[g].step = "none"
  /\ cancel' = [cancel EXCEPT ![g].step = "asked"]
  /\ UNCHANGED <<gate, owner, slot, external, inner, at, status, raised>>

ReadHandles(g) ==
  /\ cancel[g].step = "asked"
  /\ cancel' = [cancel EXCEPT ![g] =
                  [step |-> "read", external |-> external, inner |-> inner]]
  /\ UNCHANGED <<gate, owner, slot, external, inner, at, status, raised>>

(* Mutant: the callback does not ask whose handle it read. *)
DecideCancel_AnyTask(g) ==
  /\ cancel[g].step = "read"
  /\ IF slot
     THEN /\ told' = told \cup ({cancel[g].inner} \ {NoGoal})
          /\ cancel' = [cancel EXCEPT ![g] = [NoCancel EXCEPT !.step = "accepted"]]
     ELSE /\ cancel' = [cancel EXCEPT ![g] = CancelOver]
          /\ UNCHANGED told
  /\ UNCHANGED <<gate, motion, stamp, slot, external, inner, at, status, raised>>

DecideCancel(g) ==
  /\ cancel[g].step = "read"
  /\ IF slot /\ cancel[g].external \in {g, NoGoal}
     THEN /\ told' = told \cup ({cancel[g].inner} \ {NoGoal})
          /\ cancel' = [cancel EXCEPT ![g] = [NoCancel EXCEPT !.step = "accepted"]]
     ELSE /\ cancel' = [cancel EXCEPT ![g] = CancelOver]
          /\ UNCHANGED told
  /\ UNCHANGED <<gate, motion, stamp, slot, external, inner, at, status, raised>>

(* rclpy, external: CANCEL_GOAL, refused by a goal that has ended *)
MarkCanceling(g) ==
  /\ cancel[g].step = "accepted"
  /\ cancel' = [cancel EXCEPT ![g] = CancelOver]
  /\ status' = [status EXCEPT ![g] = IF @ = "executing" THEN "canceling" ELSE @]
  /\ UNCHANGED <<gate, owner, slot, external, inner, at, raised>>
-----------------------------------------------------------------------------
(* The motion server, as far as the goal and the scene go: TaskMotion has  *)
(* its lease.                                                              *)

MotionGoes(g, from, to) ==
  /\ motion[g] \in from
  /\ motion' = [motion EXCEPT ![g] = to]
  /\ UNCHANGED <<gate, bridge, told, raised>>

(* _motion_goal_callback: the server has a slot of its own, which an ended *)
(* motion gave back before its result went out.  It has other reasons to   *)
(* say no. *)
MotionAccepts(g) ==
  /\ \A h \in Goal : ~Admitted(h)
  /\ MotionGoes(g, {"sent"}, "accepted") /\ UNCHANGED stamp

MotionRefuses(g) == MotionGoes(g, {"sent"}, "refused") /\ UNCHANGED stamp

(* _scene_rejection_reason reads the clock before it has the gate's lock *)
MotionDates(g) ==
  MotionGoes(g, {"accepted"}, "dated") /\ stamp' = [stamp EXCEPT ![g] = now]

MotionChecks(g) ==
  /\ stamp' = [stamp EXCEPT ![g] = 0]
  /\ IF Accepted(TaskSession, stamp[g])
     THEN MotionGoes(g, {"dated"}, "checked")
     ELSE MotionGoes(g, {"dated"}, "aborted")

(* Mutant: the commands go out on the strength of the first check. *)
MotionCommits_TrustsCheck(g) ==
  /\ g \notin told
  /\ UNCHANGED stamp
  /\ MotionGoes(g, {"checked"}, "committed")

(* _commit_task_commands, once the lease is there *)
MotionCommits(g) ==
  /\ g \notin told
  /\ UNCHANGED stamp
  /\ IF Accepted(TaskSession, now)
     THEN MotionGoes(g, {"checked"}, "committed")
     ELSE MotionGoes(g, {"checked"}, "aborted")

MotionReaches(g) == MotionGoes(g, {"committed"}, "succeeded") /\ UNCHANGED stamp

MotionFails(g) ==
  MotionGoes(g, {"checked", "committed"}, "aborted") /\ UNCHANGED stamp

MotionCancels(g) ==
  /\ g \in told
  /\ MotionGoes(g, {"checked", "committed"}, "canceled") /\ UNCHANGED stamp
-----------------------------------------------------------------------------
SceneComes ==
  /\ \E id \in Observation, s \in Scenes : Update(id, s[1], s[2])
  /\ UNCHANGED <<bridge, owner, raised>>

Passes == ClockTicks /\ UNCHANGED <<bridge, owner, raised>>

Executes(g) ==
  \/ Enter(g) \/ ServerMissing(g) \/ SendGoal(g) \/ GoalRefused(g) \/ StoreHandle(g)
  \/ CheckCancel(g) \/ TakeResult(g) \/ ClearHandles(g) \/ FreeSlot(g)
Cancels(g) == ReadHandles(g) \/ DecideCancel(g) \/ MarkCanceling(g)
Moves(g) ==
  \/ MotionAccepts(g) \/ MotionRefuses(g)
  \/ MotionDates(g) \/ MotionChecks(g) \/ MotionCommits(g)
  \/ MotionReaches(g) \/ MotionFails(g) \/ MotionCancels(g)

TaskNext ==
  \/ \E g \in Goal :
       \/ AskTask(g) \/ AskCancel(g) \/ Executes(g) \/ Raises(g) \/ Cancels(g)
       \/ Moves(g)
  \/ SceneComes
  \/ Passes

TaskSpec == TaskInit /\ [][TaskNext]_taskVars

(* The executor keeps running what is ready; the motion server ends every  *)
(* goal, at the latest at the deadline that execution_timeout_sec sets.    *)
(* The slot lets one goal in at a time, so fairness to some goal is        *)
(* fairness to each.  Nothing is owed to a cancel request, nor to an       *)
(* exception: a task must end without one.                                 *)
TaskFairness ==
  /\ WF_taskVars(\E g \in Goal : Executes(g))
  /\ WF_taskVars(\E g \in Goal : Moves(g))
-----------------------------------------------------------------------------
(* The two slots are what keeps two tasks from moving the same robot.  A   *)
(* motion goal is under way only while its task holds the bridge's slot,   *)
(* whatever became of the task in the meantime; or its task left through   *)
(* the exception handler, which waits for nothing.  Then the next task has *)
(* the slot beside it, and the motion server admits one of them.           *)
OneMotionUnderWay ==
  /\ \A g \in Goal : Moving(g) /\ g \notin raised =>
                       slot /\ at[g] \in {"sent", "stored", "awaiting"}
  /\ \A g, h \in Goal : Admitted(g) /\ Admitted(h) => g = h

(* A motion goal is cancelled only for a cancel request that named its own *)
(* task: a request that lingers in the callback until its task has ended   *)
(* and the next one has the slot must not stop the next one.               *)
CancelStaysWithItsTask == \A g \in told : cancel[g].step # "none"

(* What the client of a task is told is true: success only for a motion    *)
(* that reached its target, an abort only where none did, a cancel only on *)
(* request; but for an abort from the exception handler, which does not    *)
(* know what its motion does.                                              *)
OutcomeIsTrue ==
  \A g \in Goal :
    /\ status[g] = "succeeded" => motion[g] = "succeeded"
    /\ status[g] = "aborted" => motion[g] # "succeeded" \/ g \in raised
    /\ status[g] = "canceled" => cancel[g].step = "over"

(* Commands leave only under a scene that is sound, of the session of the  *)
(* task and no older than MaxAge at that very moment, however long the     *)
(* lease took to come after the first check.                               *)
CommandsUnderCurrentScene ==
  [][\A g \in Goal :
       motion[g] # "committed" /\ motion'[g] = "committed" =>
         /\ snapshot.sound /\ snapshot.session = TaskSession
         /\ now - snapshot.at <= MaxAge]_taskVars

(* Every task that took the slot ends and gives it back, or one task that   *)
(* went wrong would shut out all later ones.                               *)
EveryTaskEnds == slot ~> ~slot

(* "始终等待 motion 最终结果" (docs/current_module_responsibilities.md:769): a *)
(* task has not ended as long as its motion is under way.  False: the      *)
(* handler of an exception from an await ends the task and frees the slot, *)
(* and nobody cancels its motion or waits for it.                          *)
AlwaysWaits == \A g \in Goal : Moving(g) => status[g] \in {"executing", "canceling"}

(* "传播 cancel" (docs/current_module_responsibilities.md:769): a cancel    *)
(* that was accepted is passed on to the motion.  False: the callback reads *)
(* no handle, the execution stores it and finds no request, and only then   *)
(* does rclpy mark the task.                                                *)
CancelPassedOn ==
  \A g \in Goal : Canceling(g) /\ at[g] = "awaiting" /\ Moving(g) => g \in told
=============================================================================
