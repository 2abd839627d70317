--------------------------- MODULE TaskBridge_proofs ---------------------------
(***************************************************************************)
(* Proofs about the task bridge, for every set of goals, every window and  *)
(* every set of observations.                                              *)
(*                                                                         *)
(* The first part is about the scene gate: its replay window, whatever the *)
(* bridge does in the meantime.  The second is about the bridge: what its  *)
(* slot, its two handles and a cancel request in its callback know of each *)
(* other (BridgeInv), and from it the slot's exclusion, the cancels and    *)
(* the outcomes.                                                           *)
(***************************************************************************)
EXTENDS TaskBridge, TLAPS

(* The window holds the last observations accepted, as many as fit. *)
WindowInv ==
  /\ taken \in Seq(Observation)
  /\ seen \in Seq(Observation)
  /\ Len(seen) = IF Len(taken) < ReplayWindow THEN Len(taken) ELSE ReplayWindow
  /\ \A k \in 1 .. Len(seen) : seen[k] = taken[Len(taken) - Len(seen) + k]

GateInv == WindowInv /\ ReplayIsFenced

USE GateAssumption DEF GateAssumption
-----------------------------------------------------------------------------
(* What an accepted observation does to the window: it is the newest, and  *)
(* the ones before it stay in their order, but for the oldest if there is  *)
(* no room.                                                                *)
LEMMA RememberedIsSuffix ==
  ASSUME WindowInv, NEW id \in Observation, seen' = Remembered(id),
         taken' = Append(taken, id)
  PROVE  WindowInv'
<1> DEFINE all == Append(seen, id)
<1>1. /\ all \in Seq(Observation) /\ Len(all) = Len(seen) + 1
      /\ \A k \in 1 .. Len(all) :
           all[k] = IF k = Len(seen) + 1 THEN id ELSE seen[k]
  BY DEF WindowInv
<1>2. /\ taken' \in Seq(Observation) /\ Len(taken') = Len(taken) + 1
      /\ \A k \in 1 .. Len(taken') :
           taken'[k] = IF k = Len(taken) + 1 THEN id ELSE taken[k]
  BY DEF WindowInv
<1>3. Len(seen) \in Nat /\ Len(taken) \in Nat /\ Len(seen) <= Len(taken)
  BY DEF WindowInv
<1>4. \A k \in 1 .. Len(all) : all[k] = taken'[Len(taken') - Len(all) + k]
  <2> TAKE k \in 1 .. Len(all)
  <2>1. CASE k = Len(seen) + 1
    BY <2>1, <1>1, <1>2, <1>3
  <2>2. CASE k \in 1 .. Len(seen)
    <3>1. all[k] = seen[k]
      BY <2>2, <1>1, <1>3
    <3>2. seen[k] = taken[Len(taken) - Len(seen) + k]
      BY <2>2 DEF WindowInv
    <3>3. taken'[Len(taken) - Len(seen) + k] = taken[Len(taken) - Len(seen) + k]
      BY <2>2, <1>2, <1>3
    <3>4. Len(taken') - Len(all) + k = Len(taken) - Len(seen) + k
      BY <1>1, <1>2, <1>3
    <3> QED BY <3>1, <3>2, <3>3, <3>4
  <2>3. k = Len(seen) + 1 \/ k \in 1 .. Len(seen)
    BY <1>1, <1>3
  <2> QED BY <2>1, <2>2, <2>3
<1>5. CASE Len(all) > ReplayWindow
  <2>1. seen' = Tail(all)
    BY <1>5 DEF Remembered
  <2>2. /\ Tail(all) \in Seq(Observation) /\ Len(Tail(all)) = Len(all) - 1
        /\ \A k \in 1 .. Len(all) - 1 : Tail(all)[k] = all[k + 1]
    BY <1>1, <1>3
  <2>3. Len(seen) = ReplayWindow /\ Len(taken) >= ReplayWindow
    BY <1>5, <1>1, <1>3 DEF WindowInv
  <2>4. /\ Len(seen') = ReplayWindow
        /\ Len(seen') = IF Len(taken') < ReplayWindow THEN Len(taken') ELSE ReplayWindow
    BY <2>1, <2>2, <2>3, <1>1, <1>2, <1>3
  <2>5. \A k \in 1 .. Len(seen') : seen'[k] = taken'[Len(taken') - Len(seen') + k]
    <3> TAKE k \in 1 .. Len(seen')
    <3>1. k + 1 \in 1 .. Len(all) /\ seen'[k] = all[k + 1]
      BY <2>1, <2>2, <2>3, <2>4, <1>1
    <3>2. all[k + 1] = taken'[Len(taken') - Len(all) + (k + 1)]
      BY <3>1, <1>4
    <3>3. Len(all) = ReplayWindow + 1 /\ Len(taken') = Len(taken) + 1
      BY <2>3, <1>1, <1>2
    <3>4. Len(taken') - Len(all) + (k + 1) = Len(taken') - Len(seen') + k
      BY <3>3, <2>4, <1>3
    <3> QED BY <3>1, <3>2, <3>4
  <2>6. taken' \in Seq(Observation) /\ seen' \in Seq(Observation)
    BY <2>1, <2>2, <1>2
  <2> QED BY <2>4, <2>5, <2>6 DEF WindowInv
<1>6. CASE Len(all) <= ReplayWindow
  <2>1. seen' = all
    BY <1>6, <1>1, <1>3 DEF Remembered
  <2>2. Len(seen) = Len(taken)
    BY <1>6, <1>1, <1>3 DEF WindowInv
  <2>3. Len(seen') = IF Len(taken') < ReplayWindow THEN Len(taken') ELSE ReplayWindow
    BY <1>6, <2>1, <2>2, <1>1, <1>2, <1>3
  <2> QED BY <2>1, <2>3, <1>1, <1>2, <1>4 DEF WindowInv
<1> QED BY <1>5, <1>6, <1>1, <1>3

(* A step that accepts an observation keeps repetitions far apart. *)
LEMMA UpdateIsFenced ==
  ASSUME GateInv, NEW id \in Observation, NEW session, NEW sound,
         Update(id, session, sound)
  PROVE  GateInv'
<1>1. WindowInv'
  BY RememberedIsSuffix DEF GateInv, Update
<1>2. Len(seen) \in Nat /\ Len(taken) \in Nat /\ Len(seen) <= Len(taken)
  BY DEF GateInv, WindowInv
<1>3. /\ Len(taken') = Len(taken) + 1
      /\ \A k \in 1 .. Len(taken') :
           taken'[k] = IF k = Len(taken) + 1 THEN id ELSE taken[k]
  BY DEF GateInv, WindowInv, Update
<1>4. ASSUME NEW i \in 1 .. Len(taken), taken[i] = id
      PROVE  Len(taken) + 1 - i > ReplayWindow
  <2>1. \A k \in 1 .. Len(seen) : seen[k] # id
    BY DEF GateInv, WindowInv, Update, Range
  <2>2. i <= Len(taken) - Len(seen)
    <3> SUFFICES ASSUME i > Len(taken) - Len(seen) PROVE FALSE
      BY <1>2
    <3> DEFINE k == i - (Len(taken) - Len(seen))
    <3>1. k \in 1 .. Len(seen) /\ Len(taken) - Len(seen) + k = i
      BY <1>2
    <3>2. seen[k] = taken[i]
      BY <3>1 DEF GateInv, WindowInv
    <3> QED BY <3>1, <3>2, <2>1, <1>4
  <2> QED BY <2>2, <1>2 DEF GateInv, WindowInv
<1>5. ReplayIsFenced'
  <2> SUFFICES ASSUME NEW i \in 1 .. Len(taken'), NEW j \in 1 .. Len(taken'),
                      i < j, taken'[i] = taken'[j]
               PROVE  j - i > ReplayWindow
    BY DEF ReplayIsFenced
  <2>1. CASE j = Len(taken) + 1
    BY <2>1, <1>2, <1>3, <1>4
  <2>2. CASE j \in 1 .. Len(taken)
    BY <2>2, <1>2, <1>3 DEF GateInv, ReplayIsFenced
  <2> QED BY <2>1, <2>2, <1>2, <1>3
<1> QED BY <1>1, <1>5 DEF GateInv

(* What the tasks and the motion server do leaves the window alone. *)
LEMMA OthersKeepWindow ==
  ASSUME [TaskNext]_taskVars, ~SceneComes
  PROVE  seen' = seen /\ taken' = taken
<1>1. CASE UNCHANGED taskVars
  BY <1>1 DEF taskVars, gate
<1>2. CASE Passes
  BY <1>2 DEF Passes, ClockTicks
<1>3. ASSUME NEW g \in Goal, AskTask(g) \/ AskCancel(g) \/ Executes(g) \/ Raises(g)
      PROVE  UNCHANGED gate
  BY <1>3 DEF AskTask, AskCancel, Raises, Executes, Enter, ServerMissing, SendGoal, GoalRefused,
              StoreHandle, CheckCancel, TakeResult, ClearHandles, FreeSlot
<1>4. ASSUME NEW g \in Goal, Cancels(g) \/ Moves(g)
      PROVE  UNCHANGED gate
  BY <1>4 DEF Cancels, ReadHandles, DecideCancel, MarkCanceling, Moves, MotionGoes,
              MotionAccepts, MotionRefuses, MotionDates, MotionChecks, MotionCommits, MotionReaches,
              MotionFails, MotionCancels
<1> QED BY <1>1, <1>2, <1>3, <1>4 DEF TaskNext, gate
-----------------------------------------------------------------------------
(* However long the bridge runs and whatever window it is given, an        *)
(* observation that was accepted is accepted again only after as many      *)
(* others as the window holds (SceneAdmissionGate.update).                 *)
THEOREM ReplayFenced == TaskSpec => []ReplayIsFenced
<1>1. TaskInit => GateInv
  <2> SUFFICES ASSUME TaskInit PROVE GateInv
    OBVIOUS
  <2>1. seen = << >> /\ taken = << >>
    BY DEF TaskInit, GateInit
  <2> QED BY <2>1 DEF GateInv, WindowInv, ReplayIsFenced
<1>2. GateInv /\ [TaskNext]_taskVars => GateInv'
  <2> SUFFICES ASSUME GateInv, [TaskNext]_taskVars PROVE GateInv'
    OBVIOUS
  <2>1. CASE SceneComes
    <3>1. PICK id \in Observation, s \in Scenes : Update(id, s[1], s[2])
      BY <2>1 DEF SceneComes
    <3> QED BY <3>1, UpdateIsFenced
  <2>2. CASE ~SceneComes
    BY <2>2, OthersKeepWindow DEF GateInv, WindowInv, ReplayIsFenced
  <2> QED BY <2>1, <2>2
<1>3. GateInv => ReplayIsFenced
  BY DEF GateInv
<1> QED BY <1>1, <1>2, <1>3, PTL DEF TaskSpec
-----------------------------------------------------------------------------
USE HandleAssumption DEF HandleAssumption

(* Where _execute_callback is while its goal holds the slot, while it      *)
(* holds the external handle, and while it waits for a motion.             *)
Entered == {"connecting", "sent", "stored", "awaiting", "closing"}
Inside == Entered \cup {"accepted", "cleared"}
Waiting == {"sent", "stored", "awaiting"}
After == {"closing", "cleared", "ended"}

CancelRecord == [step : {"none", "asked", "read", "accepted", "over"},
                 external : Goal \cup {NoGoal}, inner : Goal \cup {NoGoal}]

Motions == {"none", "sent", "refused", "accepted", "dated", "checked", "committed",
            "succeeded", "aborted", "canceled"}

BridgeTyped ==
  /\ slot \in BOOLEAN
  /\ at \in [Goal -> Inside \cup {"new", "refused", "ended"}]
  /\ status \in [Goal -> {"none", "executing", "canceling", "succeeded",
                          "aborted", "canceled"}]
  /\ motion \in [Goal -> Motions]
  /\ cancel \in [Goal -> CancelRecord]
  /\ told \in SUBSET Goal
  /\ raised \in SUBSET Goal

(* One goal is inside, and it has the slot. *)
Solo ==
  /\ \A g \in Goal : at[g] \in Inside => slot
  /\ \A g, h \in Goal : at[g] \in Inside /\ at[h] \in Inside => g = h

(* The handles are those of the goal inside. *)
Handles ==
  /\ external \in Goal \cup {NoGoal} /\ inner \in Goal \cup {NoGoal}
  /\ \A g \in Goal : external = g <=> at[g] \in Entered
  /\ inner # NoGoal => inner = external

(* A motion ends before its task does, if the task ends without an         *)
(* exception; one that raised has ended, and not with success.             *)
MotionFirst ==
  \A g \in Goal :
    /\ Moving(g) => at[g] \in Waiting \/ g \in raised
    /\ g \in raised => at[g] \in After /\ status[g] # "succeeded"
    /\ motion[g] # "none" => at[g] \in Waiting \cup After
    /\ status[g] \in {"succeeded", "aborted", "canceled"} => at[g] \in After

(* The motion server has a slot too.                                       *)
OneAdmitted == \A g, h \in Goal : Admitted(g) /\ Admitted(h) => g = h

(* A cancel request carries the handles of one moment, a goal is canceling *)
(* when its request was decided, and a motion is told by its own request.  *)
Requests ==
  \A g \in Goal :
    /\ cancel[g].inner \in {NoGoal, cancel[g].external}
    /\ status[g] \in {"canceling", "canceled"} => cancel[g].step = "over"
    /\ g \in told => cancel[g].step # "none"

BridgeInv ==
  /\ BridgeTyped /\ Solo /\ Handles /\ MotionFirst /\ OneAdmitted
  /\ Requests /\ OutcomeIsTrue

LEMMA CancelRecords ==
  /\ NoCancel \in CancelRecord /\ NoCancel.step = "none" /\ NoCancel.inner = NoGoal
  /\ CancelOver \in CancelRecord /\ CancelOver.step = "over" /\ CancelOver.inner = NoGoal
  /\ \E r \in CancelRecord : /\ r = [NoCancel EXCEPT !.step = "accepted"]
                             /\ r.step = "accepted" /\ r.inner = NoGoal
<1>1. NoCancel \in CancelRecord /\ NoCancel.step = "none" /\ NoCancel.inner = NoGoal
  BY DEF NoCancel, CancelRecord
<1>2. CancelOver \in CancelRecord /\ CancelOver.step = "over" /\ CancelOver.inner = NoGoal
  BY <1>1 DEF CancelOver, CancelRecord
<1> DEFINE r == [NoCancel EXCEPT !.step = "accepted"]
<1>3. r \in CancelRecord /\ r.step = "accepted" /\ r.inner = NoGoal
  BY <1>1 DEF CancelRecord
<1> QED BY <1>1, <1>2, <1>3

LEMMA InitBridgeInv == TaskInit => BridgeInv
<1> SUFFICES ASSUME TaskInit PROVE BridgeInv
  OBVIOUS
<1>1. \A g \in Goal : /\ at[g] = "new" /\ status[g] = "none" /\ motion[g] = "none"
                      /\ cancel[g] = NoCancel
  BY DEF TaskInit
<1>2. cancel \in [Goal -> CancelRecord]
  BY CancelRecords DEF TaskInit
<1>3. BridgeTyped
  BY <1>2 DEF TaskInit, BridgeTyped, Motions
<1>4. Solo /\ Handles /\ MotionFirst /\ OneAdmitted
  BY <1>1 DEF TaskInit, Solo, Handles, MotionFirst, OneAdmitted, Moving, Admitted,
              Inside, Entered
<1>5. Requests /\ OutcomeIsTrue
  BY <1>1, CancelRecords DEF TaskInit, Requests, OutcomeIsTrue
<1> QED BY <1>3, <1>4, <1>5 DEF BridgeInv

(* What a step along the callback does to the places of the goals.         *)
LEMMA Advance ==
  ASSUME BridgeTyped, NEW g \in Goal, NEW from, NEW to \in Inside \cup {"refused", "ended"},
         Goes(g, from, to)
  PROVE  /\ at[g] = from /\ at'[g] = to
         /\ \A h \in Goal : h # g => at'[h] = at[h]
         /\ at' \in [Goal -> Inside \cup {"new", "refused", "ended"}]
BY DEF BridgeTyped, Goes, Inside, Entered

LEMMA StatusSet ==
  ASSUME BridgeTyped, NEW g \in Goal,
         NEW what \in {"none", "executing", "canceling", "succeeded", "aborted", "canceled"},
         status' = [status EXCEPT ![g] = what]
  PROVE  /\ status'[g] = what
         /\ \A h \in Goal : h # g => status'[h] = status[h]
         /\ status' \in [Goal -> {"none", "executing", "canceling", "succeeded",
                                  "aborted", "canceled"}]
BY DEF BridgeTyped

(* The motion server: only motions under way go on.                        *)
LEMMA MotionForward ==
  ASSUME NEW g \in Goal, Moves(g)
  PROVE  \E to \in Motions \ {"none", "sent"} :
           /\ MotionGoes(g, {motion[g]}, to) /\ Moving(g)
           /\ \/ to \in {"refused", "succeeded", "aborted", "canceled"}
              \/ Admitted(g)
              \/ \A h \in Goal : ~Admitted(h)
BY DEF Moves, MotionAccepts, MotionRefuses, MotionDates, MotionChecks, MotionCommits,
       MotionReaches, MotionFails, MotionCancels, MotionGoes, Moving, Admitted, Motions

LEMMA MotionStep ==
  ASSUME BridgeInv, NEW g \in Goal, Moves(g)
  PROVE  BridgeInv'
<1>1. PICK to \in Motions \ {"none", "sent"} :
        /\ MotionGoes(g, {motion[g]}, to) /\ Moving(g)
        /\ \/ to \in {"refused", "succeeded", "aborted", "canceled"}
           \/ Admitted(g)
           \/ \A h \in Goal : ~Admitted(h)
  BY MotionForward
<1>2. /\ motion' = [motion EXCEPT ![g] = to]
      /\ UNCHANGED <<slot, external, inner, at, status, cancel, told, raised>>
  BY <1>1 DEF MotionGoes, bridge
<1>3. BridgeTyped'
  BY <1>2 DEF BridgeInv, BridgeTyped
<1>4. Solo' /\ Handles' /\ Requests'
  BY <1>2 DEF BridgeInv, Solo, Handles, Requests
<1>5. \A h \in Goal : h # g => motion'[h] = motion[h]
  BY <1>2 DEF BridgeInv, BridgeTyped
<1>9. motion'[g] = to
  BY <1>2 DEF BridgeInv, BridgeTyped
<1>6. MotionFirst'
  BY <1>1, <1>2, <1>5 DEF BridgeInv, MotionFirst, Moving, Admitted, Waiting
<1>7. OutcomeIsTrue'
  <2>1. status[g] # "succeeded" /\ (status[g] = "aborted" => g \in raised)
    BY <1>1 DEF BridgeInv, MotionFirst, Waiting, After
  <2> QED BY <1>2, <1>5, <2>1 DEF BridgeInv, OutcomeIsTrue
<1>8. OneAdmitted'
  BY <1>1, <1>5, <1>9 DEF BridgeInv, OneAdmitted, Admitted
<1> QED BY <1>3, <1>4, <1>6, <1>7, <1>8 DEF BridgeInv

(* A cancel request: what it may pass on is the motion of its own task.    *)
LEMMA CancelStep ==
  ASSUME BridgeInv, NEW g \in Goal, AskCancel(g) \/ Cancels(g)
  PROVE  BridgeInv'
<1>1. PICK r \in CancelRecord :
        /\ cancel' = [cancel EXCEPT ![g] = r]
        /\ r.step # "none" /\ r.inner \in {NoGoal, r.external}
        /\ cancel[g].step # "over"
  <2>1. CASE AskCancel(g)
    <3> DEFINE r == [cancel[g] EXCEPT !.step = "asked"]
    <3>1. /\ r \in CancelRecord
          /\ r.step = "asked" /\ r.inner = cancel[g].inner
          /\ r.external = cancel[g].external
      BY DEF BridgeInv, BridgeTyped, CancelRecord
    <3>2. cancel' = [cancel EXCEPT ![g] = r]
      BY <2>1 DEF AskCancel
    <3>3. r.inner \in {NoGoal, r.external} /\ cancel[g].step # "over"
      BY <2>1, <3>1 DEF AskCancel, BridgeInv, Requests
    <3> HIDE DEF r
    <3> QED BY <3>1, <3>2, <3>3
  <2>2. CASE ReadHandles(g)
    <3> DEFINE r == [step |-> "read", external |-> external, inner |-> inner]
    <3>1. /\ r \in CancelRecord /\ r.step = "read"
          /\ r.inner = inner /\ r.external = external
      BY DEF BridgeInv, Handles, CancelRecord
    <3>2. cancel' = [cancel EXCEPT ![g] = r] /\ cancel[g].step # "over"
      BY <2>2 DEF ReadHandles
    <3> HIDE DEF r
    <3> QED BY <3>1, <3>2 DEF BridgeInv, Handles
  <2>3. CASE DecideCancel(g)
    BY <2>3, CancelRecords DEF DecideCancel
  <2>4. CASE MarkCanceling(g)
    BY <2>4, CancelRecords DEF MarkCanceling
  <2> QED BY <2>1, <2>2, <2>3, <2>4 DEF Cancels
<1>2. /\ cancel'[g] = r /\ \A h \in Goal : h # g => cancel'[h] = cancel[h]
      /\ cancel' \in [Goal -> CancelRecord]
  BY <1>1 DEF BridgeInv, BridgeTyped
<1>3. UNCHANGED <<slot, external, inner, at, motion, raised>>
  BY DEF AskCancel, Cancels, ReadHandles, DecideCancel, MarkCanceling, owner
<1>4. /\ told' \in SUBSET Goal
      /\ \A h \in told' : h \in told \/ h = g
  <2>1. CASE DecideCancel(g)
    BY <2>1 DEF DecideCancel, BridgeInv, BridgeTyped, Requests
  <2>2. CASE AskCancel(g) \/ ReadHandles(g) \/ MarkCanceling(g)
    BY <2>2 DEF AskCancel, ReadHandles, MarkCanceling, owner, BridgeInv, BridgeTyped
  <2> QED BY <2>1, <2>2 DEF Cancels
<1>5. \/ UNCHANGED status
      \/ /\ status[g] = "executing" /\ status' = [status EXCEPT ![g] = "canceling"]
         /\ r.step = "over"
  <2>1. CASE MarkCanceling(g)
    <3>1. r.step = "over"
      BY <2>1, <1>2, CancelRecords DEF MarkCanceling, BridgeInv, BridgeTyped
    <3>2. CASE status[g] = "executing"
      BY <2>1, <3>1, <3>2 DEF MarkCanceling
    <3>3. CASE status[g] # "executing"
      BY <2>1, <3>3 DEF MarkCanceling, BridgeInv, BridgeTyped
    <3> QED BY <3>2, <3>3
  <2>2. CASE AskCancel(g) \/ ReadHandles(g) \/ DecideCancel(g)
    BY <2>2 DEF AskCancel, ReadHandles, DecideCancel
  <2> QED BY <2>1, <2>2 DEF Cancels
<1>6. /\ status' \in [Goal -> {"none", "executing", "canceling", "succeeded",
                               "aborted", "canceled"}]
      /\ \A h \in Goal : h # g => status'[h] = status[h]
      /\ \/ status'[g] = status[g]
         \/ status'[g] = "canceling" /\ r.step = "over"
  BY <1>5, StatusSet DEF BridgeInv, BridgeTyped
<1>7. BridgeTyped' /\ Solo' /\ Handles'
  BY <1>2, <1>3, <1>4, <1>6 DEF BridgeInv, BridgeTyped, Solo, Handles
<1>8. MotionFirst' /\ OneAdmitted'
  BY <1>3, <1>6 DEF BridgeInv, MotionFirst, OneAdmitted, Moving, Admitted
<1>9. cancel[g].step # "over" /\ status[g] \notin {"canceling", "canceled"}
  BY <1>1 DEF BridgeInv, Requests
<1>10. Requests'
  BY <1>1, <1>2, <1>4, <1>6, <1>9 DEF BridgeInv, Requests
<1>11. OutcomeIsTrue'
  BY <1>2, <1>3, <1>6, <1>9 DEF BridgeInv, OutcomeIsTrue
<1> QED BY <1>7, <1>8, <1>10, <1>11 DEF BridgeInv

(* The callback, between its first section under the lock and its last: it *)
(* is alone, and leaves the handles to nobody else.                        *)
LEMMA ExecuteStep ==
  ASSUME BridgeInv, NEW g \in Goal, Executes(g)
  PROVE  BridgeInv'
<1> DEFINE Path == {<<"accepted", "connecting">>, <<"connecting", "closing">>,
                    <<"connecting", "sent">>, <<"sent", "closing">>,
                    <<"sent", "stored">>, <<"stored", "awaiting">>,
                    <<"awaiting", "closing">>, <<"closing", "cleared">>,
                    <<"cleared", "ended">>}
<1>1. PICK from \in Inside, to \in Inside \cup {"ended"} :
        <<from, to>> \in Path /\ Goes(g, from, to)
  BY DEF Executes, Enter, ServerMissing, SendGoal, GoalRefused, StoreHandle, CheckCancel,
         TakeResult, ClearHandles, FreeSlot, Inside, Entered
<1>2. /\ at[g] = from /\ at'[g] = to
      /\ \A h \in Goal : h # g => at'[h] = at[h]
      /\ at' \in [Goal -> Inside \cup {"new", "refused", "ended"}]
  BY <1>1, Advance DEF BridgeInv
<1>3. \A h \in Goal : h # g => at[h] \notin Inside
  BY <1>2 DEF BridgeInv, Solo
<1>4. UNCHANGED <<cancel, raised>>
  BY DEF Executes, Enter, ServerMissing, SendGoal, GoalRefused, StoreHandle, CheckCancel,
         TakeResult, ClearHandles, FreeSlot
<1>5. slot' = (IF to = "ended" THEN FALSE ELSE slot)
  BY <1>2 DEF Executes, Enter, ServerMissing, SendGoal, GoalRefused, StoreHandle,
              CheckCancel, TakeResult, ClearHandles, FreeSlot, Goes
<1>6. Solo' /\ slot' \in BOOLEAN
  BY <1>1, <1>2, <1>3, <1>5 DEF BridgeInv, BridgeTyped, Solo, Inside, Entered
<1>7. Handles'
  <2>1. external' = IF to = "connecting" THEN g
                    ELSE IF to = "cleared" THEN NoGoal ELSE external
    BY <1>2 DEF Executes, Enter, ServerMissing, SendGoal, GoalRefused, StoreHandle,
                CheckCancel, TakeResult, ClearHandles, FreeSlot, Goes
  <2>2. inner' = IF to = "stored" THEN g ELSE IF to = "cleared" THEN NoGoal ELSE inner
    BY <1>2 DEF Executes, Enter, ServerMissing, SendGoal, GoalRefused, StoreHandle,
                CheckCancel, TakeResult, ClearHandles, FreeSlot, Goes
  <2>3. \A h \in Goal : at'[h] \in Entered <=> h = g /\ to \in Entered
    BY <1>2, <1>3 DEF Inside
  <2>4. from # "accepted" /\ from # "cleared" => external = g
    BY <1>1, <1>2 DEF BridgeInv, Handles, Entered
  <2>5. from = "accepted" \/ from = "cleared" => external = NoGoal /\ inner = NoGoal
    BY <1>2, <1>3 DEF BridgeInv, Handles, Entered, Inside
  <2>6. external' \in Goal \cup {NoGoal} /\ inner' \in Goal \cup {NoGoal}
    BY <2>1, <2>2 DEF BridgeInv, Handles
  <2>7. external' = IF to \in Entered THEN g ELSE NoGoal
    BY <1>1, <2>1, <2>4, <2>5 DEF Entered
  <2>8. inner' # NoGoal => inner' = external'
    BY <1>1, <2>1, <2>2, <2>4, <2>5, <2>7 DEF BridgeInv, Handles, Entered
  <2> QED BY <2>3, <2>6, <2>7, <2>8 DEF Handles
<1>8. /\ \A h \in Goal : h # g => motion'[h] = motion[h]
      /\ motion' \in [Goal -> Motions]
      /\ IF to = "sent" THEN motion'[g] = "sent" ELSE motion'[g] = motion[g]
      /\ to = "closing" => ~Moving(g)
  <2>1. CASE SendGoal(g)
    BY <2>1, <1>1, <1>2 DEF SendGoal, Goes, BridgeInv, BridgeTyped, Motions
  <2>2. CASE ServerMissing(g)
    BY <2>2, <1>2 DEF ServerMissing, Goes, BridgeInv, BridgeTyped, MotionFirst, Waiting,
                      After, owner
  <2>3. CASE GoalRefused(g) \/ TakeResult(g)
    BY <2>3, <1>2 DEF GoalRefused, TakeResult, Goes, BridgeInv, BridgeTyped, Moving,
                      Admitted, owner
  <2>4. CASE Enter(g) \/ StoreHandle(g) \/ CheckCancel(g) \/ ClearHandles(g) \/ FreeSlot(g)
    BY <2>4, <1>2 DEF Enter, StoreHandle, CheckCancel, ClearHandles, FreeSlot, Goes,
                      BridgeInv, BridgeTyped, owner
  <2> QED BY <2>1, <2>2, <2>3, <2>4 DEF Executes
<1>9. /\ \A h \in Goal : h # g => status'[h] = status[h]
      /\ status' \in [Goal -> {"none", "executing", "canceling", "succeeded",
                               "aborted", "canceled"}]
      /\ \/ status'[g] = status[g]
         \/ to = "closing" /\ status'[g] = "canceled" /\ status[g] = "canceling"
         \/ to = "closing" /\ status'[g] = "aborted" /\ motion'[g] # "succeeded"
         \/ to = "closing" /\ status'[g] = "succeeded" /\ motion'[g] = "succeeded"
  <2>1. CASE ServerMissing(g) \/ GoalRefused(g)
    <3>1. FinishFailed(g) /\ to = "closing"
      BY <2>1, <1>2 DEF ServerMissing, GoalRefused, Goes
    <3>2. motion[g] # "succeeded" /\ motion'[g] = motion[g]
      BY <2>1 DEF ServerMissing, GoalRefused, owner, Goes, BridgeInv, MotionFirst,
                      Waiting, After
    <3> QED BY <3>1, <3>2, StatusSet DEF FinishFailed, Canceling, BridgeInv
  <2>2. CASE TakeResult(g)
    <3>1. /\ to = "closing" /\ motion'[g] = motion[g]
          /\ status' = [status EXCEPT ![g] = Outcome(g)]
      BY <2>2, <1>2 DEF TakeResult, Goes, owner
    <3> QED BY <3>1, StatusSet DEF Outcome, Canceling, BridgeInv
  <2>3. CASE Enter(g) \/ SendGoal(g) \/ StoreHandle(g) \/ CheckCancel(g)
             \/ ClearHandles(g) \/ FreeSlot(g)
    BY <2>3 DEF Enter, SendGoal, StoreHandle, CheckCancel, ClearHandles, FreeSlot,
                BridgeInv, BridgeTyped
  <2> QED BY <2>1, <2>2, <2>3 DEF Executes
<1>10. told' \in SUBSET Goal /\ \A h \in told' : h \in told \/ (h = g /\ status[g] = "canceling")
  <2>1. told' = told \/ (told' = told \cup {g} /\ status[g] = "canceling")
    <3>1. CASE CheckCancel(g)
      BY <3>1, Zenon DEF CheckCancel, Canceling
    <3>2. CASE Enter(g) \/ ServerMissing(g) \/ SendGoal(g) \/ GoalRefused(g)
               \/ StoreHandle(g) \/ TakeResult(g) \/ ClearHandles(g) \/ FreeSlot(g)
      BY <3>2 DEF Enter, ServerMissing, SendGoal, GoalRefused, StoreHandle, TakeResult,
                  ClearHandles, FreeSlot, owner
    <3> QED BY <3>1, <3>2 DEF Executes
  <2> QED BY <2>1 DEF BridgeInv, BridgeTyped
<1>11. BridgeTyped'
  BY <1>2, <1>4, <1>6, <1>8, <1>9, <1>10 DEF BridgeInv, BridgeTyped
<1>12. MotionFirst'
  <2>1. ASSUME NEW h \in Goal, h # g PROVE UNCHANGED <<at[h], motion[h], status[h]>>
    BY <1>2, <1>8, <1>9, <2>1
  <2>2. g \in raised => from \in After /\ to \in After \ {"closing"}
    BY <1>1, <1>2 DEF BridgeInv, MotionFirst, After
  <2>3. Moving(g)' => to \in Waiting \/ g \in raised
    BY <1>1, <1>2, <1>8 DEF BridgeInv, MotionFirst, Moving, Admitted, Waiting, After
  <2>4. motion'[g] # "none" => to \in Waiting \cup After
    BY <1>1, <1>2, <1>8 DEF BridgeInv, MotionFirst, Waiting, After
  <2>5. status'[g] \in {"succeeded", "aborted", "canceled"} => to \in After
    BY <1>1, <1>2, <1>9 DEF BridgeInv, MotionFirst, After
  <2>6. g \in raised => status'[g] # "succeeded"
    BY <1>9, <2>2 DEF BridgeInv, MotionFirst, After
  <2> QED
    BY <1>2, <1>4, <2>1, <2>2, <2>3, <2>4, <2>5, <2>6
    DEF BridgeInv, MotionFirst, Moving, Admitted
<1>15. OneAdmitted'
  BY <1>8 DEF BridgeInv, OneAdmitted, Admitted
<1>13. Requests'
  BY <1>4, <1>9, <1>10 DEF BridgeInv, Requests
<1>14. OutcomeIsTrue'
  <2>1. \A h \in Goal : h # g => /\ status'[h] = status[h] /\ motion'[h] = motion[h]
                                /\ cancel'[h] = cancel[h]
    BY <1>4, <1>8, <1>9
  <2>2. status[g] \in {"succeeded", "aborted"} => motion'[g] = motion[g]
    BY <1>1, <1>2, <1>8 DEF BridgeInv, MotionFirst, After
  <2>3. status[g] = "canceling" => cancel[g].step = "over"
    BY DEF BridgeInv, Requests
  <2> QED BY <1>4, <1>9, <2>1, <2>2, <2>3 DEF BridgeInv, OutcomeIsTrue
<1> QED BY <1>6, <1>7, <1>11, <1>12, <1>13, <1>14, <1>15 DEF BridgeInv

(* An exception: the motion of the goal goes on without its task.          *)
LEMMA RaiseStep ==
  ASSUME BridgeInv, NEW g \in Goal, Raises(g)
  PROVE  BridgeInv'
<1>1. /\ at[g] \in Waiting /\ Goes(g, at[g], "closing") /\ FinishFailed(g)
      /\ UNCHANGED <<slot, external, inner, cancel, motion, told>>
      /\ raised' = raised \cup {g}
  BY DEF Raises, Waiting, owner
<1>2. /\ at'[g] = "closing"
      /\ \A h \in Goal : h # g => at'[h] = at[h]
      /\ at' \in [Goal -> Inside \cup {"new", "refused", "ended"}]
  BY <1>1, Advance DEF BridgeInv, Inside, Entered
<1>3. /\ \A h \in Goal : h # g => status'[h] = status[h]
      /\ status' \in [Goal -> {"none", "executing", "canceling", "succeeded",
                               "aborted", "canceled"}]
      /\ \/ status[g] = "canceling" /\ status'[g] = "canceled"
         \/ status'[g] = "aborted"
  BY <1>1, StatusSet DEF FinishFailed, Canceling, BridgeInv
<1>4. BridgeTyped'
  BY <1>1, <1>2, <1>3 DEF BridgeInv, BridgeTyped
<1>5. Solo' /\ Handles'
  BY <1>1, <1>2 DEF BridgeInv, Solo, Handles, Waiting, Inside, Entered
<1>6. MotionFirst'
  BY <1>1, <1>2, <1>3 DEF BridgeInv, MotionFirst, Moving, Admitted, After
<1>7. OneAdmitted'
  BY <1>1 DEF BridgeInv, OneAdmitted, Admitted
<1>8. Requests' /\ OutcomeIsTrue'
  BY <1>1, <1>3 DEF BridgeInv, Requests, OutcomeIsTrue
<1> QED BY <1>4, <1>5, <1>6, <1>7, <1>8 DEF BridgeInv

LEMMA AskStep ==
  ASSUME BridgeInv, NEW g \in Goal, AskTask(g)
  PROVE  BridgeInv'
<1>1. UNCHANGED <<external, inner, cancel, motion, told, raised>>
  BY DEF AskTask, owner
<1>2. CASE slot
  <2>1. Goes(g, "new", "refused") /\ UNCHANGED <<slot, status>>
    BY <1>2 DEF AskTask, Goes
  <2>2. /\ at[g] = "new" /\ at'[g] = "refused"
        /\ \A h \in Goal : h # g => at'[h] = at[h]
        /\ at' \in [Goal -> Inside \cup {"new", "refused", "ended"}]
    BY <2>1, Advance DEF BridgeInv
  <2> QED
    BY <1>1, <2>1, <2>2
    DEF BridgeInv, BridgeTyped, Solo, Handles, MotionFirst, OneAdmitted, Requests,
        OutcomeIsTrue, Moving, Admitted, Inside, Entered, Waiting, After
<1>3. CASE ~slot
  <2>1. /\ Goes(g, "new", "accepted") /\ slot'
        /\ status' = [status EXCEPT ![g] = "executing"]
    BY <1>3 DEF AskTask, Goes
  <2>2. /\ at[g] = "new" /\ at'[g] = "accepted"
        /\ \A h \in Goal : h # g => at'[h] = at[h]
        /\ at' \in [Goal -> Inside \cup {"new", "refused", "ended"}]
    BY <2>1, Advance DEF BridgeInv, Inside
  <2>3. /\ status'[g] = "executing"
        /\ \A h \in Goal : h # g => status'[h] = status[h]
        /\ status' \in [Goal -> {"none", "executing", "canceling", "succeeded",
                                 "aborted", "canceled"}]
    BY <2>1, StatusSet DEF BridgeInv
  <2>4. \A h \in Goal : at[h] \notin Inside
    BY <1>3 DEF BridgeInv, Solo
  <2>5. BridgeTyped'
    BY <1>1, <1>3, <2>2, <2>3 DEF AskTask, BridgeInv, BridgeTyped
  <2>6. Solo'
    BY <2>1, <2>2, <2>4 DEF Solo
  <2>7. Handles'
    BY <1>1, <2>2 DEF BridgeInv, Handles, Entered
  <2>8. MotionFirst' /\ OneAdmitted'
    BY <1>1, <2>2, <2>3 DEF BridgeInv, MotionFirst, OneAdmitted, Moving, Admitted, Waiting,
                            After
  <2>9. Requests' /\ OutcomeIsTrue'
    BY <1>1, <2>3 DEF BridgeInv, Requests, OutcomeIsTrue
  <2> QED BY <2>5, <2>6, <2>7, <2>8, <2>9 DEF BridgeInv
<1> QED BY <1>2, <1>3
-----------------------------------------------------------------------------
LEMMA BridgeInductive == BridgeInv /\ [TaskNext]_taskVars => BridgeInv'
<1> SUFFICES ASSUME BridgeInv, [TaskNext]_taskVars PROVE BridgeInv'
  OBVIOUS
<1>1. CASE UNCHANGED taskVars \/ SceneComes \/ Passes
  <2>1. UNCHANGED <<slot, external, inner, at, status, cancel, motion, told, raised>>
    BY <1>1 DEF taskVars, SceneComes, Passes, bridge, owner
  <2> QED
    BY <2>1 DEF BridgeInv, BridgeTyped, Solo, Handles, MotionFirst, OneAdmitted, Requests,
                OutcomeIsTrue, Moving, Admitted
<1>2. CASE \E g \in Goal : \/ AskTask(g) \/ AskCancel(g) \/ Executes(g) \/ Raises(g)
                          \/ Cancels(g) \/ Moves(g)
  BY <1>2, AskStep, CancelStep, ExecuteStep, RaiseStep, MotionStep
<1> QED BY <1>1, <1>2 DEF TaskNext

LEMMA BridgeInvariant == TaskSpec => []BridgeInv
BY InitBridgeInv, BridgeInductive, PTL DEF TaskSpec

(* The slots exclude: a motion is under way only while its own task holds  *)
(* the bridge's slot, whatever becomes of the task at its awaits, unless   *)
(* one of them raised; and the motion server has never two of them, also   *)
(* when one was left behind (SingleGoalAdmission, _execute_callback,       *)
(* _motion_goal_callback).                                                 *)
THEOREM SlotExcludes == TaskSpec => []OneMotionUnderWay
<1>1. BridgeInv => OneMotionUnderWay
  BY DEF BridgeInv, Solo, MotionFirst, OneAdmitted, OneMotionUnderWay, Waiting, Inside,
         Entered
<1> QED BY BridgeInvariant, <1>1, PTL

(* A cancel callback that was left behind by its task never cancels the    *)
(* motion of the next one (_cancel_callback).                              *)
THEOREM CancelsOwnMotion == TaskSpec => []CancelStaysWithItsTask
<1>1. BridgeInv => CancelStaysWithItsTask
  BY DEF BridgeInv, Requests, BridgeTyped, CancelStaysWithItsTask
<1> QED BY BridgeInvariant, <1>1, PTL

(* What a task reports is what its motion did (_finish_external_goal,      *)
(* _finish_failed_goal), however cancels and results cross; but for an     *)
(* abort from the exception handler, which has no result to report.        *)
THEOREM OutcomesTrue == TaskSpec => []OutcomeIsTrue
<1>1. BridgeInv => OutcomeIsTrue
  BY DEF BridgeInv
<1> QED BY BridgeInvariant, <1>1, PTL

(* Commands leave only under a scene that is current at that very moment   *)
(* (_commit_task_commands): no other step commits.                         *)
THEOREM CommandsCurrent == TaskSpec => CommandsUnderCurrentScene
<1> DEFINE Commits(g) == motion[g] # "committed" /\ motion'[g] = "committed"
           Current == /\ snapshot.sound /\ snapshot.session = TaskSession
                      /\ now - snapshot.at <= MaxAge
<1>1. ASSUME BridgeInv, TaskNext, NEW g \in Goal, Commits(g)
      PROVE  Current
  <2>1. motion' # motion
    BY <1>1
  <2>2. PICK h \in Goal : Executes(h) \/ Moves(h)
    BY <1>1, <2>1 DEF TaskNext, AskTask, AskCancel, Raises, Cancels, ReadHandles, DecideCancel,
                      MarkCanceling, SceneComes, Passes, owner
  <2>3. ~Executes(h)
    <3> SUFFICES ASSUME Executes(h) PROVE FALSE
      OBVIOUS
    <3>1. SendGoal(h)
      BY <2>1 DEF Executes, Enter, ServerMissing, GoalRefused, StoreHandle, CheckCancel,
                  TakeResult, ClearHandles, FreeSlot, owner
    <3> QED BY <1>1, <3>1 DEF SendGoal, BridgeInv, BridgeTyped, Motions
  <2>4. MotionCommits(h) /\ motion' = [motion EXCEPT ![h] = "committed"]
    <3>1. PICK to \in Motions : motion' = [motion EXCEPT ![h] = to]
      BY <2>2, <2>3, MotionForward DEF MotionGoes
    <3>2. h = g /\ to = "committed"
      BY <1>1, <3>1 DEF BridgeInv, BridgeTyped
    <3>3. motion'[h] = "committed"
      BY <1>1, <3>2
    <3>4. MotionCommits(h)
      <4>1. \A x \in {"refused", "accepted", "dated", "checked", "succeeded", "aborted", "canceled"} :
              motion' # [motion EXCEPT ![h] = x]
        BY <1>1, <3>3 DEF BridgeInv, BridgeTyped
      <4>2. ~MotionChecks(h)
        BY <4>1 DEF MotionChecks, MotionGoes
      <4> QED
        BY <2>2, <2>3, <4>1, <4>2 DEF Moves, MotionAccepts, MotionRefuses, MotionDates,
                                      MotionReaches, MotionFails, MotionCancels, MotionGoes
    <3> QED BY <3>1, <3>2, <3>4
  <2> QED BY <1>1, <2>4 DEF MotionCommits, MotionGoes, Accepted, BridgeInv, BridgeTyped
<1>2. BridgeInv /\ [TaskNext]_taskVars => [\A g \in Goal : Commits(g) => Current]_taskVars
  BY <1>1
<1> QED BY BridgeInvariant, <1>2, PTL DEF TaskSpec, CommandsUnderCurrentScene
=============================================================================
