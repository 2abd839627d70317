-------------------------- MODULE TaskMotion_proofs --------------------------
(***************************************************************************)
(* Proofs about the motion action and the lease it asks for, for any       *)
(* identities, timeouts and bounds and any number of goals.                *)
(***************************************************************************)
EXTENDS TaskMotion, CommandArbitrator_proofs

USE NamesAssumption, BoundsAssumption, MotionAssumption DEF NoTime, NoLease, Never, Age

(* What the arbitrator showed of itself, oldest first: the state the        *)
(* controller knows, those on their way to it, and the present.             *)
Positions == 0 .. Len(states) + 1
Shown(k) == IF k = 0 THEN view ELSE IF k <= Len(states) THEN states[k] ELSE TaskState

Holds(s, l) == s.active /\ s.lease = l
Active(s, i) == s.ident = i /\ s.active
Shows(s, i) == s.ident = i \/ (s.last.action = "start" /\ s.last.ident = i)

(* A state that tells the end of the only lease an identity gets, or that   *)
(* it gets none. *)
Dead(s, i) == (s.ident = i /\ ~s.active) \/ StartRejected(s, i)
-----------------------------------------------------------------------------
MessageType == [action : TaskAction, ident : Identity, lease : Nat]
LastAction == TaskAction \cup {"", "timeout", "estop"}
StateType ==
  [ident : Identity \cup {NoIdentity}, active : BOOLEAN, lease : Nat,
   status : {"blocked", "active", "finished", "cancelled", "expired", "rejected", "idle"},
   last : [action : LastAction, ident : Identity \cup {NoIdentity}, accepted : BOOLEAN]]

LastTyped ==
  /\ lastControl.action \in LastAction
  /\ lastControl.ident \in Identity \cup {NoIdentity}
  /\ lastControl.accepted \in BOOLEAN
ChannelsTyped ==
  /\ control \in Seq(MessageType)
  /\ \A k \in 1 .. Len(control) : control[k].lease <= issued
  /\ states \in Seq(StateType) /\ view \in StateType
  /\ \A c \in commands : c.ident \in Identity /\ c.lease \in 1 .. issued
GoalTyped ==
  /\ goal \in [pc : {"idle", "accepted", "waiting", "granted", "moving", "reached",
                     "releasing"},
               ident : Identity \cup {NoIdentity}, lease : Nat,
               action : {"", "finish", "cancel"}]
  /\ goal.pc = "idle" <=> goal.ident = NoIdentity
  /\ goal.lease # NoLease <=> goal.pc \in {"granted", "moving", "reached", "releasing"}
  /\ goal.pc = "releasing" => goal.action # ""
  /\ cleanup \in [Identity -> {"none", "waiting", "cancelled"}]
  /\ admitting \subseteq Identity
MotionTyped == LastTyped /\ ChannelsTyped /\ GoalTyped

(* The leases that were shown are leases, and each was shown without a gap; *)
(* one that a goal was told it has, and that is still shown, is shown by    *)
(* the state the controller knows; one that was reported released is not    *)
(* shown at all. *)
Leases ==
  /\ \A k \in Positions : Shown(k).active => Shown(k).lease \in 1 .. issued
  /\ \A j, k, n \in Positions, l \in 1 .. issued :
       j <= k /\ k <= n /\ Holds(Shown(j), l) /\ Holds(Shown(n), l) => Holds(Shown(k), l)
Granted ==
  goal.lease # NoLease =>
    /\ goal.lease \in 1 .. issued
    /\ \A k \in Positions : Holds(Shown(k), goal.lease) => Holds(view, goal.lease)
Gone ==
  \A l \in released : l \in 1 .. issued /\ \A k \in Positions : ~Holds(Shown(k), l)

ReleaseInv == IInv /\ MotionTyped /\ Leases /\ Granted /\ Gone
-----------------------------------------------------------------------------
(* Where the start of an identity is that has not come to the arbitrator.   *)
WasAsked(i) == \E k \in 1 .. Len(asked) : asked[k] = i
StartAt(k, i) == control[k].action = "start" /\ control[k].ident = i
Starting(i) == \E k \in 1 .. Len(control) : StartAt(k, i)
Accepted(i) == goal.pc = "accepted" /\ goal.ident = i
Unstarted(i) == ~WasAsked(i) \/ i \in admitting \/ Accepted(i) \/ Starting(i)

Once ==
  \A i \in Identity :
    /\ i \in admitting \/ goal.ident = i \/ Starting(i) => WasAsked(i)
    /\ i \in admitting => goal.ident # i /\ ~Starting(i)
    /\ Accepted(i) => ~Starting(i)
    /\ \A j, k \in 1 .. Len(control) : StartAt(j, i) /\ StartAt(k, i) => j = k
    /\ Starting(i) => (goal.pc = "waiting" /\ goal.ident = i) \/ cleanup[i] = "waiting"
Unseen ==
  \A i \in Identity : Unstarted(i) => \A k \in Positions : ~Shows(Shown(k), i)
Final ==
  \A i \in Identity, j, k \in Positions :
    j <= k => /\ Dead(Shown(j), i) => ~Active(Shown(k), i)
              /\ Active(Shown(j), i) /\ Active(Shown(k), i) => Shown(j).lease = Shown(k).lease

AskedTyped == asked \in Seq(Identity)
History == Once /\ Unseen /\ Final
AccountInv == ReleaseInv /\ AskedTyped /\ History /\ LeaseAccounted
-----------------------------------------------------------------------------
(* What a step of the manager does to the task. *)
KeepsTask ==
  /\ taskIdent' = taskIdent /\ issued' = issued
  /\ TaskHeld' => TaskHeld /\ taskLease' = taskLease
Begins(i) ==
  /\ ~TaskHeld /\ TaskHeld' /\ taskIdent' = i
  /\ issued' = issued + 1 /\ taskLease' = issued + 1
  /\ lastControl'.action = "start" /\ lastControl'.ident = i /\ lastControl'.accepted = TRUE

LEMMA SettlesKeep ==
  ASSUME IInv, TaskSettles, issued' = issued PROVE KeepsTask
BY TaskSettlesEffect DEF KeepsTask, TaskHeld

(* Who holds a lease has it from the arbitrator, and no estop is on. *)
LEMMA HeldFacts ==
  ASSUME IInv, TaskHeld
  PROVE  ~estop /\ taskLease \in 1 .. issued /\ taskIdent \in Identity
BY DEF IInv, ControlInv, TaskHeld

LEMMA ControlNowTyped ==
  ASSUME IInv, LastTyped
  PROVE  \/ ControlNow = lastControl
         \/ /\ ControlNow.action = "timeout" /\ ControlNow.accepted = FALSE
            /\ ControlNow.ident \in Identity \cup {NoIdentity}
<1>1. CASE TaskExpired
  BY <1>1 DEF ControlNow, Control, IInv, TypeOK
<1>2. CASE ~TaskExpired
  BY <1>2 DEF ControlNow
<1> QED BY <1>1, <1>2

(* _handle_task_control *)
LEMMA OnControl ==
  ASSUME IInv, MotionTyped, HandleControl
  PROVE  LET m == Head(control) IN
         /\ \/ m.action = "start" /\ Begins(m.ident)
            \/ /\ KeepsTask
               /\ lastControl'.action = m.action /\ lastControl'.ident = m.ident
               /\ lastControl'.accepted \in BOOLEAN
               /\ lastControl'.accepted /\ m.action = "start" => TaskHeld /\ taskIdent = m.ident
         /\ /\ m.action \in {"finish", "cancel"} /\ TaskHeld
            /\ taskIdent = m.ident /\ taskLease = m.lease
            => ~TaskHeld'
<1> DEFINE m == Head(control)
<1>0. control # << >> /\ m \in MessageType
  BY DEF HandleControl, MotionTyped, ChannelsTyped
<1>1. /\ m.action \in TaskAction /\ m.ident \in Identity /\ m.lease \in Nat
  BY <1>0 DEF MessageType
<1> HIDE DEF m
<1>2. PICK n : n = m.action
  OBVIOUS
<1>3. \/ m.action = "start" /\ (TaskStart(m.ident) \/ TaskRejectPending(m.ident))
      \/ m.action \in {"start", "keepalive"} /\ TaskRenew(m.action, m.ident, m.lease)
      \/ m.action \in {"finish", "cancel"} /\ TaskEnd(m.action, m.ident, m.lease)
      \/ TaskReject(m.action, m.ident, m.lease)
  BY DEF HandleControl, m
<1> DEFINE Kept == /\ KeepsTask
                   /\ lastControl'.action = m.action /\ lastControl'.ident = m.ident
                   /\ lastControl'.accepted \in BOOLEAN
                   /\ lastControl'.accepted /\ m.action = "start" => TaskHeld /\ taskIdent = m.ident
           Ends == /\ m.action \in {"finish", "cancel"} /\ TaskHeld
                   /\ taskIdent = m.ident /\ taskLease = m.lease
                   => ~TaskHeld'
<1>4. ASSUME m.action = "start", TaskStart(m.ident) PROVE Begins(m.ident) /\ Ends
  <2>1. /\ ~TaskHeld /\ taskAge' = 0 /\ taskIdent' = m.ident /\ issued' = issued + 1
        /\ taskLease' = issued + 1
        /\ lastControl' = Control("start", m.ident, TRUE, "accepted")
    BY <1>4 DEF TaskStart
  <2>2. TaskHeld'
    BY <2>1 DEF TaskHeld
  <2> QED BY <1>4, <2>1, <2>2 DEF Control, Begins
<1>5. ASSUME NEW r, TaskControlRefused(m.action, m.ident, r) PROVE Kept
  <2>1. /\ TaskSettles /\ issued' = issued
        /\ lastControl' = Control(m.action, m.ident, FALSE, r)
    BY <1>5 DEF TaskControlRefused
  <2> QED BY <2>1, SettlesKeep DEF Control
<1>6. ASSUME m.action = "start", TaskRejectPending(m.ident) PROVE Kept /\ Ends
  BY <1>5, <1>6 DEF TaskRejectPending
<1>7. ASSUME m.action \in {"start", "keepalive"}, TaskRenew(m.action, m.ident, m.lease)
      PROVE  Kept /\ Ends
  <2>1. /\ TaskHeld /\ taskLease' = taskLease /\ taskIdent' = taskIdent /\ issued' = issued
        /\ lastControl' = Control(m.action, m.ident, TRUE, "accepted")
        /\ TaskControlVerdict(m.action, m.ident, m.lease) = "accepted"
    BY <1>7 DEF TaskRenew
  <2>2. taskIdent = m.ident
    BY <2>1 DEF TaskControlVerdict
  <2> QED BY <1>7, <2>1, <2>2 DEF Control, KeepsTask
<1>8. ASSUME m.action \in {"finish", "cancel"}, TaskEnd(m.action, m.ident, m.lease)
      PROVE  Kept /\ Ends
  <2>1. /\ taskAge' = NoTime /\ taskIdent' = taskIdent /\ issued' = issued
        /\ lastControl' = Control(m.action, m.ident, TRUE, "accepted")
    BY <1>8 DEF TaskEnd
  <2>2. ~TaskHeld'
    BY <2>1 DEF TaskHeld
  <2> QED BY <1>8, <2>1, <2>2 DEF Control, KeepsTask
<1>9. ASSUME TaskReject(m.action, m.ident, m.lease) PROVE Kept /\ Ends
  <2>1. /\ TaskControlVerdict(m.action, m.ident, m.lease) # "accepted"
        /\ TaskControlRefused(m.action, m.ident,
                              TaskControlVerdict(m.action, m.ident, m.lease))
    BY <1>9 DEF TaskReject
  <2>2. Kept
    BY <2>1, <1>5
  <2>3. ASSUME m.action \in {"finish", "cancel"}, TaskHeld, taskIdent = m.ident,
               taskLease = m.lease
        PROVE  FALSE
    <3>1. ~estop /\ taskLease # NoLease
      BY <2>3, HeldFacts
    <3> QED BY <1>1, <2>1, <2>3, <3>1 DEF TaskControlVerdict, TaskAction
  <2> QED BY <2>2, <2>3
<1> QED
  BY <1>3, <1>4, <1>6, <1>7, <1>8, <1>9 DEF m

(* The other steps: nobody is given a lease, no start is answered. *)
Idles ==
  /\ KeepsTask
  /\ \/ lastControl' = lastControl
     \/ /\ lastControl'.action \in {"timeout", "estop"} /\ lastControl'.accepted = FALSE
        /\ lastControl'.ident \in Identity \cup {NoIdentity}

LEMMA OffControl ==
  ASSUME IInv, MotionTyped,
         HandleCommand \/ StateTimer \/ EstopChanges \/ Passes \/ ReadPositions
  PROVE  Idles
<1>0. LastTyped
  BY DEF MotionTyped
<1>1. ASSUME TaskSettles, issued' = issued, lastControl' = ControlNow PROVE Idles
  BY <1>0, <1>1, SettlesKeep, ControlNowTyped DEF Idles
<1>2. ASSUME Refresh PROVE Idles
  BY <1>1, <1>2 DEF Refresh
<1>3. ASSUME HandleCommand PROVE Idles
  <2>1. PICK c \in commands : TaskCommand(TaskOf[c.ident], c.lease) \/ Refresh
    BY <1>3 DEF HandleCommand
  <2>2. CASE TaskCommand(TaskOf[c.ident], c.lease)
    BY <1>1, <2>2 DEF TaskCommand, HeldCommand
  <2> QED BY <1>2, <2>1, <2>2
<1>4. ASSUME EstopChanges PROVE Idles
  <2>1. CASE ClearEstop
    BY <1>1, <2>1 DEF ClearEstop
  <2>2. ASSUME NEW r \in StopReason, SetEstop(r) PROVE Idles
    <3>1. /\ taskAge' = NoTime /\ taskIdent' = taskIdent /\ issued' = issued
          /\ lastControl' = IF TaskHeld THEN Control("estop", taskIdent, FALSE, "estop")
                            ELSE ControlNow
      BY <2>2 DEF SetEstop
    <3>2. ~TaskHeld'
      BY <3>1 DEF TaskHeld
    <3>3. taskIdent \in Identity \cup {NoIdentity}
      BY DEF IInv, TypeOK
    <3>4. KeepsTask
      BY <3>1, <3>2 DEF KeepsTask
    <3>5. CASE TaskHeld
      BY <3>1, <3>3, <3>4, <3>5 DEF Control, Idles
    <3>6. CASE ~TaskHeld
      BY <1>0, <3>1, <3>4, <3>6, ControlNowTyped DEF Idles
    <3> QED BY <3>5, <3>6
  <2> QED BY <1>4, <2>1, <2>2 DEF EstopChanges
<1>5. ASSUME Passes PROVE Idles
  <2>1. /\ taskAge' = Older(taskAge, TaskTimeout)
        /\ UNCHANGED <<taskIdent, taskLease, lastControl, issued>>
    BY <1>5 DEF Passes, Tick
  <2>2. TaskHeld' => TaskHeld
    BY <2>1 DEF TaskHeld, Older, IInv, TypeOK
  <2> QED BY <2>1, <2>2 DEF Idles, KeepsTask
<1> QED
  BY <1>2, <1>3, <1>4, <1>5 DEF StateTimer, ReadPositions

(* Whatever the manager does is a step of the arbitrator. *)
LEMMA ManagerArbitrates ==
  ASSUME IInv, MotionTyped, ManagerNext \/ ReadPositions PROVE Next
<1>1. ASSUME HandleControl PROVE Next
  <2> DEFINE m == Head(control)
  <2>0. control # << >> /\ m \in MessageType /\ control[1].lease <= issued /\ m = control[1]
    BY <1>1 DEF HandleControl, MotionTyped, ChannelsTyped
  <2>1. m.action \in TaskAction /\ m.ident \in Identity /\ m.lease \in Presented
    BY <2>0 DEF MessageType, Presented
  <2> HIDE DEF m
  <2>2. \/ m.action = "start" /\ (TaskStart(m.ident) \/ TaskRejectPending(m.ident))
        \/ m.action \in {"start", "keepalive"} /\ TaskRenew(m.action, m.ident, m.lease)
        \/ m.action \in {"finish", "cancel"} /\ TaskEnd(m.action, m.ident, m.lease)
        \/ TaskReject(m.action, m.ident, m.lease)
    BY <1>1 DEF HandleControl, m
  <2>3. TaskNext
    BY <2>1, <2>2 DEF TaskNext
  <2> QED BY <2>3 DEF Next
<1>2. ASSUME HandleCommand PROVE Next
  <2>1. PICK c \in commands : TaskCommand(TaskOf[c.ident], c.lease) \/ Refresh
    BY <1>2 DEF HandleCommand
  <2>2. TaskOf[c.ident] \in TaskName /\ c.lease \in Presented
    BY <2>1 DEF MotionTyped, ChannelsTyped, Presented
  <2>3. CASE TaskCommand(TaskOf[c.ident], c.lease)
    BY <2>2, <2>3 DEF Next, CommandNext
  <2> QED BY <2>1, <2>3 DEF Next
<1>3. ASSUME EstopChanges PROVE Next
  BY <1>3 DEF EstopChanges, Next
<1> QED
  BY <1>1, <1>2, <1>3 DEF ManagerNext, StateTimer, Passes, ReadPositions, Next
-----------------------------------------------------------------------------
(* What is shown, step by step: the manager adds the present, TakeState      *)
(* forgets the oldest, nothing else changes it.                              *)
Local == UNCHANGED <<arbitrator, states, view>>
LocalStep ==
  \/ SceneRefusesGoal \/ StartTask \/ LeaseRefused \/ LeaseGranted \/ LeaseNotAwaited
  \/ CommitCommands \/ Keepalive \/ Finish \/ Abandon \/ ReleaseSeen \/ ReleaseUnseen
  \/ \E i \in Identity : AskGoal(i) \/ AdmitGoal(i)

LEMMA ThreeKinds ==
  ASSUME MotionNext
  PROVE  (ManagerNext \/ ReadPositions) \/ TakeState \/ LocalStep
BY DEF MotionNext, GoalStep, LocalStep

LEMMA LocalIsLocal ==
  ASSUME LocalStep PROVE Local
<1> USE DEF Local
<1>1. ASSUME NEW i \in Identity, AskGoal(i) \/ AdmitGoal(i) PROVE Local
  BY <1>1 DEF AskGoal, AdmitGoal, topics
<1>2. ASSUME Finish \/ Abandon \/ ReleaseSeen \/ ReleaseUnseen PROVE Local
  BY <1>2 DEF Finish, Abandon, ReleaseSeen, ReleaseUnseen, Release
<1>3. ASSUME SceneRefusesGoal \/ StartTask \/ LeaseRefused \/ LeaseGranted \/ LeaseNotAwaited
      PROVE  Local
  BY <1>3 DEF SceneRefusesGoal, StartTask, LeaseRefused, LeaseGranted, LeaseNotAwaited, topics
<1>4. ASSUME CommitCommands \/ Keepalive PROVE Local
  BY <1>4 DEF CommitCommands, Keepalive
<1> QED
  BY <1>1, <1>2, <1>3, <1>4 DEF LocalStep

LEMMA ManagerLeaves ==
  ASSUME ManagerNext \/ ReadPositions
  PROVE  /\ UNCHANGED <<view, admitting, cleanup, asked, released>>
         /\ states' = states \/ states' = Append(states, TaskState')
         /\ control' = control \/ (HandleControl /\ control # << >> /\ control' = Tail(control))
         /\ commands' \subseteq commands
         /\ goal' = goal \/ (goal.pc = "moving" /\ goal' = [goal EXCEPT !.pc = "reached"])
<1>1. ASSUME HandleControl
      PROVE  /\ UNCHANGED <<commands, controller>> /\ PublishState
             /\ control # << >> /\ control' = Tail(control)
  BY <1>1 DEF HandleControl
<1>2. ASSUME HandleCommand
      PROVE  /\ UNCHANGED <<control, controller>> /\ PublishState
             /\ commands' \subseteq commands
  BY <1>2 DEF HandleCommand
<1>3. ASSUME StateTimer \/ EstopChanges
      PROVE  UNCHANGED <<control, commands, controller>> /\ PublishState
  BY <1>3 DEF StateTimer, EstopChanges
<1>4. ASSUME Passes PROVE UNCHANGED <<control, states, commands, controller>>
  BY <1>4 DEF Passes, topics
<1>5. ASSUME ReadPositions
      PROVE  /\ UNCHANGED <<control, states, commands, view, admitting, cleanup, asked, released>>
             /\ goal.pc = "moving"
             /\ goal' = goal \/ goal' = [goal EXCEPT !.pc = "reached"]
  BY <1>5 DEF ReadPositions, topics
<1> QED
  BY <1>1, <1>2, <1>3, <1>4, <1>5 DEF ManagerNext, controller, PublishState

LEMMA ManagerMoves ==
  ASSUME ChannelsTyped, ManagerNext \/ ReadPositions
  PROVE  /\ Len(states) \in Nat
         /\ \A k \in Positions' : /\ k \in Nat
                                  /\ k <= Len(states) => k \in Positions /\ Shown(k)' = Shown(k)
                                  /\ k > Len(states) => Shown(k)' = TaskState'
<1>0. states \in Seq(StateType)
  BY DEF ChannelsTyped
<1>1. view' = view /\ (states' = states \/ states' = Append(states, TaskState'))
  BY ManagerLeaves
<1>2. CASE states' = states
  BY <1>0, <1>1, <1>2 DEF Positions, Shown
<1>3. CASE states' = Append(states, TaskState')
  <2>1. PICK t : t = TaskState'
    OBVIOUS
  <2>2. /\ Len(states') = Len(states) + 1
        /\ \A k \in 1 .. Len(states) : states'[k] = states[k]
        /\ states'[Len(states) + 1] = t
    BY <1>0, <1>3, <2>1
  <2>3. PICK n : n = Len(states)
    OBVIOUS
  <2>4. n \in Nat /\ Len(states') = n + 1
    BY <1>0, <2>2, <2>3
  <2>5. \A k \in 0 .. n : k \in Positions /\ Shown(k)' = Shown(k)
    BY <1>1, <2>2, <2>3, <2>4 DEF Positions, Shown
  <2>6. Shown(n + 1)' = TaskState'
    BY <2>1, <2>2, <2>3, <2>4 DEF Shown
  <2>7. Shown(n + 2)' = TaskState'
    BY <2>4 DEF Shown
  <2>8. ASSUME NEW k \in Positions'
        PROVE  /\ k \in Nat
               /\ k <= n => k \in Positions /\ Shown(k)' = Shown(k)
               /\ k > n => Shown(k)' = TaskState'
    <3>1. \/ k \in 0 .. n \/ k = n + 1 \/ k = n + 2
      BY <2>4 DEF Positions
    <3>2. CASE k \in 0 .. n
      BY <2>5, <2>4, <3>2
    <3>3. CASE k = n + 1
      BY <2>6, <2>4, <3>3
    <3>4. CASE k = n + 2
      BY <2>7, <2>4, <3>4
    <3> QED BY <3>1, <3>2, <3>3, <3>4
  <2> QED BY <2>3, <2>4, <2>8
<1> QED BY <1>1, <1>2, <1>3

LEMMA TakeMoves ==
  ASSUME ChannelsTyped, TakeState
  PROVE  /\ Len(states) \in Nat /\ Len(states) >= 1
         /\ view' = Shown(1) /\ Shown(1) = Head(states) /\ 1 \in Positions
         /\ \A k \in Positions' : k + 1 \in Positions /\ Shown(k)' = Shown(k + 1)
         /\ UNCHANGED vars
<1>0. /\ states \in Seq(StateType) /\ states # << >>
      /\ states' = Tail(states) /\ view' = Head(states) /\ UNCHANGED vars
  BY DEF ChannelsTyped, TakeState, arbitrator
<1>1. TaskState' = TaskState
  BY <1>0 DEF TaskState, vars, taskVars, TaskStatus, TaskHeld
<1>2. /\ Len(states) \in Nat /\ Len(states) >= 1 /\ Len(states') = Len(states) - 1
      /\ Head(states) = states[1]
      /\ \A k \in 1 .. Len(states) - 1 : states'[k] = states[k + 1]
  BY <1>0
<1>3. view' = Shown(1) /\ Shown(1) = Head(states) /\ 1 \in Positions
  BY <1>0, <1>2 DEF Shown, Positions
<1>4. \A k \in Positions' : k \in 0 .. Len(states) /\ k + 1 \in Positions
  BY <1>2 DEF Positions
<1>5. Shown(0)' = Shown(1)
  BY <1>3 DEF Shown
<1>6. \A k \in 1 .. Len(states) - 1 : Shown(k)' = Shown(k + 1)
  BY <1>2 DEF Shown
<1>7. PICK n : n = Len(states)
  OBVIOUS
<1>8. n \in Nat /\ n >= 1 /\ Len(states') = n - 1
  BY <1>2, <1>7
<1>9. Shown(n)' = TaskState'
  BY <1>8 DEF Shown
<1>10. Shown(n + 1) = TaskState
  BY <1>7, <1>8 DEF Shown
<1>11. ASSUME NEW k \in Positions' PROVE k + 1 \in Positions /\ Shown(k)' = Shown(k + 1)
  <2>1. k = 0 \/ k \in 1 .. n - 1 \/ k = n
    BY <1>4, <1>7, <1>8
  <2>2. CASE k = 0
    BY <1>3, <1>5, <2>2
  <2>3. CASE k \in 1 .. n - 1
    BY <1>4, <1>6, <1>7, <2>3
  <2>4. CASE k = n
    BY <1>1, <1>4, <1>9, <1>10, <2>4
  <2> QED BY <2>1, <2>2, <2>3, <2>4
<1> QED
  BY <1>0, <1>2, <1>3, <1>11

LEMMA LocalMoves ==
  ASSUME Local
  PROVE  /\ Positions' = Positions /\ view' = view /\ UNCHANGED vars
         /\ TaskState' = TaskState
         /\ \A k \in Positions : Shown(k)' = Shown(k)
<1>1. TaskState' = TaskState
  BY DEF Local, arbitrator, TaskState, vars, taskVars, TaskStatus, TaskHeld
<1> QED BY <1>1 DEF Local, arbitrator, Positions, Shown

LEMMA Present ==
  ASSUME ChannelsTyped
  PROVE  /\ Len(states) \in Nat
         /\ 0 \in Positions /\ Shown(0) = view
         /\ Len(states) + 1 \in Positions /\ Shown(Len(states) + 1) = TaskState
         /\ \A k \in Positions : k \in Nat /\ k <= Len(states) + 1
BY DEF ChannelsTyped, Positions, Shown

(* The fields of the present state. *)
LEMMA StateFields ==
  /\ TaskState.ident = taskIdent
  /\ TaskState.active <=> TaskHeld
  /\ TaskState.lease = IF TaskHeld THEN taskLease ELSE NoLease
  /\ TaskState.last.action = lastControl.action
  /\ TaskState.last.ident = lastControl.ident
  /\ TaskState.last.accepted = lastControl.accepted
BY DEF TaskState
LEMMA StateFieldsNext ==
  /\ TaskState'.ident = taskIdent'
  /\ TaskState'.active <=> TaskHeld'
  /\ TaskState'.lease = IF TaskHeld' THEN taskLease' ELSE NoLease
  /\ TaskState'.last.action = lastControl'.action
  /\ TaskState'.last.ident = lastControl'.ident
  /\ TaskState'.last.accepted = lastControl'.accepted
BY DEF TaskState
-----------------------------------------------------------------------------
(* How a goal lets go of its lease: it asks for the end and waits, or it is *)
(* over, with a cleanup behind it unless it saw the end. *)
GivesBack ==
  /\ \E a \in {"finish", "cancel"} :
       /\ control' = Append(control, Message(a, goal.ident, goal.lease))
       /\ goal' = [goal EXCEPT !.pc = "releasing", !.action = a]
  /\ UNCHANGED <<cleanup, released>>
Concludes ==
  /\ goal' = NoGoal
  /\ \/ released' = released
     \/ released' = released \cup {goal.lease} /\ TerminalStatus(view, goal.ident) # ""
  /\ \/ Register(goal.ident)
     \/ TerminalStatus(view, goal.ident) # "" /\ UNCHANGED <<cleanup, control>>

LEMMA ReleaseKinds ==
  ASSUME Finish \/ Abandon \/ ReleaseSeen \/ ReleaseUnseen
  PROVE  /\ goal.pc \in {"granted", "moving", "reached", "releasing"}
         /\ UNCHANGED <<commands, admitting, asked>>
         /\ Concludes \/ GivesBack
<1>1. ASSUME NEW a \in {"finish", "cancel"}, Release(a)
      PROVE  UNCHANGED <<commands, admitting, asked>> /\ (Concludes \/ GivesBack)
  <2>1. CASE TerminalStatus(view, goal.ident) # ""
    BY <1>1, <2>1 DEF Release, Conclude, Concludes
  <2>2. CASE TerminalStatus(view, goal.ident) = ""
    BY <1>1, <2>2 DEF Release, Send, GivesBack
  <2> QED BY <2>1, <2>2
<1>2. CASE Finish
  BY <1>1, <1>2 DEF Finish
<1>3. CASE Abandon
  BY <1>1, <1>3 DEF Abandon
<1>4. CASE ReleaseSeen
  BY <1>4 DEF ReleaseSeen, Conclude, Concludes
<1>5. CASE ReleaseUnseen
  BY <1>5 DEF ReleaseUnseen, Conclude, Concludes
<1> QED BY <1>2, <1>3, <1>4, <1>5

(* _register_pending_start_cleanup: closed, cancelled or waiting. *)
LEMMA RegisterEffect ==
  ASSUME MotionTyped, Leases, NEW i \in Identity, Register(i)
  PROVE  /\ cleanup' \in [Identity -> {"none", "waiting", "cancelled"}]
         /\ \A j \in Identity : j # i => cleanup'[j] = cleanup[j]
         /\ \/ /\ TerminalStatus(view, i) # "" /\ cleanup'[i] = "none"
               /\ control' = control
            \/ /\ Active(view, i) /\ view.lease \in 1 .. issued /\ cleanup'[i] = "cancelled"
               /\ control' = Append(control, Message("cancel", i, view.lease))
            \/ /\ ~Active(view, i) /\ cleanup'[i] = "waiting" /\ control' = control
<1>1. /\ cleanup \in [Identity -> {"none", "waiting", "cancelled"}]
      /\ view \in StateType
      /\ view.active => view.lease \in 1 .. issued
  BY Present DEF MotionTyped, GoalTyped, ChannelsTyped, Leases
<1>2. cleanup' = [cleanup EXCEPT ![i] =
                   IF TerminalStatus(view, i) # "" THEN "none"
                   ELSE IF ActiveLease(view, i) # NoLease THEN "cancelled" ELSE "waiting"]
  BY DEF Register
<1>3. control' = IF cleanup'[i] = "cancelled"
                 THEN Append(control, Message("cancel", i, ActiveLease(view, i))) ELSE control
  BY DEF Register
<1>4. ActiveLease(view, i) # NoLease => Active(view, i) /\ ActiveLease(view, i) = view.lease
  BY <1>1 DEF ActiveLease, Active
<1>5. Active(view, i) => ActiveLease(view, i) # NoLease
  BY <1>1 DEF ActiveLease, Active
<1>6. /\ cleanup' \in [Identity -> {"none", "waiting", "cancelled"}]
      /\ \A j \in Identity : j # i => cleanup'[j] = cleanup[j]
      /\ cleanup'[i] = IF TerminalStatus(view, i) # "" THEN "none"
                       ELSE IF ActiveLease(view, i) # NoLease THEN "cancelled" ELSE "waiting"
  BY <1>1, <1>2
<1>7. CASE TerminalStatus(view, i) # ""
  BY <1>3, <1>6, <1>7
<1>8. CASE TerminalStatus(view, i) = "" /\ ActiveLease(view, i) # NoLease
  BY <1>1, <1>3, <1>4, <1>6, <1>8 DEF Active
<1>9. CASE TerminalStatus(view, i) = "" /\ ActiveLease(view, i) = NoLease
  BY <1>3, <1>5, <1>6, <1>9
<1> QED BY <1>6, <1>7, <1>8, <1>9

LEMMA SentTyped ==
  ASSUME IInv, ChannelsTyped, Local,
         \/ control' = control
         \/ \E m \in MessageType : m.lease <= issued /\ control' = Append(control, m),
         \A c \in commands' : c \in commands \/ (c.ident \in Identity /\ c.lease \in 1 .. issued)
  PROVE  ChannelsTyped'
<1>1. UNCHANGED <<issued, states, view>>
  BY DEF Local, arbitrator, vars
<1>2. control \in Seq(MessageType) /\ \A k \in 1 .. Len(control) : control[k].lease <= issued
  BY DEF ChannelsTyped
<1>3. /\ control' \in Seq(MessageType)
      /\ \A k \in 1 .. Len(control') : control'[k].lease <= issued
  <2>1. CASE control' = control
    BY <1>2, <2>1
  <2>2. ASSUME NEW m \in MessageType, m.lease <= issued, control' = Append(control, m)
        PROVE  /\ control' \in Seq(MessageType)
               /\ \A k \in 1 .. Len(control') : control'[k].lease <= issued
    <3>1. /\ Len(control') = Len(control) + 1
          /\ \A k \in 1 .. Len(control') :
               control'[k] = IF k <= Len(control) THEN control[k] ELSE m
      BY <1>2, <2>2
    <3>2. ASSUME NEW k \in 1 .. Len(control') PROVE control'[k].lease <= issued
      <4>1. CASE k <= Len(control)
        BY <1>2, <3>1, <4>1
      <4>2. CASE ~(k <= Len(control))
        BY <1>2, <2>2, <3>1, <4>2
      <4> QED BY <4>1, <4>2
    <3> QED BY <1>2, <2>2, <3>2
  <2> QED BY <2>1, <2>2
<1> QED
  BY <1>1, <1>3 DEF ChannelsTyped

(* What the goal itself does keeps the types. *)
LEMMA LocalTyped ==
  ASSUME IInv, MotionTyped, Leases, Granted, LocalStep
  PROVE  MotionTyped'
<1>0. /\ Local /\ LastTyped /\ ChannelsTyped /\ GoalTyped /\ issued \in Nat
      /\ view \in StateType
  BY LocalIsLocal DEF MotionTyped, IInv, TypeOK, ChannelsTyped
<1>1. LastTyped'
  BY <1>0 DEF LastTyped, Local, arbitrator, vars, taskVars
<1>2. /\ goal.ident \in Identity \cup {NoIdentity} /\ goal.lease \in Nat /\ goal.lease <= issued
      /\ goal.pc # "idle" => goal.ident \in Identity
      /\ goal.pc \in {"granted", "moving", "reached", "releasing"} => goal.lease \in 1 .. issued
      /\ NoIdentity \notin Identity
  <2>1. /\ goal.ident \in Identity \cup {NoIdentity} /\ goal.lease \in Nat
        /\ goal.pc # "idle" => goal.ident \in Identity
        /\ goal.pc \in {"granted", "moving", "reached", "releasing"} => goal.lease # NoLease
    BY <1>0 DEF GoalTyped
  <2>2. goal.lease # NoLease => goal.lease \in 1 .. issued
    BY DEF Granted
  <2>3. goal.lease <= issued
    BY <1>0, <2>1, <2>2
  <2> QED BY <2>1, <2>2, <2>3
<1>3. ASSUME NEW i \in Identity, AskGoal(i) \/ AdmitGoal(i)
      PROVE  /\ UNCHANGED <<control, commands>> /\ GoalTyped'
  <2>1. CASE AskGoal(i)
    BY <1>0, <2>1 DEF AskGoal, topics, GoalTyped
  <2>2. CASE AdmitGoal(i)
    <3>1. UNCHANGED <<control, commands, cleanup>> /\ admitting' \subseteq Identity
      BY <1>0, <2>2 DEF AdmitGoal, topics, GoalTyped
    <3>2. \/ goal' = goal
          \/ goal' = [pc |-> "accepted", ident |-> i, lease |-> NoLease, action |-> ""]
      BY <2>2 DEF AdmitGoal, NoGoal
    <3>3. CASE goal' = goal
      BY <1>0, <3>1, <3>3 DEF GoalTyped
    <3>4. CASE goal' = [pc |-> "accepted", ident |-> i, lease |-> NoLease, action |-> ""]
      BY <1>0, <1>2, <3>1, <3>4 DEF GoalTyped
    <3> QED BY <3>1, <3>2, <3>3, <3>4
  <2> QED BY <1>3, <2>1, <2>2
<1>4. ASSUME goal' = NoGoal, cleanup' \in [Identity -> {"none", "waiting", "cancelled"}],
             admitting' = admitting
      PROVE  GoalTyped'
  BY <1>0, <1>4 DEF GoalTyped, NoGoal
<1>5. ASSUME NEW i \in Identity, Register(i)
      PROVE  /\ cleanup' \in [Identity -> {"none", "waiting", "cancelled"}]
             /\ \/ control' = control
                \/ \E m \in MessageType : m.lease <= issued /\ control' = Append(control, m)
  <2>1. CASE control' = control
    BY <1>5, <2>1, RegisterEffect
  <2>2. CASE control' = Append(control, Message("cancel", i, view.lease)) /\ view.lease \in 1 .. issued
    <3>1. Message("cancel", i, view.lease) \in MessageType
      BY <1>0, <2>2 DEF Message, MessageType, TaskAction
    <3>2. Message("cancel", i, view.lease).lease <= issued
      BY <1>0, <2>2 DEF Message
    <3> QED BY <1>5, <2>2, <3>1, <3>2, RegisterEffect
  <2> QED BY <1>5, <2>1, <2>2, RegisterEffect
<1>6. ASSUME goal.pc # "idle",
             NEW a \in TaskAction, NEW l, l = NoLease \/ l = goal.lease,
             control' = Append(control, Message(a, goal.ident, l))
      PROVE  \E m \in MessageType : m.lease <= issued /\ control' = Append(control, m)
  <2>1. Message(a, goal.ident, l) \in MessageType
    BY <1>2, <1>6 DEF Message, MessageType
  <2>2. Message(a, goal.ident, l).lease <= issued
    BY <1>0, <1>2, <1>6 DEF Message
  <2> QED BY <1>6, <2>1, <2>2
<1>7. ASSUME SceneRefusesGoal \/ LeaseRefused
      PROVE  UNCHANGED <<control, commands>> /\ GoalTyped'
  BY <1>0, <1>4, <1>7 DEF SceneRefusesGoal, LeaseRefused, topics, GoalTyped
<1>8. ASSUME StartTask
      PROVE  /\ \E m \in MessageType : m.lease <= issued /\ control' = Append(control, m)
             /\ UNCHANGED commands /\ GoalTyped'
  <2>1. /\ goal.pc = "accepted" /\ goal' = [goal EXCEPT !.pc = "waiting"]
        /\ UNCHANGED <<commands, admitting, cleanup>>
        /\ control' = Append(control, Message("start", goal.ident, NoLease))
    BY <1>8 DEF StartTask, Send
  <2> QED BY <1>0, <1>6, <2>1 DEF GoalTyped, TaskAction
<1>9. ASSUME LeaseGranted PROVE UNCHANGED <<control, commands>> /\ GoalTyped'
  <2>1. /\ goal.pc = "waiting" /\ UNCHANGED <<control, commands, cleanup, admitting>>
        /\ goal' = [goal EXCEPT !.pc = "granted", !.lease = ActiveLease(view, goal.ident)]
        /\ ActiveLease(view, goal.ident) # NoLease
    BY <1>9 DEF LeaseGranted, StartAccepted, topics
  <2>2. ActiveLease(view, goal.ident) \in Nat
    BY <1>0 DEF ActiveLease, StateType
  <2> QED BY <1>0, <2>1, <2>2 DEF GoalTyped
<1>10. ASSUME LeaseNotAwaited
       PROVE  /\ GoalTyped' /\ UNCHANGED commands
              /\ \/ control' = control
                 \/ \E m \in MessageType : m.lease <= issued /\ control' = Append(control, m)
  <2>1. PICK i : i = goal.ident
    OBVIOUS
  <2>2. /\ goal.pc = "waiting" /\ Register(i) /\ goal' = NoGoal
        /\ UNCHANGED <<commands, admitting>>
    BY <1>10, <2>1 DEF LeaseNotAwaited
  <2> QED BY <1>2, <1>4, <1>5, <2>1, <2>2
<1>11. ASSUME CommitCommands
       PROVE  /\ UNCHANGED control /\ GoalTyped'
              /\ \A c \in commands' :
                   c \in commands \/ (c.ident \in Identity /\ c.lease \in 1 .. issued)
  <2>1. /\ goal.pc = "granted" /\ UNCHANGED <<control, cleanup, admitting>>
        /\ goal' = [goal EXCEPT !.pc = "moving"]
        /\ commands' = commands \cup {[ident |-> goal.ident, lease |-> goal.lease]}
    BY <1>11 DEF CommitCommands
  <2>2. GoalTyped'
    BY <1>0, <2>1 DEF GoalTyped
  <2>3. goal.ident \in Identity /\ goal.lease \in 1 .. issued
    BY <1>2, <2>1
  <2> QED BY <2>1, <2>2, <2>3
<1>12. ASSUME Keepalive
       PROVE  /\ \E m \in MessageType : m.lease <= issued /\ control' = Append(control, m)
              /\ UNCHANGED commands /\ GoalTyped'
  <2>1. /\ goal.pc = "moving" /\ UNCHANGED <<commands, goal, admitting, cleanup>>
        /\ control' = Append(control, Message("keepalive", goal.ident, goal.lease))
    BY <1>12 DEF Keepalive, Send
  <2> QED BY <1>0, <1>6, <2>1 DEF GoalTyped, TaskAction
<1>13. ASSUME goal.pc # "idle", Concludes, admitting' = admitting
       PROVE  /\ GoalTyped'
              /\ \/ control' = control
                 \/ \E m \in MessageType : m.lease <= issued /\ control' = Append(control, m)
  <2>1. PICK i : i = goal.ident
    OBVIOUS
  <2>2. goal' = NoGoal /\ (Register(i) \/ UNCHANGED <<cleanup, control>>)
    BY <1>13, <2>1 DEF Concludes
  <2>3. cleanup \in [Identity -> {"none", "waiting", "cancelled"}]
    BY <1>0 DEF GoalTyped
  <2> QED BY <1>2, <1>4, <1>5, <1>13, <2>1, <2>2, <2>3
<1>14. ASSUME goal.pc \in {"granted", "moving", "reached", "releasing"}, GivesBack,
              admitting' = admitting
       PROVE  /\ GoalTyped'
              /\ \E m \in MessageType : m.lease <= issued /\ control' = Append(control, m)
  <2>1. PICK a \in {"finish", "cancel"} :
          /\ control' = Append(control, Message(a, goal.ident, goal.lease))
          /\ goal' = [goal EXCEPT !.pc = "releasing", !.action = a]
    BY <1>14 DEF GivesBack
  <2>2. cleanup' = cleanup
    BY <1>14 DEF GivesBack
  <2>3. GoalTyped'
    BY <1>0, <1>14, <2>1, <2>2 DEF GoalTyped
  <2> QED BY <1>6, <1>14, <2>1, <2>3 DEF TaskAction
<1>15. ASSUME Finish \/ Abandon \/ ReleaseSeen \/ ReleaseUnseen
       PROVE  /\ UNCHANGED commands /\ GoalTyped'
              /\ \/ control' = control
                 \/ \E m \in MessageType : m.lease <= issued /\ control' = Append(control, m)
  BY <1>13, <1>14, <1>15, ReleaseKinds
<1>16. GoalTyped'
  BY <1>3, <1>7, <1>8, <1>9, <1>10, <1>11, <1>12, <1>15 DEF LocalStep
<1>17. \/ control' = control
       \/ \E m \in MessageType : m.lease <= issued /\ control' = Append(control, m)
  BY <1>3, <1>7, <1>8, <1>9, <1>10, <1>11, <1>12, <1>15 DEF LocalStep
<1>18. \A c \in commands' : c \in commands \/ (c.ident \in Identity /\ c.lease \in 1 .. issued)
  BY <1>3, <1>7, <1>8, <1>9, <1>10, <1>11, <1>12, <1>15 DEF LocalStep
<1> QED
  BY <1>0, <1>1, <1>16, <1>17, <1>18, SentTyped DEF MotionTyped

(* The status is one of the message's, whatever the last control was. *)
LEMMA StatusTyped ==
  TaskState'.status \in {"blocked", "active", "finished", "cancelled", "expired", "rejected", "idle"}
BY DEF TaskState, TaskStatus

(* What the manager does to the task, in one place. *)
LEMMA ManagerTask ==
  ASSUME IInv, MotionTyped, ManagerNext \/ ReadPositions
  PROVE  /\ IInv' /\ LastTyped'
         /\ KeepsTask \/ \E i \in Identity : Begins(i)
         /\ ~HandleControl => Idles
<1>1. IInv'
  BY ManagerArbitrates, StepIInv
<1>2. LastTyped
  BY DEF MotionTyped
<1>3. ASSUME ~HandleControl PROVE Idles
  BY <1>3, OffControl DEF ManagerNext
<1>4. ASSUME Idles PROVE LastTyped' /\ KeepsTask
  BY <1>2, <1>4 DEF Idles, LastTyped, LastAction
<1>5. ASSUME HandleControl PROVE LastTyped' /\ (KeepsTask \/ \E i \in Identity : Begins(i))
  <2>1. control # << >> /\ Head(control) \in MessageType
    BY <1>5 DEF HandleControl, MotionTyped, ChannelsTyped
  <2>2. Head(control).action \in TaskAction /\ Head(control).ident \in Identity
    BY <2>1 DEF MessageType
  <2>3. \/ Begins(Head(control).ident)
        \/ /\ KeepsTask
           /\ lastControl'.action = Head(control).action
           /\ lastControl'.ident = Head(control).ident
           /\ lastControl'.accepted \in BOOLEAN
    BY <1>5, OnControl
  <2> QED BY <2>2, <2>3 DEF Begins, LastTyped, LastAction, TaskAction
<1> QED BY <1>1, <1>3, <1>4, <1>5

LEMMA ManagerTyped ==
  ASSUME IInv, MotionTyped, ManagerNext \/ ReadPositions
  PROVE  MotionTyped'
<1>1. IInv' /\ LastTyped'
  BY ManagerTask
<1>2. issued \in Nat /\ issued' \in Nat /\ issued <= issued'
  <2>1. issued \in Nat /\ issued' \in Nat
    BY <1>1 DEF IInv, TypeOK
  <2>2. issued' = issued \/ issued' = issued + 1
    BY ManagerTask DEF KeepsTask, Begins
  <2> QED BY <2>1, <2>2
<1>3. TaskState' \in StateType
  <2>1. /\ taskIdent' \in Identity \cup {NoIdentity} /\ taskLease' \in Nat
        /\ TaskHeld' \in BOOLEAN
    BY <1>1 DEF IInv, TypeOK, TaskHeld
  <2> QED BY <1>1, <2>1, StatusTyped DEF TaskState, StateType, LastTyped
<1>4. /\ control \in Seq(MessageType) /\ states \in Seq(StateType) /\ view \in StateType
      /\ \A k \in 1 .. Len(control) : control[k].lease \in Nat /\ control[k].lease <= issued
      /\ \A c \in commands : c.ident \in Identity /\ c.lease \in 1 .. issued
  <2>1. ChannelsTyped
    BY DEF MotionTyped
  <2>2. \A k \in 1 .. Len(control) : control[k] \in MessageType
    BY <2>1 DEF ChannelsTyped
  <2> QED BY <2>1, <2>2 DEF ChannelsTyped, MessageType
<1>5. control' \in Seq(MessageType) /\ \A k \in 1 .. Len(control') : control'[k].lease <= issued'
  <2>1. CASE control' = control
    BY <1>2, <1>4, <2>1
  <2>2. CASE control # << >> /\ control' = Tail(control)
    <3>1. /\ control' \in Seq(MessageType)
          /\ \A k \in 1 .. Len(control') : k + 1 \in 1 .. Len(control) /\ control'[k] = control[k + 1]
      BY <1>4, <2>2
    <3> QED BY <1>2, <1>4, <3>1
  <2> QED BY <2>1, <2>2, ManagerLeaves
<1>6. states' \in Seq(StateType) /\ view' \in StateType
  <2>1. PICK t \in StateType : t = TaskState'
    BY <1>3
  <2>2. view' = view /\ (states' = states \/ states' = Append(states, t))
    BY <2>1, ManagerLeaves
  <2> QED BY <1>4, <2>2
<1>7. \A c \in commands' : c.ident \in Identity /\ c.lease \in 1 .. issued'
  BY <1>2, <1>4, ManagerLeaves
<1>8. GoalTyped'
  <2>1. /\ UNCHANGED <<admitting, cleanup>>
        /\ goal' = goal \/ (goal.pc = "moving" /\ goal' = [goal EXCEPT !.pc = "reached"])
    BY ManagerLeaves
  <2>2. CASE goal' = goal
    BY <2>1, <2>2 DEF MotionTyped, GoalTyped
  <2>3. CASE goal.pc = "moving" /\ goal' = [goal EXCEPT !.pc = "reached"]
    BY <2>1, <2>3 DEF MotionTyped, GoalTyped
  <2> QED BY <2>1, <2>2, <2>3
<1> QED
  BY <1>1, <1>5, <1>6, <1>7, <1>8 DEF MotionTyped, ChannelsTyped

(* _on_task_state sends one cancel at most. *)
LEMMA TakeEffect ==
  ASSUME MotionTyped, Leases, TakeState
  PROVE  LET s == Shown(1) IN
         /\ s \in StateType
         /\ UNCHANGED <<vars, commands, goal, admitting, asked, released>>
         /\ cleanup' \in [Identity -> {"none", "waiting", "cancelled"}]
         /\ \A i \in Identity :
              \/ cleanup'[i] = cleanup[i]
              \/ cleanup'[i] = "none" /\ (TerminalStatus(s, i) # "" \/ StartRejected(s, i))
              \/ /\ cleanup'[i] = "cancelled" /\ Active(s, i)
                 /\ control' = Append(control, Message("cancel", s.ident, s.lease))
         /\ \/ control' = control
            \/ /\ control' = Append(control, Message("cancel", s.ident, s.lease))
               /\ s.ident \in Identity /\ s.lease \in 1 .. issued
<1> DEFINE s == Head(states)
           found == {i \in Identity : cleanup[i] = "waiting" /\ ActiveLease(s, i) # NoLease}
           closed == {i \in Identity : TerminalStatus(s, i) # "" \/ StartRejected(s, i)}
<1>0. ChannelsTyped /\ states \in Seq(StateType) /\ states # << >>
  BY DEF MotionTyped, ChannelsTyped, TakeState
<1>1. /\ s = Shown(1) /\ s \in StateType /\ 1 \in Positions
      /\ UNCHANGED <<vars, commands, goal, admitting, asked, released>>
  <2>1. s \in StateType
    BY <1>0
  <2>2. s = Shown(1) /\ 1 \in Positions /\ UNCHANGED vars
    BY <1>0, TakeMoves
  <2>3. UNCHANGED <<commands, goal, admitting, asked, released>>
    BY DEF TakeState
  <2> QED BY <2>1, <2>2, <2>3
<1>2. /\ cleanup' = [i \in Identity |->
                      IF i \in found THEN "cancelled"
                      ELSE IF i \in closed THEN "none" ELSE cleanup[i]]
      /\ control' = IF found = {} THEN control
                    ELSE Append(control, Message("cancel", s.ident, s.lease))
  BY DEF TakeState
<1>3. cleanup \in [Identity -> {"none", "waiting", "cancelled"}]
  BY DEF MotionTyped, GoalTyped
<1>4. s.active => s.lease \in 1 .. issued
  BY <1>1 DEF Leases
<1>5. \A i \in Identity : i \in found => Active(s, i)
  BY DEF ActiveLease, Active
<1>6. found # {} => s.ident \in Identity /\ s.lease \in 1 .. issued
  BY <1>4, <1>5 DEF Active
<1>7. \A i \in Identity : i \in closed => TerminalStatus(s, i) # "" \/ StartRejected(s, i)
  OBVIOUS
<1> HIDE DEF found, closed, s
<1>8. cleanup' \in [Identity -> {"none", "waiting", "cancelled"}]
  BY <1>2, <1>3
<1>9. ASSUME NEW i \in Identity
      PROVE  \/ cleanup'[i] = cleanup[i]
             \/ cleanup'[i] = "none" /\ (TerminalStatus(s, i) # "" \/ StartRejected(s, i))
             \/ /\ cleanup'[i] = "cancelled" /\ Active(s, i)
                /\ control' = Append(control, Message("cancel", s.ident, s.lease))
  <2>1. CASE i \in found
    BY <1>2, <1>5, <2>1
  <2>2. CASE i \notin found
    BY <1>2, <1>7, <2>2
  <2> QED BY <2>1, <2>2
<1>10. \/ control' = control
       \/ /\ control' = Append(control, Message("cancel", s.ident, s.lease))
          /\ s.ident \in Identity /\ s.lease \in 1 .. issued
  BY <1>2, <1>6
<1> QED BY <1>1, <1>8, <1>9, <1>10

LEMMA TakeTyped ==
  ASSUME IInv, MotionTyped, Leases, TakeState PROVE MotionTyped'
<1>1. PICK s : s = Shown(1)
  OBVIOUS
<1>2. /\ UNCHANGED <<vars, commands, goal, admitting>> /\ s \in StateType
      /\ cleanup' \in [Identity -> {"none", "waiting", "cancelled"}]
      /\ \/ control' = control
         \/ /\ control' = Append(control, Message("cancel", s.ident, s.lease))
            /\ s.ident \in Identity /\ s.lease \in 1 .. issued
  BY <1>1, TakeEffect
<1>3. /\ LastTyped /\ ChannelsTyped /\ GoalTyped /\ issued \in Nat /\ issued' = issued
  BY <1>2 DEF MotionTyped, IInv, TypeOK, vars
<1>4. LastTyped'
  BY <1>2, <1>3 DEF LastTyped, vars, taskVars
<1>5. GoalTyped'
  BY <1>2, <1>3 DEF GoalTyped
<1>6. view' \in StateType /\ states' \in Seq(StateType)
  <2>1. view' = s /\ states \in Seq(StateType) /\ states # << >> /\ states' = Tail(states)
    BY <1>1, <1>3, TakeMoves DEF TakeState, ChannelsTyped
  <2> QED BY <1>2, <2>1
<1>7. control' \in Seq(MessageType) /\ \A k \in 1 .. Len(control') : control'[k].lease <= issued
  <2>0. control \in Seq(MessageType) /\ \A k \in 1 .. Len(control) : control[k].lease <= issued
    BY <1>3 DEF ChannelsTyped
  <2>1. CASE control' = control
    BY <2>0, <2>1
  <2>2. CASE /\ control' = Append(control, Message("cancel", s.ident, s.lease))
             /\ s.ident \in Identity /\ s.lease \in 1 .. issued
    <3>1. PICK m \in MessageType : m = Message("cancel", s.ident, s.lease)
      BY <1>3, <2>2 DEF Message, MessageType, TaskAction
    <3>2. m.lease <= issued
      BY <1>3, <2>2, <3>1 DEF Message
    <3>3. /\ control' \in Seq(MessageType)
          /\ \A k \in 1 .. Len(control') :
               control'[k] = IF k <= Len(control) THEN control[k] ELSE m
          /\ \A k \in 1 .. Len(control') : k <= Len(control) => k \in 1 .. Len(control)
      BY <2>0, <2>2, <3>1
    <3> QED BY <2>0, <3>2, <3>3
  <2> QED BY <1>2, <2>1, <2>2
<1> QED
  BY <1>2, <1>3, <1>4, <1>5, <1>6, <1>7 DEF MotionTyped, ChannelsTyped
-----------------------------------------------------------------------------
(* Leases shown before are not shown anew, and the present is not older.    *)
LEMMA PresentHolds ==
  ASSUME IInv, MotionTyped, ManagerNext \/ ReadPositions
  PROVE  /\ issued \in Nat /\ issued' \in Nat /\ issued <= issued'
         /\ TaskState'.active => TaskState'.lease \in 1 .. issued'
         /\ \A l \in 1 .. issued : Holds(TaskState', l) => Holds(TaskState, l)
<1>1. IInv' /\ (KeepsTask \/ \E i \in Identity : Begins(i))
  BY ManagerTask
<1>2. issued \in Nat /\ issued' \in Nat
  BY <1>1 DEF IInv, TypeOK
<1>3. TaskHeld' => taskLease' \in 1 .. issued'
  BY <1>1 DEF IInv, ControlInv, TaskHeld
<1>4. CASE KeepsTask
  BY <1>2, <1>3, <1>4, StateFields, StateFieldsNext DEF KeepsTask, Holds
<1>5. ASSUME NEW i \in Identity, Begins(i)
      PROVE  issued <= issued' /\ \A l \in 1 .. issued : Holds(TaskState', l) => Holds(TaskState, l)
  <2>1. TaskHeld' /\ issued' = issued + 1 /\ taskLease' = issued + 1
    BY <1>5 DEF Begins
  <2> QED BY <1>2, <2>1, StateFieldsNext DEF Holds
<1> QED BY <1>1, <1>2, <1>3, <1>4, <1>5, StateFieldsNext

LEMMA ManagerReleases ==
  ASSUME ReleaseInv, ManagerNext \/ ReadPositions
  PROVE  Leases' /\ Granted' /\ Gone'
<1>0. IInv /\ MotionTyped /\ ChannelsTyped /\ Leases /\ Granted /\ Gone
  BY DEF ReleaseInv, MotionTyped
<1>1. PICK n : n = Len(states)
  OBVIOUS
<1>2. PICK t : t = TaskState'
  OBVIOUS
<1>3. /\ n \in Nat /\ n + 1 \in Positions /\ Shown(n + 1) = TaskState
      /\ 0 \in Positions /\ Shown(0) = view
  BY <1>0, <1>1, Present
<1>4. \A k \in Positions' : /\ k \in Nat
                            /\ k <= n => k \in Positions /\ Shown(k)' = Shown(k)
                            /\ k > n => Shown(k)' = t
  <2>1. \A k \in Positions' : /\ k \in Nat
                              /\ k <= Len(states) => k \in Positions /\ Shown(k)' = Shown(k)
                              /\ k > Len(states) => Shown(k)' = TaskState'
    BY <1>0, ManagerMoves
  <2> QED BY <1>1, <1>2, <2>1
<1>5. /\ issued \in Nat /\ issued' \in Nat /\ issued <= issued'
      /\ t.active => t.lease \in 1 .. issued'
      /\ \A l \in 1 .. issued : Holds(t, l) => Holds(Shown(n + 1), l)
  BY <1>0, <1>2, <1>3, PresentHolds
<1>6. /\ view' = view /\ released' = released
      /\ goal' = goal \/ goal' = [goal EXCEPT !.pc = "reached"]
  BY ManagerLeaves
<1>7. goal'.lease = goal.lease
  BY <1>0, <1>6 DEF MotionTyped, GoalTyped
<1>8. \A k \in Positions : Shown(k).active => Shown(k).lease \in 1 .. issued
  BY <1>0 DEF Leases
<1>9. \A k \in Positions' : Shown(k)'.active => Shown(k)'.lease \in 1 .. issued'
  <2> SUFFICES ASSUME NEW k \in Positions' PROVE Shown(k)'.active => Shown(k)'.lease \in 1 .. issued'
    OBVIOUS
  <2>1. CASE k <= n
    BY <1>4, <1>5, <1>8, <2>1
  <2>2. CASE k > n
    BY <1>4, <1>5, <2>2
  <2> QED BY <1>3, <1>4, <2>1, <2>2
<1>10. ASSUME NEW l \in 1 .. issued, NEW k \in Positions', Holds(Shown(k)', l)
       PROVE  \E m \in Positions : m <= n + 1 /\ Holds(Shown(m), l) /\ (k <= n => m = k)
  <2>1. CASE k <= n
    BY <1>3, <1>4, <1>10, <2>1
  <2>2. CASE k > n
    BY <1>3, <1>4, <1>5, <1>10, <2>2
  <2> QED BY <1>3, <1>4, <2>1, <2>2
<1>11. ASSUME NEW j \in Positions', NEW k \in Positions', NEW m \in Positions',
              NEW l \in 1 .. issued', j <= k, k <= m, Holds(Shown(j)', l), Holds(Shown(m)', l)
       PROVE  Holds(Shown(k)', l)
  <2>1. j \in Nat /\ k \in Nat /\ m \in Nat
    BY <1>4
  <2>2. CASE k > n
    <3>1. m > n
      BY <1>3, <1>11, <2>1, <2>2
    <3> QED BY <1>4, <1>11, <2>2, <3>1
  <2>3. CASE k <= n
    <3>1. /\ j <= n /\ j \in Positions /\ Shown(j)' = Shown(j)
          /\ k \in Positions /\ Shown(k)' = Shown(k)
      BY <1>3, <1>4, <1>11, <2>1, <2>3
    <3>2. Holds(Shown(j), l) /\ l \in 1 .. issued
      BY <1>8, <1>11, <3>1 DEF Holds
    <3>3. PICK q \in Positions : Holds(Shown(q), l) /\ (m <= n => q = m) /\ (m > n => q = n + 1)
      <4>1. CASE m <= n
        BY <1>4, <1>11, <4>1, <2>1, <1>3
      <4>2. CASE m > n
        BY <1>3, <1>4, <1>5, <1>11, <3>2, <4>2, <2>1
      <4> QED BY <1>3, <2>1, <4>1, <4>2
    <3>4. k <= q
      BY <1>3, <1>11, <2>1, <2>3, <3>3
    <3> QED BY <1>0, <1>11, <3>1, <3>2, <3>3, <3>4 DEF Leases
  <2> QED BY <1>3, <2>1, <2>2, <2>3
<1>12. Leases'
  BY <1>9, <1>11 DEF Leases
<1>13. Granted'
  <2> SUFFICES ASSUME goal.lease # NoLease
               PROVE  /\ goal.lease \in 1 .. issued'
                      /\ \A k \in Positions' :
                           Holds(Shown(k)', goal.lease) => Holds(view, goal.lease)
    BY <1>6, <1>7 DEF Granted
  <2>1. goal.lease \in 1 .. issued
    BY <1>0 DEF Granted
  <2>2. \A k \in Positions : Holds(Shown(k), goal.lease) => Holds(view, goal.lease)
    BY <1>0 DEF Granted
  <2> QED BY <1>5, <1>10, <2>1, <2>2
<1>14. Gone'
  <2> SUFFICES ASSUME NEW l \in released
               PROVE  l \in 1 .. issued' /\ \A k \in Positions' : ~Holds(Shown(k)', l)
    BY <1>6 DEF Gone
  <2>1. l \in 1 .. issued /\ \A k \in Positions : ~Holds(Shown(k), l)
    BY <1>0 DEF Gone
  <2> QED BY <1>5, <1>10, <2>1
<1> QED BY <1>12, <1>13, <1>14

(* The controller learns of a lease before it can learn of its end. *)
LEMMA TakeReleases ==
  ASSUME ReleaseInv, TakeState PROVE Leases' /\ Granted' /\ Gone'
<1>0. IInv /\ MotionTyped /\ ChannelsTyped /\ Leases /\ Granted /\ Gone
  BY DEF ReleaseInv, MotionTyped
<1>1. /\ view' = Shown(1) /\ 1 \in Positions /\ 0 \in Positions /\ Shown(0) = view
      /\ \A k \in Positions' : k + 1 \in Positions /\ Shown(k)' = Shown(k + 1) /\ k \in Nat
  BY <1>0, TakeMoves, Present DEF Positions
<1>2. UNCHANGED <<issued, goal, released>>
  BY <1>0, TakeEffect DEF vars
<1>3. \A k \in Positions' : Shown(k)'.active => Shown(k)'.lease \in 1 .. issued'
  BY <1>0, <1>1, <1>2 DEF Leases
<1>4. ASSUME NEW j \in Positions', NEW k \in Positions', NEW m \in Positions',
             NEW l \in 1 .. issued', j <= k, k <= m, Holds(Shown(j)', l), Holds(Shown(m)', l)
      PROVE  Holds(Shown(k)', l)
  <2>1. j + 1 <= k + 1 /\ k + 1 <= m + 1
    BY <1>1, <1>4
  <2> QED BY <1>0, <1>1, <1>2, <1>4, <2>1 DEF Leases
<1>5. Granted'
  <2> SUFFICES ASSUME goal.lease # NoLease, NEW k \in Positions', Holds(Shown(k)', goal.lease)
               PROVE  Holds(view', goal.lease)
    BY <1>0, <1>2 DEF Granted
  <2>1. goal.lease \in 1 .. issued /\ Holds(Shown(k + 1), goal.lease) /\ Holds(Shown(0), goal.lease)
    BY <1>0, <1>1 DEF Granted
  <2>2. 0 <= 1 /\ 1 <= k + 1 /\ k + 1 \in Positions
    BY <1>1
  <2>3. Holds(Shown(1), goal.lease)
    BY <1>0, <1>1, <2>1, <2>2 DEF Leases
  <2> QED BY <1>1, <2>3
<1>6. Gone'
  BY <1>0, <1>1, <1>2 DEF Gone
<1> QED BY <1>3, <1>4, <1>5, <1>6 DEF Leases

LEMMA LocalReleases ==
  ASSUME ReleaseInv, LocalStep PROVE Leases' /\ Granted' /\ Gone'
<1>0. IInv /\ MotionTyped /\ ChannelsTyped /\ GoalTyped /\ Leases /\ Granted /\ Gone
  BY DEF ReleaseInv, MotionTyped
<1>1. /\ Positions' = Positions /\ view' = view /\ issued' = issued
      /\ \A k \in Positions : Shown(k)' = Shown(k)
      /\ 0 \in Positions /\ Shown(0) = view
  BY <1>0, LocalIsLocal, LocalMoves, Present DEF vars
<1>2. Leases'
  BY <1>0, <1>1 DEF Leases
<1>3. CASE LeaseGranted
  <2>1. /\ ActiveLease(view, goal.ident) # NoLease
        /\ goal' = [goal EXCEPT !.pc = "granted", !.lease = ActiveLease(view, goal.ident)]
        /\ released' = released
    BY <1>3 DEF LeaseGranted, StartAccepted
  <2>2. view.active /\ goal'.lease = view.lease
    BY <1>0, <2>1 DEF ActiveLease, GoalTyped
  <2>3. view.lease \in 1 .. issued /\ Holds(view, view.lease)
    BY <1>0, <1>1, <2>2 DEF Leases, Holds
  <2>4. Granted'
    BY <1>1, <2>2, <2>3 DEF Granted
  <2>5. Gone'
    BY <1>0, <1>1, <2>1 DEF Gone
  <2> QED BY <1>2, <2>4, <2>5
<1>4. ASSUME goal'.lease = goal.lease \/ goal'.lease = NoLease, released' = released
      PROVE  Granted' /\ Gone'
  BY <1>0, <1>1, <1>4 DEF Granted, Gone
<1>5. CASE Finish \/ Abandon \/ ReleaseSeen \/ ReleaseUnseen
  <2>1. goal.lease # NoLease /\ (Concludes \/ GivesBack)
    BY <1>0, <1>5, ReleaseKinds DEF GoalTyped
  <2>2. CASE GivesBack
    <3>1. goal'.lease = goal.lease /\ released' = released
      BY <1>0, <2>2 DEF GivesBack, GoalTyped
    <3> QED BY <1>2, <1>4, <3>1
  <2>3. CASE Concludes
    <3>1. goal'.lease = NoLease
      BY <2>3 DEF Concludes, NoGoal
    <3>2. CASE released' = released
      BY <1>2, <1>4, <3>1, <3>2
    <3>3. CASE released' = released \cup {goal.lease} /\ TerminalStatus(view, goal.ident) # ""
      <4>1. ~Holds(view, goal.lease)
        BY <3>3 DEF TerminalStatus, Holds
      <4>2. goal.lease \in 1 .. issued /\ \A k \in Positions : ~Holds(Shown(k), goal.lease)
        BY <1>0, <2>1, <4>1 DEF Granted
      <4>3. Gone'
        BY <1>0, <1>1, <3>3, <4>2 DEF Gone
      <4>4. Granted'
        BY <3>1 DEF Granted
      <4> QED BY <1>2, <4>3, <4>4
    <3> QED BY <2>3, <3>2, <3>3 DEF Concludes
  <2> QED BY <2>1, <2>2, <2>3
<1>6. ASSUME NEW i \in Identity, AskGoal(i) \/ AdmitGoal(i)
      PROVE  (goal'.lease = goal.lease \/ goal'.lease = NoLease) /\ released' = released
  BY <1>6 DEF AskGoal, AdmitGoal, NoGoal
<1>7. ASSUME SceneRefusesGoal \/ LeaseRefused \/ LeaseNotAwaited
      PROVE  goal'.lease = NoLease /\ released' = released
  <2>1. goal' = NoGoal /\ released' = released
    BY <1>7 DEF SceneRefusesGoal, LeaseRefused, LeaseNotAwaited
  <2> QED BY <2>1 DEF NoGoal
<1>8. ASSUME StartTask \/ CommitCommands \/ Keepalive
      PROVE  goal'.lease = goal.lease /\ released' = released
  BY <1>0, <1>8 DEF StartTask, CommitCommands, Keepalive, GoalTyped
<1> QED
  BY <1>2, <1>3, <1>4, <1>5, <1>6, <1>7, <1>8 DEF LocalStep

LEMMA StutterReleases ==
  ASSUME ReleaseInv, UNCHANGED motionVars PROVE ReleaseInv'
<1>0. UNCHANGED <<vars, control, states, commands, view, goal, admitting, cleanup, released>>
  BY DEF motionVars, arbitrator, topics, controller
<1>1. IInv'
  BY <1>0, StepIInv DEF ReleaseInv
<1>2. MotionTyped' /\ issued' = issued
  BY <1>0 DEF ReleaseInv, MotionTyped, LastTyped, ChannelsTyped, GoalTyped, vars, taskVars
<1>3. /\ Positions' = Positions /\ view' = view
      /\ \A k \in Positions : Shown(k)' = Shown(k)
  BY <1>0, LocalMoves DEF Local, arbitrator
<1> QED
  BY <1>0, <1>1, <1>2, <1>3 DEF ReleaseInv, Leases, Granted, Gone

LEMMA InitReleases ==
  ASSUME MotionInit PROVE ReleaseInv
<1>0. /\ Init /\ control = << >> /\ states = << >> /\ commands = {} /\ view = TaskState
      /\ goal = NoGoal /\ admitting = {} /\ cleanup = [i \in Identity |-> "none"]
      /\ released = {}
  BY DEF MotionInit
<1>1. IInv
  BY <1>0, InitIInv
<1>2. ~TaskHeld /\ lastControl.action = "" /\ lastControl.ident = NoIdentity
      /\ lastControl.accepted = FALSE
  <2>1. lastControl = Control("", NoIdentity, FALSE, "")
    BY <1>0, Zenon DEF Init
  <2>2. ~TaskHeld
    <3>1. taskAge = NoTime
      BY <1>0, Zenon DEF Init
    <3> QED BY <3>1 DEF TaskHeld
  <2>3. lastControl.action = "" /\ lastControl.ident = NoIdentity
    BY <2>1 DEF Control
  <2>4. lastControl.accepted = FALSE
    BY <2>1, Zenon DEF Control
  <2> QED BY <2>2, <2>3, <2>4
<1>3. LastTyped
  BY <1>2 DEF LastTyped, LastAction
<1>4. TaskState \in StateType
  <2>1. TaskState.status \in {"blocked", "active", "finished", "cancelled", "expired", "rejected", "idle"}
    BY DEF TaskState, TaskStatus
  <2>2. taskIdent \in Identity \cup {NoIdentity} /\ TaskHeld \in BOOLEAN /\ taskLease \in Nat
    BY <1>1 DEF IInv, TypeOK, TaskHeld
  <2> QED BY <1>3, <2>1, <2>2 DEF TaskState, StateType, LastTyped
<1>5. MotionTyped
  <2>1. control \in Seq(MessageType) /\ states \in Seq(StateType) /\ Len(control) = 0
    BY <1>0
  <2>2. ChannelsTyped
    BY <1>0, <1>4, <2>1 DEF ChannelsTyped
  <2>3. GoalTyped
    BY <1>0 DEF GoalTyped, NoGoal
  <2> QED BY <1>3, <2>2, <2>3 DEF MotionTyped
<1>6. \A k \in Positions : Shown(k) = TaskState
  BY <1>0 DEF Positions, Shown
<1>7. ~TaskState.active
  BY <1>2, StateFields
<1> QED
  BY <1>0, <1>1, <1>5, <1>6, <1>7 DEF ReleaseInv, Leases, Granted, Gone, Holds, NoGoal

LEMMA StepReleases ==
  ASSUME ReleaseInv, [MotionNext]_motionVars PROVE ReleaseInv'
<1>1. IInv /\ MotionTyped /\ Leases /\ Granted
  BY DEF ReleaseInv
<1>2. CASE ManagerNext \/ ReadPositions
  BY <1>1, <1>2, ManagerTask, ManagerTyped, ManagerReleases DEF ReleaseInv
<1>3. CASE TakeState
  <2>1. UNCHANGED vars
    BY <1>1, <1>3, TakeEffect
  <2> QED BY <1>1, <1>3, <2>1, StepIInv, TakeTyped, TakeReleases DEF ReleaseInv
<1>4. CASE LocalStep
  <2>1. UNCHANGED vars
    BY <1>4, LocalIsLocal, LocalMoves
  <2> QED BY <1>1, <1>4, <2>1, StepIInv, LocalTyped, LocalReleases DEF ReleaseInv
<1> QED
  BY <1>2, <1>3, <1>4, StutterReleases, ThreeKinds

(* The types of the composition hold, for any number of goals.              *)
THEOREM MotionTypeCorrect == MotionSpec => []MotionTyped
<1>1. MotionInit => ReleaseInv
  BY InitReleases
<1>2. ReleaseInv /\ [MotionNext]_motionVars => ReleaseInv'
  BY StepReleases
<1>3. ReleaseInv => MotionTyped
  BY DEF ReleaseInv
<1> QED BY <1>1, <1>2, <1>3, PTL DEF MotionSpec

(* Behind the controller the arbitrator behaves as it does alone: whatever  *)
(* goals, retries, late states and leftovers of commands make of it, every  *)
(* step is one of its own (execution_manager_node.py).                      *)
THEOREM MotionArbitrates == MotionSpec => Spec
<1>1. MotionInit => ReleaseInv /\ Init
  BY InitReleases DEF MotionInit
<1>2. ReleaseInv /\ [MotionNext]_motionVars => ReleaseInv'
  BY StepReleases
<1>3. ReleaseInv /\ [MotionNext]_motionVars => [Next]_vars
  <2> SUFFICES ASSUME ReleaseInv, [MotionNext]_motionVars PROVE [Next]_vars
    OBVIOUS
  <2>1. CASE ManagerNext \/ ReadPositions
    BY <2>1, ManagerArbitrates DEF ReleaseInv
  <2>2. CASE TakeState
    BY <2>2 DEF TakeState, arbitrator
  <2>3. CASE LocalStep
    BY <2>3, LocalIsLocal DEF Local, arbitrator
  <2>4. CASE UNCHANGED motionVars
    BY <2>4 DEF motionVars, arbitrator
  <2> QED BY <2>1, <2>2, <2>3, <2>4, ThreeKinds
<1> QED BY <1>1, <1>2, <1>3, PTL DEF MotionSpec, Spec

(* The promise of the execution layer, kept with the controller in front:   *)
(* one source at a time owns the actuators, commands pass only under the    *)
(* lease of the owner, and an estop leaves nobody in control.               *)
THEOREM MotionKeepsAuthority == MotionSpec => ImplementsAuthority
  BY MotionArbitrates, AuthorityImplemented, PTL

(* A goal that reported its admission as released has no lease left: states *)
(* keep their order, so the end it saw is the end of its lease, or later.   *)
THEOREM ReleasedOver == MotionSpec => []ReleasedIsOver
<1>1. MotionInit => ReleaseInv
  BY InitReleases
<1>2. ReleaseInv /\ [MotionNext]_motionVars => ReleaseInv'
  BY StepReleases
<1>3. ReleaseInv => ReleasedIsOver
  <2> SUFFICES ASSUME ReleaseInv, TaskHeld PROVE taskLease \notin released
    BY DEF ReleasedIsOver
  <2>1. PICK n \in Positions : Shown(n) = TaskState
    BY Present DEF ReleaseInv, MotionTyped
  <2>2. Holds(Shown(n), taskLease)
    BY <2>1, StateFields DEF Holds
  <2> QED BY <2>2 DEF ReleaseInv, Gone
<1> QED BY <1>1, <1>2, <1>3, PTL DEF MotionSpec
-----------------------------------------------------------------------------
(* A message that is no start leaves the starts where they are. *)
Quiet ==
  \/ control' = control
  \/ \E m \in MessageType : m.action # "start" /\ control' = Append(control, m)

LEMMA QuietControl ==
  ASSUME ChannelsTyped, Quiet
  PROVE  /\ \A i \in Identity : Starting(i)' => Starting(i)
         /\ \A i \in Identity, k \in 1 .. Len(control') :
              StartAt(k, i)' => k \in 1 .. Len(control) /\ StartAt(k, i)
         /\ \A k \in 1 .. Len(control) : k \in 1 .. Len(control') /\ control'[k] = control[k]
<1>0. control \in Seq(MessageType)
  BY DEF ChannelsTyped
<1>1. \A k \in 1 .. Len(control) : k \in 1 .. Len(control') /\ control'[k] = control[k]
  BY <1>0 DEF Quiet
<1>2. \A k \in 1 .. Len(control') :
        control'[k].action = "start" => k \in 1 .. Len(control) /\ control'[k] = control[k]
  BY <1>0 DEF Quiet
<1>3. \A i \in Identity, k \in 1 .. Len(control') :
        StartAt(k, i)' => k \in 1 .. Len(control) /\ StartAt(k, i)
  BY <1>2 DEF StartAt
<1>4. \A i \in Identity : Starting(i)' => Starting(i)
  BY <1>3 DEF Starting
<1> QED BY <1>1, <1>3, <1>4

LEMMA TailControl ==
  ASSUME ChannelsTyped, control # << >>, control' = Tail(control)
  PROVE  /\ 1 \in 1 .. Len(control) /\ control[1] = Head(control)
         /\ \A k \in 1 .. Len(control') : k + 1 \in 1 .. Len(control) /\ control'[k] = control[k + 1]
         /\ \A k \in 1 .. Len(control) :
              k = 1 \/ (k - 1 \in 1 .. Len(control') /\ control'[k - 1] = control[k])
         /\ \A i \in Identity : Starting(i)' => Starting(i)
<1>0. control \in Seq(MessageType)
  BY DEF ChannelsTyped
<1>1. /\ 1 \in 1 .. Len(control) /\ control[1] = Head(control)
      /\ \A k \in 1 .. Len(control') : k + 1 \in 1 .. Len(control) /\ control'[k] = control[k + 1]
  BY <1>0
<1>2. \A k \in 1 .. Len(control) :
        k = 1 \/ (k - 1 \in 1 .. Len(control') /\ control'[k - 1] = control[k])
  BY <1>0
<1>3. \A i \in Identity : Starting(i)' => Starting(i)
  BY <1>1 DEF Starting, StartAt
<1> QED BY <1>1, <1>2, <1>3

(* What the state of an identity that has not started says of it: nothing. *)
LEMMA ShowsWhat ==
  ASSUME NEW s, NEW i
  PROVE  /\ Active(s, i) => Shows(s, i)
         /\ Dead(s, i) => Shows(s, i)
         /\ TerminalStatus(s, i) # "" => Dead(s, i)
         /\ StartRejected(s, i) => Dead(s, i)
         /\ StartAccepted(s, i) => Shows(s, i)
<1>1. Active(s, i) => Shows(s, i)
  BY DEF Active, Shows
<1>2. Dead(s, i) => Shows(s, i)
  BY DEF Dead, Shows, StartRejected
<1>3. TerminalStatus(s, i) # "" => Dead(s, i)
  BY DEF TerminalStatus, Dead
<1>4. StartRejected(s, i) => Dead(s, i)
  BY DEF Dead
<1>5. StartAccepted(s, i) => Shows(s, i)
  BY DEF StartAccepted, Shows
<1> QED BY <1>1, <1>2, <1>3, <1>4, <1>5

(* The identity that holds the task is the one the present state shows. *)
LEMMA PresentActive ==
  /\ \A i : Active(TaskState, i) <=> TaskHeld /\ taskIdent = i
  /\ TaskHeld => TaskState.lease = taskLease
BY StateFields DEF Active

(* The manager: a start that comes is the only one, and was never shown. *)
LEMMA ManagerOnce ==
  ASSUME AccountInv, ManagerNext \/ ReadPositions PROVE Once' /\ AskedTyped'
<1>0. /\ IInv /\ MotionTyped /\ ChannelsTyped /\ GoalTyped /\ Once
  BY DEF AccountInv, ReleaseInv, MotionTyped, History
<1>1. /\ UNCHANGED <<admitting, cleanup, asked>>
      /\ goal' = goal \/ (goal.pc = "moving" /\ goal' = [goal EXCEPT !.pc = "reached"])
      /\ control' = control \/ (control # << >> /\ control' = Tail(control))
  BY ManagerLeaves
<1>2. /\ goal'.ident = goal.ident
      /\ goal'.pc = "waiting" <=> goal.pc = "waiting"
      /\ goal'.pc = "accepted" <=> goal.pc = "accepted"
  <2>1. CASE goal' = goal
    BY <2>1
  <2>2. CASE goal.pc = "moving" /\ goal' = [goal EXCEPT !.pc = "reached"]
    BY <1>0, <2>2 DEF GoalTyped
  <2> QED BY <1>1, <2>1, <2>2
<1>3. \A i \in Identity : Starting(i)' => Starting(i)
  <2>1. CASE control' = control
    BY <2>1 DEF Starting, StartAt
  <2>2. CASE control # << >> /\ control' = Tail(control)
    BY <1>0, <2>2, TailControl
  <2> QED BY <1>1, <2>1, <2>2
<1>4. ASSUME NEW i \in Identity, NEW j \in 1 .. Len(control'), NEW k \in 1 .. Len(control'),
             StartAt(j, i)', StartAt(k, i)'
      PROVE  j = k
  <2>1. CASE control' = control
    BY <1>0, <1>4, <2>1 DEF Once, StartAt
  <2>2. CASE control # << >> /\ control' = Tail(control)
    <3>1. /\ j + 1 \in 1 .. Len(control) /\ control'[j] = control[j + 1]
          /\ k + 1 \in 1 .. Len(control) /\ control'[k] = control[k + 1]
      BY <1>0, <2>2, TailControl
    <3>2. StartAt(j + 1, i) /\ StartAt(k + 1, i)
      BY <1>4, <3>1 DEF StartAt
    <3>3. j + 1 = k + 1
      BY <1>0, <3>1, <3>2 DEF Once
    <3> QED BY <3>3
  <2> QED BY <1>1, <2>1, <2>2
<1>5. AskedTyped'
  BY <1>1 DEF AccountInv, AskedTyped
<1> QED
  BY <1>0, <1>1, <1>2, <1>3, <1>4, <1>5 DEF Once, WasAsked, Accepted

(* What the present says of an identity after a step of the manager: of one *)
(* that has not started nothing; who has the task had it, with that lease,  *)
(* or was never shown before.                                               *)
LEMMA PresentSays ==
  ASSUME AccountInv, ManagerNext \/ ReadPositions, NEW i \in Identity
  PROVE  /\ Unstarted(i)' => Unstarted(i) /\ ~Shows(TaskState', i)
         /\ Active(TaskState', i) =>
              \/ Active(TaskState, i) /\ TaskState'.lease = TaskState.lease
              \/ \A k \in Positions : ~Shows(Shown(k), i)
         /\ Dead(TaskState', i) => ~Active(TaskState', i)
<1>0. /\ IInv /\ MotionTyped /\ ChannelsTyped /\ GoalTyped /\ Once /\ Unseen /\ Final
  BY DEF AccountInv, ReleaseInv, MotionTyped, History
<1>1. PICK n \in Positions : Shown(n) = TaskState
  BY <1>0, Present
<1>2. /\ UNCHANGED <<admitting, asked>>
      /\ goal' = goal \/ (goal.pc = "moving" /\ goal' = [goal EXCEPT !.pc = "reached"])
      /\ control' = control \/ (HandleControl /\ control # << >> /\ control' = Tail(control))
  BY ManagerLeaves
<1>3. Starting(i)' => Starting(i)
  <2>1. CASE control' = control
    BY <2>1 DEF Starting, StartAt
  <2>2. CASE control # << >> /\ control' = Tail(control)
    BY <1>0, <2>2, TailControl
  <2> QED BY <1>2, <2>1, <2>2
<1>4. Unstarted(i)' => Unstarted(i)
  <2>1. Accepted(i)' => Accepted(i)
    <3>1. CASE goal' = goal
      BY <3>1 DEF Accepted
    <3>2. CASE goal.pc = "moving" /\ goal' = [goal EXCEPT !.pc = "reached"]
      BY <1>0, <3>2 DEF Accepted, GoalTyped
    <3> QED BY <1>2, <3>1, <3>2
  <2> QED BY <1>2, <1>3, <2>1 DEF Unstarted, WasAsked
<1>5. Unstarted(i) => \A k \in Positions : ~Shows(Shown(k), i)
  BY <1>0 DEF Unseen
<1>6. /\ Shows(TaskState, i) <=> taskIdent = i \/ (lastControl.action = "start" /\ lastControl.ident = i)
      /\ Shows(TaskState', i) <=>
           taskIdent' = i \/ (lastControl'.action = "start" /\ lastControl'.ident = i)
      /\ Active(TaskState, i) <=> TaskHeld /\ taskIdent = i
      /\ Active(TaskState', i) <=> TaskHeld' /\ taskIdent' = i
  <2>1. Shows(TaskState, i) <=> taskIdent = i \/ (lastControl.action = "start" /\ lastControl.ident = i)
    BY StateFields DEF Shows
  <2>2. Shows(TaskState', i) <=>
           taskIdent' = i \/ (lastControl'.action = "start" /\ lastControl'.ident = i)
    BY StateFieldsNext DEF Shows
  <2>3. Active(TaskState, i) <=> TaskHeld /\ taskIdent = i
    BY StateFields DEF Active
  <2>4. Active(TaskState', i) <=> TaskHeld' /\ taskIdent' = i
    BY StateFieldsNext DEF Active
  <2> QED BY <2>1, <2>2, <2>3, <2>4
<1>7. /\ StartRejected(TaskState, i) <=>
           lastControl.action = "start" /\ lastControl.ident = i /\ ~lastControl.accepted
      /\ StartRejected(TaskState', i) <=>
           lastControl'.action = "start" /\ lastControl'.ident = i /\ ~lastControl'.accepted
  BY StateFields, StateFieldsNext DEF StartRejected
<1>8. ASSUME KeepsTask
      PROVE  Active(TaskState', i) => Active(TaskState, i) /\ TaskState'.lease = TaskState.lease
  BY <1>6, <1>8, StateFields, StateFieldsNext DEF KeepsTask
<1>9. Dead(TaskState', i) /\ Active(TaskState', i) => StartRejected(TaskState', i)
  BY DEF Dead, Active
<1>10. CASE Idles
  <2>1. KeepsTask
    BY <1>10 DEF Idles
  <2>2. lastControl'.action = "start" => lastControl' = lastControl
    BY <1>10 DEF Idles
  <2>3. Shows(TaskState', i) => Shows(TaskState, i)
    BY <1>6, <2>1, <2>2 DEF KeepsTask
  <2>4. StartRejected(TaskState', i) => StartRejected(TaskState, i)
    BY <1>7, <2>2
  <2>5. StartRejected(TaskState, i) => ~Active(TaskState, i)
    <3>1. Dead(Shown(n), i) => ~Active(Shown(n), i)
      BY <1>0, <1>1, Present DEF Final
    <3> QED BY <1>1, <3>1 DEF Dead
  <2> QED BY <1>1, <1>4, <1>5, <1>8, <1>9, <2>1, <2>3, <2>4, <2>5
<1>11. CASE HandleControl
  <2> DEFINE m == Head(control)
  <2>1. /\ control # << >> /\ control' = Tail(control)
    BY <1>11 DEF HandleControl
  <2>2. 1 \in 1 .. Len(control) /\ control[1] = m
    BY <1>0, <2>1, TailControl
  <2>3. m.action = "start" /\ m.ident = i => StartAt(1, i) /\ Starting(i) /\ Unstarted(i)
    BY <2>2 DEF StartAt, Starting, Unstarted
  <2>4. m.action = "start" /\ m.ident = i => ~Unstarted(i)'
    <3> SUFFICES ASSUME StartAt(1, i), Starting(i), Unstarted(i)' PROVE FALSE
      BY <2>3
    <3>1. WasAsked(i) /\ i \notin admitting /\ ~Accepted(i)
      BY <1>0 DEF Once
    <3>2. ~Starting(i)'
      <4> SUFFICES ASSUME NEW k \in 1 .. Len(control'), StartAt(k, i)' PROVE FALSE
        BY DEF Starting
      <4>1. k + 1 \in 1 .. Len(control) /\ control'[k] = control[k + 1]
        BY <1>0, <2>1, TailControl
      <4>2. StartAt(k + 1, i)
        BY <4>1 DEF StartAt
      <4>3. k + 1 = 1
        BY <1>0, <2>2, <4>1, <4>2 DEF Once
      <4> QED BY <4>3
    <3>3. ~Accepted(i)'
      <4>1. CASE goal' = goal
        BY <3>1, <4>1 DEF Accepted
      <4>2. CASE goal.pc = "moving" /\ goal' = [goal EXCEPT !.pc = "reached"]
        BY <1>0, <4>2 DEF Accepted, GoalTyped
      <4> QED BY <1>2, <4>1, <4>2
    <3> QED BY <1>2, <3>1, <3>2, <3>3 DEF Unstarted, WasAsked
  <2>5. CASE m.action = "start" /\ Begins(m.ident)
    <3>1. /\ TaskHeld' /\ taskIdent' = m.ident
          /\ lastControl'.ident = m.ident /\ lastControl'.accepted
      BY <2>5 DEF Begins
    <3>2. CASE m.ident = i
      BY <1>4, <1>5, <1>7, <1>9, <2>3, <2>4, <2>5, <3>1, <3>2
    <3>3. CASE m.ident # i
      <4>1. ~Shows(TaskState', i) /\ ~Active(TaskState', i)
        BY <1>6, <3>1, <3>3
      <4> QED BY <1>4, <4>1
    <3> QED BY <3>2, <3>3
  <2>6. CASE KeepsTask /\ lastControl'.action = m.action /\ lastControl'.ident = m.ident
    <3>1. Shows(TaskState', i) =>
             Shows(TaskState, i) \/ (m.action = "start" /\ m.ident = i)
      BY <1>6, <2>6 DEF KeepsTask
    <3>2. StartRejected(TaskState', i) => m.action = "start" /\ m.ident = i
      BY <1>7, <2>6
    <3>3. Active(TaskState', i) => Shows(TaskState, i)
      BY <1>6, <1>8, <2>6
    <3> QED BY <1>1, <1>4, <1>5, <1>8, <1>9, <2>3, <2>4, <2>6, <3>1, <3>2, <3>3
  <2> QED BY <1>0, <1>11, <2>5, <2>6, OnControl
<1> QED BY <1>0, <1>10, <1>11, ManagerTask

LEMMA ManagerHistory ==
  ASSUME AccountInv, ManagerNext \/ ReadPositions PROVE History' /\ AskedTyped'
<1>0. ChannelsTyped /\ Unseen /\ Final
  BY DEF AccountInv, ReleaseInv, MotionTyped, History
<1>1. PICK n : n = Len(states)
  OBVIOUS
<1>2. PICK t : t = TaskState'
  OBVIOUS
<1>3. PICK u : u = TaskState
  OBVIOUS
<1>4. n \in Nat /\ n + 1 \in Positions /\ Shown(n + 1) = u
  BY <1>0, <1>1, <1>3, Present
<1>5. \A k \in Positions' : /\ k \in Nat
                            /\ k <= n => k \in Positions /\ Shown(k)' = Shown(k)
                            /\ k > n => Shown(k)' = t
  <2>1. \A k \in Positions' : /\ k \in Nat
                              /\ k <= Len(states) => k \in Positions /\ Shown(k)' = Shown(k)
                              /\ k > Len(states) => Shown(k)' = TaskState'
    BY <1>0, ManagerMoves
  <2> QED BY <1>1, <1>2, <2>1
<1>6. ASSUME NEW i \in Identity
      PROVE  /\ Unstarted(i)' => Unstarted(i) /\ ~Shows(t, i)
             /\ Active(t, i) =>
                  \/ Active(u, i) /\ t.lease = u.lease
                  \/ \A k \in Positions : ~Shows(Shown(k), i)
             /\ Dead(t, i) => ~Active(t, i)
  <2>1. /\ Unstarted(i)' => Unstarted(i) /\ ~Shows(TaskState', i)
        /\ Active(TaskState', i) =>
             \/ Active(TaskState, i) /\ TaskState'.lease = TaskState.lease
             \/ \A k \in Positions : ~Shows(Shown(k), i)
        /\ Dead(TaskState', i) => ~Active(TaskState', i)
    BY PresentSays
  <2> QED BY <1>2, <1>3, <2>1
<1>7. ASSUME NEW i \in Identity, Unstarted(i)', NEW k \in Positions' PROVE ~Shows(Shown(k)', i)
  <2>1. Unstarted(i) /\ ~Shows(t, i)
    BY <1>6, <1>7
  <2>2. CASE k <= n
    BY <1>0, <1>5, <2>1, <2>2 DEF Unseen
  <2>3. CASE k > n
    BY <1>5, <2>1, <2>3
  <2> QED BY <1>4, <1>5, <2>2, <2>3
<1>8. ASSUME NEW i \in Identity, NEW j \in Positions', NEW k \in Positions', j <= k,
             Active(Shown(k)', i)
      PROVE  /\ ~Dead(Shown(j)', i)
             /\ Active(Shown(j)', i) => Shown(j)'.lease = Shown(k)'.lease
  <2>0. j \in Nat /\ k \in Nat /\ n \in Nat
    BY <1>4, <1>5
  <2>1. CASE k <= n
    BY <1>0, <1>5, <1>8, <2>0, <2>1 DEF Final
  <2>2. CASE j > n
    <3>1. Shown(j)' = t /\ Shown(k)' = t
      BY <1>5, <1>8, <2>0, <2>2
    <3> QED BY <1>6, <1>8, <3>1
  <2>3. CASE j <= n /\ k > n
    <3>1. /\ Shown(k)' = t /\ Shown(j)' = Shown(j) /\ j \in Positions /\ j <= n + 1
      BY <1>5, <2>0, <2>3
    <3>2. CASE Active(u, i) /\ t.lease = u.lease
      BY <1>0, <1>4, <3>1, <3>2 DEF Final
    <3>3. CASE \A q \in Positions : ~Shows(Shown(q), i)
      <4>1. PICK s : s = Shown(j)
        OBVIOUS
      <4>2. ~Active(s, i) /\ ~Dead(s, i)
        BY <3>1, <3>3, <4>1, ShowsWhat
      <4> QED BY <3>1, <4>1, <4>2
    <3> QED BY <1>6, <1>8, <3>1, <3>2, <3>3
  <2> QED BY <2>0, <2>1, <2>2, <2>3
<1>9. Unseen'
  BY <1>7 DEF Unseen
<1>10. Final'
  BY <1>8 DEF Final
<1> QED BY <1>9, <1>10, ManagerOnce DEF History

(* The lease that the manager still honours is accounted for after its own  *)
(* steps: a start is taken for a goal or a cleanup, and the message that    *)
(* ends a lease is only used up by ending it. *)
LEMMA ManagerAccounted ==
  ASSUME AccountInv, ManagerNext \/ ReadPositions PROVE LeaseAccounted'
<1>0. /\ IInv /\ MotionTyped /\ ChannelsTyped /\ GoalTyped /\ Once /\ LeaseAccounted
  BY DEF AccountInv, ReleaseInv, MotionTyped, History
<1>1. /\ cleanup' = cleanup
      /\ goal' = goal \/ (goal.pc = "moving" /\ goal' = [goal EXCEPT !.pc = "reached"])
      /\ control' = control \/ (HandleControl /\ control # << >> /\ control' = Tail(control))
  BY ManagerLeaves
<1>2. goal'.ident = goal.ident
  BY <1>0, <1>1 DEF GoalTyped
<1> SUFFICES ASSUME TaskHeld'
             PROVE  \/ goal.ident = taskIdent'
                    \/ cleanup[taskIdent'] = "waiting"
                    \/ \E k \in 1 .. Len(control') :
                         /\ control'[k].action \in {"cancel", "finish"}
                         /\ control'[k].ident = taskIdent' /\ control'[k].lease = taskLease'
  BY <1>1, <1>2 DEF LeaseAccounted
<1>3. CASE KeepsTask
  <2>1. TaskHeld /\ taskIdent' = taskIdent /\ taskLease' = taskLease
    BY <1>3 DEF KeepsTask
  <2>2. \/ goal.ident = taskIdent \/ cleanup[taskIdent] = "waiting"
        \/ \E k \in 1 .. Len(control) :
             /\ control[k].action \in {"cancel", "finish"}
             /\ control[k].ident = taskIdent /\ control[k].lease = taskLease
    BY <1>0, <2>1 DEF LeaseAccounted
  <2>3. ASSUME NEW k \in 1 .. Len(control), control[k].action \in {"cancel", "finish"},
               control[k].ident = taskIdent, control[k].lease = taskLease
        PROVE  \E q \in 1 .. Len(control') : control'[q] = control[k]
    <3>1. CASE control' = control
      BY <3>1
    <3>2. CASE HandleControl /\ control # << >> /\ control' = Tail(control)
      <4>1. k # 1
        <5> SUFFICES ASSUME k = 1 PROVE FALSE
          OBVIOUS
        <5>1. control[1] = Head(control)
          BY <1>0, <3>2, TailControl
        <5> QED BY <1>0, <2>1, <2>3, <3>2, <5>1, OnControl
      <4> QED BY <1>0, <3>2, <4>1, TailControl
    <3> QED BY <1>1, <3>1, <3>2
  <2> QED BY <2>1, <2>2, <2>3
<1>4. CASE ~KeepsTask
  <2> DEFINE m == Head(control)
  <2>1. HandleControl
    BY <1>0, <1>4, ManagerTask DEF Idles
  <2>2. m.action = "start" /\ Begins(m.ident)
    BY <1>0, <1>4, <2>1, OnControl
  <2>3. m.ident \in Identity /\ Starting(m.ident)
    <3>1. control # << >> /\ control \in Seq(MessageType)
      BY <1>0, <2>1 DEF HandleControl, ChannelsTyped
    <3>2. m \in MessageType /\ control[1] = m /\ 1 \in 1 .. Len(control)
      BY <3>1
    <3> QED BY <2>2, <3>2 DEF Starting, StartAt, MessageType
  <2>4. goal.ident = m.ident \/ cleanup[m.ident] = "waiting"
    BY <1>0, <2>3 DEF Once
  <2>5. taskIdent' = m.ident
    BY <2>2 DEF Begins
  <2> QED BY <2>4, <2>5
<1> QED BY <1>3, <1>4

(* _on_task_state closes or cancels no cleanup whose start is on its way,   *)
(* and cancels what it finds with the lease the task still has. *)
LEMMA TakeAccounted ==
  ASSUME AccountInv, TakeState
  PROVE  History' /\ AskedTyped' /\ LeaseAccounted'
<1>0. /\ IInv /\ MotionTyped /\ ChannelsTyped /\ GoalTyped /\ Leases
      /\ Once /\ Unseen /\ Final /\ LeaseAccounted
  BY DEF AccountInv, ReleaseInv, MotionTyped, History
<1>1. PICK s : s = Shown(1)
  OBVIOUS
<1>2. /\ 1 \in Positions
      /\ \A k \in Positions' : k + 1 \in Positions /\ Shown(k)' = Shown(k + 1)
  BY <1>0, TakeMoves
<1>3. /\ UNCHANGED <<vars, goal, admitting, asked>>
      /\ \A i \in Identity :
           \/ cleanup'[i] = cleanup[i]
           \/ cleanup'[i] = "none" /\ (TerminalStatus(s, i) # "" \/ StartRejected(s, i))
           \/ /\ cleanup'[i] = "cancelled" /\ Active(s, i)
              /\ control' = Append(control, Message("cancel", s.ident, s.lease))
      /\ \/ control' = control
         \/ /\ control' = Append(control, Message("cancel", s.ident, s.lease))
            /\ s.ident \in Identity /\ s.lease \in 1 .. issued
  BY <1>0, <1>1, TakeEffect
<1>4. Quiet
  <2>1. CASE control' = control
    BY <2>1 DEF Quiet
  <2>2. CASE /\ control' = Append(control, Message("cancel", s.ident, s.lease))
             /\ s.ident \in Identity /\ s.lease \in 1 .. issued
    <3>1. s.lease \in Nat
      BY <1>0, <2>2 DEF IInv, TypeOK
    <3>2. Message("cancel", s.ident, s.lease) \in MessageType
      BY <2>2, <3>1 DEF Message, MessageType, TaskAction
    <3>3. Message("cancel", s.ident, s.lease).action # "start"
      BY DEF Message
    <3> QED BY <2>2, <3>2, <3>3 DEF Quiet
  <2> QED BY <1>3, <2>1, <2>2
<1>5. /\ \A i \in Identity : Starting(i)' => Starting(i)
      /\ \A i \in Identity, k \in 1 .. Len(control') :
           StartAt(k, i)' => k \in 1 .. Len(control) /\ StartAt(k, i)
      /\ \A k \in 1 .. Len(control) : k \in 1 .. Len(control') /\ control'[k] = control[k]
  BY <1>0, <1>4, QuietControl
<1>6. \A i \in Identity : Unstarted(i)' => Unstarted(i)
  BY <1>3, <1>5 DEF Unstarted, WasAsked, Accepted
<1>7. \A i \in Identity : Starting(i) => cleanup'[i] = cleanup[i]
  <2> SUFFICES ASSUME NEW i \in Identity, Starting(i) PROVE cleanup'[i] = cleanup[i]
    OBVIOUS
  <2>1. ~Shows(s, i)
    BY <1>0, <1>1, <1>2 DEF Unseen, Unstarted
  <2>2. ~Active(s, i) /\ TerminalStatus(s, i) = "" /\ ~StartRejected(s, i)
    BY <2>1, ShowsWhat
  <2> QED BY <1>3, <2>2
<1>8. Once'
  BY <1>0, <1>3, <1>5, <1>7 DEF Once, WasAsked, Accepted
<1>9. Unseen'
  BY <1>0, <1>2, <1>6 DEF Unseen
<1>10. Final'
  <2> SUFFICES ASSUME NEW i \in Identity, NEW j \in Positions', NEW k \in Positions', j <= k
               PROVE  /\ Dead(Shown(j)', i) => ~Active(Shown(k)', i)
                      /\ Active(Shown(j)', i) /\ Active(Shown(k)', i) =>
                           Shown(j)'.lease = Shown(k)'.lease
    BY DEF Final
  <2>1. j + 1 <= k + 1 /\ j + 1 \in Positions /\ k + 1 \in Positions
    BY <1>2 DEF Positions
  <2> QED BY <1>0, <1>2, <2>1 DEF Final
<1>11. AskedTyped'
  BY <1>3 DEF AccountInv, AskedTyped
<1>12. LeaseAccounted'
  <2>1. TaskHeld' = TaskHeld /\ taskIdent' = taskIdent /\ taskLease' = taskLease /\ goal' = goal
    BY <1>3 DEF vars, taskVars, TaskHeld
  <2> SUFFICES ASSUME TaskHeld, goal.ident # taskIdent
               PROVE  \/ cleanup'[taskIdent] = "waiting"
                      \/ \E k \in 1 .. Len(control') :
                           /\ control'[k].action \in {"cancel", "finish"}
                           /\ control'[k].ident = taskIdent /\ control'[k].lease = taskLease
    BY <2>1 DEF LeaseAccounted
  <2>2. PICK n \in Positions : Shown(n) = TaskState /\ 1 <= n
    BY <1>0, Present
  <2>3. PICK i : i = taskIdent
    OBVIOUS
  <2>4. i \in Identity /\ Active(Shown(n), i) /\ Shown(n).lease = taskLease
    BY <1>0, <2>2, <2>3, HeldFacts, PresentActive
  <2>5. ~Dead(s, i)
    BY <1>0, <1>1, <1>2, <2>2, <2>4 DEF Final
  <2>6. TerminalStatus(s, i) = "" /\ ~StartRejected(s, i)
    BY <2>5, ShowsWhat
  <2>7. Active(s, i) => s.lease = taskLease /\ s.ident = i
    BY <1>0, <1>1, <1>2, <2>2, <2>4 DEF Final, Active
  <2>8. CASE cleanup'[i] = "cancelled" /\ Active(s, i)
             /\ control' = Append(control, Message("cancel", s.ident, s.lease))
    <3>1. control \in Seq(MessageType)
      BY <1>0 DEF ChannelsTyped
    <3>2. PICK q : q = Len(control) + 1
      OBVIOUS
    <3>3. q \in 1 .. Len(control') /\ control'[q] = Message("cancel", i, taskLease)
      BY <2>7, <2>8, <3>1, <3>2
    <3> QED BY <2>3, <3>3 DEF Message
  <2>9. CASE cleanup'[i] = cleanup[i]
    <3>1. CASE cleanup[i] = "waiting"
      BY <2>3, <2>9, <3>1
    <3>2. CASE cleanup[i] # "waiting"
      <4>1. PICK k \in 1 .. Len(control) :
              /\ control[k].action \in {"cancel", "finish"}
              /\ control[k].ident = taskIdent /\ control[k].lease = taskLease
        BY <1>0, <2>3, <3>2 DEF LeaseAccounted
      <4> QED BY <1>5, <4>1
    <3> QED BY <3>1, <3>2
  <2> QED BY <1>3, <2>4, <2>6, <2>8, <2>9
<1> QED BY <1>8, <1>9, <1>10, <1>11, <1>12 DEF History

(* A step of the goal shows nothing new; so the history stays what it was   *)
(* when no start is sent and the starts on their way stay looked after.     *)
LEMMA GoalHistory ==
  ASSUME AccountInv, Local, Quiet, UNCHANGED <<admitting, asked>>,
         goal'.ident = goal.ident \/ goal'.ident = NoIdentity, goal'.pc # "accepted",
         \A i \in Identity :
           Starting(i) => (goal'.pc = "waiting" /\ goal'.ident = i) \/ cleanup'[i] = "waiting"
  PROVE  History' /\ AskedTyped'
<1>0. ChannelsTyped /\ Once /\ Unseen /\ Final /\ NoIdentity \notin Identity
  BY DEF AccountInv, ReleaseInv, MotionTyped, History
<1>1. Positions' = Positions /\ \A k \in Positions : Shown(k)' = Shown(k)
  BY LocalMoves
<1>2. /\ \A i \in Identity : Starting(i)' => Starting(i)
      /\ \A i \in Identity, k \in 1 .. Len(control') :
           StartAt(k, i)' => k \in 1 .. Len(control) /\ StartAt(k, i)
  BY <1>0, QuietControl
<1>3. Once'
  BY <1>0, <1>2 DEF Once, WasAsked, Accepted
<1>4. \A i \in Identity : Unstarted(i)' => Unstarted(i)
  BY <1>2 DEF Unstarted, WasAsked, Accepted
<1>5. Unseen'
  BY <1>0, <1>1, <1>4 DEF Unseen
<1>6. Final'
  BY <1>0, <1>1 DEF Final
<1>7. AskedTyped'
  BY DEF AccountInv, AskedTyped
<1> QED BY <1>3, <1>5, <1>6, <1>7 DEF History

(* A goal that keeps the slot keeps its lease accounted for. *)
LEMMA GoalKeeps ==
  ASSUME AccountInv, Local, goal'.ident = goal.ident, cleanup' = cleanup,
         control' = control \/ \E m \in MessageType : control' = Append(control, m)
  PROVE  LeaseAccounted'
<1>0. control \in Seq(MessageType) /\ LeaseAccounted
  BY DEF AccountInv, ReleaseInv, MotionTyped, ChannelsTyped
<1>1. TaskHeld' = TaskHeld /\ taskIdent' = taskIdent /\ taskLease' = taskLease
  BY DEF Local, arbitrator, vars, taskVars, TaskHeld
<1>2. \A k \in 1 .. Len(control) : k \in 1 .. Len(control') /\ control'[k] = control[k]
  BY <1>0
<1> QED BY <1>0, <1>1, <1>2 DEF LeaseAccounted

(* A goal that leaves the slot knows the end of its lease, or leaves a      *)
(* cleanup behind. *)
LEMMA GoalLeaves ==
  ASSUME AccountInv, Local, UNCHANGED <<admitting, asked>>,
         goal.pc \notin {"idle", "accepted"}, goal' = NoGoal,
         Register(goal.ident) \/ (Dead(view, goal.ident) /\ UNCHANGED <<cleanup, control>>)
  PROVE  History' /\ AskedTyped' /\ LeaseAccounted'
<1>0. /\ IInv /\ MotionTyped /\ ChannelsTyped /\ GoalTyped /\ Leases
      /\ Once /\ Unseen /\ Final /\ LeaseAccounted
  BY DEF AccountInv, ReleaseInv, MotionTyped, History
<1>1. PICK i \in Identity : i = goal.ident
  BY <1>0 DEF GoalTyped
<1>2. PICK s : s = view
  OBVIOUS
<1>3. \/ Dead(s, i) /\ UNCHANGED <<cleanup, control>>
      \/ /\ \A j \in Identity : j # i => cleanup'[j] = cleanup[j]
         /\ \/ TerminalStatus(s, i) # "" /\ control' = control
            \/ /\ Active(s, i) /\ s.lease \in 1 .. issued
               /\ control' = Append(control, Message("cancel", i, s.lease))
            \/ cleanup'[i] = "waiting" /\ control' = control
  <2>1. CASE Register(goal.ident)
    <3>1. Register(i)
      BY <1>1, <2>1
    <3> QED BY <1>0, <1>2, <3>1, RegisterEffect
  <2>2. CASE Dead(view, goal.ident) /\ UNCHANGED <<cleanup, control>>
    BY <1>1, <1>2, <2>2
  <2> QED BY <2>1, <2>2
<1>4. Quiet
  <2>1. CASE control' = control
    BY <2>1 DEF Quiet
  <2>2. CASE s.lease \in 1 .. issued /\ control' = Append(control, Message("cancel", i, s.lease))
    <3>1. s.lease \in Nat
      BY <1>0, <2>2 DEF IInv, TypeOK
    <3>2. /\ Message("cancel", i, s.lease) \in MessageType
          /\ Message("cancel", i, s.lease).action # "start"
      BY <3>1 DEF Message, MessageType, TaskAction
    <3> QED BY <2>2, <3>2 DEF Quiet
  <2> QED BY <1>3, <2>1, <2>2
<1>5. 0 \in Positions /\ Shown(0) = s
  BY <1>0, <1>2, Present
<1>6. Starting(i) => ~Shows(s, i)
  BY <1>0, <1>5 DEF Unseen, Unstarted
<1>7. /\ Active(s, i) => Shows(s, i)
      /\ Dead(s, i) => Shows(s, i)
      /\ TerminalStatus(s, i) # "" => Dead(s, i)
  BY ShowsWhat
<1>8. \A j \in Identity : Starting(j) => cleanup'[j] = "waiting"
  <2> SUFFICES ASSUME NEW j \in Identity, Starting(j) PROVE cleanup'[j] = "waiting"
    OBVIOUS
  <2>1. CASE j = i
    BY <1>3, <1>6, <1>7, <2>1
  <2>2. CASE j # i
    BY <1>0, <1>1, <1>3, <2>2 DEF Once
  <2> QED BY <2>1, <2>2
<1>9. History' /\ AskedTyped'
  <2>1. goal'.ident = NoIdentity /\ goal'.pc # "accepted"
    BY DEF NoGoal
  <2> QED BY <1>4, <1>8, <2>1, GoalHistory
<1>10. LeaseAccounted'
  <2>1. TaskHeld' = TaskHeld /\ taskIdent' = taskIdent /\ taskLease' = taskLease
    BY DEF Local, arbitrator, vars, taskVars, TaskHeld
  <2> SUFFICES ASSUME TaskHeld
               PROVE  \/ cleanup'[taskIdent] = "waiting"
                      \/ \E k \in 1 .. Len(control') :
                           /\ control'[k].action \in {"cancel", "finish"}
                           /\ control'[k].ident = taskIdent /\ control'[k].lease = taskLease
    BY <2>1 DEF LeaseAccounted
  <2>2. taskIdent \in Identity
    BY <1>0, HeldFacts
  <2>3. CASE taskIdent = i
    <3>1. PICK n \in Positions : Shown(n) = TaskState /\ 0 <= n
      BY <1>0, Present
    <3>2. Active(Shown(n), i) /\ Shown(n).lease = taskLease
      BY <2>3, <3>1, PresentActive
    <3>3. ~Dead(s, i) /\ (Active(s, i) => s.lease = taskLease)
      BY <1>0, <1>5, <3>1, <3>2 DEF Final
    <3>4. CASE cleanup'[i] = "waiting"
      BY <2>3, <3>4
    <3>5. CASE Active(s, i) /\ control' = Append(control, Message("cancel", i, s.lease))
      <4>1. control \in Seq(MessageType)
        BY <1>0 DEF ChannelsTyped
      <4>2. PICK q : q = Len(control) + 1
        OBVIOUS
      <4>3. q \in 1 .. Len(control') /\ control'[q] = Message("cancel", i, taskLease)
        BY <3>3, <3>5, <4>1, <4>2
      <4> QED BY <2>3, <4>3 DEF Message
    <3> QED BY <1>3, <1>7, <3>3, <3>4, <3>5
  <2>4. CASE taskIdent # i
    <3>1. cleanup'[taskIdent] = cleanup[taskIdent]
      BY <1>3, <2>2, <2>4
    <3>2. \A k \in 1 .. Len(control) : k \in 1 .. Len(control') /\ control'[k] = control[k]
      BY <1>0, <1>4, QuietControl
    <3> QED BY <1>0, <1>1, <2>4, <3>1, <3>2 DEF LeaseAccounted
  <2> QED BY <2>3, <2>4
<1> QED BY <1>9, <1>10

(* A new goal: its identity was not asked for before. *)
LEMMA AskAccounted ==
  ASSUME MayRetry = FALSE, AccountInv, NEW i \in Identity, AskGoal(i)
  PROVE  History' /\ AskedTyped' /\ LeaseAccounted'
<1>0. /\ ChannelsTyped /\ GoalTyped /\ Once /\ Unseen /\ Final /\ LeaseAccounted
      /\ asked \in Seq(Identity)
  BY DEF AccountInv, ReleaseInv, MotionTyped, History, AskedTyped
<1>1. /\ UNCHANGED <<vars, control, states, view, goal, cleanup>>
      /\ asked' = Append(asked, i)
      /\ admitting' = admitting \/ admitting' = admitting \cup {i}
      /\ ~WasAsked(i)
  BY DEF AskGoal, arbitrator, topics, WasAsked
<1>2. /\ asked' \in Seq(Identity)
      /\ \A j \in Identity : WasAsked(j)' <=> WasAsked(j) \/ j = i
  BY <1>0, <1>1 DEF WasAsked
<1>3. Positions' = Positions /\ \A k \in Positions : Shown(k)' = Shown(k)
  BY <1>1, LocalMoves DEF Local, arbitrator
<1>4. /\ \A j \in Identity : (Starting(j)' <=> Starting(j)) /\ (Accepted(j)' <=> Accepted(j))
      /\ \A j \in Identity, k \in 1 .. Len(control) : StartAt(k, j)' <=> StartAt(k, j)
  BY <1>1 DEF Starting, StartAt, Accepted
<1>5. goal.ident # i /\ ~Starting(i)
  BY <1>0, <1>1 DEF Once
<1>6. Once'
  BY <1>0, <1>1, <1>2, <1>4, <1>5 DEF Once
<1>7. \A j \in Identity : Unstarted(j)' => Unstarted(j)
  BY <1>1, <1>2, <1>4 DEF Unstarted
<1>8. Unseen'
  BY <1>0, <1>3, <1>7 DEF Unseen
<1>9. Final'
  BY <1>0, <1>3 DEF Final
<1>10. LeaseAccounted'
  BY <1>0, <1>1 DEF LeaseAccounted, vars, taskVars, TaskHeld
<1> QED BY <1>2, <1>6, <1>8, <1>9, <1>10 DEF History, AskedTyped

(* try_acquire: the slot was free, so no lease was the goal's. *)
LEMMA AdmitAccounted ==
  ASSUME AccountInv, NEW i \in Identity, AdmitGoal(i)
  PROVE  History' /\ AskedTyped' /\ LeaseAccounted'
<1>0. /\ IInv /\ ChannelsTyped /\ GoalTyped /\ Once /\ Unseen /\ Final /\ LeaseAccounted
      /\ NoIdentity \notin Identity
  BY DEF AccountInv, ReleaseInv, MotionTyped, History
<1>1. /\ UNCHANGED <<vars, control, states, view, cleanup, asked>>
      /\ i \in admitting /\ admitting' = admitting \ {i}
      /\ \/ goal' = goal
         \/ goal.pc = "idle" /\ goal'.pc = "accepted" /\ goal'.ident = i
  BY DEF AdmitGoal, arbitrator, topics, NoGoal
<1>2. WasAsked(i) /\ goal.ident # i /\ ~Starting(i)
  BY <1>0, <1>1 DEF Once
<1>3. Positions' = Positions /\ \A k \in Positions : Shown(k)' = Shown(k)
  BY <1>1, LocalMoves DEF Local, arbitrator
<1>4. /\ \A j \in Identity : (Starting(j)' <=> Starting(j)) /\ (WasAsked(j)' <=> WasAsked(j))
      /\ \A j \in Identity, k \in 1 .. Len(control) : StartAt(k, j)' <=> StartAt(k, j)
  BY <1>1 DEF Starting, StartAt, WasAsked
<1>5. \A j \in Identity : Accepted(j)' => Accepted(j) \/ j = i
  BY <1>1 DEF Accepted
<1>6. Once'
  <2>1. CASE goal' = goal
    BY <1>0, <1>1, <1>4, <2>1 DEF Once, Accepted
  <2>2. CASE goal.pc = "idle" /\ goal'.pc = "accepted" /\ goal'.ident = i
    BY <1>0, <1>1, <1>2, <1>4, <2>2 DEF Once, Accepted
  <2> QED BY <1>1, <2>1, <2>2
<1>7. \A j \in Identity : Unstarted(j)' => Unstarted(j)
  BY <1>1, <1>4, <1>5 DEF Unstarted
<1>8. Unseen'
  BY <1>0, <1>3, <1>7 DEF Unseen
<1>9. Final'
  BY <1>0, <1>3 DEF Final
<1>10. LeaseAccounted'
  <2>1. TaskHeld => goal.ident # taskIdent \/ goal' = goal
    BY <1>0, <1>1, HeldFacts DEF GoalTyped
  <2> QED BY <1>0, <1>1, <2>1 DEF LeaseAccounted, vars, taskVars, TaskHeld
<1>11. AskedTyped'
  BY <1>1 DEF AccountInv, AskedTyped
<1> QED BY <1>6, <1>8, <1>9, <1>10, <1>11 DEF History

(* The start goes out once, for a goal that nothing was shown of. *)
LEMMA StartAccounted ==
  ASSUME AccountInv, StartTask PROVE History' /\ AskedTyped' /\ LeaseAccounted'
<1>0. /\ IInv /\ ChannelsTyped /\ GoalTyped /\ Once /\ Unseen /\ Final
      /\ NoIdentity \notin Identity
  BY DEF AccountInv, ReleaseInv, MotionTyped, History
<1>1. PICK i \in Identity : i = goal.ident
  BY <1>0 DEF GoalTyped, StartTask
<1>2. /\ goal.pc = "accepted" /\ goal'.pc = "waiting" /\ goal'.ident = goal.ident
      /\ control' = Append(control, Message("start", i, NoLease))
      /\ UNCHANGED <<vars, states, view, admitting, cleanup, asked>>
  BY <1>0, <1>1 DEF StartTask, Send, GoalTyped, arbitrator
<1>3. Local
  BY <1>2 DEF Local, arbitrator
<1>4. PICK m \in MessageType : m = Message("start", i, NoLease)
  BY DEF Message, MessageType, TaskAction
<1>5. /\ \A k \in 1 .. Len(control) : k \in 1 .. Len(control') /\ control'[k] = control[k]
      /\ \A k \in 1 .. Len(control') :
           (k \in 1 .. Len(control) /\ control'[k] = control[k])
             \/ (k = Len(control) + 1 /\ control'[k] = m)
  BY <1>0, <1>2, <1>4 DEF ChannelsTyped
<1>6. m.action = "start" /\ m.ident = i
  BY <1>4 DEF Message
<1>7. /\ Accepted(i) /\ ~Starting(i) /\ WasAsked(i) /\ i \notin admitting
      /\ \A j \in Identity : j # i => ~Accepted(j)
  BY <1>0, <1>1, <1>2 DEF Once, Accepted
<1>8. \A j \in Identity, k \in 1 .. Len(control') :
        StartAt(k, j)' =>
          (k \in 1 .. Len(control) /\ StartAt(k, j)) \/ (k = Len(control) + 1 /\ j = i)
  BY <1>5, <1>6 DEF StartAt
<1>9. \A j \in Identity : Starting(j)' => Starting(j) \/ j = i
  BY <1>8 DEF Starting
<1>10. \A j \in Identity : ~Accepted(j)' /\ (WasAsked(j)' <=> WasAsked(j))
  BY <1>2 DEF Accepted, WasAsked
<1>11. Once'
  <2> SUFFICES ASSUME NEW j \in Identity
               PROVE  /\ j \in admitting' \/ goal'.ident = j \/ Starting(j)' => WasAsked(j)'
                      /\ j \in admitting' => goal'.ident # j /\ ~Starting(j)'
                      /\ \A p, q \in 1 .. Len(control') : StartAt(p, j)' /\ StartAt(q, j)' => p = q
                      /\ Starting(j)' => (goal'.pc = "waiting" /\ goal'.ident = j)
                                          \/ cleanup'[j] = "waiting"
    BY <1>10 DEF Once
  <2>1. CASE j = i
    <3>1. \A p \in 1 .. Len(control') : StartAt(p, j)' => p = Len(control) + 1
      BY <1>7, <1>8, <2>1 DEF Starting
    <3> QED BY <1>1, <1>2, <1>7, <1>10, <2>1, <3>1
  <2>2. CASE j # i
    <3>1. \A p \in 1 .. Len(control') : StartAt(p, j)' => p \in 1 .. Len(control) /\ StartAt(p, j)
      BY <1>8, <2>2
    <3>2. Starting(j)' => Starting(j)
      BY <1>9, <2>2
    <3> QED BY <1>0, <1>1, <1>2, <1>10, <2>2, <3>1, <3>2 DEF Once
  <2> QED BY <2>1, <2>2
<1>12. \A j \in Identity : Unstarted(j)' => Unstarted(j)
  BY <1>2, <1>7, <1>9, <1>10 DEF Unstarted
<1>13. Positions' = Positions /\ \A k \in Positions : Shown(k)' = Shown(k)
  BY <1>3, LocalMoves
<1>14. Unseen' /\ Final'
  BY <1>0, <1>12, <1>13 DEF Unseen, Final
<1>15. LeaseAccounted'
  BY <1>2, <1>3, <1>4, GoalKeeps
<1>16. AskedTyped'
  BY <1>2 DEF AccountInv, AskedTyped
<1> QED BY <1>11, <1>14, <1>15, <1>16 DEF History

(* The other steps of the goal. *)
LEMMA GoalAccounted ==
  ASSUME AccountInv,
         \/ SceneRefusesGoal \/ LeaseRefused \/ LeaseGranted \/ LeaseNotAwaited
         \/ CommitCommands \/ Keepalive \/ Finish \/ Abandon \/ ReleaseSeen \/ ReleaseUnseen
  PROVE  History' /\ AskedTyped' /\ LeaseAccounted'
<1>0. /\ IInv /\ ChannelsTyped /\ GoalTyped /\ Once /\ Unseen /\ Final /\ LeaseAccounted
      /\ Local /\ NoIdentity \notin Identity
  BY LocalIsLocal DEF AccountInv, ReleaseInv, MotionTyped, History, LocalStep
<1>1. PICK i : i = goal.ident
  OBVIOUS
<1>2. PICK s : s = view
  OBVIOUS
<1>3. 0 \in Positions /\ Shown(0) = s
  BY <1>0, <1>2, Present
<1>4. \A j \in Identity : Starting(j) =>
        /\ ~Shows(s, j)
        /\ (goal.pc = "waiting" /\ goal.ident = j) \/ cleanup[j] = "waiting"
  BY <1>0, <1>3 DEF Once, Unseen, Unstarted
<1>5. ASSUME goal'.ident = goal.ident, goal'.pc # "accepted", UNCHANGED <<admitting, asked, cleanup>>,
             Quiet, goal.pc # "waiting"
      PROVE  History' /\ AskedTyped' /\ LeaseAccounted'
  <2>1. History' /\ AskedTyped'
    BY <1>0, <1>4, <1>5, GoalHistory
  <2>2. LeaseAccounted'
    BY <1>0, <1>5, GoalKeeps DEF Quiet
  <2> QED BY <2>1, <2>2
<1>6. ASSUME NEW a \in {"keepalive", "finish", "cancel"}, goal.pc # "idle",
             control' = Append(control, Message(a, goal.ident, goal.lease))
      PROVE  Quiet
  <2>1. goal.ident \in Identity /\ goal.lease \in Nat
    BY <1>0, <1>6 DEF GoalTyped
  <2>2. /\ Message(a, goal.ident, goal.lease) \in MessageType
        /\ Message(a, goal.ident, goal.lease).action # "start"
    BY <1>6, <2>1 DEF Message, MessageType, TaskAction
  <2> QED BY <1>6, <2>2 DEF Quiet
<1>7. CASE SceneRefusesGoal
  <2>1. /\ goal.pc = "accepted" /\ goal' = NoGoal
        /\ UNCHANGED <<control, admitting, asked, cleanup>>
    BY <1>7 DEF SceneRefusesGoal, topics
  <2>2. i \in Identity /\ Unstarted(i)
    BY <1>0, <1>1, <2>1 DEF GoalTyped, Unstarted, Accepted
  <2>3. TaskHeld => taskIdent # goal.ident
    <3>1. PICK n \in Positions : Shown(n) = TaskState
      BY <1>0, Present
    <3>2. ~Shows(TaskState, i)
      BY <1>0, <2>2, <3>1 DEF Unseen
    <3> QED BY <1>1, <3>2, StateFields DEF Shows
  <2>4. LeaseAccounted'
    BY <1>0, <2>1, <2>3 DEF LeaseAccounted, Local, arbitrator, vars, taskVars, TaskHeld
  <2>5. Quiet /\ goal'.ident = NoIdentity /\ goal'.pc # "accepted"
    BY <2>1 DEF Quiet, NoGoal
  <2>6. History' /\ AskedTyped'
    BY <1>0, <1>4, <2>1, <2>5, GoalHistory
  <2> QED BY <2>4, <2>6
<1>8. CASE LeaseRefused
  <2>1. /\ goal.pc = "waiting" /\ goal' = NoGoal /\ StartRejected(view, goal.ident)
        /\ UNCHANGED <<control, admitting, asked, cleanup>>
    BY <1>8 DEF LeaseRefused, topics
  <2>2. Dead(view, goal.ident)
    BY <2>1 DEF Dead
  <2> QED BY <1>0, <2>1, <2>2, GoalLeaves
<1>9. CASE LeaseNotAwaited
  <2>1. /\ goal.pc = "waiting" /\ goal' = NoGoal /\ Register(goal.ident)
        /\ UNCHANGED <<admitting, asked>>
    BY <1>9 DEF LeaseNotAwaited
  <2> QED BY <1>0, <2>1, GoalLeaves
<1>10. CASE LeaseGranted
  <2>1. /\ goal.pc = "waiting" /\ StartAccepted(view, goal.ident)
        /\ goal' = [goal EXCEPT !.pc = "granted", !.lease = ActiveLease(view, goal.ident)]
        /\ UNCHANGED <<control, admitting, asked, cleanup>>
    BY <1>10 DEF LeaseGranted, topics
  <2>2. goal'.ident = goal.ident /\ goal'.pc = "granted"
    BY <1>0, <2>1 DEF GoalTyped
  <2>3. Quiet
    BY <2>1 DEF Quiet
  <2>4. Shows(s, i)
    BY <1>1, <1>2, <2>1, ShowsWhat
  <2>5. \A j \in Identity : Starting(j) => cleanup'[j] = "waiting"
    BY <1>1, <1>4, <2>1, <2>4
  <2>6. History' /\ AskedTyped'
    BY <1>0, <2>1, <2>2, <2>3, <2>5, GoalHistory
  <2>7. LeaseAccounted'
    BY <1>0, <2>1, <2>2, GoalKeeps
  <2> QED BY <2>6, <2>7
<1>11. CASE CommitCommands
  <2>1. /\ goal.pc = "granted" /\ goal' = [goal EXCEPT !.pc = "moving"]
        /\ UNCHANGED <<control, admitting, asked, cleanup>>
    BY <1>11 DEF CommitCommands
  <2>2. goal'.ident = goal.ident /\ goal'.pc = "moving" /\ Quiet
    BY <1>0, <2>1 DEF GoalTyped, Quiet
  <2> QED BY <1>5, <2>1, <2>2
<1>12. CASE Keepalive
  <2>1. /\ goal.pc = "moving" /\ UNCHANGED <<goal, admitting, asked, cleanup>>
        /\ control' = Append(control, Message("keepalive", goal.ident, goal.lease))
    BY <1>12 DEF Keepalive, Send
  <2> QED BY <1>5, <1>6, <2>1
<1>13. CASE Finish \/ Abandon \/ ReleaseSeen \/ ReleaseUnseen
  <2>1. /\ goal.pc \in {"granted", "moving", "reached", "releasing"}
        /\ UNCHANGED <<admitting, asked>>
        /\ Concludes \/ GivesBack
    BY <1>13, ReleaseKinds
  <2>2. CASE Concludes
    <3>1. TerminalStatus(s, i) # "" => Dead(s, i)
      BY ShowsWhat
    <3>2. /\ goal' = NoGoal
          /\ Register(goal.ident) \/ (Dead(view, goal.ident) /\ UNCHANGED <<cleanup, control>>)
      BY <1>1, <1>2, <2>2, <3>1 DEF Concludes
    <3> QED BY <1>0, <2>1, <3>2, GoalLeaves
  <2>3. CASE GivesBack
    <3>1. PICK a \in {"finish", "cancel"} :
            /\ control' = Append(control, Message(a, goal.ident, goal.lease))
            /\ goal' = [goal EXCEPT !.pc = "releasing", !.action = a]
      BY <2>3 DEF GivesBack
    <3>2. cleanup' = cleanup
      BY <2>3 DEF GivesBack
    <3>3. Quiet
      BY <1>6, <2>1, <3>1
    <3>4. goal'.ident = goal.ident /\ goal'.pc = "releasing"
      BY <1>0, <3>1 DEF GoalTyped
    <3> QED BY <1>5, <2>1, <3>2, <3>3, <3>4
  <2> QED BY <2>1, <2>2, <2>3
<1> QED
  BY <1>7, <1>8, <1>9, <1>10, <1>11, <1>12, <1>13

LEMMA StepAccounts ==
  ASSUME MayRetry = FALSE, AccountInv, [MotionNext]_motionVars PROVE AccountInv'
<1>1. ReleaseInv'
  BY StepReleases DEF AccountInv
<1>2. CASE ManagerNext \/ ReadPositions
  BY <1>1, <1>2, ManagerHistory, ManagerAccounted DEF AccountInv
<1>3. CASE TakeState
  BY <1>1, <1>3, TakeAccounted DEF AccountInv
<1>4. CASE LocalStep
  <2>1. CASE \E i \in Identity : AskGoal(i) \/ AdmitGoal(i)
    BY <1>1, <2>1, AskAccounted, AdmitAccounted DEF AccountInv
  <2>2. CASE StartTask
    BY <1>1, <2>2, StartAccounted DEF AccountInv
  <2>3. CASE ~StartTask /\ ~\E i \in Identity : AskGoal(i) \/ AdmitGoal(i)
    BY <1>1, <1>4, <2>3, GoalAccounted DEF AccountInv, LocalStep
  <2> QED BY <2>1, <2>2, <2>3
<1>5. CASE UNCHANGED motionVars
  <2>1. UNCHANGED <<vars, control, states, view, goal, admitting, cleanup, asked>>
    BY <1>5 DEF motionVars, arbitrator, topics, controller
  <2>2. Positions' = Positions /\ \A k \in Positions : Shown(k)' = Shown(k)
    BY <2>1, LocalMoves DEF Local, arbitrator
  <2>3. /\ \A i \in Identity : (Starting(i)' <=> Starting(i)) /\ (Accepted(i)' <=> Accepted(i))
        /\ \A i \in Identity : (WasAsked(i)' <=> WasAsked(i)) /\ (Unstarted(i)' <=> Unstarted(i))
        /\ \A i \in Identity, k \in 1 .. Len(control) : StartAt(k, i)' <=> StartAt(k, i)
    BY <2>1 DEF Starting, StartAt, Accepted, WasAsked, Unstarted
  <2>4. Once' /\ Unseen' /\ Final'
    BY <2>1, <2>2, <2>3 DEF AccountInv, History, Once, Unseen, Final
  <2>5. LeaseAccounted' /\ AskedTyped'
    BY <2>1 DEF AccountInv, LeaseAccounted, AskedTyped, vars, taskVars, TaskHeld
  <2> QED BY <1>1, <2>4, <2>5 DEF AccountInv, History
<1> QED
  BY <1>2, <1>3, <1>4, <1>5, ThreeKinds

LEMMA InitAccounts ==
  ASSUME MotionInit PROVE AccountInv
<1>1. ReleaseInv
  BY InitReleases
<1>2. /\ Init /\ control = << >> /\ states = << >> /\ view = TaskState /\ goal = NoGoal
      /\ admitting = {} /\ asked = << >>
  BY DEF MotionInit
<1>3. taskIdent = NoIdentity /\ lastControl = Control("", NoIdentity, FALSE, "")
  BY <1>2, Zenon DEF Init
<1>4. ~TaskHeld
  <2>1. taskAge = NoTime
    BY <1>2, Zenon DEF Init
  <2> QED BY <2>1 DEF TaskHeld
<1>5. \A i \in Identity : ~Starting(i) /\ goal.ident # i
  <2>1. Len(control) = 0
    BY <1>2
  <2>2. \A i \in Identity : ~Starting(i)
    BY <2>1 DEF Starting
  <2>3. goal.ident = NoIdentity
    BY <1>2 DEF NoGoal
  <2> QED BY <2>2, <2>3
<1>6. \A k \in Positions : Shown(k) = TaskState
  BY <1>2 DEF Positions, Shown
<1>7. \A i \in Identity : ~Shows(TaskState, i)
  <2>1. lastControl.action = ""
    BY <1>3 DEF Control
  <2> QED BY <1>3, <2>1, StateFields DEF Shows
<1>8. Once
  BY <1>2, <1>5 DEF Once, Accepted, Starting
<1>9. Unseen /\ Final
  BY <1>4, <1>6, <1>7, PresentActive DEF Unseen, Final
<1>10. AskedTyped /\ LeaseAccounted
  BY <1>2, <1>4 DEF AskedTyped, LeaseAccounted
<1> QED BY <1>1, <1>8, <1>9, <1>10 DEF AccountInv, History

(* Under identities that are used once, a lease the manager still honours   *)
(* belongs to the goal in the slot or is about to be given back, whatever   *)
(* answers came late or never.                                              *)
THEOREM LeasesAccounted ==
  ASSUME MayRetry = FALSE PROVE MotionSpec => []LeaseAccounted
<1>1. MotionInit => AccountInv
  BY InitAccounts
<1>2. AccountInv /\ [MotionNext]_motionVars => AccountInv'
  BY StepAccounts
<1>3. AccountInv => LeaseAccounted
  BY DEF AccountInv
<1> QED BY <1>1, <1>2, <1>3, PTL DEF MotionSpec

(* Under identities that are used once, the refusal a goal ends on is the   *)
(* refusal of its own start: with MayRetry it need not be.                  *)
THEOREM RefusalsOwn ==
  ASSUME MayRetry = FALSE PROVE MotionSpec => RefusalIsOfThisStart
<1> DEFINE Own == LeaseRefused =>
      /\ ~(TaskHeld /\ taskIdent = goal.ident)
      /\ \A k \in 1 .. Len(control) :
           ~(control[k].action = "start" /\ control[k].ident = goal.ident)
<1>1. MotionInit => AccountInv
  BY InitAccounts
<1>2. AccountInv /\ [MotionNext]_motionVars => AccountInv'
  BY StepAccounts
<1>3. AccountInv => Own
  <2> SUFFICES ASSUME AccountInv, LeaseRefused
               PROVE  /\ ~(TaskHeld /\ taskIdent = goal.ident)
                      /\ \A k \in 1 .. Len(control) :
                           ~(control[k].action = "start" /\ control[k].ident = goal.ident)
    OBVIOUS
  <2>0. IInv /\ ChannelsTyped /\ GoalTyped /\ Unseen /\ Final
    BY DEF AccountInv, ReleaseInv, MotionTyped, History
  <2>1. PICK i \in Identity : i = goal.ident
    BY <2>0 DEF LeaseRefused, GoalTyped
  <2>2. 0 \in Positions /\ Shown(0) = view /\ StartRejected(Shown(0), i)
    BY <2>0, <2>1, Present DEF LeaseRefused
  <2>3. Dead(Shown(0), i) /\ Shows(Shown(0), i)
    BY <2>2 DEF Dead, Shows, StartRejected
  <2>4. ~Starting(i)
    BY <2>0, <2>2, <2>3 DEF Unseen, Unstarted
  <2>5. PICK n \in Positions : Shown(n) = TaskState /\ 0 <= n
    BY <2>0, Present
  <2>6. ~Active(TaskState, i)
    BY <2>0, <2>2, <2>3, <2>5 DEF Final
  <2> QED BY <2>1, <2>4, <2>6, PresentActive DEF Starting, StartAt
<1> QED BY <1>1, <1>2, <1>3, PTL DEF MotionSpec, RefusalIsOfThisStart
=============================================================================
