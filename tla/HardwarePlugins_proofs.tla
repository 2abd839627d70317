------------------------- MODULE HardwarePlugins_proofs -------------------------
(***************************************************************************)
(* The two hardware components for any number of joints, any calibration,  *)
(* any controller and any damage on the line: what a read shows is no      *)
(* older than a bound, an activation moves nothing, an inactive component  *)
(* has stopped what could be stopped, and the IMU never shows values from  *)
(* both sides of a gap.  And the servo nodes for any boards and offsets.   *)
(***************************************************************************)
EXTENDS HardwarePlugins, TLAPS

PerJoint(f) == f = [j \in Joint |-> f[j]]

(* The arrays have an entry per joint, and the call under way is one that  *)
(* the lifecycle allows, with only some of the joints behind it.           *)
CallsTyped ==
  /\ PerJoint(pos) /\ PerJoint(goal) /\ PerJoint(last) /\ PerJoint(commands)
  /\ pc \in [op : {"none", "activate", "read", "write", "stop"}, done : 0 .. Joints - 1]
  /\ pc.op \in {"read", "write", "stop"} => life = "active"
  /\ pc.op = "activate" => Bus /\ life = "inactive"

(* A component in service has its device open. *)
InServiceIsOpen == life \in {"inactive", "active"} => open = TRUE

(* A servo of the bus that no controller has commanded since its           *)
(* activation was last told what its command says, so that no write()      *)
(* finds a difference to send.                                             *)
Adopted(j) == life = "active" \/ (pc.op = "activate" /\ j <= pc.done)
NothingToSend == Bus => \A j \in Joint : Adopted(j) /\ j \notin touched => last[j] = commands[j]

(* A deactivation that stops joints has stopped those it is done with.     *)
StoppedSoFar ==
  pc.op = "stop" /\ Stops => \A j \in Joint : j <= pc.done => goal[j] = pos[j] \/ j \in refused

ActuatorInv == CallsTyped /\ InServiceIsOpen /\ NothingToSend /\ StoppedSoFar
-----------------------------------------------------------------------------
LEMMA IdleTyped ==
  /\ Idle \in [op : {"none", "activate", "read", "write", "stop"}, done : 0 .. Joints - 1]
  /\ Idle.op = "none" /\ Idle.done = 0
  BY ActuatorAssumption DEF Idle

LEMMA ActuatorStart == ActuatorInit => ActuatorInv
<1> SUFFICES ASSUME ActuatorInit PROVE ActuatorInv
  OBVIOUS
<1>1. /\ life = "unconfigured" /\ pc = Idle
      /\ pos = StandsAt /\ goal = StandsAt
      /\ PerJoint(last) /\ PerJoint(commands)
  BY DEF ActuatorInit, Fresh, PerJoint
<1>2. PerJoint(StandsAt)
  BY ActuatorAssumption DEF PerJoint
<1> QED
  BY <1>1, <1>2, IdleTyped DEF ActuatorInv, CallsTyped, InServiceIsOpen, NothingToSend,
     Adopted, StoppedSoFar

(* No call under way and nothing told to anybody: the lifecycle alone.     *)
LEMMA LifecycleSteps ==
  ASSUME ActuatorInv, Load \/ Configure \/ Cleanup \/ Activate
  PROVE  ActuatorInv'
<1> USE DEF ActuatorInv
<1>1. /\ pos' = pos /\ goal' = goal
      /\ PerJoint(last') /\ PerJoint(commands')
  BY DEF Load, Configure, Cleanup, Activate, CallsTyped, PerJoint, Fresh, object, world
<1>2. CASE Load
  <2>1. life' = "unconfigured" /\ pc' = Idle
    BY <1>2 DEF Load
  <2> QED
    BY <1>1, <2>1, IdleTyped DEF CallsTyped, PerJoint, InServiceIsOpen, NothingToSend,
       Adopted, StoppedSoFar
<1>3. CASE Configure
  <2>1. /\ life = "unconfigured" /\ pc' = pc
        /\ \/ life' = "inactive" /\ open' = TRUE
           \/ life' = "finalized"
    BY <1>3 DEF Configure
  <2>2. pc.op = "none"
    BY <2>1 DEF CallsTyped
  <2> QED
    BY <1>1, <2>1, <2>2 DEF CallsTyped, PerJoint, InServiceIsOpen, NothingToSend, Adopted,
       StoppedSoFar
<1>4. CASE Cleanup
  <2>1. pc' = Idle /\ life' = "unconfigured"
    BY <1>4 DEF Cleanup
  <2> QED
    BY <1>1, <2>1, IdleTyped DEF CallsTyped, PerJoint, InServiceIsOpen, NothingToSend,
       Adopted, StoppedSoFar
<1>5. CASE Activate
  <2>1. /\ life = "inactive" /\ pc = Idle /\ open' = open /\ kind' = kind
        /\ IF Bus THEN pc' = [op |-> "activate", done |-> 0] /\ life' = life
                     ELSE life' = "active" /\ pc' = pc
    BY <1>5 DEF Activate
  <2>2. PerJoint(pos') /\ PerJoint(goal')
    BY <1>1 DEF CallsTyped, PerJoint
  <2>3. open' = TRUE
    BY <2>1 DEF InServiceIsOpen
  <2>4. CASE Bus
    <3>1. pc' = [op |-> "activate", done |-> 0] /\ life' = "inactive" /\ Bus'
      BY <2>1, <2>4 DEF Bus
    <3>2. 0 \in 0 .. Joints - 1
      BY ActuatorAssumption
    <3>3. CallsTyped'
      BY <1>1, <2>2, <3>1, <3>2 DEF CallsTyped
    <3>4. NothingToSend'
      BY <3>1 DEF NothingToSend, Adopted, Joint
    <3> QED
      BY <2>3, <3>1, <3>3, <3>4 DEF InServiceIsOpen, StoppedSoFar
  <2>5. CASE ~Bus
    <3>1. pc' = Idle /\ life' = "active" /\ ~Bus'
      BY <2>1, <2>5 DEF Bus
    <3> QED
      BY <1>1, <2>2, <2>3, <3>1, IdleTyped DEF CallsTyped, InServiceIsOpen, NothingToSend,
         StoppedSoFar
  <2> QED
    BY <2>4, <2>5
<1> QED
  BY <1>2, <1>3, <1>4, <1>5

(* on_activate of the bus tells each servo where it stands and commands it *)
(* the same.                                                               *)
LEMMA ActivateServoStep ==
  ASSUME ActuatorInv, ActivateServo
  PROVE  ActuatorInv' /\ goal' = goal
<1> USE DEF ActuatorInv
<1> DEFINE j == pc.done + 1
<1>1. /\ pc.op = "activate" /\ life = "inactive" /\ Bus
      /\ UNCHANGED <<kind, pos, goal, touched, refused>>
  BY DEF ActivateServo, CallsTyped
<1>2. /\ pc.done \in 0 .. Joints - 1 /\ j \in Joint /\ Joints \in Nat \ {0}
      /\ Bus' /\ PerJoint(pos') /\ PerJoint(goal')
  BY <1>1, ActuatorAssumption DEF CallsTyped, Joint, Bus, PerJoint
<1>3. CASE open' = FALSE /\ life' = "finalized" /\ pc' = Idle /\ UNCHANGED <<commands, last>>
  BY <1>1, <1>2, <1>3, IdleTyped DEF CallsTyped, PerJoint, InServiceIsOpen, NothingToSend,
     Adopted, StoppedSoFar
<1>4. CASE /\ Adopt(j) /\ open' = open
           /\ IF j = Joints THEN life' = "active" /\ pc' = Idle
              ELSE pc' = [pc EXCEPT !.done = j] /\ life' = life
  <2>1. PICK here : /\ last' = [last EXCEPT ![j] = here]
                    /\ commands' = [commands EXCEPT ![j] = here]
    BY <1>4 DEF Adopt
  <2>2. /\ PerJoint(last') /\ PerJoint(commands')
        /\ last'[j] = commands'[j]
        /\ \A k \in Joint : k # j => last'[k] = last[k] /\ commands'[k] = commands[k]
    BY <1>2, <2>1 DEF CallsTyped, PerJoint
  <2>3. \A k \in Joint : k <= j /\ k \notin touched' => last'[k] = commands'[k]
    BY <1>1, <1>2, <2>2 DEF NothingToSend, Adopted, Joint
  <2>4. CASE j = Joints
    <3>1. \A k \in Joint : k <= j
      BY <1>2, <2>4 DEF Joint
    <3> QED
      BY <1>1, <1>2, <1>4, <2>2, <2>3, <2>4, <3>1, IdleTyped
      DEF CallsTyped, InServiceIsOpen, NothingToSend, StoppedSoFar
  <2>5. CASE j # Joints
    <3>1. /\ pc' = [pc EXCEPT !.done = j] /\ life' = "inactive" /\ open' = open
      BY <1>1, <1>4, <2>5
    <3>2. j \in 0 .. Joints - 1
      BY <1>2, <2>5
    <3>3. /\ pc' \in [op : {"none", "activate", "read", "write", "stop"}, done : 0 .. Joints - 1]
          /\ pc'.op = "activate" /\ pc'.done = j
      BY <1>1, <3>1, <3>2 DEF CallsTyped
    <3>4. CallsTyped'
      BY <1>2, <2>2, <3>1, <3>3 DEF CallsTyped
    <3>5. NothingToSend'
      BY <2>3, <3>1, <3>3 DEF NothingToSend, Adopted
    <3> QED
      BY <1>1, <3>1, <3>3, <3>4, <3>5 DEF InServiceIsOpen, StoppedSoFar
  <2> QED
    BY <2>4, <2>5
<1>5. \/ open' = FALSE /\ life' = "finalized" /\ pc' = Idle /\ UNCHANGED <<commands, last>>
      \/ /\ Adopt(j) /\ open' = open
         /\ IF j = Joints THEN life' = "active" /\ pc' = Idle
            ELSE pc' = [pc EXCEPT !.done = j] /\ life' = life
  BY DEF ActivateServo
<1> QED
  BY <1>1, <1>3, <1>4, <1>5

(* The control cycle without write(): nothing is told to an actuator, and  *)
(* last_command stays; a command that changes makes its joint a touched    *)
(* one.                                                                    *)
LEMMA CycleSteps ==
  ASSUME ActuatorInv, BeginRead \/ ReadEcho \/ ReadNext \/ BeginWrite \/ Deactivate
  PROVE  ActuatorInv' /\ goal' = goal
<1> USE DEF ActuatorInv
<1>1. /\ life = "active" /\ open = TRUE
      /\ UNCHANGED <<kind, open, commands, last, pos, goal, touched, refused>>
  BY DEF BeginRead, ReadEcho, ReadNext, BeginWrite, Deactivate, InService, CallsTyped,
         InServiceIsOpen, object, world
<1>2. /\ PerJoint(pos') /\ PerJoint(goal') /\ PerJoint(last') /\ PerJoint(commands')
      /\ InServiceIsOpen' /\ Bus' = Bus
      /\ \A j \in Joint : Bus /\ j \notin touched => last[j] = commands[j]
  BY <1>1 DEF CallsTyped, PerJoint, InServiceIsOpen, Bus, NothingToSend, Adopted
<1>3. ASSUME pc'.op # "activate", pc'.op # "stop"
      PROVE  NothingToSend' /\ StoppedSoFar'
  BY <1>1, <1>2, <1>3 DEF NothingToSend, Adopted, StoppedSoFar, Bus
<1>4. ASSUME NEW o \in {"read", "write", "stop"}, pc' = [op |-> o, done |-> 0], life' = life
      PROVE  ActuatorInv'
  <2>1. /\ pc' \in [op : {"none", "activate", "read", "write", "stop"}, done : 0 .. Joints - 1]
        /\ pc'.op = o /\ pc'.done = 0
    BY <1>4, ActuatorAssumption
  <2>2. CallsTyped'
    BY <1>1, <1>2, <1>4, <2>1 DEF CallsTyped
  <2>3. NothingToSend'
    BY <1>1, <1>2, <1>4, <2>1 DEF NothingToSend, Adopted, Bus
  <2>4. StoppedSoFar'
    BY <2>1 DEF StoppedSoFar, Joint
  <2> QED
    BY <1>2, <2>2, <2>3, <2>4
<1>5. ASSUME pc' = Idle PROVE ActuatorInv'
  BY <1>2, <1>3, <1>5, IdleTyped DEF CallsTyped
<1>6. CASE BeginRead
  BY <1>1, <1>4, <1>6 DEF BeginRead
<1>7. CASE ReadEcho
  BY <1>1, <1>5, <1>7 DEF ReadEcho, InService
<1>8. CASE BeginWrite
  BY <1>1, <1>4, <1>8 DEF BeginWrite
<1>9. CASE Deactivate
  BY <1>1, <1>4, <1>9 DEF Deactivate
<1>10. CASE ReadNext
  <2>1. /\ pc.op = "read"
        /\ \/ pc' = Idle
           \/ pc' = [pc EXCEPT !.done = @ + 1] /\ life' = life /\ pc.done + 1 < Count
    BY <1>10 DEF ReadNext
  <2>2. CASE pc' = [pc EXCEPT !.done = @ + 1] /\ life' = life /\ pc.done + 1 < Count
    <3>1. /\ pc.done \in 0 .. Joints - 1 /\ Joints \in Nat
          /\ FeedbackPerCycle \in Nat
      BY ActuatorAssumption DEF CallsTyped
    <3>2. pc.done + 1 \in 0 .. Joints - 1
      BY <2>2, <3>1 DEF Count
    <3>3. /\ pc' \in [op : {"none", "activate", "read", "write", "stop"}, done : 0 .. Joints - 1]
          /\ pc'.op = "read"
      BY <2>1, <2>2, <3>2 DEF CallsTyped
    <3> QED
      BY <1>1, <1>2, <1>3, <2>2, <3>3 DEF CallsTyped
  <2> QED
    BY <1>1, <1>5, <2>1, <2>2
<1> QED
  BY <1>1, <1>6, <1>7, <1>8, <1>9, <1>10

(* A controller commands a joint, an actuator arrives. *)
LEMMA WorldSteps ==
  ASSUME ActuatorInv, NEW j \in Joint, Arrive(j) \/ \E v \in Commands : Control(j, v)
  PROVE  ActuatorInv' /\ goal' = goal
<1> USE DEF ActuatorInv
<1>1. CASE Arrive(j)
  <2>1. /\ pos[j] # goal[j] /\ pos' = [pos EXCEPT ![j] = goal[j]]
        /\ UNCHANGED <<kind, life, open, commands, last, pc, goal, touched, refused>>
    BY <1>1 DEF Arrive, object
  <2>2. /\ PerJoint(pos') /\ PerJoint(goal') /\ PerJoint(last') /\ PerJoint(commands')
        /\ \A k \in Joint : k # j => pos'[k] = pos[k]
        /\ pos'[j] = goal'[j]
    BY <2>1 DEF CallsTyped, PerJoint
  <2> QED
    BY <2>1, <2>2 DEF CallsTyped, InServiceIsOpen, NothingToSend, Adopted, StoppedSoFar, Bus, Stops
<1>2. CASE \E v \in Commands : Control(j, v)
  <2>1. PICK v \in Commands : Control(j, v)
    BY <1>2
  <2>2. /\ life = "active" /\ pc = Idle
        /\ commands' = [commands EXCEPT ![j] = v]
        /\ touched' = touched \cup {j}
        /\ UNCHANGED <<kind, life, open, last, pc, pos, goal, refused>>
    BY <2>1 DEF Control, InService, world
  <2>3. /\ PerJoint(pos') /\ PerJoint(goal') /\ PerJoint(last') /\ PerJoint(commands')
        /\ \A k \in Joint : k # j => commands'[k] = commands[k]
    BY <2>2 DEF CallsTyped, PerJoint
  <2> QED
    BY <2>2, <2>3, IdleTyped DEF CallsTyped, InServiceIsOpen, NothingToSend, Adopted,
       StoppedSoFar, Bus
<1> QED
  BY <1>1, <1>2

(* write(), one joint: only one that a controller has touched is told      *)
(* anything that is new, on the bus.                                       *)
LEMMA WriteNextStep ==
  ASSUME ActuatorInv, WriteNext
  PROVE  /\ ActuatorInv'
         /\ life' # "inactive"
         /\ Bus => \A k \in Joint : goal'[k] # goal[k] => k \in touched
<1> USE DEF ActuatorInv
<1> DEFINE j == pc.done + 1
<1>1. /\ pc.op = "write" /\ life = "active" /\ open = TRUE
      /\ UNCHANGED <<kind, open, commands, pos, touched, refused>>
  BY DEF WriteNext, CallsTyped, InServiceIsOpen
<1>2. /\ pc.done \in 0 .. Joints - 1 /\ j \in Joint /\ Joints \in Nat \ {0}
      /\ Bus' = Bus /\ PerJoint(pos') /\ PerJoint(commands')
  BY <1>1, ActuatorAssumption DEF CallsTyped, Joint, Bus, PerJoint
<1>3. \/ pc' = Idle /\ life' = "finalized"
      \/ pc' = (IF j = Joints THEN Idle ELSE [pc EXCEPT !.done = j]) /\ life' = life
  BY DEF WriteNext
<1>4. \/ UNCHANGED <<last, goal>>
      \/ /\ last[j] # Order(j)
         /\ last' = [last EXCEPT ![j] = Order(j)]
         /\ goal' = [goal EXCEPT ![j] = Target(j)]
  BY DEF WriteNext
<1>5. Bus => Order(j) = commands[j]
  BY DEF Order
<1>6. /\ PerJoint(last') /\ PerJoint(goal')
      /\ \A k \in Joint : k # j => last'[k] = last[k] /\ goal'[k] = goal[k]
  <2>1. CASE UNCHANGED <<last, goal>>
    BY <2>1 DEF CallsTyped, PerJoint
  <2>2. CASE /\ last' = [last EXCEPT ![j] = Order(j)]
             /\ goal' = [goal EXCEPT ![j] = Target(j)]
    <3>1. PICK a, b : last' = [last EXCEPT ![j] = a] /\ goal' = [goal EXCEPT ![j] = b]
      BY <2>2
    <3> QED
      BY <3>1 DEF CallsTyped, PerJoint
  <2> QED
    BY <1>4, <2>1, <2>2
<1>7. ASSUME Bus, j \notin touched PROVE UNCHANGED <<last, goal>>
  <2>1. last[j] = commands[j]
    BY <1>1, <1>2, <1>7 DEF NothingToSend, Adopted
  <2> QED
    BY <1>4, <1>5, <1>7, <2>1
<1>8. CallsTyped' /\ pc'.op # "activate" /\ pc'.op # "stop" /\ life' # "inactive"
  <2>1. CASE pc' = Idle
    BY <1>1, <1>2, <1>3, <1>6, <2>1, IdleTyped DEF CallsTyped
  <2>2. CASE pc' = [pc EXCEPT !.done = j] /\ j # Joints /\ life' = life
    <3>1. j \in 0 .. Joints - 1
      BY <1>2, <2>2
    <3>2. /\ pc' \in [op : {"none", "activate", "read", "write", "stop"}, done : 0 .. Joints - 1]
          /\ pc'.op = "write"
      BY <1>1, <2>2, <3>1 DEF CallsTyped
    <3> QED
      BY <1>1, <1>2, <1>6, <2>2, <3>2 DEF CallsTyped
  <2> QED
    BY <1>3, <2>1, <2>2
<1>9. NothingToSend'
  BY <1>1, <1>2, <1>6, <1>7, <1>8 DEF NothingToSend, Adopted
<1>10. InServiceIsOpen' /\ StoppedSoFar'
  BY <1>1, <1>8 DEF InServiceIsOpen, StoppedSoFar
<1>11. Bus => \A k \in Joint : goal'[k] # goal[k] => k \in touched
  BY <1>6, <1>7
<1> QED
  BY <1>8, <1>9, <1>10, <1>11

(* on_deactivate, one joint: it stays where it is or is noted as refused.  *)
LEMMA StopNextStep ==
  ASSUME ActuatorInv, StopNext
  PROVE  /\ ActuatorInv'
         /\ \A k \in Joint : goal'[k] # goal[k] => goal'[k] = pos[k]
         /\ life' = "inactive" /\ Stops => \A k \in Joint : goal'[k] = pos[k] \/ k \in refused'
<1> USE DEF ActuatorInv
<1> DEFINE j == pc.done + 1
<1>1. /\ pc.op = "stop" /\ life = "active" /\ open = TRUE
      /\ UNCHANGED <<kind, open, commands, pos, touched>>
  BY DEF StopNext, CallsTyped, InServiceIsOpen
<1>2. /\ pc.done \in 0 .. Joints - 1 /\ j \in Joint /\ Joints \in Nat \ {0}
      /\ Bus' = Bus /\ PerJoint(pos') /\ PerJoint(commands')
  BY <1>1, ActuatorAssumption DEF CallsTyped, Joint, Bus, PerJoint
<1>3. \/ pc' = Idle /\ life' = "finalized"
      \/ pc' = Idle /\ life' = "inactive" /\ j = Joints
      \/ pc' = [pc EXCEPT !.done = j] /\ j # Joints /\ life' = life
  BY DEF StopNext, AfterFailedStop, GoesOnStopping
<1>4. \/ /\ goal' = [goal EXCEPT ![j] = pos[j]] /\ refused' = refused
         /\ last' = IF Bus THEN last ELSE [last EXCEPT ![j] = NaN]
      \/ ~Stops /\ UNCHANGED <<goal, last, refused>>
      \/ UNCHANGED <<goal, last>> /\ refused' = refused \cup {j}
  BY DEF StopNext, Forget
<1>5. /\ PerJoint(goal') /\ PerJoint(last')
      /\ \A k \in Joint : k # j => goal'[k] = goal[k]
      /\ goal'[j] = pos[j] \/ ((j \in refused' \/ ~Stops) /\ goal'[j] = goal[j])
      /\ refused \subseteq refused'
      /\ Bus => last' = last
  BY <1>2, <1>4 DEF CallsTyped, PerJoint, Bus
<1>6. Stops => \A k \in Joint : k <= j => goal'[k] = pos[k] \/ k \in refused'
  BY <1>1, <1>2, <1>5 DEF StoppedSoFar, Joint
<1>7. \A k \in Joint : goal'[k] # goal[k] => goal'[k] = pos[k]
  BY <1>5
<1>8. CASE pc' = Idle
  <2>1. CallsTyped'
    BY <1>1, <1>2, <1>5, <1>8, IdleTyped DEF CallsTyped
  <2>2. InServiceIsOpen' /\ StoppedSoFar'
    BY <1>1, <1>8, IdleTyped DEF InServiceIsOpen, StoppedSoFar
  <2>3. life' # "active"
    BY <1>1, <1>2, <1>3, <1>8, IdleTyped DEF CallsTyped
  <2>4. NothingToSend'
    BY <1>8, <2>3, IdleTyped DEF NothingToSend, Adopted
  <2>5. life' = "inactive" /\ Stops => \A k \in Joint : goal'[k] = pos[k] \/ k \in refused'
    <3>1. life' = "inactive" => j = Joints
      BY <1>1, <1>3
    <3>2. j = Joints => \A k \in Joint : k <= j
      BY <1>2 DEF Joint
    <3> QED
      BY <1>6, <3>1, <3>2
  <2> QED
    BY <1>7, <2>1, <2>2, <2>4, <2>5
<1>9. CASE pc' = [pc EXCEPT !.done = j] /\ j # Joints /\ life' = life
  <2>1. j \in 0 .. Joints - 1
    BY <1>2, <1>9
  <2>2. /\ pc' \in [op : {"none", "activate", "read", "write", "stop"}, done : 0 .. Joints - 1]
        /\ pc'.op = "stop" /\ pc'.done = j
    BY <1>1, <1>9, <2>1 DEF CallsTyped
  <2>3. CallsTyped'
    BY <1>1, <1>2, <1>5, <1>9, <2>2 DEF CallsTyped
  <2>4. StoppedSoFar'
    BY <1>1, <1>6, <2>2 DEF StoppedSoFar, Stops
  <2>5. NothingToSend'
    BY <1>1, <1>2, <1>5, <1>9, <2>2 DEF NothingToSend, Adopted
  <2> QED
    BY <1>1, <1>7, <1>9, <2>3, <2>4, <2>5 DEF InServiceIsOpen
<1> QED
  BY <1>3, <1>8, <1>9

LEMMA ActuatorStep == ActuatorInv /\ [ActuatorNext]_actuatorVars => ActuatorInv'
<1> SUFFICES ASSUME ActuatorInv, [ActuatorNext]_actuatorVars PROVE ActuatorInv'
  OBVIOUS
<1>1. CASE Load \/ Configure \/ Cleanup \/ Activate
  BY <1>1, LifecycleSteps
<1>2. CASE ActivateServo
  BY <1>2, ActivateServoStep
<1>3. CASE BeginRead \/ ReadEcho \/ ReadNext \/ BeginWrite \/ Deactivate
  BY <1>3, CycleSteps
<1>4. CASE WriteNext
  BY <1>4, WriteNextStep
<1>5. CASE StopNext
  BY <1>5, StopNextStep
<1>6. ASSUME NEW j \in Joint, Arrive(j) \/ \E v \in Commands : Control(j, v)
      PROVE  ActuatorInv'
  BY <1>6, WorldSteps
<1>7. CASE UNCHANGED actuatorVars
  BY <1>7 DEF actuatorVars, object, world, ActuatorInv, CallsTyped, PerJoint, InServiceIsOpen,
     NothingToSend, Adopted, StoppedSoFar, Bus, Stops
<1> QED
  BY <1>1, <1>2, <1>3, <1>4, <1>5, <1>6, <1>7 DEF ActuatorNext
-----------------------------------------------------------------------------
(***************************************************************************)
(* How old what read() shows can be.  A servo waits for its turn: Ahead is  *)
(* how many are asked before it, and Count of them are asked per cycle.     *)
(* Count times its age, and what is still ahead of it, stay within one      *)
(* round of all joints for each failure in a row, and one more: waiting     *)
(* moves what is ahead into the age, a turn that fails starts another       *)
(* round, one that succeeds starts over.                                    *)
(***************************************************************************)
Extra == IF Joints = 1 THEN 1 ELSE 0
Ahead(j) == IF next < j THEN j - 1 - next ELSE j - 1 - next + Joints
AskedSoFar == IF pc.op = "read" THEN pc.done ELSE 0
Waited(j) == Count * age[j] + Ahead(j)
Budget(j) == Joints * (errors[j] + 1) + Count - 1 + Count * Extra

AgesTyped ==
  /\ errors \in [Joint -> Nat] /\ age \in [Joint -> Nat]
  /\ next \in 0 .. Joints - 1
  /\ \A a \in late : a.joint \in Joint /\ a.age \in {0, 1}
  /\ pc.op = "read" => pc.done < Count

(* In service: only a servo that is alone finds a late answer of its own;   *)
(* one that had its turn in this cycle has used a round up already.         *)
InTurn ==
  life = "active" =>
    /\ \A a \in late : Joints = 1 \/ Ahead(a.joint) # AskedSoFar
    /\ \A j \in Joint :
         /\ errors[j] < MaxErrors
         /\ Waited(j) + (IF Ahead(j) < AskedSoFar THEN Joints ELSE 0) <= Budget(j)

(* An activation asks every servo, and goes on only with its answer. *)
AnsweredSoFar ==
  pc.op = "activate" => \A j \in Joint : j <= pc.done => errors[j] = 0 /\ age[j] <= 1

AgeInv == ReadPosition => AgesTyped /\ InTurn /\ AnsweredSoFar

LEMMA CountIsSome == Count \in 1 .. Joints /\ Joints \in Nat \ {0}
  BY ActuatorAssumption DEF Count

(* Whose turn it is. *)
LEMMA Turn ==
  ASSUME next \in 0 .. Joints - 1, NEW k \in 0 .. Joints - 1
  PROVE  /\ ((next + k) % Joints) + 1 \in Joint
         /\ Ahead(((next + k) % Joints) + 1) = k
         /\ \A i \in Joint : Ahead(i) \in 0 .. Joints - 1
                             /\ (Ahead(i) = k => i = ((next + k) % Joints) + 1)
<1>1. Joints \in Nat \ {0}
  BY ActuatorAssumption
<1>2. (next + k) % Joints = IF next + k < Joints THEN next + k ELSE next + k - Joints
  BY <1>1
<1> QED
  BY <1>1, <1>2 DEF Ahead, Joint

(* What is ahead when Count servos have had their turn. *)
LEMMA NextTurn ==
  ASSUME next \in 0 .. Joints - 1, next' = (next + Count) % Joints
  PROVE  /\ next' \in 0 .. Joints - 1
         /\ \A i \in Joint : Ahead(i)' = IF Ahead(i) < Count THEN Ahead(i) + Joints - Count
                                         ELSE Ahead(i) - Count
<1>1. Count \in 1 .. Joints /\ Joints \in Nat \ {0}
  BY CountIsSome
<1>2. next' = IF next + Count < Joints THEN next + Count ELSE next + Count - Joints
  BY <1>1
<1> QED
  BY <1>1, <1>2 DEF Ahead, Joint

(* A bound on Count ages is one on whole rounds. *)
LEMMA WholeRounds ==
  ASSUME NEW a \in Nat, NEW m \in Nat, NEW x \in Nat,
         Count * a <= Joints * m + Count - 1 + Count * x
  PROVE  a <= Rounds * m + x
<1>1. Count \in Nat \ {0} /\ Joints \in Nat
  BY CountIsSome
<1> DEFINE n == Joints + Count - 1
<1>2. /\ n \in Nat /\ Rounds = n \div Count /\ Rounds \in Nat
      /\ n = Count * Rounds + (n % Count) /\ n % Count \in 0 .. Count - 1
  BY <1>1 DEF Rounds
<1>3. Joints <= Count * Rounds
  BY <1>1, <1>2
<1>4. Joints * m <= (Count * Rounds) * m
  BY <1>1, <1>2, <1>3
<1>5. ASSUME a >= Rounds * m + x + 1 PROVE FALSE
  <2>1. Count * a >= Count * (Rounds * m + x + 1)
    BY <1>1, <1>2, <1>5
  <2>2. Count * (Rounds * m + x + 1) = (Count * Rounds) * m + Count * x + Count
    BY <1>1, <1>2
  <2> QED BY <1>1, <1>2, <1>4, <2>1, <2>2
<1> QED BY <1>1, <1>2, <1>5

LEMMA AgeStart == ActuatorInit => AgeInv
<1> SUFFICES ASSUME ActuatorInit PROVE AgesTyped /\ InTurn /\ AnsweredSoFar
  BY DEF AgeInv
<1>1. /\ errors = [j \in Joint |-> 0] /\ age = [j \in Joint |-> 0] /\ next = 0 /\ late = {}
      /\ pc = Idle /\ life = "unconfigured"
  BY DEF ActuatorInit, Fresh
<1> QED
  BY <1>1, IdleTyped, CountIsSome DEF AgesTyped, InTurn, AnsweredSoFar

(* A step that measures nothing and gives nobody a turn. *)
LEMMA NobodyAsked ==
  ASSUME AgeInv, ReadPosition, UNCHANGED <<errors, age, next, late>>,
         life' = "active" => life = "active" /\ AskedSoFar' = AskedSoFar,
         pc'.op = "read" => pc'.done < Count,
         pc'.op = "activate" => pc' = pc \/ pc'.done = 0
  PROVE  AgeInv'
<1>1. AgesTyped'
  BY DEF AgeInv, AgesTyped
<1>2. InTurn'
  <2> SUFFICES ASSUME life' = "active" PROVE InTurn'
    BY DEF InTurn
  <2>1. /\ life = "active" /\ AskedSoFar' = AskedSoFar
        /\ \A j : Ahead(j)' = Ahead(j) /\ Waited(j)' = Waited(j) /\ Budget(j)' = Budget(j)
    BY DEF Ahead, Waited, Budget
  <2> QED
    BY <2>1 DEF AgeInv, InTurn
<1>3. AnsweredSoFar'
  BY DEF AgeInv, AnsweredSoFar, Joint
<1> QED
  BY <1>1, <1>2, <1>3 DEF AgeInv

LEMMA UnaskedSteps ==
  ASSUME ActuatorInv, AgeInv, ReadPosition,
         \/ Load \/ Configure \/ Cleanup \/ Activate
         \/ BeginRead \/ ReadEcho \/ BeginWrite \/ WriteNext \/ Deactivate \/ StopNext
         \/ \E j \in Joint : Arrive(j) \/ \E v \in Commands : Control(j, v)
         \/ UNCHANGED actuatorVars
  PROVE  AgeInv'
<1>1. CASE Load
  <2>1. /\ errors' = [j \in Joint |-> 0] /\ age' = [j \in Joint |-> 0] /\ next' = 0
        /\ late' = late /\ pc' = Idle /\ life' = "unconfigured"
    BY <1>1 DEF Load, Fresh, world
  <2> QED
    BY <2>1, IdleTyped, CountIsSome DEF AgeInv, AgesTyped, InTurn, AnsweredSoFar
<1>2. CASE Configure \/ Cleanup \/ Activate
  <2>1. /\ UNCHANGED <<errors, age, next, late>> /\ life' # "active"
        /\ pc' = pc \/ (pc'.op = "activate" /\ pc'.done = 0)
    BY <1>2 DEF Configure, Cleanup, Activate, world, Bus, ReadPosition
  <2> QED
    BY <2>1, NobodyAsked DEF AgeInv, AgesTyped
<1>3. CASE BeginRead \/ BeginWrite \/ Deactivate
  <2>1. /\ UNCHANGED <<errors, age, next, late>> /\ life = "active" /\ pc = Idle
        /\ pc' = pc \/ (pc'.op \in {"read", "write", "stop"} /\ pc'.done = 0)
    BY <1>3 DEF BeginRead, BeginWrite, Deactivate, InService, object, world
  <2>2. AskedSoFar' = 0 /\ AskedSoFar = 0
    BY <2>1, IdleTyped DEF AskedSoFar
  <2> QED
    BY <2>1, <2>2, IdleTyped, CountIsSome, NobodyAsked
<1>4. CASE WriteNext \/ StopNext
  <2>1. /\ UNCHANGED <<errors, age, next, late>> /\ life = "active" /\ pc.op \in {"write", "stop"}
        /\ pc' = Idle \/ pc' = [pc EXCEPT !.done = pc.done + 1]
    BY <1>4 DEF WriteNext, StopNext, AfterFailedStop, GoesOnStopping, Forget, Idle, ActuatorInv, CallsTyped
  <2>2. pc'.op \in {"none", "write", "stop"}
    BY <2>1, IdleTyped DEF ActuatorInv, CallsTyped
  <2>3. AskedSoFar' = 0 /\ AskedSoFar = 0
    BY <2>1, <2>2 DEF AskedSoFar
  <2> QED
    BY <2>1, <2>2, <2>3, NobodyAsked
<1>5. CASE \/ ReadEcho \/ UNCHANGED actuatorVars
           \/ \E j \in Joint : Arrive(j) \/ \E v \in Commands : Control(j, v)
  <2>1. UNCHANGED <<errors, age, next, late, life, pc>>
    BY <1>5 DEF ReadEcho, Arrive, Control, actuatorVars, object, world
  <2>2. AskedSoFar' = AskedSoFar
    BY <2>1 DEF AskedSoFar
  <2> QED
    BY <2>1, <2>2, NobodyAsked DEF AgeInv, AgesTyped
<1> QED
  BY <1>1, <1>2, <1>3, <1>4, <1>5

(* An exchange with servo j: what is found is an answer of it, late or not, *)
(* and nothing but an answer of it is still to come.                        *)
LEMMA Exchanged ==
  ASSUME ActuatorInv, AgeInv, ReadPosition, NEW j \in Joint, NEW x \in Exchanges(j),
         ReadServo(j, x.got)
  PROVE  /\ x.left \subseteq {Answer(j)}
         /\ errors' \in [Joint -> Nat] /\ AgeAfter(j, x.got) \in [Joint -> Nat]
         /\ \A k \in Joint : k # j => errors'[k] = errors[k] /\ AgeAfter(j, x.got)[k] = age[k]
         /\ \/ /\ x.got = {} /\ errors'[j] = errors[j] + 1 /\ AgeAfter(j, x.got)[j] = age[j]
            \/ /\ x.got # {} /\ errors'[j] = 0
               /\ \/ AgeAfter(j, x.got)[j] = 0
                  \/ AgeAfter(j, x.got)[j] = 1 /\ \E a \in late : a.joint = j
<1>1. AgesTyped
  BY DEF AgeInv
<1>2. /\ \/ x.got = {Answer(j)} /\ x.left = {}
         \/ x.got = {a \in late : a.joint = j} /\ x.left \in {{}, {Answer(j)}}
         \/ x.got = {} /\ x.left \in {{}, {Answer(j)}}
  BY DEF Exchanges, Exchange
<1>3. /\ errors' \in [Joint -> Nat]
      /\ \A k \in Joint : errors'[k] = IF k # j THEN errors[k]
                                       ELSE IF x.got = {} THEN errors[j] + 1 ELSE 0
  BY <1>1 DEF ReadServo, AgesTyped
<1>4. CASE x.got = {}
  BY <1>1, <1>2, <1>3, <1>4 DEF AgeAfter, AgesTyped
<1>5. CASE x.got # {}
  <2>1. PICK a : a = (CHOOSE b \in x.got : TRUE)
    OBVIOUS
  <2>2. a \in x.got
    BY <1>5, <2>1
  <2>3. a.age = 0 \/ (a.age = 1 /\ \E b \in late : b.joint = j)
    BY <1>1, <1>2, <2>2 DEF Answer, AgesTyped
  <2>4. AgeAfter(j, x.got) = [age EXCEPT ![j] = a.age]
    BY <1>5, <2>1 DEF AgeAfter
  <2>5. /\ AgeAfter(j, x.got) \in [Joint -> Nat]
        /\ AgeAfter(j, x.got)[j] = a.age
        /\ \A k \in Joint : k # j => AgeAfter(j, x.got)[k] = age[k]
    BY <1>1, <2>3, <2>4 DEF AgesTyped
  <2> QED
    BY <1>2, <1>3, <1>5, <2>3, <2>5
<1> QED
  BY <1>4, <1>5

(* on_activate of the bus, one servo: it answers or activation fails, and   *)
(* what is late in the end is of the last one.                              *)
LEMMA ActivateServoAges ==
  ASSUME ActuatorInv, AgeInv, ReadPosition, ActivateServo
  PROVE  AgeInv'
<1> DEFINE j == pc.done + 1
<1>1. /\ pc.op = "activate" /\ life = "inactive" /\ pc.done \in 0 .. Joints - 1
      /\ Joints \in Nat \ {0} /\ j \in Joint
  BY ActuatorAssumption DEF ActivateServo, ActuatorInv, CallsTyped, Joint
<1>2. PICK x \in Exchanges(j) : ReadServo(j, x.got) /\ late' = x.left /\ age' = AgeAfter(j, x.got)
  BY DEF ActivateServo
<1>3. /\ late' \subseteq {Answer(j)} /\ errors' \in [Joint -> Nat] /\ age' \in [Joint -> Nat]
      /\ \A k \in Joint : k # j => errors'[k] = errors[k] /\ age'[k] = age[k]
      /\ errors'[j] = errors[j] + 1 \/ (errors'[j] = 0 /\ age'[j] \in {0, 1})
  <2> HIDE DEF j
  <2> QED BY <1>1, <1>2, Exchanged
<1>4. \A a \in late' : a.joint = j /\ a.age = 0
  BY <1>3 DEF Answer
<1>5. errors \in [Joint -> Nat] /\ next \in 0 .. Joints - 1
  BY DEF AgeInv, AgesTyped
<1>6. CASE life' = "finalized" /\ pc' = Idle /\ next' = next
  BY <1>1, <1>3, <1>4, <1>5, <1>6, IdleTyped DEF AgeInv, AgesTyped, InTurn, AnsweredSoFar
<1>7. CASE /\ ~(errors'[j] > errors[j])
           /\ IF j = Joints THEN life' = "active" /\ pc' = Idle /\ next' = 0
              ELSE pc' = [pc EXCEPT !.done = j] /\ life' = life /\ next' = next
  <2>1. errors'[j] = 0 /\ age'[j] \in {0, 1}
    BY <1>1, <1>3, <1>5, <1>7
  <2>2. \A k \in Joint : k <= j => errors'[k] = 0 /\ age'[k] \in {0, 1}
    <3>1. \A k \in Joint : k < j => errors[k] = 0 /\ age[k] \in {0, 1}
      <4>1. \A k \in Joint : k < j => k <= pc.done
        BY <1>1 DEF Joint
      <4>2. \A k \in Joint : k <= pc.done => errors[k] = 0 /\ age[k] <= 1 /\ age[k] \in Nat
        BY <1>1 DEF AgeInv, AnsweredSoFar, AgesTyped
      <4> HIDE DEF j
      <4> QED BY <4>1, <4>2
    <3>2. \A k \in Joint : k <= j => k = j \/ k < j
      BY <1>1 DEF Joint
    <3> QED BY <1>3, <2>1, <3>1, <3>2
  <2>3. CASE j = Joints
    <3>1. life' = "active" /\ pc' = Idle /\ next' = 0 /\ AskedSoFar' = 0
      BY <1>7, <2>3, IdleTyped DEF AskedSoFar
    <3>2. \A k \in Joint : Ahead(k)' = k - 1 /\ Waited(k)' = Count * age'[k] + (k - 1)
                           /\ Budget(k)' = Joints * (errors'[k] + 1) + Count - 1 + Count * Extra
      BY <3>1 DEF Ahead, Waited, Budget, Joint
    <3>3. \A a \in late' : Joints = 1 \/ Ahead(a.joint)' # 0
      <4> SUFFICES ASSUME NEW a \in late', Joints # 1 PROVE Ahead(a.joint)' # 0
        OBVIOUS
      <4>1. a.joint = Joints
        BY <1>4, <2>3
      <4> QED BY <1>1, <3>1, <4>1 DEF Ahead
    <3>4. ASSUME NEW k \in Joint
          PROVE  /\ errors'[k] < MaxErrors /\ Ahead(k)' \in Nat
                 /\ Waited(k)' \in Nat /\ Waited(k)' <= Budget(k)'
      <4>1. k <= Joints /\ k >= 1 /\ errors'[k] = 0 /\ age'[k] \in {0, 1}
        BY <2>2, <2>3 DEF Joint
      <4>2. Count \in Nat \ {0} /\ Extra \in {0, 1} /\ MaxErrors \in Nat \ {0}
        BY CountIsSome, ActuatorAssumption DEF Extra
      <4>3. Count * age'[k] \in Nat /\ Count * age'[k] <= Count /\ Count * Extra \in Nat
        BY <4>1, <4>2
      <4>4. Budget(k)' = Joints + Count - 1 + Count * Extra
        BY <1>1, <3>2, <4>1
      <4>5. Ahead(k)' = k - 1 /\ Waited(k)' = Count * age'[k] + (k - 1)
        BY <3>2
      <4>6. errors'[k] < MaxErrors
        BY <4>1, <4>2
      <4>7. k - 1 \in 0 .. Joints - 1
        BY <1>1, <4>1 DEF Joint
      <4>8. Waited(k)' \in Nat /\ Waited(k)' <= Budget(k)'
        <5>1. PICK w, b : w = Count * age'[k] /\ b = Count * Extra
          OBVIOUS
        <5> QED BY <1>1, <4>2, <4>3, <4>4, <4>5, <4>7, <5>1
      <4> QED BY <4>5, <4>6, <4>7, <4>8
    <3>5. InTurn'
      <4>1. \A k \in Joint : ~(Ahead(k)' < AskedSoFar')
        BY <3>1, <3>4
      <4>2. \A k \in Joint : Waited(k)' + (IF Ahead(k)' < AskedSoFar' THEN Joints ELSE 0) <= Budget(k)'
        BY <3>4, <4>1
      <4> QED BY <3>1, <3>3, <3>4, <4>2 DEF InTurn
    <3>6. AgesTyped'
      BY <1>1, <1>3, <1>4, <3>1, IdleTyped DEF AgesTyped
    <3>7. AnsweredSoFar'
      BY <3>1, IdleTyped DEF AnsweredSoFar
    <3> QED BY <3>5, <3>6, <3>7 DEF AgeInv
  <2>4. CASE j # Joints
    <3>1. pc'.op = "activate" /\ pc'.done = j /\ life' = "inactive" /\ next' = next
      BY <1>1, <1>7, <2>4 DEF ActuatorInv, CallsTyped
    <3>2. AgesTyped'
      BY <1>1, <1>3, <1>4, <1>5, <3>1 DEF AgesTyped
    <3> QED BY <2>2, <3>1, <3>2 DEF AgeInv, InTurn, AnsweredSoFar
  <2> QED BY <2>3, <2>4
<1> QED
  BY <1>6, <1>7 DEF ActivateServo

(* read(), one of the servos of this cycle: its turn uses one round up and  *)
(* starts another, for its failure or for what comes after its answer.      *)
LEMMA ReadNextAges ==
  ASSUME ActuatorInv, AgeInv, ReadPosition, ReadNext
  PROVE  AgeInv'
<1> DEFINE k == pc.done
<1>1. /\ pc.op = "read" /\ life = "active" /\ k \in 0 .. Joints - 1 /\ k < Count
      /\ next \in 0 .. Joints - 1 /\ Joints \in Nat \ {0} /\ Count \in 1 .. Joints
      /\ MaxErrors \in Nat \ {0} /\ AskedSoFar = k
      /\ errors \in [Joint -> Nat] /\ age \in [Joint -> Nat]
  BY CountIsSome, ActuatorAssumption
  DEF ReadNext, ActuatorInv, CallsTyped, AgeInv, AgesTyped, AskedSoFar
<1>2. PICK j \in Joint :
        /\ j = ((next + pc.done) % Joints) + 1 /\ Ahead(j) = k
        /\ \A i \in Joint : Ahead(i) \in 0 .. Joints - 1 /\ (Ahead(i) = k => i = j)
  BY <1>1, Turn
<1>3. PICK x \in Exchanges(j) :
        /\ ReadServo(j, x.got)
        /\ IF x.got = {} /\ TooMany(errors'[j])
           THEN life' = "finalized" /\ pc' = Idle /\ late' = x.left /\ UNCHANGED <<next, age>>
           ELSE /\ life' = life
                /\ IF pc.done + 1 < Count
                   THEN /\ pc' = [pc EXCEPT !.done = @ + 1] /\ next' = next
                        /\ late' = x.left /\ age' = AgeAfter(j, x.got)
                   ELSE /\ pc' = Idle /\ next' = (next + Count) % Joints
                        /\ late' = Older(x.left)
                        /\ age' = [i \in Joint |-> AgeAfter(j, x.got)[i] + 1]
  BY <1>2 DEF ReadNext
<1> DEFINE then == AgeAfter(j, x.got)
<1>4. /\ x.left \subseteq {Answer(j)} /\ errors' \in [Joint -> Nat] /\ then \in [Joint -> Nat]
      /\ \A i \in Joint : i # j => errors'[i] = errors[i] /\ then[i] = age[i]
      /\ \/ x.got = {} /\ errors'[j] = errors[j] + 1 /\ then[j] = age[j]
         \/ /\ x.got # {} /\ errors'[j] = 0
            /\ then[j] = 0 \/ (then[j] = 1 /\ \E a \in late : a.joint = j)
  BY <1>2, <1>3, Exchanged
<1> HIDE DEF k, then
<1>5. \A a \in x.left : a.joint = j /\ a.age = 0
  BY <1>4 DEF Answer
<1>6. \/ then[j] = age[j] /\ errors'[j] = errors[j] + 1
      \/ then[j] <= Extra /\ errors'[j] = 0
  <2>1. (\E a \in late : a.joint = j) => Joints = 1
    BY <1>1, <1>2 DEF AgeInv, InTurn
  <2> QED BY <1>4, <2>1 DEF Extra
<1>7. CASE life' = "finalized" /\ pc' = Idle /\ late' = x.left /\ UNCHANGED <<next, age>>
  BY <1>1, <1>2, <1>4, <1>5, <1>7, IdleTyped DEF AgeInv, AgesTyped, InTurn, AnsweredSoFar
<1>8. CASE life' = life /\ ~(x.got = {} /\ TooMany(errors'[j]))
  <2>1. \A i \in Joint : errors'[i] < MaxErrors
    BY <1>1, <1>2, <1>4, <1>8 DEF AgeInv, InTurn, TooMany
  <2>2. ASSUME NEW i \in Joint
        PROVE  Count * then[i] + Ahead(i) + (IF Ahead(i) < k + 1 THEN Joints ELSE 0)
                 <= Joints * (errors'[i] + 1) + Count - 1 + Count * Extra
    <3>1. /\ Ahead(i) \in 0 .. Joints - 1 /\ errors[i] \in Nat /\ age[i] \in Nat
          /\ errors'[i] \in Nat /\ then[i] \in Nat /\ Extra \in {0, 1}
      BY <1>1, <1>2, <1>4 DEF Extra
    <3>2. Count * age[i] + Ahead(i) + (IF Ahead(i) < k THEN Joints ELSE 0)
            <= Joints * (errors[i] + 1) + Count - 1 + Count * Extra
      BY <1>1 DEF AgeInv, InTurn, Waited, Budget, k
    <3>3. CASE i # j
      <4>1. Ahead(i) # k /\ errors'[i] = errors[i] /\ then[i] = age[i]
        BY <1>2, <1>4, <3>3
      <4>2. (Ahead(i) < k + 1) <=> (Ahead(i) < k)
        BY <1>1, <3>1, <4>1 DEF k
      <4> QED BY <3>2, <4>1, <4>2
    <3>4. CASE i = j /\ then[j] = age[j] /\ errors'[j] = errors[j] + 1
      <4>1. Joints * (errors'[i] + 1) = Joints * (errors[i] + 1) + Joints
        BY <1>1, <3>1, <3>4
      <4> QED BY <1>1, <1>2, <3>1, <3>2, <3>4, <4>1 DEF k
    <3>5. CASE i = j /\ then[j] <= Extra /\ errors'[j] = 0
      <4>1. /\ Count * then[i] \in Nat /\ Count * Extra \in Nat
            /\ Count * then[i] <= Count * Extra
        BY <1>1, <3>1, <3>5
      <4>2. Ahead(i) = k /\ Joints * (errors'[i] + 1) = Joints
        BY <1>1, <1>2, <3>5
      <4> QED BY <1>1, <3>1, <4>1, <4>2 DEF k
    <3> QED BY <1>6, <3>3, <3>4, <3>5
  <2>3. CASE k + 1 < Count
    <3>1. /\ pc'.op = "read" /\ pc'.done = k + 1 /\ next' = next /\ late' = x.left /\ age' = then
      BY <1>1, <1>3, <1>8, <2>3 DEF ActuatorInv, CallsTyped, k, then
    <3>2. /\ life' = "active" /\ AskedSoFar' = k + 1
          /\ \A i : Ahead(i)' = Ahead(i)
          /\ \A i \in Joint : Waited(i)' = Count * then[i] + Ahead(i)
          /\ \A i \in Joint : Budget(i)' = Joints * (errors'[i] + 1) + Count - 1 + Count * Extra
      BY <1>1, <1>8, <3>1 DEF AskedSoFar, Ahead, Waited, Budget
    <3>3. \A a \in late' : Ahead(a.joint)' # AskedSoFar'
      BY <1>1, <1>2, <1>5, <3>1, <3>2 DEF k
    <3>4. InTurn'
      <4>1. \A i \in Joint : Waited(i)' + (IF Ahead(i)' < AskedSoFar' THEN Joints ELSE 0) <= Budget(i)'
        BY <2>2, <3>2
      <4> QED BY <2>1, <3>3, <4>1 DEF InTurn
    <3>5. AgesTyped'
      BY <1>1, <1>2, <1>4, <1>5, <2>3, <3>1 DEF AgesTyped
    <3> QED BY <3>1, <3>4, <3>5 DEF AgeInv, AnsweredSoFar
  <2>4. CASE ~(k + 1 < Count)
    <3>1. /\ pc' = Idle /\ next' = (next + Count) % Joints /\ late' = Older(x.left)
          /\ age' = [i \in Joint |-> then[i] + 1]
      BY <1>3, <1>8, <2>4 DEF k, then
    <3>2. /\ next' \in 0 .. Joints - 1
          /\ \A i \in Joint : Ahead(i)' = IF Ahead(i) < Count THEN Ahead(i) + Joints - Count
                                           ELSE Ahead(i) - Count
      BY <1>1, <3>1, NextTurn
    <3>3. k + 1 = Count /\ life' = "active" /\ AskedSoFar' = 0
      BY <1>1, <1>8, <2>4, <3>1, IdleTyped DEF AskedSoFar, k
    <3>4. \A a \in late' : a.joint = j /\ a.age = 1
      BY <1>4, <3>1 DEF Older, Answer
    <3>5. Ahead(j)' = Joints - 1
      BY <1>1, <1>2, <3>2, <3>3 DEF k
    <3>6. \A a \in late' : Joints = 1 \/ Ahead(a.joint)' # AskedSoFar'
      <4>1. Joints = 1 \/ Ahead(j)' # 0
        BY <1>1, <3>5
      <4> QED BY <3>3, <3>4, <4>1 DEF Ahead
    <3>7. ASSUME NEW i \in Joint
          PROVE  /\ Ahead(i)' >= 0
                 /\ Count * age'[i] + Ahead(i)'
                      <= Joints * (errors'[i] + 1) + Count - 1 + Count * Extra
      <4>1. Ahead(i) \in 0 .. Joints - 1 /\ then[i] \in Nat /\ age'[i] = then[i] + 1
        BY <1>2, <1>4, <3>1
      <4>2. Count * age'[i] = Count * then[i] + Count
        BY <1>1, <4>1
      <4> QED BY <1>1, <2>2, <3>2, <3>3, <4>1, <4>2
    <3>8. InTurn'
      <4>1. \A i \in Joint : /\ Waited(i)' = Count * age'[i] + Ahead(i)'
                             /\ Budget(i)' = Joints * (errors'[i] + 1) + Count - 1 + Count * Extra
        BY DEF Waited, Budget
      <4>2. \A i \in Joint : Ahead(i)' \in Int /\ ~(Ahead(i)' < 0)
        BY <1>1, <1>2, <3>2, <3>7
      <4>3. \A i \in Joint : Waited(i)' \in Int
        BY <1>1, <1>4, <3>1, <4>1, <4>2
      <4>4. \A i \in Joint : Waited(i)' + (IF Ahead(i)' < AskedSoFar' THEN Joints ELSE 0) <= Budget(i)'
        BY <3>3, <3>7, <4>1, <4>2, <4>3
      <4> QED BY <2>1, <3>6, <4>4 DEF InTurn
    <3>9. AgesTyped'
      BY <1>2, <1>4, <3>1, <3>2, <3>4, IdleTyped DEF AgesTyped
    <3> QED BY <3>1, <3>8, <3>9, IdleTyped DEF AgeInv, AnsweredSoFar
  <2> QED BY <2>3, <2>4
<1> QED
  BY <1>3, <1>7, <1>8

LEMMA AgeStep == ActuatorInv /\ AgeInv /\ [ActuatorNext]_actuatorVars => AgeInv'
<1> SUFFICES ASSUME ActuatorInv, AgeInv, [ActuatorNext]_actuatorVars, ReadPosition PROVE AgeInv'
  <2>1. [ActuatorNext]_actuatorVars => kind' = kind
    BY DEF ActuatorNext, Load, Configure, Cleanup, Activate, ActivateServo, BeginRead, ReadEcho,
       ReadNext, BeginWrite, WriteNext, Deactivate, StopNext, Arrive, Control, actuatorVars
  <2> QED BY <2>1 DEF AgeInv, ReadPosition
<1> QED
  BY UnaskedSteps, ActivateServoAges, ReadNextAges DEF ActuatorNext
-----------------------------------------------------------------------------
(* The IMU.  A read() is under way only while the component is active;     *)
(* what the have-flags vouch for came in since the last gap; and there are *)
(* values only behind an OK of an active component.                        *)
ReadsTyped ==
  /\ imuLife \in {"unconfigured", "inactive", "active", "finalized"}
  /\ updates # NoUpdates => imuLife = "active"
  /\ have \subseteq {"raw", "quat"}
Vouched == imuLife = "active" => \A r \in have : stored[r] = "new"
ImuInv == ReadsTyped /\ Vouched /\ NoMixtureAcrossGaps

LEMMA ImuStart == ImuInit => ImuInv
  BY DEF ImuInit, ImuInv, ReadsTyped, Vouched, NoMixtureAcrossGaps

LEMMA ImuStep == ImuInv /\ [ImuNext]_imuVars => ImuInv'
<1> SUFFICES ASSUME ImuInv, [ImuNext]_imuVars PROVE ImuInv'
  OBVIOUS
<1> USE DEF ImuInv
<1>1. ASSUME UNCHANGED <<imuLife, stored, have, updates, exported, result>>
      PROVE  ImuInv'
  BY <1>1 DEF ReadsTyped, Vouched, NoMixtureAcrossGaps, AllNone
<1>2. ASSUME exported' = AllNone, imuLife' # "active", updates' = updates,
             imuLife' \in {"unconfigured", "inactive", "active", "finalized"},
             updates = NoUpdates, have' \subseteq {"raw", "quat"}
      PROVE  ImuInv'
  BY <1>2 DEF ReadsTyped, Vouched, NoMixtureAcrossGaps, AllNone, NoUpdates
<1>3. ASSUME NEW frame, Send(frame) PROVE ImuInv'
  BY <1>1, <1>3 DEF Send
<1>4. CASE ImuConfigure \/ ImuCleanup \/ ImuReadOff
  <2>1. updates = NoUpdates
    BY <1>4 DEF ReadsTyped, ImuConfigure, ImuCleanup, ImuReadOff
  <2>2. have' \subseteq {"raw", "quat"}
    BY <1>4 DEF ReadsTyped, ImuConfigure, ImuCleanup, ImuReadOff, Calibrated
  <2> QED
    BY <1>2, <1>4, <2>1, <2>2 DEF ImuConfigure, ImuCleanup, ImuReadOff
<1>5. CASE ImuActivate
  BY <1>5 DEF ImuActivate, ReadsTyped, Vouched, NoMixtureAcrossGaps, AllNone, NoUpdates
<1>6. CASE ImuDeactivate
  BY <1>2, <1>6 DEF ImuDeactivate
<1>7. CASE ReadI2c
  <2>1. /\ imuLife = "active" /\ UNCHANGED <<imuLife, stored, have, updates>>
        /\ \/ exported' = [r \in Reports |-> IF r \in Declared THEN "new" ELSE "none"]
              /\ result' = "OK"
           \/ exported' = AllNone
    BY <1>7 DEF ReadI2c
  <2>2. "raw" \in Reports /\ "quat" \in Reports /\ "raw" \in Declared /\ "quat" \in Declared
    BY DEF Reports, Declared
  <2>3. NoMixtureAcrossGaps'
    BY <2>1, <2>2 DEF NoMixtureAcrossGaps, AllNone
  <2> QED
    BY <2>1, <2>3 DEF ReadsTyped, Vouched, NoUpdates
<1>8. CASE BeginReadSerial
  BY <1>8 DEF BeginReadSerial, ReadsTyped, Vouched, NoMixtureAcrossGaps, AllNone, NoUpdates
<1>9. ASSUME NEW n, Receive(n) PROVE ImuInv'
  <2>1. PICK got : /\ stored' = [r \in Reports |-> IF r \in got THEN "new" ELSE stored[r]]
                   /\ have' = have \cup (got \cap {"raw", "quat"})
    BY <1>9 DEF Receive, Take
  <2>2. imuLife = "active" /\ UNCHANGED <<imuLife, exported, result>>
    BY <1>9 DEF Receive, ReadsTyped
  <2>3. have' \subseteq {"raw", "quat"}
    BY <2>1 DEF ReadsTyped
  <2>4. Vouched'
    <3> SUFFICES ASSUME NEW r \in have' PROVE stored'[r] = "new"
      BY DEF Vouched
    <3>1. r \in Reports
      BY <2>3 DEF Reports
    <3>2. stored'[r] = IF r \in got THEN "new" ELSE stored[r]
      BY <2>1, <3>1
    <3>3. r \in got \/ r \in have
      BY <2>1
    <3> QED
      BY <2>2, <3>2, <3>3 DEF Vouched
  <2>5. ReadsTyped' /\ NoMixtureAcrossGaps'
    BY <2>2, <2>3 DEF ReadsTyped, NoMixtureAcrossGaps, AllNone
  <2> QED
    BY <2>4, <2>5
<1>10. ASSUME NEW threw, EndReadSerial(threw) PROVE ImuInv'
  <2>1. imuLife = "active" /\ imuLife' = imuLife /\ updates' = NoUpdates
    BY <1>10 DEF EndReadSerial, ReadsTyped
  <2>2. have' \subseteq {"raw", "quat"} /\ Vouched'
    BY <1>10, <2>1 DEF EndReadSerial, Silence, Vouched, ReadsTyped
  <2>3. \/ exported' = AllNone
        \/ have = {"raw", "quat"} /\ exported' = stored /\ result' = "OK"
    BY <1>10 DEF EndReadSerial, Fail
  <2>4. NoMixtureAcrossGaps'
    BY <2>1, <2>3 DEF NoMixtureAcrossGaps, Vouched, AllNone
  <2> QED
    BY <2>1, <2>2, <2>4 DEF ReadsTyped
<1>11. CASE UNCHANGED imuVars
  BY <1>1, <1>11 DEF imuVars
<1> QED
  BY <1>3, <1>4, <1>5, <1>6, <1>7, <1>8, <1>9, <1>10, <1>11 DEF ImuNext
-----------------------------------------------------------------------------
(***************************************************************************)
(* The servo nodes.  A write that got past its block knows of each register *)
(* byte behind it (Behind); a node that ends goes on owing the middle to    *)
(* what it has pending (Owed).                                              *)
(***************************************************************************)
WholeBlock == driver = "pca" => increments

NodeTyped ==
  /\ driver \in {"pca", "bus"}
  /\ writing = NoWrite \/ (writing.id \in Id /\ writing.step \in 0 .. 5 /\ service \in {"up", "ending"})
  /\ DOMAIN writing = {"id", "value", "position", "step"}
  /\ DOMAIN reg = Id /\ DOMAIN pulseOf = Id /\ told = [id \in Id |-> told[id]]
  /\ \A id \in Id : reg[id] = [k \in 1 .. 4 |-> reg[id][k]]
  /\ answered \subseteq Id /\ controlled \subseteq Id
  /\ service \in {"up", "deaf"} => answered \subseteq controlled

Aims ==
  writing # NoWrite =>
    /\ service = "up" => writing.value = Wanted(writing.id, writing.position)
    /\ service = "ending" => writing.value = Middle(writing.id) /\ writing.id \in pending

Behind ==
  /\ driver = "pca" /\ increments => \A k \in 1 .. 4 :
       k < writing.step => reg[writing.id][k] = Bytes(writing.value)[k]
  /\ driver = "bus" /\ writing.step = 5 => pulseOf[writing.id] = writing.value

Owed ==
  service \in {"ending", "gone"} /\ WholeBlock =>
    \A id \in answered :
      \/ id \in unreset
      \/ service = "ending" /\ id \in pending
      \/ writing.id # id /\ Holds(id, Middle(id))

NodeInv == NodeTyped /\ Aims /\ Behind /\ Owed /\ ReportedIsWritten

LEMMA FourBytes == \A v : Bytes(v) = [k \in 1 .. 4 |-> Bytes(v)[k]]
  BY DEF Bytes

LEMMA NoWriteIsNone ==
  /\ NoWrite.step = -1 /\ NoWrite.id \notin Id
  /\ DOMAIN NoWrite = {"id", "value", "position", "step"}
  BY ServoNodeAssumption DEF NoWrite, Id

LEMMA NodeStart == NodeInit => NodeInv
  BY NoWriteIsNone DEF NodeInit, NodeInv, NodeTyped, Aims, Behind, Owed, ReportedIsWritten, NoState,
         Untouched, WholeBlock

(* what no write step does: touch another servo than its own *)
OnlyThere ==
  /\ UNCHANGED <<driver, increments>>
  /\ DOMAIN reg' = Id /\ DOMAIN pulseOf' = Id
  /\ \A id \in Id : reg'[id] = [k \in 1 .. 4 |-> reg'[id][k]]
  /\ \A id \in Id : id # writing.id => reg'[id] = reg[id] /\ pulseOf'[id] = pulseOf[id]

LEMMA WriteGoesOn ==
  ASSUME NodeInv, writing # NoWrite, OnlyThere, NEW step \in 1 .. 5, GoesOn(step), Behind'
  PROVE  NodeInv'
<1>1. /\ writing'.id = writing.id /\ writing'.value = writing.value
      /\ writing'.position = writing.position /\ writing'.step = step
      /\ DOMAIN writing' = {"id", "value", "position", "step"}
  BY DEF GoesOn, NodeInv, NodeTyped
<1>2. UNCHANGED <<driver, increments, service, controlled, pending, told, answered, unreset>>
  BY DEF GoesOn, OnlyThere
<1>3. NodeTyped'
  BY <1>1, <1>2 DEF NodeInv, NodeTyped, OnlyThere
<1>4. Aims'
  BY <1>1, <1>2 DEF NodeInv, Aims, Wanted, Middle
<1>5. \A v : \A id \in Id : id # writing.id => (Holds(id, v) <=> Holds(id, v)')
  BY <1>2 DEF OnlyThere, Holds
<1>6. Owed'
  BY <1>1, <1>2, <1>5 DEF NodeInv, NodeTyped, Owed, WholeBlock, Middle, Wanted, Holds, OnlyThere
<1>7. ReportedIsWritten'
  BY <1>1, <1>2, <1>5 DEF NodeInv, NodeTyped, ReportedIsWritten, Wanted, Holds, OnlyThere
<1> QED
  BY <1>3, <1>4, <1>6, <1>7 DEF NodeInv

LEMMA WriteFails ==
  ASSUME NodeInv, writing # NoWrite, OnlyThere, Failed
  PROVE  NodeInv'
<1>1. writing' = NoWrite /\ writing'.step = -1 /\ writing'.id \notin Id
  BY NoWriteIsNone DEF Failed
<1>2. UNCHANGED <<driver, increments, service, controlled, answered>>
  BY DEF Failed, OnlyThere
<1>3. writing.id \in Id
  BY DEF NodeInv, NodeTyped
<1>4. told' = [id \in Id |-> told'[id]]
  BY DEF NodeInv, NodeTyped, Failed, Tell
<1>5. NodeTyped'
  BY <1>1, <1>2, <1>4, NoWriteIsNone DEF NodeInv, NodeTyped, OnlyThere
<1>6. Aims' /\ Behind'
  BY <1>1 DEF Aims, Behind
<1>7. Owed'
  BY <1>1, <1>2, <1>3 DEF NodeInv, NodeTyped, Owed, WholeBlock, Middle, Wanted, Holds, OnlyThere, Failed,
                          ResetFailed
<1>8. ReportedIsWritten'
  <2> SUFFICES ASSUME service' = "up", driver' = "pca" => increments', NEW id \in Id,
                      told'[id].error = 0
               PROVE  Holds(id, Wanted(id, told[id].position))'
    BY DEF ReportedIsWritten
  <2>1. service = "up" /\ Tell(writing.id, writing.position, 1)
    BY <1>2 DEF Failed
  <2>2. id # writing.id /\ told'[id] = told[id]
    BY <2>1, <1>3 DEF Tell, NodeInv, NodeTyped
  <2>3. Holds(id, Wanted(id, told[id].position))
    BY <1>2, <2>1, <2>2 DEF NodeInv, ReportedIsWritten
  <2> QED
    BY <1>2, <2>2, <2>3 DEF Holds, Wanted, OnlyThere
<1> QED
  BY <1>5, <1>6, <1>7, <1>8 DEF NodeInv

LEMMA MovedThere ==
  ASSUME NodeInv, writing # NoWrite, UNCHANGED driver, NEW bytes,
         bytes = [k \in 1 .. 4 |-> bytes[k]], Moved(bytes)
  PROVE  OnlyThere /\ reg'[writing.id] = bytes
  BY DEF NodeInv, NodeTyped, Moved, OnlyThere

LEMMA StandsStill ==
  ASSUME NodeInv, writing # NoWrite, UNCHANGED driver, UNCHANGED board
  PROVE  OnlyThere
  BY DEF NodeInv, NodeTyped, board, OnlyThere

LEMMA WriteSteps ==
  ASSUME NodeInv, WriteBlock \/ WriteByte \/ WriteFrame PROVE NodeInv'
<1>1. writing # NoWrite /\ writing.id \in Id
  BY NoWriteIsNone DEF NodeInv, NodeTyped, WriteBlock, WriteByte, WriteFrame, WholeWrite
<1>2. CASE WriteBlock
  <2>1. PICK n \in 0 .. 4 : /\ Moved(AfterBlock(reg[writing.id], writing.value, n))
                            /\ GoesOn(1) \/ (GoesOn(5) /\ n = 4)
    BY <1>2 DEF WriteBlock, NotesTaken
  <2> DEFINE bytes == AfterBlock(reg[writing.id], writing.value, n)
  <2>2. driver = "pca" /\ driver' = driver
    BY <1>2, <2>1 DEF WriteBlock, GoesOn
  <2>3. bytes = [k \in 1 .. 4 |-> bytes[k]]
    BY <1>1, FourBytes DEF AfterBlock, NodeInv, NodeTyped
  <2>4. OnlyThere /\ reg'[writing.id] = bytes
    <3> HIDE DEF bytes
    <3> QED BY <1>1, <2>1, <2>2, <2>3, MovedThere DEF bytes
  <2>5. CASE GoesOn(1)
    <3>1. Behind'
      BY <2>2, <2>5 DEF Behind, GoesOn, NodeInv, NodeTyped
    <3> QED BY <1>1, <2>4, <2>5, <3>1, WriteGoesOn
  <2>6. CASE GoesOn(5) /\ n = 4
    <3>1. increments => \A k \in 1 .. 4 : reg'[writing.id][k] = Bytes(writing.value)[k]
      BY <2>4, <2>6 DEF AfterBlock
    <3>2. Behind'
      BY <2>2, <2>4, <2>6, <3>1 DEF Behind, GoesOn, NodeInv, NodeTyped, OnlyThere
    <3> QED BY <1>1, <2>4, <2>6, <3>2, WriteGoesOn
  <2> QED BY <2>1, <2>5, <2>6
<1>3. CASE WriteByte
  <2> DEFINE k == writing.step
             taken == [reg[writing.id] EXCEPT ![k] = Bytes(writing.value)[k]]
  <2>1. /\ driver = "pca" /\ k \in 1 .. 4
        /\ \/ Moved(taken) /\ (GoesOn(k + 1) \/ Failed)
           \/ UNCHANGED board /\ Failed
    BY <1>3 DEF WriteByte, ByteFailed
  <2>2. driver' = driver
    BY <2>1 DEF GoesOn, Failed
  <2>3. CASE UNCHANGED board /\ Failed
    BY <1>1, <2>2, <2>3, StandsStill, WriteFails
  <2>4. CASE Moved(taken)
    <3>1. taken = [m \in 1 .. 4 |-> taken[m]]
      BY <1>1 DEF NodeInv, NodeTyped
    <3>2. OnlyThere /\ reg'[writing.id] = taken
      <4> HIDE DEF taken
      <4> QED BY <1>1, <2>2, <2>4, <3>1, MovedThere
    <3>3. CASE Failed
      BY <1>1, <3>2, <3>3, WriteFails
    <3>4. CASE GoesOn(k + 1)
      <4>1. DOMAIN reg[writing.id] = 1 .. 4
        BY <1>1 DEF NodeInv, NodeTyped
      <4>2. increments => \A m \in 1 .. 4 : m < k + 1 => taken[m] = Bytes(writing.value)[m]
        BY <2>1, <4>1 DEF NodeInv, Behind
      <4>3. Behind'
        <5>1. writing'.id = writing.id /\ writing'.value = writing.value /\ writing'.step = k + 1
          BY <3>4 DEF GoesOn, NodeInv, NodeTyped
        <5>2. increments' = increments /\ driver' = "pca"
          BY <2>1, <2>2, <3>2 DEF OnlyThere
        <5> HIDE DEF taken
        <5> QED BY <3>2, <4>2, <5>1, <5>2 DEF Behind
      <4>4. k + 1 \in 1 .. 5
        BY <2>1
      <4> HIDE DEF k, taken
      <4> QED BY <1>1, <3>2, <3>4, <4>3, <4>4, WriteGoesOn
    <3> QED BY <2>1, <2>4, <3>3, <3>4
  <2> QED BY <2>1, <2>3, <2>4
<1>4. CASE WriteFrame
  <2>1. driver = "bus" /\ driver' = driver
    BY <1>4 DEF WriteFrame, GoesOn, Failed
  <2>2. CASE UNCHANGED board /\ Failed
    BY <1>1, <2>1, <2>2, StandsStill, WriteFails
  <2>3. CASE /\ pulseOf' = [pulseOf EXCEPT ![writing.id] = writing.value]
             /\ UNCHANGED <<increments, reg>> /\ GoesOn(5)
    <3>1. OnlyThere
      BY <1>1, <2>1, <2>3 DEF OnlyThere, NodeInv, NodeTyped
    <3>2. Behind'
      BY <1>1, <2>1, <2>3 DEF Behind, GoesOn, NodeInv, NodeTyped
    <3> QED BY <1>1, <2>3, <3>1, <3>2, WriteGoesOn
  <2> QED BY <1>4, <2>2, <2>3 DEF WriteFrame, NotesTaken
<1> QED
  BY <1>2, <1>3, <1>4

LEMMA WrittenStep == ASSUME NodeInv, Written PROVE NodeInv'
<1>1. writing # NoWrite /\ writing.id \in Id /\ writing.step = 5
  BY NoWriteIsNone DEF NodeInv, NodeTyped, Written, NotesTaken
<1>2. writing' = NoWrite /\ writing'.step = -1 /\ writing'.id \notin Id
  BY NoWriteIsNone DEF Written
<1>3. UNCHANGED <<driver, service, increments, reg, pulseOf, unreset>>
  BY DEF Written, board
<1>4. WholeBlock => Holds(writing.id, writing.value)
  BY <1>1, FourBytes DEF WholeBlock, Holds, NodeInv, NodeTyped, Behind
<1>5. NodeTyped'
  BY <1>1, <1>2, <1>3, NoWriteIsNone DEF NodeInv, NodeTyped, Written, Tell
<1>6. Aims' /\ Behind'
  BY <1>2 DEF Aims, Behind
<1>7. Owed'
  BY <1>1, <1>2, <1>3, <1>4 DEF NodeInv, NodeTyped, Owed, Aims, WholeBlock, Middle, Wanted, Holds, Written
<1>8. ReportedIsWritten'
  <2> SUFFICES ASSUME service' = "up", WholeBlock', NEW id \in Id, told'[id].error = 0
               PROVE  Holds(id, Wanted(id, told[id].position))'
    BY DEF ReportedIsWritten, WholeBlock
  <2>1. service = "up" /\ WholeBlock /\ Tell(writing.id, writing.position, 0)
    BY <1>3 DEF Written, WholeBlock
  <2>2. CASE id = writing.id
    <3>1. told'[id].position = writing.position
      BY <1>1, <2>1, <2>2 DEF Tell, NodeInv, NodeTyped
    <3>2. Holds(id, Wanted(id, writing.position))
      BY <1>1, <1>4, <2>1, <2>2 DEF NodeInv, Aims
    <3> QED BY <1>3, <3>1, <3>2 DEF Holds, Wanted
  <2>3. CASE id # writing.id
    <3>1. told'[id] = told[id]
      BY <2>1, <2>3 DEF Tell, NodeInv, NodeTyped
    <3>2. Holds(id, Wanted(id, told[id].position))
      BY <2>1, <2>3, <3>1 DEF NodeInv, ReportedIsWritten, WholeBlock
    <3> QED BY <1>3, <3>1, <3>2 DEF Holds, Wanted
  <2> QED BY <2>2, <2>3
<1> QED
  BY <1>5, <1>6, <1>7, <1>8 DEF NodeInv

LEMMA NodeStep == NodeInv /\ [NodeNext]_nodeVars => NodeInv'
<1> SUFFICES ASSUME NodeInv, [NodeNext]_nodeVars PROVE NodeInv'
  OBVIOUS
<1>1. CASE InitDevice \/ InitSerial
  <2>1. /\ UNCHANGED <<driver, reg, pulseOf>> /\ service' \in {"up", "deaf"}
        /\ writing' = NoWrite /\ answered' = {} /\ controlled' = {}
        /\ told' = [id \in Id |-> NoState]
    BY <1>1 DEF InitDevice, InitSerial, Begun
  <2>2. \A id \in Id : told'[id].error = -1
    BY <2>1 DEF NoState
  <2>3. NodeTyped'
    BY <2>1, NoWriteIsNone DEF NodeInv, NodeTyped
  <2>4. Aims' /\ Behind' /\ Owed'
    BY <2>1, NoWriteIsNone DEF Aims, Behind, Owed
  <2>5. ReportedIsWritten'
    BY <2>2 DEF ReportedIsWritten
  <2> QED
    BY <2>3, <2>4, <2>5 DEF NodeInv
<1>2. ASSUME NEW id \in Id, NEW asked \in Positions, CommandPca(id, asked) PROVE NodeInv'
  BY <1>2, NoWriteIsNone DEF CommandPca, Heard, Writes, Tell, board, NodeInv, NodeTyped, Aims, Behind, Owed,
     ReportedIsWritten, Wanted, Holds, WholeWrite
<1>3. ASSUME NEW id \in Id, NEW asked \in Positions, CommandBus(id, asked) PROVE NodeInv'
  BY <1>3, NoWriteIsNone DEF CommandBus, Heard, Writes, board, NodeInv, NodeTyped, Aims, Behind, Owed,
     ReportedIsWritten, Wanted, Holds, WholeWrite
<1>4. CASE WriteBlock \/ WriteByte \/ WriteFrame \/ Written
  BY <1>4, WriteSteps, WrittenStep
<1>5. CASE Interrupt
  BY <1>5, NoWriteIsNone DEF Interrupt, board, NodeInv, NodeTyped, Aims, Behind, Owed, ReportedIsWritten
<1>6. ASSUME NEW id \in Id, ResetServo(id) PROVE NodeInv'
  BY <1>6, NoWriteIsNone DEF ResetServo, board, NodeInv, NodeTyped, Aims, Behind, Owed, ReportedIsWritten,
     Holds, Middle, Wanted, WholeBlock, WholeWrite
<1>7. CASE DestroyNode \/ Kill
  BY <1>7, NoWriteIsNone DEF DestroyNode, Kill, board, NodeInv, NodeTyped, Aims, Behind, Owed, ReportedIsWritten,
     Holds, Middle, Wanted, WholeBlock
<1>8. CASE UNCHANGED nodeVars
  BY <1>8 DEF nodeVars, NodeInv, NodeTyped, Aims, Behind, Owed, ReportedIsWritten,
     Holds, Middle, Wanted, WholeBlock
<1> QED
  BY <1>1, <1>2, <1>3, <1>4, <1>5, <1>6, <1>7, <1>8 DEF NodeNext
-----------------------------------------------------------------------------
PluginsInv == ActuatorInv /\ AgeInv /\ ImuInv /\ NodeInv

LEMMA PluginsStep == PluginsInv /\ [Next]_vars => PluginsInv'
<1> SUFFICES ASSUME PluginsInv, [Next]_vars PROVE PluginsInv'
  OBVIOUS
<1>1. [ActuatorNext]_actuatorVars /\ [ImuNext]_imuVars /\ [NodeNext]_nodeVars
  BY DEF Next, vars
<1> QED
  BY <1>1, ActuatorStep, AgeStep, ImuStep, NodeStep DEF PluginsInv

LEMMA PluginsAlways == Spec => []PluginsInv
<1>1. Init => PluginsInv
  BY ActuatorStart, AgeStart, ImuStart, NodeStart DEF Init, PluginsInv
<1> QED
  BY <1>1, PluginsStep, PTL DEF Spec

(* A read() of the IMU that answers OK shows motion and orientation of one *)
(* side of every gap, and nothing else ever shows anything                 *)
(* (yb_imu_sensor.cpp read_serial, clear_states).                          *)
THEOREM ImuShowsOneSide == Spec => []NoMixtureAcrossGaps
<1>1. PluginsInv => NoMixtureAcrossGaps
  BY DEF PluginsInv, ImuInv
<1> QED
  BY <1>1, PluginsAlways, PTL

(* What read() shows of a servo was measured at most Rounds cycles ago for  *)
(* every failure in a row that max_consecutive_errors allows, for any       *)
(* number of joints asked any few at a time, whatever answers are missing   *)
(* or late; one more only for a servo that is alone on its line             *)
(* (bus_servo_system.cpp read, read_servo).                                 *)
THEOREM FeedbackIsFresh == Spec => []FeedbackBounded
<1>1. PluginsInv => FeedbackBounded
  <2> SUFFICES ASSUME ActuatorInv, AgeInv, ReadPosition, life = "active", NEW j \in Joint
               PROVE  age[j] <= Rounds * MaxErrors + Extra
    BY DEF PluginsInv, FeedbackBounded, Extra
  <2>1. /\ errors[j] \in Nat /\ age[j] \in Nat /\ errors[j] < MaxErrors
        /\ MaxErrors \in Nat \ {0} /\ Extra \in {0, 1}
        /\ Count \in 1 .. Joints /\ Joints \in Nat \ {0}
    BY CountIsSome, ActuatorAssumption DEF AgeInv, AgesTyped, InTurn, Extra
  <2>2. Ahead(j) \in Nat /\ AskedSoFar \in Nat
    BY <2>1 DEF AgeInv, AgesTyped, ActuatorInv, CallsTyped, Ahead, AskedSoFar, Joint
  <2>3. Count * age[j] <= Joints * (errors[j] + 1) + Count - 1 + Count * Extra
    <3>1. /\ Count * age[j] \in Nat
          /\ Count * age[j] + Ahead(j) + (IF Ahead(j) < AskedSoFar THEN Joints ELSE 0)
               <= Joints * (errors[j] + 1) + Count - 1 + Count * Extra
      BY <2>1 DEF AgeInv, InTurn, Waited, Budget
    <3> QED BY <2>1, <2>2, <3>1
  <2>4. Joints * (errors[j] + 1) <= Joints * MaxErrors
    BY <2>1
  <2>5. Count * age[j] <= Joints * MaxErrors + Count - 1 + Count * Extra
    BY <2>1, <2>3, <2>4
  <2>6. PICK a, m, x : a = age[j] /\ m = MaxErrors /\ x = Extra
    OBVIOUS
  <2> QED BY <2>1, <2>5, <2>6, WholeRounds
<1> QED
  BY <1>1, PluginsAlways, PTL

(* From on_activate to the first command of a controller no servo of the   *)
(* bus is sent anywhere (bus_servo_system.cpp on_activate, write).         *)
THEOREM ActivationMovesNothing == Spec => NoJumpOnActivate
<1> DEFINE Still == Bus => \A j \in Joint :
                            goal'[j] # goal[j] => j \in touched \/ goal'[j] = pos[j]
<1>1. ASSUME ActuatorInv, ActuatorNext PROVE Still
  <2>1. CASE Load \/ Configure \/ Cleanup \/ Activate
    BY <2>1 DEF Load, Configure, Cleanup, Activate, world
  <2>2. CASE ActivateServo
    BY <1>1, <2>2, ActivateServoStep
  <2>3. CASE BeginRead \/ ReadEcho \/ ReadNext \/ BeginWrite \/ Deactivate
    BY <1>1, <2>3, CycleSteps
  <2>4. CASE WriteNext
    BY <1>1, <2>4, WriteNextStep
  <2>5. CASE StopNext
    BY <1>1, <2>5, StopNextStep
  <2>6. ASSUME NEW j \in Joint, Arrive(j) \/ \E v \in Commands : Control(j, v) PROVE Still
    BY <1>1, <2>6, WorldSteps
  <2> QED
    BY <1>1, <2>1, <2>2, <2>3, <2>4, <2>5, <2>6 DEF ActuatorNext
<1>2. PluginsInv /\ [Next]_vars => [Still]_actuatorVars
  BY <1>1 DEF PluginsInv, Next, vars
<1> QED
  BY <1>2, PluginsAlways, PTL DEF Spec, NoJumpOnActivate

(* A component that turns inactive has stopped every actuator whose stop   *)
(* the device took, the ones behind a failure included, unless it is a     *)
(* PCA9685 configured to leave its channels on (bus_servo_system.cpp       *)
(* on_deactivate, pca9685_system.cpp do_stop_single).                      *)
THEOREM InactiveStandsStill == Spec => InactiveIsStill
<1> DEFINE Stopped == life = "active" /\ life' = "inactive" /\ Stops
                        => \A j \in Joint : goal'[j] = pos[j] \/ j \in refused'
<1>1. ASSUME ActuatorInv, ActuatorNext PROVE Stopped
  <2>1. CASE Load \/ Configure \/ Cleanup \/ Activate \/ ActivateServo
    BY <1>1, <2>1 DEF Load, Configure, Cleanup, Activate, ActivateServo, ActuatorInv, CallsTyped
  <2>2. CASE BeginRead \/ ReadEcho \/ ReadNext \/ BeginWrite \/ Deactivate
    BY <1>1, <2>2 DEF BeginRead, ReadEcho, ReadNext, BeginWrite, Deactivate, InService,
       ActuatorInv, InServiceIsOpen
  <2>3. CASE WriteNext
    BY <1>1, <2>3, WriteNextStep
  <2>4. CASE StopNext
    BY <1>1, <2>4, StopNextStep
  <2>5. ASSUME NEW j \in Joint, Arrive(j) \/ \E v \in Commands : Control(j, v) PROVE Stopped
    BY <2>5 DEF Arrive, Control
  <2> QED
    BY <1>1, <2>1, <2>2, <2>3, <2>4, <2>5 DEF ActuatorNext
<1>2. PluginsInv /\ [Next]_vars => [Stopped]_actuatorVars
  BY <1>1 DEF PluginsInv, Next, vars
<1> QED
  BY <1>2, PluginsAlways, PTL DEF Spec, InactiveIsStill

(* A servo node that answers a command without an error has its board hold *)
(* the whole of it, whatever came through of the blocks and bytes before   *)
(* (pca_servo.py set_pwm, bus_servo.py send_position), for any ids, limits *)
(* and offsets.                                                            *)
THEOREM AnswersAreWritten == Spec => []ReportedIsWritten
<1>1. PluginsInv => ReportedIsWritten
  BY DEF PluginsInv, NodeInv
<1> QED
  BY <1>1, PluginsAlways, PTL

(* A servo node that ended on SIGINT left what it ever answered for in the *)
(* middle, but for failed resets (reset_servos, destroy_node).             *)
THEOREM EndsCentred == Spec => []CentredWhenGone
<1>1. PluginsInv => CentredWhenGone
  BY DEF PluginsInv, NodeInv, Owed, WholeBlock, CentredWhenGone
<1> QED
  BY <1>1, PluginsAlways, PTL
=============================================================================
