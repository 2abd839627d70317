------------------------ MODULE DriverSafety_proofs ------------------------
(***************************************************************************)
(* The stop path for any set of ports and any bounds: a stop fault is      *)
(* sticky, and further down, what an acknowledgement is worth.             *)
(*                                                                         *)
(* FaultIsSticky is not inductive.  A release that is under way would      *)
(* clear the estop, so it must be shown that no fault can appear during    *)
(* one: it is alone (Alone), because it begins with no token in use and    *)
(* keeps both the default group and the estop, under which no stop begins. *)
(* And the fault leaves a token behind that no step takes back (Witness),  *)
(* because every operation that may latch a fault holds its own (Held).    *)
(***************************************************************************)
EXTENDS DriverSafety, TLAPS

(* The part of the type invariant the argument needs. *)
Typed ==
  /\ ops \in [Op -> OpRecord]
  /\ clock \in Nat
  /\ active \in SUBSET Op
  /\ busy \in Op \cup {NoOp}
  /\ estop \in BOOLEAN
  /\ fault \in BOOLEAN
  /\ known \in SUBSET Port

(* An operation past its announcement holds a token until it is done. *)
Held ==
  \A o \in Op : /\ ops[o].pc \notin {"idle", "announce", "done"} => o \in active
                /\ ops[o].pc = "announce" /\ o \notin active => busy = o

(* An operation is idle until it has a kind; a release stops nothing.      *)
KindPhases ==
  \A o \in Op : /\ ops[o].kind = "none" <=> ops[o].pc = "idle"
                /\ ops[o].kind = "release" =>
                     ops[o].pc \in {"draw", "releasing", "conclude", "fault",
                                    "alarm", "done"}

(* A release under way is alone, and nothing has failed yet. *)
Alone ==
  \A o \in Op : ops[o].kind = "release"
                /\ ops[o].pc \in {"draw", "releasing", "conclude", "fault"} =>
                  busy = o /\ active = {o} /\ estop /\ ~fault

(* The operation that failed still has its token. *)
Witness ==
  fault => estop /\ \E o \in active : ops[o].pc \in {"alarm", "done"}

FaultInv == Typed /\ Held /\ KindPhases /\ Alone /\ Witness
-----------------------------------------------------------------------------
USE DEF NoOp

(* What a step of an operation does to its record and to the others.       *)
LEMMA RecordsUpdated ==
  ASSUME ops \in [Op -> OpRecord], NEW o \in Op, NEW r \in OpRecord,
         ops' = [ops EXCEPT ![o] = r]
  PROVE  /\ ops' \in [Op -> OpRecord]
         /\ ops'[o] = r
         /\ \A x \in Op : x # o => ops'[x] = ops[x]
OBVIOUS

LEMMA PhaseSet ==
  ASSUME ops \in [Op -> OpRecord], NEW o \in Op, NEW c \in Phases,
         ops' = [ops EXCEPT ![o].pc = c]
  PROVE  /\ ops' \in [Op -> OpRecord]
         /\ ops'[o].pc = c /\ ops'[o].kind = ops[o].kind
         /\ ops'[o].todo = ops[o].todo /\ ops'[o].port = ops[o].port
         /\ ops'[o].stamp = ops[o].stamp
         /\ \A x \in Op : x # o => ops'[x] = ops[x]
<1> DEFINE r == [ops[o] EXCEPT !.pc = c]
<1>1. /\ r \in OpRecord /\ r.pc = c /\ r.kind = ops[o].kind
      /\ r.todo = ops[o].todo /\ r.port = ops[o].port /\ r.stamp = ops[o].stamp
  BY DEF OpRecord
<1>2. ops' = [ops EXCEPT ![o] = r]
  OBVIOUS
<1> HIDE DEF r
<1> QED BY <1>1, <1>2, RecordsUpdated

LEMMA Begun ==
  ASSUME ops \in [Op -> OpRecord], NEW o \in Op, NEW k \in Kinds, NEW c \in Phases,
         NEW t \in SUBSET Port,
         \/ ops' = [ops EXCEPT ![o] = [Fresh EXCEPT !.kind = k, !.pc = c, !.todo = t]]
         \/ ops' = [ops EXCEPT ![o] = [Fresh EXCEPT !.kind = k, !.pc = c]]
  PROVE  /\ ops' \in [Op -> OpRecord]
         /\ ops'[o].pc = c /\ ops'[o].kind = k /\ ops'[o].port = Nothing
         /\ \A x \in Op : x # o => ops'[x] = ops[x]
<1> DEFINE r == [Fresh EXCEPT !.kind = k, !.pc = c, !.todo = t]
           s == [Fresh EXCEPT !.kind = k, !.pc = c]
<1>1. Fresh \in OpRecord /\ Fresh.port = Nothing
  <2>1. TRUE \in BOOLEAN BY Zenon
  <2> QED BY <2>1 DEF OpRecord, Fresh, Phases, Kinds
<1>2. r \in OpRecord /\ r.pc = c /\ r.kind = k /\ r.port = Nothing
  BY <1>1 DEF OpRecord
<1>3. s \in OpRecord /\ s.pc = c /\ s.kind = k /\ s.port = Nothing
  BY <1>1 DEF OpRecord
<1>4. ops' = [ops EXCEPT ![o] = r] \/ ops' = [ops EXCEPT ![o] = s]
  OBVIOUS
<1> HIDE DEF r, s
<1> QED BY <1>2, <1>3, <1>4, RecordsUpdated
-----------------------------------------------------------------------------
LEMMA InitFaultInv == Init => FaultInv
<1> SUFFICES ASSUME Init PROVE FaultInv
  OBVIOUS
<1>1. /\ estop = FALSE /\ fault = FALSE /\ clock = 1 /\ busy = NoOp
      /\ active = {} /\ known = {}
  BY DEF Init
<1>2. estop \in BOOLEAN /\ fault \in BOOLEAN
  BY <1>1, Zenon
<1>3. Fresh \in OpRecord
  <2>1. TRUE \in BOOLEAN BY Zenon
  <2> QED BY <2>1 DEF OpRecord, Fresh, Phases, Kinds
<1>4. ops \in [Op -> OpRecord]
  BY <1>3 DEF Init
<1>5. Typed
  BY <1>1, <1>2, <1>4 DEF Typed
<1>6. \A o \in Op : ops[o].kind = "none" /\ ops[o].pc = "idle"
  BY DEF Init, Fresh
<1> QED
  BY <1>1, <1>5, <1>6 DEF FaultInv, Held, KindPhases, Alone, Witness

(* The steps of the channels, the drivers and the moves.                   *)
LEMMA QuietStep ==
  ASSUME FaultInv, UNCHANGED <<ops, active, busy, estop, fault>>,
         clock' \in Nat, known' \in SUBSET Port
  PROVE  FaultInv'
BY DEF FaultInv, Typed, Held, KindPhases, Alone, Witness

(* An operation that has a token goes on with it.                          *)
Goes(o) ==
  /\ UNCHANGED <<active, busy, estop, fault, known>>
  /\ clock' \in Nat
  /\ ops' \in [Op -> OpRecord]
  /\ \A x \in Op : x # o => ops'[x] = ops[x]
  /\ ops'[o].kind = ops[o].kind
  /\ ops[o].pc \notin {"idle", "announce", "alarm", "done"}
  /\ ops'[o].pc \notin {"idle", "announce", "alarm", "done"}
  /\ ops[o].kind = "release" =>
       ops'[o].pc \in {"draw", "releasing", "conclude", "fault"}

LEMMA GoingOn ==
  ASSUME FaultInv, NEW o \in Op, Goes(o) PROVE FaultInv'
<1> USE DEF FaultInv
<1>1. Typed'
  BY DEF Typed, Goes
<1>2. Held'
  BY DEF Typed, Held, Goes
<1>3. KindPhases'
  BY DEF Typed, KindPhases, Goes
<1>4. Alone'
  BY DEF Typed, Alone, KindPhases, Goes
<1>5. Witness'
  BY DEF Typed, Witness, Goes
<1> QED BY <1>1, <1>2, <1>3, <1>4, <1>5
-----------------------------------------------------------------------------
(* A step keeps the invariant: one lemma per group of actions.             *)
LEMMA BeginKeeps ==
  ASSUME FaultInv, NEW o \in Op,
         \/ EstopOn(o) \/ EstopOff(o)
         \/ \E ids \in (SUBSET Port) \ {{}} : BeginStop(o, ids)
  PROVE  FaultInv'
<1>1. CASE EstopOn(o)
  <2>1. /\ ops' \in [Op -> OpRecord]
        /\ ops'[o].pc = "announce" /\ ops'[o].kind = "estop"
        /\ \A x \in Op : x # o => ops'[x] = ops[x]
    <3>1. ops \in [Op -> OpRecord] /\ known \in SUBSET Port
      BY DEF FaultInv, Typed
    <3>2. ops' = [ops EXCEPT ![o] = [Fresh EXCEPT !.kind = "estop",
                                       !.pc = "announce", !.todo = known]]
      BY <1>1 DEF EstopOn
    <3>3. "estop" \in Kinds /\ "announce" \in Phases
      BY DEF Kinds, Phases
    <3> QED
      BY <3>1, <3>2, <3>3, Begun
  <2>2. /\ ops[o].pc = "idle" /\ busy = NoOp /\ busy' = o /\ fault' = fault
        /\ estop' = TRUE /\ clock' = clock /\ known' = known
        /\ active \subseteq active' /\ active' \subseteq active \cup {o}
    BY <1>1 DEF EstopOn, NextOp, FaultInv, KindPhases
  <2>3. estop' \in BOOLEAN
    BY <2>2, Zenon
  <2> QED
    BY <2>1, <2>2, <2>3 DEF FaultInv, Held, KindPhases, Alone, Witness, Typed, Op
<1>2. CASE EstopOff(o)
  <2>1. /\ ops' \in [Op -> OpRecord]
        /\ ops'[o].pc = "draw" /\ ops'[o].kind = "release"
        /\ \A x \in Op : x # o => ops'[x] = ops[x]
    BY <1>2, Begun DEF EstopOff, FaultInv, Typed, Phases, Kinds
  <2>2. /\ ops[o].pc = "idle" /\ busy = NoOp /\ busy' = o /\ ~fault
        /\ fault' = fault /\ estop /\ estop' = estop /\ clock' = clock
        /\ known' = known /\ active = {} /\ active' = {o}
    BY <1>2 DEF EstopOff, NextOp, FaultInv, KindPhases
  <2> QED
    BY <2>1, <2>2 DEF FaultInv, Held, KindPhases, Alone, Witness, Typed, Op
<1>3. ASSUME NEW ids \in SUBSET Port, BeginStop(o, ids) PROVE FaultInv'
  <2>1. /\ ops' \in [Op -> OpRecord]
        /\ ops'[o].pc = "announce" /\ ops'[o].kind = "stop"
        /\ \A x \in Op : x # o => ops'[x] = ops[x]
    <3>1. ops' = [ops EXCEPT ![o] = [Fresh EXCEPT !.kind = "stop",
                                       !.pc = "announce", !.todo = ids]]
      BY <1>3 DEF BeginStop
    <3>2. ops \in [Op -> OpRecord] /\ "stop" \in Kinds /\ "announce" \in Phases
      BY DEF FaultInv, Typed, Kinds, Phases
    <3> QED
      BY <3>1, <3>2, Begun
  <2>2. /\ ops[o].pc = "idle" /\ busy' = busy /\ fault' = fault /\ ~estop
        /\ estop' = estop /\ clock' = clock /\ known' = known
        /\ active' = active \cup {o}
    BY <1>3 DEF BeginStop, NextOp, FaultInv, KindPhases
  <2>3. Typed'
    BY <2>1, <2>2 DEF FaultInv, Typed, Op
  <2>4. Held' /\ KindPhases'
    BY <2>1, <2>2 DEF FaultInv, Held, KindPhases
  <2>5. Alone' /\ Witness'
    BY <2>1, <2>2 DEF FaultInv, Alone, Witness, Typed
  <2> QED
    BY <2>3, <2>4, <2>5 DEF FaultInv
<1> QED BY <1>1, <1>2, <1>3

LEMMA AnswerSet ==
  ASSUME ops \in [Op -> OpRecord], NEW o \in Op, NEW ok, StopAnswered(o, ok)
  PROVE  /\ ops' \in [Op -> OpRecord]
         /\ ops'[o].pc = "stopping" /\ ops'[o].kind = ops[o].kind
         /\ ops'[o].todo = ops[o].todo \ {ops[o].port} /\ ops'[o].port = Nothing
         /\ \A x \in Op : x # o => ops'[x] = ops[x]
<1> DEFINE r == [ops[o] EXCEPT !.port = Nothing, !.pc = "stopping",
                   !.todo = @ \ {ops[o].port}, !.ok = @ /\ ok]
<1>1. /\ r \in OpRecord /\ r.pc = "stopping" /\ r.kind = ops[o].kind
      /\ r.todo = ops[o].todo \ {ops[o].port} /\ r.port = Nothing
  BY DEF OpRecord, Phases
<1>2. ops' = [ops EXCEPT ![o] = r]
  BY DEF StopAnswered
<1> HIDE DEF r
<1> QED BY <1>1, <1>2, RecordsUpdated

LEMMA AdvanceKeeps ==
  ASSUME FaultInv, NEW o \in Op,
         \/ CallTimeout(o) \/ StopsDone(o) \/ RequestRelease(o)
         \/ ReleaseUnavailable(o)
         \/ \E p \in Port : StopCall(o, p) \/ StopUnreadable(o, p)
  PROVE  FaultInv'
<1>0. ops \in [Op -> OpRecord] /\ clock \in Nat
  BY DEF FaultInv, Typed
<1>k. ops[o].kind = "release" =>
        ops[o].pc \in {"draw", "releasing", "conclude", "fault", "alarm", "done"}
  BY DEF FaultInv, KindPhases
<1>1. CASE CallTimeout(o)
  <2>1. CASE ops[o].pc = "calling" /\ StopAnswered(o, FALSE)
    BY <1>0, <1>1, <1>k, <2>1, AnswerSet, GoingOn DEF CallTimeout, Goes
  <2>2. CASE ops[o].pc = "releasing" /\ Goto(o, "fault")
    BY <1>0, <1>1, <1>k, <2>2, PhaseSet, GoingOn DEF CallTimeout, Goes, Goto, Phases
  <2> QED BY <1>1, <2>1, <2>2 DEF CallTimeout
<1>2. CASE StopsDone(o)
  <2> DEFINE c == IF ops[o].ok THEN "check" ELSE "fault"
  <2>1. c \in Phases /\ c \in {"check", "fault"} /\ ops[o].pc = "stopping"
        /\ ops' = [ops EXCEPT ![o].pc = c]
    BY <1>2 DEF StopsDone, Goto, Phases
  <2> HIDE DEF c
  <2> QED BY <1>0, <1>2, <1>k, <2>1, PhaseSet, GoingOn DEF StopsDone, Goes
<1>3. CASE RequestRelease(o)
  <2> DEFINE s == clock + 1
             r == [ops[o] EXCEPT !.pc = "releasing", !.stamp = s]
  <2>0. s \in Nat
    BY <1>0
  <2> HIDE DEF s
  <2>1. r \in OpRecord /\ r.pc = "releasing" /\ r.kind = ops[o].kind
    BY <1>0, <2>0 DEF OpRecord, Phases
  <2>2. ops' = [ops EXCEPT ![o] = r]
    BY <1>3 DEF RequestRelease, s
  <2>3. clock' \in Nat
    BY <1>3, <2>0 DEF RequestRelease, s
  <2> HIDE DEF r
  <2> QED
    BY <1>0, <1>3, <1>k, <2>1, <2>2, <2>3, RecordsUpdated, GoingOn DEF RequestRelease, Goes
<1>4. CASE ReleaseUnavailable(o)
  BY <1>0, <1>4, PhaseSet, GoingOn DEF ReleaseUnavailable, Goto, Goes, Phases
<1>5. ASSUME NEW p \in Port, StopCall(o, p) PROVE FaultInv'
  <2> DEFINE r == [ops[o] EXCEPT !.pc = "calling", !.port = p]
  <2>1. r \in OpRecord /\ r.pc = "calling" /\ r.kind = ops[o].kind
    BY <1>0 DEF OpRecord, Phases
  <2>2. ops' = [ops EXCEPT ![o] = r]
    BY <1>5 DEF StopCall
  <2>3. ops[o].pc = "stopping" /\ UNCHANGED <<clock, active, busy, estop, fault, known>>
    BY <1>5 DEF StopCall
  <2> HIDE DEF r
  <2> QED
    BY <1>0, <1>5, <1>k, <2>1, <2>2, <2>3, RecordsUpdated, GoingOn DEF Goes
<1>6. ASSUME NEW p \in Port, StopUnreadable(o, p) PROVE FaultInv'
  <2> DEFINE r == [ops[o] EXCEPT !.todo = @ \ {p}, !.ok = FALSE]
  <2>1. FALSE \in BOOLEAN
    BY Zenon
  <2>2. r \in OpRecord /\ r.pc = ops[o].pc /\ r.kind = ops[o].kind
    BY <1>0, <2>1 DEF OpRecord
  <2>3. ops' = [ops EXCEPT ![o] = r]
    BY <1>6 DEF StopUnreadable
  <2> HIDE DEF r
  <2>4. /\ ops' \in [Op -> OpRecord] /\ ops'[o] = r
        /\ \A x \in Op : x # o => ops'[x] = ops[x]
    BY <1>0, <2>2, <2>3, RecordsUpdated
  <2>5. /\ ops[o].pc = "stopping"
        /\ UNCHANGED <<clock, active, busy, estop, fault, known>>
    BY <1>6 DEF StopUnreadable
  <2>6. Goes(o)
    BY <1>0, <1>k, <2>2, <2>4, <2>5 DEF Goes
  <2> QED
    BY <2>6, GoingOn
<1> QED BY <1>1, <1>2, <1>3, <1>4, <1>5, <1>6

(* The steps that give a token up, or turn to a fault.                     *)
LEMMA EndKeeps ==
  ASSUME FaultInv, NEW o \in Op,
         Announce(o) \/ FinishCheck(o) \/ Conclude(o) \/ LatchFault(o) \/ Alarm(o)
  PROVE  FaultInv'
<1>0. ops \in [Op -> OpRecord] /\ clock \in Nat /\ clock + 1 \in Nat
  BY DEF FaultInv, Typed
<1>k. ops[o].kind = "release" =>
        ops[o].pc \in {"draw", "releasing", "conclude", "fault", "alarm", "done"}
  BY DEF FaultInv, KindPhases
<1>1. CASE Announce(o)
  <2> DEFINE c == IF o \in active THEN "stopping" ELSE "done"
  <2>1. /\ c \in Phases /\ ops' = [ops EXCEPT ![o].pc = c]
        /\ \/ o \in active /\ c = "stopping" /\ busy' = busy
           \/ o \notin active /\ c = "done" /\ GroupLeftBy(o)
    BY <1>1 DEF Announce, Phases, Goto
  <2> HIDE DEF c
  <2>2. /\ ops' \in [Op -> OpRecord]
        /\ ops'[o].pc = c /\ ops'[o].kind = ops[o].kind
        /\ \A x \in Op : x # o => ops'[x] = ops[x]
    BY <1>0, <2>1, PhaseSet
  <2>3. /\ ops[o].pc = "announce" /\ clock' = clock + 1
        /\ UNCHANGED <<active, estop, fault, known>>
    BY <1>1 DEF Announce, Stamped
  <2> QED
    BY <1>0, <1>k, <2>1, <2>2, <2>3
    DEF FaultInv, Typed, Held, KindPhases, Alone, Witness, GroupLeftBy
<1>2. CASE FinishCheck(o)
  <2> DEFINE c == IF active \ {o} # {} \/ fault \/ estop THEN "done" ELSE "draw"
  <2>1. /\ c \in Phases /\ ops' = [ops EXCEPT ![o].pc = c]
        /\ \/ c = "done" /\ GroupLeftBy(o) /\ active' = active \ {o}
           \/ c = "draw" /\ UNCHANGED <<busy, active>>
    BY <1>2 DEF FinishCheck, Phases, Goto
  <2> HIDE DEF c
  <2>2. /\ ops' \in [Op -> OpRecord]
        /\ ops'[o].pc = c /\ ops'[o].kind = ops[o].kind
        /\ \A x \in Op : x # o => ops'[x] = ops[x]
    BY <1>0, <2>1, PhaseSet
  <2>3. /\ ops[o].pc = "check"
        /\ UNCHANGED <<clock, estop, fault, known>>
    BY <1>2 DEF FinishCheck
  <2> QED
    BY <1>0, <1>k, <2>1, <2>2, <2>3
    DEF FaultInv, Typed, Held, KindPhases, Alone, Witness, GroupLeftBy
<1>3. CASE Conclude(o)
  <2>1. /\ ops' \in [Op -> OpRecord]
        /\ ops'[o].pc = "done" /\ ops'[o].kind = ops[o].kind
        /\ \A x \in Op : x # o => ops'[x] = ops[x]
    BY <1>0, <1>3, PhaseSet DEF Conclude, Goto, Phases
  <2>2. /\ ops[o].pc = "conclude" /\ GroupLeftBy(o) /\ active' = active \ {o}
        /\ UNCHANGED <<clock, fault, known>>
    BY <1>3 DEF Conclude
  <2>3. estop' = (estop /\ ops[o].kind # "release")
    BY <1>3 DEF Conclude
  <2>4. estop' \in BOOLEAN
    BY <2>3, Zenon
  <2>5. CASE ops[o].kind = "release"
    BY <1>0, <2>1, <2>2, <2>3, <2>4, <2>5
    DEF FaultInv, Typed, Held, KindPhases, Alone, Witness, GroupLeftBy
  <2>6. CASE ops[o].kind # "release"
    <3>1. estop' = estop
      BY <2>3, <2>6 DEF FaultInv, Typed
    <3> QED
      BY <1>0, <2>1, <2>2, <2>6, <3>1
      DEF FaultInv, Typed, Held, KindPhases, Alone, Witness, GroupLeftBy
  <2> QED BY <2>5, <2>6
<1>4. CASE LatchFault(o)
  <2>1. /\ ops' \in [Op -> OpRecord]
        /\ ops'[o].pc = "alarm" /\ ops'[o].kind = ops[o].kind
        /\ \A x \in Op : x # o => ops'[x] = ops[x]
    BY <1>0, <1>4, PhaseSet DEF LatchFault, Goto, Phases
  <2>2. /\ ops[o].pc = "fault" /\ fault' = TRUE /\ estop' = TRUE
        /\ UNCHANGED <<active, busy, clock, known>>
    BY <1>4 DEF LatchFault, channels
  <2>3. fault' \in BOOLEAN /\ estop' \in BOOLEAN
    BY <2>2, Zenon
  <2> QED
    BY <1>0, <1>k, <2>1, <2>2, <2>3
    DEF FaultInv, Typed, Held, KindPhases, Alone, Witness
<1>5. CASE Alarm(o)
  <2>1. /\ ops' \in [Op -> OpRecord]
        /\ ops'[o].pc = "done" /\ ops'[o].kind = ops[o].kind
        /\ \A x \in Op : x # o => ops'[x] = ops[x]
    BY <1>0, <1>5, PhaseSet DEF Alarm, Goto, Phases
  <2>2. /\ ops[o].pc = "alarm" /\ GroupLeftBy(o) /\ clock' = clock + 1
        /\ UNCHANGED <<active, estop, fault, known>>
    BY <1>5 DEF Alarm, Stamped
  <2> QED
    BY <1>0, <1>k, <2>1, <2>2
    DEF FaultInv, Typed, Held, KindPhases, Alone, Witness, GroupLeftBy
<1> QED BY <1>1, <1>2, <1>3, <1>4, <1>5

(* What the router answers only moves the operation that still waits.      *)
LEMMA AnswerKeeps ==
  ASSUME FaultInv, RouterAnswersStop \/ RouterAnswersRelease PROVE FaultInv'
<1>0. ops \in [Op -> OpRecord] /\ clock \in Nat
  BY DEF FaultInv, Typed
<1> DEFINE o == serving.req.op
<1>1. CASE RouterAnswersStop
  <2>1. /\ UNCHANGED <<clock, active, busy, estop, fault, known>>
        /\ UNCHANGED ops \/ (ops[o].pc = "calling" /\ StopAnswered(o, serving.ok))
    BY <1>1 DEF RouterAnswersStop
  <2>2. CASE UNCHANGED ops
    BY <1>0, <2>1, <2>2, QuietStep DEF FaultInv, Typed
  <2>3. CASE o \notin Op /\ StopAnswered(o, serving.ok)
    <3>1. UNCHANGED ops
      BY <1>0, <2>3 DEF StopAnswered
    <3> QED BY <1>0, <2>1, <3>1, QuietStep DEF FaultInv, Typed
  <2>4. CASE o \in Op /\ ops[o].pc = "calling" /\ StopAnswered(o, serving.ok)
    <3>1. ops[o].kind # "release"
      BY <2>4 DEF FaultInv, KindPhases
    <3>2. /\ ops' \in [Op -> OpRecord]
          /\ ops'[o].pc = "stopping" /\ ops'[o].kind = ops[o].kind
          /\ \A x \in Op : x # o => ops'[x] = ops[x]
      BY <1>0, <2>4, AnswerSet
    <3>3. Goes(o)
      BY <1>0, <2>1, <2>4, <3>1, <3>2 DEF Goes
    <3> QED BY <2>4, <3>3, GoingOn
  <2> QED BY <2>1, <2>2, <2>3, <2>4
<1>2. CASE RouterAnswersRelease
  <2> DEFINE c == IF serving.ok /\ ~latch'[Router].latched THEN "conclude" ELSE "fault"
  <2>1. /\ UNCHANGED <<clock, active, busy, estop, fault, known>>
        /\ UNCHANGED ops \/ (ops[o].pc = "releasing" /\ ops' = [ops EXCEPT ![o].pc = c])
    BY <1>2 DEF RouterAnswersRelease, Goto
  <2>2. c \in Phases /\ c \in {"conclude", "fault"}
    BY DEF Phases
  <2> HIDE DEF c
  <2>3. CASE UNCHANGED ops
    BY <1>0, <2>1, <2>3, QuietStep DEF FaultInv, Typed
  <2>4. CASE o \notin Op /\ ops' = [ops EXCEPT ![o].pc = c]
    <3>1. UNCHANGED ops
      BY <1>0, <2>4
    <3> QED BY <1>0, <2>1, <3>1, QuietStep DEF FaultInv, Typed
  <2>5. CASE o \in Op /\ ops[o].pc = "releasing" /\ ops' = [ops EXCEPT ![o].pc = c]
    <3>1. /\ ops' \in [Op -> OpRecord]
          /\ ops'[o].pc = c /\ ops'[o].kind = ops[o].kind
          /\ \A x \in Op : x # o => ops'[x] = ops[x]
      BY <1>0, <2>2, <2>5, PhaseSet
    <3>2. Goes(o)
      BY <1>0, <2>1, <2>2, <2>5, <3>1 DEF Goes
    <3> QED BY <2>5, <3>2, GoingOn
  <2> QED BY <2>1, <2>3, <2>4, <2>5
<1> QED BY <1>1, <1>2

LEMMA RestartKeeps ==
  ASSUME FaultInv, ManagerRestart PROVE FaultInv'
<1>0. ops \in [Op -> OpRecord] /\ clock \in Nat /\ clock + 1 \in Nat
  BY DEF FaultInv, Typed
<1>1. /\ estop' = FALSE /\ fault' = FALSE /\ clock' = clock + 1 /\ busy' = NoOp
      /\ active' = {} /\ known' = {}
  BY DEF ManagerRestart, Stamped
<1>2. estop' \in BOOLEAN /\ fault' \in BOOLEAN
  BY <1>1, Zenon
<1>3. ASSUME NEW k \in Kinds
      PROVE  LET r == [Fresh EXCEPT !.kind = k, !.pc = "done"]
             IN r \in OpRecord /\ r.kind = k /\ r.pc = "done"
  <2>1. TRUE \in BOOLEAN
    BY Zenon
  <2>2. Fresh \in OpRecord
    BY <2>1 DEF OpRecord, Fresh, Phases, Kinds
  <2> QED BY <2>2 DEF OpRecord, Phases
<1>4. \A x \in Op : ops[x].kind \in Kinds
  BY <1>0 DEF OpRecord
<1>5. ops' = [x \in Op |-> IF ops[x].kind = "none" THEN ops[x]
                           ELSE [Fresh EXCEPT !.kind = ops[x].kind, !.pc = "done"]]
  BY DEF ManagerRestart
<1>6. \A x \in Op : /\ ops'[x] \in OpRecord
                    /\ ops'[x].kind = ops[x].kind
                    /\ ops[x].kind = "none" => ops'[x] = ops[x]
                    /\ ops[x].kind # "none" => ops'[x].pc = "done"
  BY <1>0, <1>3, <1>4, <1>5
<1>7. ops' \in [Op -> OpRecord]
  BY <1>5, <1>6
<1> QED
  BY <1>0, <1>1, <1>2, <1>6, <1>7
  DEF FaultInv, Typed, Held, KindPhases, Alone, Witness
-----------------------------------------------------------------------------
LEMMA StepKeepsFaultInv ==
  ASSUME FaultInv, [Next]_vars PROVE FaultInv'
<1>0. clock \in Nat /\ clock + 1 \in Nat /\ known \in SUBSET Port
  BY DEF FaultInv, Typed
<1>1. CASE UNCHANGED vars
  BY <1>0, <1>1, QuietStep DEF vars, manager
<1>2. ASSUME NEW o \in Op,
             \/ ManagerStep(o) \/ ReleaseUnavailable(o) \/ EstopOn(o) \/ EstopOff(o)
             \/ \E p \in Port : StopUnreadable(o, p)
             \/ \E ids \in (SUBSET Port) \ {{}} : BeginStop(o, ids)
      PROVE  FaultInv'
  BY <1>2, BeginKeeps, AdvanceKeeps, EndKeeps DEF ManagerStep
<1>3. ASSUME NEW p \in Port, ForwardMove(p) \/ LearnActuator(p) PROVE FaultInv'
  BY <1>0, <1>3, QuietStep DEF ForwardMove, LearnActuator
<1>4. CASE RouterNext
  <2>1. CASE RouterAnswersStop \/ RouterAnswersRelease
    BY <2>1, AnswerKeeps
  <2>2. CASE \/ \E r \in inbox : RouterTakesStop(r) \/ RouterTakesRelease(r)
             \/ \E p \in Port : RouterCalls(p)
             \/ RouterTimeout
    BY <1>0, <2>2, QuietStep
    DEF RouterTakesStop, RouterTakesRelease, RouterCalls, RouterTimeout, manager
  <2> QED BY <1>4, <2>1, <2>2 DEF RouterNext
<1>5. CASE PortNext
  BY <1>0, <1>5, QuietStep DEF PortNext, PortServes, manager
<1>6. CASE ManagerRestart
  BY <1>6, RestartKeeps
<1>7. ASSUME NEW d \in Driver, Deliver(d) \/ DriverRestart(d) PROVE FaultInv'
  BY <1>0, <1>7, QuietStep DEF Deliver, DriverRestart, manager
<1>8. ASSUME NEW m \in moves, RouterMove(m) \/ PortMove(m) PROVE FaultInv'
  BY <1>0, <1>8, QuietStep DEF RouterMove, PortMove, manager
<1> QED BY <1>1, <1>2, <1>3, <1>4, <1>5, <1>6, <1>7, <1>8 DEF Next, ManagerNext

(* What is known of a fault holds in every reachable state.                *)
THEOREM FaultInvariance == Spec => []FaultInv
BY InitFaultInv, StepKeepsFaultInv, PTL DEF Spec
-----------------------------------------------------------------------------
LEMMA FaultStays ==
  ASSUME FaultInv, FaultInv', [Next]_vars, fault, ~ManagerRestart PROVE fault'
<1>1. CASE UNCHANGED vars
  BY <1>1 DEF vars, manager
<1>2. ASSUME NEW o \in Op, ManagerStep(o) \/ ReleaseUnavailable(o) PROVE fault'
  BY <1>2
  DEF ManagerStep, ReleaseUnavailable, Announce, CallTimeout, StopsDone, FinishCheck,
      RequestRelease, Conclude, LatchFault, Alarm, StopCall
<1>3. ASSUME NEW o \in Op,
             \/ EstopOn(o) \/ EstopOff(o) \/ \E p \in Port : StopUnreadable(o, p)
             \/ \E ids \in (SUBSET Port) \ {{}} : BeginStop(o, ids)
      PROVE  fault'
  BY <1>3 DEF EstopOn, EstopOff, StopUnreadable, BeginStop
<1>4. ASSUME NEW p \in Port, ForwardMove(p) \/ LearnActuator(p) PROVE fault'
  BY <1>4 DEF ForwardMove, LearnActuator
<1>5. CASE RouterNext
  BY <1>5
  DEF RouterNext, RouterTakesStop, RouterTakesRelease, RouterCalls, RouterTimeout,
      RouterAnswersStop, RouterAnswersRelease, manager
<1>6. CASE PortNext
  BY <1>6 DEF PortNext, PortServes, manager
<1>7. ASSUME NEW d \in Driver, Deliver(d) \/ DriverRestart(d) PROVE fault'
  BY <1>7 DEF Deliver, DriverRestart, manager
<1>8. ASSUME NEW m \in moves, RouterMove(m) \/ PortMove(m) PROVE fault'
  BY <1>8 DEF RouterMove, PortMove, manager
<1> QED BY <1>1, <1>2, <1>3, <1>4, <1>5, <1>6, <1>7, <1>8 DEF Next, ManagerNext

(* Before a restart of the execution manager no step clears a stop fault,  *)
(* its estop or its token: driver_stop_failed, driver_stop_timeout and a   *)
(* failed release end with the process (execution_manager_node.py:658-719).*)
THEOREM FaultSticky == Spec => FaultIsSticky
<1>1. FaultInv /\ FaultInv' /\ [Next]_vars =>
        [fault => (fault' /\ estop' /\ active' # {}) \/ ManagerRestart]_vars
  BY FaultStays DEF FaultInv, Witness
<1> QED
  BY <1>1, FaultInvariance, PTL DEF Spec, FaultIsSticky
-----------------------------------------------------------------------------
(***************************************************************************)
(* What an acknowledgement of the drivers is worth.                        *)
(*                                                                         *)
(* Two promises meet here.  After an acknowledged stop no earlier move     *)
(* reaches the servo (StaleMovesFenced); and FALSE is published only when  *)
(* every driver has seen the release as new (AckBeforeFalse).  Neither is  *)
(* inductive.  A move is on its way at the router or at its port, and is   *)
(* kept back by the fence of where it is (Behind); that fence is as high   *)
(* as the move from the time the stop is served there until its answer is  *)
(* taken (Guarded), because the token of the operation keeps new moves     *)
(* out, the router's lock keeps the others in place, and a request is      *)
(* never made twice (Once).  A release is worth its stamp because the      *)
(* request carries the stamp of the operation that waits (Drawn).          *)
(***************************************************************************)
Latch == [latched : BOOLEAN, fence : Nat, authority : Nat]
SafetySample == [active : BOOLEAN, stamp : Nat]
StopRequests == [kind : {"stop"}, op : Op, port : Port, stamp : Nat]
ReleaseRequests == [kind : {"release"}, op : Op, port : {Nothing}, stamp : Nat]
Requests == StopRequests \cup ReleaseRequests
Service == [req : Requests, todo : SUBSET Port, port : Port \cup {Nothing},
            ok : BOOLEAN]

ChannelsTyped ==
  /\ last \in SafetySample
  /\ topic \in [Driver -> SafetySample \cup {Nothing}]
  /\ latch \in [Driver -> Latch]
  /\ inbox \in SUBSET Requests
  /\ portCalls \in [Port -> SUBSET Requests]
  /\ serving \in Service \cup {Nothing}
  /\ executed \in [Port -> Nat]
  /\ restarts \in Nat

(* An operation waits for a port exactly while it calls it. *)
CallsPort == \A o \in Op : ops[o].port # Nothing <=> ops[o].pc = "calling"

(* A move is at the router or at its port; all stamps are in the past. *)
MovesTyped ==
  /\ moves \in SUBSET [at : Driver, port : Port, stamp : Nat]
  /\ \A m \in moves : m.at \in {Router, m.port} /\ 0 < m.stamp /\ m.stamp <= clock
  /\ quiet \in [Port -> Nat]
  /\ \A p \in Port : quiet[p] <= clock

(* The requests that may still be answered. *)
Asked == inbox \cup IF serving = Nothing THEN {} ELSE {serving.req}

Awaits(o, p) == ops[o].pc = "calling" /\ ops[o].port = p

(* A stop is asked for once: its port is done with, or being called. *)
Once ==
  \A r \in Asked : r.kind = "stop" =>
    /\ ops[r.op].kind # "none"
    /\ r.port \in ops[r.op].todo => Awaits(r.op, r.port)

(* A release is asked for once, with the stamp of its operation. *)
Drawn ==
  \A r \in Asked : r.kind = "release" =>
    /\ ops[r.op].pc \in {"releasing", "conclude", "fault", "alarm", "done"}
    /\ restarts = 0 => r.stamp = ops[r.op].stamp

(* A stop is served at one port, the one it names. *)
OnePort ==
  serving # Nothing /\ serving.req.kind = "stop" =>
    serving.todo = {} /\ serving.port \in {Nothing, serving.req.port}

(* What was commanded before a stop was acknowledged is behind a fence. *)
Behind ==
  \A m \in moves : m.stamp <= quiet[m.port] => m.stamp <= latch[m.at].fence

(* So it is already while the router has not answered. *)
Guarded ==
  serving # Nothing /\ serving.req.kind = "stop"
  /\ Awaits(serving.req.op, serving.req.port) =>
    \A m \in moves : m.port = serving.req.port =>
      /\ m.at = Router => m.stamp <= latch[Router].fence
      /\ m.at = m.port /\ serving.ok /\ serving.port = Nothing =>
           m.stamp <= latch[m.port].fence

(* Who has seen a release as new, without a restart. *)
Seen(d, s) == latch[d].authority >= s

SeenByAll ==
  /\ \A o \in Op : ops[o].pc = "conclude" => \A d \in Driver : Seen(d, ops[o].stamp)
  /\ ~last.active /\ last.stamp > 1 => \A d \in Driver : Seen(d, last.stamp)

SeenByCalled ==
  serving # Nothing /\ serving.req.kind = "release" /\ serving.ok =>
    \A p \in Port \ serving.todo : p # serving.port => Seen(p, serving.req.stamp)

Acknowledged == restarts = 0 => SeenByAll /\ SeenByCalled

FenceInv ==
  /\ FaultInv /\ ChannelsTyped /\ CallsPort /\ MovesTyped
  /\ Once /\ Drawn /\ OnePort /\ Behind /\ Guarded /\ Acknowledged
-----------------------------------------------------------------------------
(* A latch rises: no activation and no observation lowers it.              *)
LEMMA Activated ==
  ASSUME NEW l \in Latch, NEW now \in Nat
  PROVE  /\ Activate(l, now) \in Latch
         /\ Activate(l, now).fence >= l.fence
         /\ Activate(l, now).fence >= now
         /\ Activate(l, now).authority = l.authority
<1> DEFINE f == Later(l.fence, now)
           a == [l EXCEPT !.fence = f, !.latched = TRUE]
<1>1. f \in Nat /\ f >= l.fence /\ f >= now
  BY DEF Latch, Later
<1>2. TRUE \in BOOLEAN
  BY Zenon
<1>3. Activate(l, now) = a
  BY DEF Activate
<1> HIDE DEF f
<1>4. a \in Latch /\ a.fence = f /\ a.authority = l.authority
  BY <1>1, <1>2 DEF Latch
<1> QED BY <1>1, <1>3, <1>4

LEMMA Observed ==
  ASSUME NEW l \in Latch, NEW on \in BOOLEAN, NEW stamp \in Nat, NEW now \in Nat
  PROVE  /\ Observe(l, on, stamp, now) \in Latch
         /\ Observe(l, on, stamp, now).fence >= l.fence
         /\ Observe(l, on, stamp, now).authority >= l.authority
         /\ Observe(l, on, stamp, now).authority >= stamp
<1>1. CASE on
  <2> DEFINE f == Later(l.fence, IF stamp > 0 THEN stamp ELSE now)
             a == Later(l.authority, stamp)
             r == [latched |-> TRUE, fence |-> f, authority |-> a]
  <2>1. f \in Nat /\ f >= l.fence
    BY DEF Latch, Later
  <2>2. a \in Nat /\ a >= l.authority /\ a >= stamp
    BY DEF Latch, Later
  <2>3. TRUE \in BOOLEAN
    BY Zenon
  <2>4. Observe(l, on, stamp, now) = r
    BY <1>1 DEF Observe
  <2> HIDE DEF f, a
  <2>5. r \in Latch /\ r.fence = f /\ r.authority = a
    BY <2>1, <2>2, <2>3 DEF Latch
  <2> QED BY <2>1, <2>2, <2>4, <2>5
<1>2. CASE ~on /\ stamp <= l.authority
  BY <1>2 DEF Observe, Latch
<1>3. CASE ~on /\ ~(stamp <= l.authority)
  <2> DEFINE b == l.latched /\ stamp <= l.fence
             r == [l EXCEPT !.authority = stamp, !.latched = b]
  <2>1. Observe(l, on, stamp, now) = r
    BY <1>3 DEF Observe
  <2>2. b \in BOOLEAN
    BY Zenon
  <2> HIDE DEF b
  <2>3. r \in Latch /\ r.fence = l.fence /\ r.authority = stamp
    BY <2>2 DEF Latch
  <2> QED BY <1>3, <2>1, <2>3 DEF Latch
<1> QED BY <1>1, <1>2, <1>3

LEMMA AddedToOne ==
  ASSUME NEW S, NEW T, NEW f \in [S -> T], NEW x \in S, NEW v \in T,
         NEW g, g = [f EXCEPT ![x] = v]
  PROVE  g \in [S -> T] /\ g[x] = v /\ \A y \in S : y # x => g[y] = f[y]
OBVIOUS

LEMMA Sampled ==
  ASSUME NEW on \in BOOLEAN, NEW stamp \in Nat
  PROVE  /\ Sample(on, stamp) \in SafetySample
         /\ Sample(on, stamp).active = on /\ Sample(on, stamp).stamp = stamp
BY DEF Sample, SafetySample

LEMMA InitFenceInv == Init => FenceInv
<1> SUFFICES ASSUME Init PROVE FenceInv
  OBVIOUS
<1> USE DEF Init
<1>1. FaultInv
  BY InitFaultInv
<1>2. FALSE \in BOOLEAN
  BY Zenon
<1>3. Sample(FALSE, 1) \in SafetySample
  BY <1>2 DEF Sample, SafetySample
<1>4. NewLatch \in Latch
  BY <1>2 DEF NewLatch, Latch
<1>5. ChannelsTyped
  BY <1>3, <1>4 DEF ChannelsTyped
<1>6. \A o \in Op : ops[o].pc = "idle" /\ ops[o].port = Nothing
  BY DEF Fresh
<1>7. CallsPort
  BY <1>6 DEF CallsPort
<1>8. MovesTyped /\ Once /\ Drawn /\ OnePort /\ Behind /\ Guarded
  BY DEF MovesTyped, Once, Drawn, Asked, OnePort, Behind, Guarded
<1>9. Acknowledged
  <2>1. last.stamp = 1
    BY <1>2, Sampled
  <2>2. ~(last.stamp > 1)
    <3>1. ~(1 > 1)
      BY SMT
    <3> QED BY <2>1, <3>1, Zenon
  <2>3. \A o \in Op : ops[o].pc # "conclude"
    BY <1>6
  <2> QED BY <2>2, <2>3, Zenon DEF Acknowledged, SeenByAll, SeenByCalled
<1> QED BY <1>1, <1>5, <1>7, <1>8, <1>9 DEF FenceInv
-----------------------------------------------------------------------------
(* An operation proceeds without asking the router for anything.           *)
Answerable == {"releasing", "conclude", "fault", "alarm", "done"}

Follows(o) ==
  /\ ops' \in [Op -> OpRecord]
  /\ \A x \in Op : x # o => ops'[x] = ops[x]
  /\ ops[o].kind # "none" =>
       ops'[o].kind # "none" /\ ops'[o].todo \subseteq ops[o].todo
  /\ ops[o].pc \in Answerable =>
       ops'[o].pc \in Answerable /\ ops'[o].stamp = ops[o].stamp
  /\ ops'[o].pc = "calling" => ops[o].pc = "calling" /\ ops'[o].port = ops[o].port
  /\ \A p \in ops'[o].todo : Awaits(o, p) => Awaits(o, p)'
  /\ ops'[o].port # Nothing <=> ops'[o].pc = "calling"

Proceeds(o) ==
  /\ Follows(o)
  /\ ops'[o].pc = "conclude" =>
       ops[o].pc = "conclude" /\ ops'[o].stamp = ops[o].stamp

Undisturbed == UNCHANGED <<inbox, portCalls, moves, serving, latch, executed,
                           quiet, sent, restarts>>

Announced ==
  /\ last' \in SafetySample
  /\ topic' \in [Driver -> SafetySample \cup {Nothing}]
  /\ clock' \in Nat /\ clock' >= clock

(* The sample on the topic is a FALSE that every driver has seen.          *)
TruthPublished ==
  restarts = 0 /\ ~last'.active /\ last'.stamp > 1 =>
    \A d \in Driver : Seen(d, last'.stamp)

LEMMA Requested ==
  ASSUME FenceInv, NEW r \in Asked
  PROVE  /\ r \in Requests /\ r.op \in Op /\ r.stamp \in Nat
         /\ r.kind = "stop" => r.port \in Port
         /\ r.kind # "stop" => r.kind = "release" /\ r.port = Nothing
BY DEF FenceInv, ChannelsTyped, Asked, Requests, StopRequests, ReleaseRequests, Service

LEMMA ProceedingRequests ==
  ASSUME FenceInv, NEW o \in Op, Follows(o), UNCHANGED restarts,
         Asked' \subseteq Asked
  PROVE  CallsPort' /\ Once' /\ Drawn'
<1>1. CallsPort'
  BY DEF FenceInv, CallsPort, Follows
<1>2. ASSUME NEW r \in Asked, r.kind = "stop"
      PROVE  /\ ops'[r.op].kind # "none"
             /\ r.port \in ops'[r.op].todo => Awaits(r.op, r.port)'
  <2>1. r.op \in Op /\ ops[r.op].kind # "none"
        /\ (r.port \in ops[r.op].todo => Awaits(r.op, r.port))
    BY <1>2, Requested DEF FenceInv, Once
  <2>2. CASE r.op # o
    BY <2>1, <2>2 DEF Follows, Awaits
  <2>3. CASE r.op = o
    BY <2>1, <2>3 DEF Follows
  <2> QED BY <2>2, <2>3
<1>3. Once'
  BY <1>2 DEF Once
<1>4. ASSUME NEW r \in Asked, r.kind = "release"
      PROVE  /\ ops'[r.op].pc \in Answerable
             /\ restarts' = 0 => r.stamp = ops'[r.op].stamp
  BY <1>4, Requested DEF FenceInv, Drawn, Follows, Answerable
<1>5. Drawn'
  BY <1>4 DEF Drawn, Answerable
<1> QED BY <1>1, <1>3, <1>5

LEMMA Proceeding ==
  ASSUME FenceInv, FaultInv', NEW o \in Op, Proceeds(o), Undisturbed, Announced,
         TruthPublished
  PROVE  FenceInv'
<1>1. ChannelsTyped'
  BY DEF FenceInv, ChannelsTyped, Undisturbed, Announced
<1>2. MovesTyped'
  BY DEF FenceInv, FaultInv, Typed, MovesTyped, Undisturbed, Announced
<1>3. CallsPort' /\ Once' /\ Drawn'
  BY ProceedingRequests DEF Undisturbed, Asked, Proceeds
<1>4. OnePort' /\ Behind'
  BY DEF FenceInv, OnePort, Behind, Undisturbed
<1>5. Guarded'
  <2>1. ASSUME NEW p, Awaits(serving.req.op, p)', serving # Nothing
        PROVE  Awaits(serving.req.op, p)
    <3>1. serving.req.op \in Op
      BY <2>1, Requested DEF Asked
    <3> QED BY <2>1, <3>1 DEF Proceeds, Follows, Awaits, Undisturbed
  <2> QED BY <2>1 DEF FenceInv, Guarded, Undisturbed
<1>6. Acknowledged'
  BY DEF FenceInv, Acknowledged, SeenByAll, SeenByCalled, Undisturbed, TruthPublished, Seen, Proceeds, Follows
<1> QED BY <1>1, <1>2, <1>3, <1>4, <1>5, <1>6 DEF FenceInv

(* The ways in which an operation proceeds.                                *)
LEMMA BeginProceeds ==
  ASSUME FenceInv, NEW o \in Op, NextOp(o), NEW k \in Kinds \ {"none"},
         NEW c \in {"announce", "draw"}, NEW t \in SUBSET Port,
         \/ ops' = [ops EXCEPT ![o] = [Fresh EXCEPT !.kind = k, !.pc = c, !.todo = t]]
         \/ ops' = [ops EXCEPT ![o] = [Fresh EXCEPT !.kind = k, !.pc = c]]
  PROVE  Proceeds(o)
<1>1. /\ ops \in [Op -> OpRecord] /\ ops[o].kind = "none" /\ ops[o].pc = "idle"
      /\ c \in Phases
  BY DEF FenceInv, FaultInv, Typed, KindPhases, NextOp, Phases
<1>2. /\ ops' \in [Op -> OpRecord]
      /\ ops'[o].pc = c /\ ops'[o].kind = k /\ ops'[o].port = Nothing
      /\ \A x \in Op : x # o => ops'[x] = ops[x]
  <2>1. CASE ops' = [ops EXCEPT ![o] = [Fresh EXCEPT !.kind = k, !.pc = c, !.todo = t]]
    BY <1>1, <2>1, Begun
  <2>2. CASE ops' = [ops EXCEPT ![o] = [Fresh EXCEPT !.kind = k, !.pc = c]]
    BY <1>1, <2>2, Begun
  <2> QED BY <2>1, <2>2
<1> QED BY <1>1, <1>2 DEF Proceeds, Follows, Answerable, Awaits

LEMMA GotoProceeds ==
  ASSUME FenceInv, NEW o \in Op, NEW c \in Phases, Goto(o, c),
         ops[o].pc \notin {"idle", "calling"},
         c \notin {"idle", "calling", "conclude"},
         ops[o].pc \in Answerable => c \in Answerable
  PROVE  Proceeds(o)
<1>1. /\ ops \in [Op -> OpRecord] /\ ops[o].kind # "none" /\ ops[o].port = Nothing
  BY DEF FenceInv, FaultInv, Typed, KindPhases, CallsPort
<1>2. /\ ops' \in [Op -> OpRecord]
      /\ ops'[o].pc = c /\ ops'[o].kind = ops[o].kind
      /\ ops'[o].todo = ops[o].todo /\ ops'[o].port = ops[o].port
      /\ ops'[o].stamp = ops[o].stamp
      /\ \A x \in Op : x # o => ops'[x] = ops[x]
  BY <1>1, PhaseSet DEF Goto
<1> QED BY <1>1, <1>2 DEF Proceeds, Follows, Awaits

LEMMA AnswerProceeds ==
  ASSUME FenceInv, NEW o \in Op, ops[o].pc = "calling", NEW ok, StopAnswered(o, ok)
  PROVE  Proceeds(o)
<1>1. ops \in [Op -> OpRecord] /\ ops[o].kind # "none"
  BY DEF FenceInv, FaultInv, Typed, KindPhases
<1>2. /\ ops' \in [Op -> OpRecord]
      /\ ops'[o].pc = "stopping" /\ ops'[o].kind = ops[o].kind
      /\ ops'[o].todo = ops[o].todo \ {ops[o].port} /\ ops'[o].port = Nothing
      /\ \A x \in Op : x # o => ops'[x] = ops[x]
  BY <1>1, AnswerSet
<1> QED BY <1>1, <1>2 DEF Proceeds, Follows, Answerable, Awaits

LEMMA UnreadableProceeds ==
  ASSUME FenceInv, NEW o \in Op, NEW p \in Port, StopUnreadable(o, p)
  PROVE  Proceeds(o)
<1> DEFINE r == [ops[o] EXCEPT !.todo = @ \ {p}, !.ok = FALSE]
<1>1. /\ ops \in [Op -> OpRecord] /\ ops[o].kind # "none" /\ ops[o].port = Nothing
      /\ ops[o].pc = "stopping"
  BY DEF FenceInv, FaultInv, Typed, KindPhases, CallsPort, StopUnreadable
<1>2. FALSE \in BOOLEAN
  BY Zenon
<1>3. /\ r \in OpRecord /\ r.pc = ops[o].pc /\ r.kind = ops[o].kind
      /\ r.todo \subseteq ops[o].todo /\ r.port = ops[o].port
  BY <1>1, <1>2 DEF OpRecord
<1>4. ops' = [ops EXCEPT ![o] = r]
  BY DEF StopUnreadable
<1> HIDE DEF r
<1>5. ops' \in [Op -> OpRecord] /\ ops'[o] = r /\ \A x \in Op : x # o => ops'[x] = ops[x]
  BY <1>1, <1>3, <1>4, RecordsUpdated
<1> QED BY <1>1, <1>3, <1>5 DEF Proceeds, Follows, Answerable, Awaits

(* What is published.                                                      *)
LEMMA PublishedTrue ==
  ASSUME FenceInv, Stamped(TRUE) PROVE Announced /\ TruthPublished
<1>1. clock \in Nat /\ clock + 1 \in Nat /\ clock + 1 >= clock /\ clock' = clock + 1
  BY DEF FenceInv, FaultInv, Typed, Stamped
<1>2. TRUE \in BOOLEAN
  BY Zenon
<1>3. Sample(TRUE, clock + 1) \in SafetySample /\ Sample(TRUE, clock + 1).active = TRUE
  BY <1>1, <1>2, Sampled
<1>4. /\ last' = Sample(TRUE, clock + 1)
      /\ topic' = [d \in Driver |-> Sample(TRUE, clock + 1)]
  BY DEF Stamped, Publish
<1>5. last'.active
  BY <1>3, <1>4, Zenon
<1>6. Announced
  BY <1>1, <1>3, <1>4 DEF Announced
<1>7. TruthPublished
  BY <1>5, Zenon DEF TruthPublished
<1> QED BY <1>6, <1>7

LEMMA NotPublished ==
  ASSUME FenceInv, UNCHANGED <<clock, last, topic, restarts, latch>>
  PROVE  Announced /\ TruthPublished
BY DEF FenceInv, FaultInv, Typed, ChannelsTyped, Acknowledged, SeenByAll, SeenByCalled, Announced, TruthPublished

(* The actions of the execution manager that ask the router for nothing.   *)
LEMMA BeginFences ==
  ASSUME FenceInv, FaultInv', NEW o \in Op,
         \/ EstopOn(o) \/ EstopOff(o)
         \/ \E ids \in (SUBSET Port) \ {{}} : BeginStop(o, ids)
  PROVE  FenceInv'
<1>1. CASE EstopOn(o)
  <2>1. ops' = [ops EXCEPT ![o] = [Fresh EXCEPT !.kind = "estop",
                                     !.pc = "announce", !.todo = known]]
        /\ NextOp(o)
    BY <1>1 DEF EstopOn
  <2>2. "estop" \in Kinds \ {"none"} /\ known \in SUBSET Port
    BY DEF FenceInv, FaultInv, Typed, Kinds
  <2>3. Proceeds(o)
    BY <2>1, <2>2, BeginProceeds
  <2>4. Undisturbed /\ Announced /\ TruthPublished
    BY <1>1, NotPublished DEF EstopOn, Undisturbed, channels, drivers
  <2> QED BY <2>3, <2>4, Proceeding
<1>2. CASE EstopOff(o)
  <2>1. ops' = [ops EXCEPT ![o] = [Fresh EXCEPT !.kind = "release", !.pc = "draw"]]
        /\ NextOp(o)
    BY <1>2 DEF EstopOff
  <2>2. "release" \in Kinds \ {"none"}
    BY DEF Kinds
  <2>3. Proceeds(o)
    BY <2>1, <2>2, BeginProceeds
  <2>4. Undisturbed /\ Announced /\ TruthPublished
    BY <1>2, NotPublished DEF EstopOff, Undisturbed, channels, drivers
  <2> QED BY <2>3, <2>4, Proceeding
<1>3. ASSUME NEW ids \in SUBSET Port, BeginStop(o, ids) PROVE FenceInv'
  <2>1. ops' = [ops EXCEPT ![o] = [Fresh EXCEPT !.kind = "stop",
                                     !.pc = "announce", !.todo = ids]]
        /\ NextOp(o)
    BY <1>3 DEF BeginStop
  <2>2. "stop" \in Kinds \ {"none"}
    BY DEF Kinds
  <2>3. Proceeds(o)
    BY <2>1, <2>2, BeginProceeds
  <2>4. Undisturbed /\ Announced /\ TruthPublished
    BY <1>3, NotPublished DEF BeginStop, Undisturbed, channels, drivers
  <2> QED BY <2>3, <2>4, Proceeding
<1> QED BY <1>1, <1>2, <1>3

LEMMA AdvanceFences ==
  ASSUME FenceInv, FaultInv', NEW o \in Op,
         \/ CallTimeout(o) \/ StopsDone(o) \/ FinishCheck(o)
         \/ ReleaseUnavailable(o) \/ LatchFault(o)
         \/ \E p \in Port : StopUnreadable(o, p)
  PROVE  FenceInv'
<1>1. Undisturbed /\ Announced /\ TruthPublished
  BY NotPublished
  DEF CallTimeout, StopsDone, FinishCheck, ReleaseUnavailable, LatchFault,
      StopUnreadable, Undisturbed, channels, drivers
<1>2. Proceeds(o)
  <2>1. CASE CallTimeout(o)
    BY <2>1, AnswerProceeds, GotoProceeds DEF CallTimeout, Phases, Answerable
  <2>2. CASE StopsDone(o)
    <3>1. ops[o].pc = "stopping" /\ (Goto(o, "check") \/ Goto(o, "fault"))
      BY <2>2 DEF StopsDone
    <3> QED BY <3>1, GotoProceeds DEF Phases, Answerable
  <2>3. CASE FinishCheck(o)
    <3>1. ops[o].pc = "check" /\ (Goto(o, "done") \/ Goto(o, "draw"))
      BY <2>3 DEF FinishCheck
    <3> QED BY <3>1, GotoProceeds DEF Phases, Answerable
  <2>4. CASE ReleaseUnavailable(o)
    BY <2>4, GotoProceeds DEF ReleaseUnavailable, Phases, Answerable
  <2>5. CASE LatchFault(o)
    BY <2>5, GotoProceeds DEF LatchFault, Phases, Answerable
  <2>6. ASSUME NEW p \in Port, StopUnreadable(o, p) PROVE Proceeds(o)
    BY <2>6, UnreadableProceeds
  <2> QED BY <2>1, <2>2, <2>3, <2>4, <2>5, <2>6
<1> QED BY <1>1, <1>2, Proceeding

LEMMA PublishFences ==
  ASSUME FenceInv, FaultInv', NEW o \in Op, Announce(o) \/ Conclude(o) \/ Alarm(o)
  PROVE  FenceInv'
<1>1. Undisturbed
  BY DEF Announce, Conclude, Alarm, Undisturbed, drivers
<1>2. Proceeds(o)
  <2>1. CASE Announce(o)
    <3>1. ops[o].pc = "announce" /\ (Goto(o, "stopping") \/ Goto(o, "done"))
      BY <2>1 DEF Announce
    <3> QED BY <3>1, GotoProceeds DEF Phases, Answerable
  <2>2. CASE Conclude(o) \/ Alarm(o)
    BY <2>2, GotoProceeds DEF Conclude, Alarm, Phases, Answerable
  <2> QED BY <2>1, <2>2
<1>3. Announced /\ TruthPublished
  <2>1. CASE Announce(o) \/ Alarm(o)
    BY <2>1, PublishedTrue DEF Announce, Alarm
  <2>2. CASE Conclude(o) /\ UNCHANGED <<last, topic>>
    BY <1>1, <2>2, NotPublished DEF Conclude, Undisturbed
  <2>3. CASE Conclude(o) /\ Publish(FALSE, ops[o].stamp)
    <3>1. ops[o].stamp \in Nat /\ clock \in Nat
      BY DEF FenceInv, FaultInv, Typed, OpRecord
    <3>2. FALSE \in BOOLEAN
      BY Zenon
    <3> DEFINE x == Sample(FALSE, ops[o].stamp)
    <3>3. x \in SafetySample /\ x.stamp = ops[o].stamp
      BY <3>1, <3>2, Sampled
    <3>4. /\ last' = x /\ clock' = clock
          /\ topic' = [d \in Driver |-> x]
      BY <2>3 DEF Publish, Conclude
    <3> HIDE DEF x
    <3>5. Announced
      BY <3>1, <3>3, <3>4 DEF Announced
    <3>6. last'.stamp = ops[o].stamp
      BY <3>3, <3>4
    <3>7. restarts = 0 => \A d \in Driver : Seen(d, ops[o].stamp)
      BY <2>3 DEF FenceInv, Acknowledged, SeenByAll, SeenByCalled, Conclude
    <3>8. TruthPublished
      BY <3>6, <3>7, Zenon DEF TruthPublished
    <3> QED BY <3>5, <3>8
  <2> QED BY <2>1, <2>2, <2>3 DEF Conclude
<1> QED BY <1>1, <1>2, <1>3, Proceeding

(* The actions that ask the router for something.                          *)
LEMMA StopCallFences ==
  ASSUME FenceInv, FaultInv', NEW o \in Op, NEW p \in Port, StopCall(o, p)
  PROVE  FenceInv'
<1> DEFINE q == StopRequest(o, p)
           r == [ops[o] EXCEPT !.pc = "calling", !.port = p]
<1>1. /\ ops \in [Op -> OpRecord] /\ ops[o].kind # "none" /\ ops[o].pc = "stopping"
      /\ p \in ops[o].todo /\ p # Nothing /\ 0 \in Nat
  BY DriversAssumption DEF FenceInv, FaultInv, Typed, KindPhases, StopCall
<1>2. /\ r \in OpRecord /\ r.pc = "calling" /\ r.port = p
      /\ r.kind = ops[o].kind /\ r.todo = ops[o].todo
  BY <1>1 DEF OpRecord, Phases
<1>3. ops' = [ops EXCEPT ![o] = r]
  BY DEF StopCall
<1> HIDE DEF r
<1>4. /\ ops' \in [Op -> OpRecord] /\ ops'[o] = r
      /\ \A x \in Op : x # o => ops'[x] = ops[x]
  BY <1>1, <1>2, <1>3, RecordsUpdated
<1>5. /\ inbox' = inbox \cup {q}
      /\ UNCHANGED <<clock, last, topic, portCalls, moves, serving, latch, executed,
                     quiet, restarts>>
  BY DEF StopCall, drivers
<1>6. /\ q \in Requests /\ q.kind = "stop" /\ q.op = o /\ q.port = p
  BY <1>1 DEF StopRequest, Requests, StopRequests
<1> HIDE DEF q
<1>7. Asked' = Asked \cup {q}
  BY <1>5 DEF Asked
<1>8. ChannelsTyped'
  BY <1>5, <1>6 DEF FenceInv, ChannelsTyped
<1>9. MovesTyped'
  BY <1>5 DEF FenceInv, MovesTyped
<1>10. CallsPort'
  BY <1>1, <1>2, <1>4 DEF FenceInv, CallsPort
<1>11. ASSUME NEW a \in Asked, a.kind = "stop"
       PROVE  /\ ops'[a.op].kind # "none"
              /\ a.port \in ops'[a.op].todo => Awaits(a.op, a.port)'
              /\ a.op = o => a.port # p
  <2>1. a.op \in Op /\ ops[a.op].kind # "none"
        /\ (a.port \in ops[a.op].todo => Awaits(a.op, a.port))
    BY <1>11, Requested DEF FenceInv, Once
  <2>2. CASE a.op # o
    BY <2>1, <2>2, <1>4 DEF Awaits
  <2>3. CASE a.op = o
    BY <2>1, <2>3, <1>1, <1>2, <1>4 DEF Awaits
  <2> QED BY <2>2, <2>3
<1>12. Once'
  <2>1. q.kind = "stop" => /\ ops'[q.op].kind # "none"
                           /\ q.port \in ops'[q.op].todo => Awaits(q.op, q.port)'
    BY <1>1, <1>2, <1>4, <1>6 DEF Awaits
  <2> QED BY <1>7, <1>11, <2>1 DEF Once
<1>13. Drawn'
  <2>1. ASSUME NEW a \in Asked, a.kind = "release"
        PROVE  /\ ops'[a.op].pc \in Answerable
               /\ restarts' = 0 => a.stamp = ops'[a.op].stamp
    BY <2>1, <1>1, <1>4, <1>5, Requested DEF FenceInv, Drawn, Answerable
  <2> QED BY <1>6, <1>7, <2>1 DEF Drawn, Answerable
<1>14. OnePort' /\ Behind'
  BY <1>5 DEF FenceInv, OnePort, Behind
<1>15. Guarded'
  <2>1. ASSUME serving # Nothing, serving.req.kind = "stop",
               Awaits(serving.req.op, serving.req.port)'
        PROVE  Awaits(serving.req.op, serving.req.port)
    <3>1. serving.req \in Asked /\ serving.req.op \in Op
      BY <2>1, Requested DEF Asked
    <3>2. serving.req.op # o
      BY <2>1, <3>1, <1>2, <1>4, <1>5, <1>11 DEF Awaits
    <3> QED BY <2>1, <3>1, <3>2, <1>4, <1>5 DEF Awaits
  <2> QED BY <2>1, <1>5 DEF FenceInv, Guarded
<1>16. Acknowledged'
  BY <1>2, <1>4, <1>5 DEF FenceInv, Acknowledged, SeenByAll, SeenByCalled, Seen
<1> QED
  BY <1>8, <1>9, <1>10, <1>12, <1>13, <1>14, <1>15, <1>16 DEF FenceInv

LEMMA ReleaseCallFences ==
  ASSUME FenceInv, FaultInv', NEW o \in Op, RequestRelease(o)
  PROVE  FenceInv'
<1> DEFINE s == clock + 1
           q == ReleaseRequest(o, s)
           r == [ops[o] EXCEPT !.pc = "releasing", !.stamp = s]
<1>1. /\ ops \in [Op -> OpRecord] /\ ops[o].kind # "none" /\ ops[o].pc = "draw"
      /\ ops[o].port = Nothing /\ clock \in Nat /\ s \in Nat /\ s >= clock
  BY DEF FenceInv, FaultInv, Typed, KindPhases, CallsPort, RequestRelease
<1>2. /\ clock' = s /\ ops' = [ops EXCEPT ![o] = r] /\ inbox' = inbox \cup {q}
      /\ UNCHANGED <<last, topic, portCalls, moves, serving, latch, executed,
                     quiet, restarts>>
  BY DEF RequestRelease, drivers
<1> HIDE DEF s
<1>3. /\ r \in OpRecord /\ r.pc = "releasing" /\ r.port = Nothing /\ r.stamp = s
      /\ r.kind = ops[o].kind /\ r.todo = ops[o].todo
  BY <1>1 DEF OpRecord, Phases
<1> HIDE DEF r
<1>4. /\ ops' \in [Op -> OpRecord] /\ ops'[o] = r
      /\ \A x \in Op : x # o => ops'[x] = ops[x]
  BY <1>1, <1>2, <1>3, RecordsUpdated
<1>5. q \in Requests /\ q.kind = "release" /\ q.op = o /\ q.stamp = s
  BY <1>1 DEF ReleaseRequest, Requests, ReleaseRequests
<1> HIDE DEF q
<1>6. Asked' = Asked \cup {q}
  BY <1>2 DEF Asked
<1>7. ChannelsTyped'
  BY <1>2, <1>5 DEF FenceInv, ChannelsTyped
<1>8. MovesTyped'
  BY <1>1, <1>2 DEF FenceInv, MovesTyped
<1>9. CallsPort'
  BY <1>3, <1>4 DEF FenceInv, CallsPort
<1>10. Once'
  <2>1. ASSUME NEW a \in Asked, a.kind = "stop"
        PROVE  /\ ops'[a.op].kind # "none"
               /\ a.port \in ops'[a.op].todo => Awaits(a.op, a.port)'
    <3>1. a.op \in Op /\ ops[a.op].kind # "none"
          /\ (a.port \in ops[a.op].todo => Awaits(a.op, a.port))
      BY <2>1, Requested DEF FenceInv, Once
    <3> QED BY <3>1, <1>1, <1>3, <1>4 DEF Awaits
  <2> QED BY <1>5, <1>6, <2>1 DEF Once
<1>11. Drawn'
  <2>1. ASSUME NEW a \in Asked, a.kind = "release"
        PROVE  /\ ops'[a.op].pc \in Answerable
               /\ restarts' = 0 => a.stamp = ops'[a.op].stamp
    BY <2>1, <1>1, <1>2, <1>4, Requested DEF FenceInv, Drawn, Answerable
  <2>2. ops'[q.op].pc \in Answerable /\ q.stamp = ops'[q.op].stamp
    BY <1>3, <1>4, <1>5 DEF Answerable
  <2> QED BY <1>6, <2>1, <2>2 DEF Drawn, Answerable
<1>12. OnePort' /\ Behind'
  BY <1>2 DEF FenceInv, OnePort, Behind
<1>13. Guarded'
  <2>1. ASSUME NEW p, serving # Nothing, Awaits(serving.req.op, p)'
        PROVE  Awaits(serving.req.op, p)
    <3>1. serving.req.op \in Op
      BY <2>1, Requested DEF Asked
    <3> QED BY <2>1, <3>1, <1>2, <1>3, <1>4 DEF Awaits
  <2> QED BY <2>1, <1>2 DEF FenceInv, Guarded
<1>14. Acknowledged'
  BY <1>2, <1>3, <1>4 DEF FenceInv, Acknowledged, SeenByAll, SeenByCalled, Seen
<1> QED
  BY <1>7, <1>8, <1>9, <1>10, <1>11, <1>12, <1>13, <1>14 DEF FenceInv
-----------------------------------------------------------------------------
(* The other steps leave the operations alone, or answer one of them.      *)
LEMMA StillFollows ==
  ASSUME FenceInv, UNCHANGED <<ops, restarts>>, Asked' \subseteq Asked
  PROVE  CallsPort' /\ Once' /\ Drawn'
<1>1. CallsPort'
  BY DEF FenceInv, CallsPort
<1>2. Once'
  BY DEF FenceInv, Once, Awaits
<1>3. Drawn'
  BY DEF FenceInv, Drawn
<1> QED BY <1>1, <1>2, <1>3

(* No latch falls. *)
Risen ==
  /\ latch' \in [Driver -> Latch]
  /\ \A d \in Driver : /\ latch'[d].fence >= latch[d].fence
                       /\ latch'[d].authority >= latch[d].authority

LEMMA OneRises ==
  ASSUME FenceInv, NEW d \in Driver, NEW l \in Latch,
         latch' = [latch EXCEPT ![d] = l],
         l.fence >= latch[d].fence, l.authority >= latch[d].authority
  PROVE  Risen /\ latch'[d] = l
<1>1. latch \in [Driver -> Latch]
  BY DEF FenceInv, ChannelsTyped
<1>2. /\ latch' \in [Driver -> Latch] /\ latch'[d] = l
      /\ \A x \in Driver : x # d => latch'[x] = latch[x]
  BY <1>1, AddedToOne
<1>3. \A x \in Driver : latch[x].fence >= latch[x].fence
                        /\ latch[x].authority >= latch[x].authority
  BY <1>1 DEF Latch
<1> QED BY <1>2, <1>3 DEF Risen

LEMMA NoneFalls ==
  ASSUME FenceInv, UNCHANGED latch PROVE Risen
BY DEF FenceInv, ChannelsTyped, Latch, Risen

LEMMA BehindRises ==
  ASSUME FenceInv, Risen, UNCHANGED <<moves, quiet>> PROVE Behind'
<1>1. ASSUME NEW m \in moves, m.stamp <= quiet[m.port]
      PROVE  m.stamp <= latch'[m.at].fence
  <2>1. m.stamp \in Nat /\ m.at \in Driver
    BY DEF FenceInv, MovesTyped
  <2>2. latch[m.at].fence \in Nat /\ latch'[m.at].fence \in Nat
    BY <2>1 DEF FenceInv, ChannelsTyped, Latch, Risen
  <2>3. m.stamp <= latch[m.at].fence /\ latch'[m.at].fence >= latch[m.at].fence
    BY <1>1, <2>1 DEF FenceInv, Behind, Risen
  <2> QED BY <2>1, <2>2, <2>3
<1> QED BY <1>1 DEF Behind

LEMMA GuardedRises ==
  ASSUME FenceInv, Risen, UNCHANGED <<ops, moves, serving>> PROVE Guarded'
<1>1. ASSUME NEW m \in moves, NEW d \in Driver, m.stamp <= latch[d].fence
      PROVE  m.stamp <= latch'[d].fence
  <2>1. m.stamp \in Nat
    BY DEF FenceInv, MovesTyped
  <2>2. latch[d].fence \in Nat /\ latch'[d].fence \in Nat
    BY DEF FenceInv, ChannelsTyped, Latch, Risen
  <2> QED BY <1>1, <2>1, <2>2 DEF Risen
<1>2. \A m \in moves : Router \in Driver /\ m.port \in Driver
  BY DEF FenceInv, MovesTyped, Driver
<1> QED BY <1>1, <1>2 DEF FenceInv, Guarded, Awaits

LEMMA SeenRises ==
  ASSUME FenceInv, Risen, NEW d \in Driver, NEW s \in Nat, Seen(d, s)
  PROVE  Seen(d, s)'
BY DEF FenceInv, ChannelsTyped, Latch, Risen, Seen

(* What was acknowledged stays so.                                        *)
LEMMA AllRise ==
  ASSUME FenceInv, Risen, restarts = 0, UNCHANGED <<ops, last>>
  PROVE  SeenByAll'
<1>1. /\ \A o \in Op : ops[o].stamp \in Nat
      /\ last.stamp \in Nat
  BY DEF FenceInv, FaultInv, Typed, OpRecord, ChannelsTyped, SafetySample
<1>2. SeenByAll
  BY DEF FenceInv, Acknowledged, SeenByAll, SeenByCalled
<1>3. ASSUME NEW o \in Op, ops[o].pc = "conclude", NEW d \in Driver
      PROVE  Seen(d, ops[o].stamp)'
  <2>1. latch'[d].authority >= ops[o].stamp
    BY <1>1, <1>2, <1>3, SeenRises DEF SeenByAll, Seen
  <2> QED BY <2>1 DEF Seen
<1>4. ASSUME ~last.active /\ last.stamp > 1, NEW d \in Driver
      PROVE  Seen(d, last.stamp)'
  <2>1. Seen(d, last.stamp)
    BY <1>2, <1>4, Zenon DEF SeenByAll
  <2>2. latch'[d].authority >= last.stamp
    BY <1>1, <2>1, SeenRises DEF Seen
  <2> QED BY <2>2 DEF Seen
<1>5. UNCHANGED <<ops, last>>
  OBVIOUS
<1> QED BY <1>3, <1>4, <1>5, Zenon DEF SeenByAll

LEMMA CalledRise ==
  ASSUME FenceInv, Risen, restarts = 0, UNCHANGED serving
  PROVE  SeenByCalled'
<1>1. ASSUME serving # Nothing, serving.req.kind = "release", serving.ok,
             NEW p \in Port \ serving.todo, p # serving.port
      PROVE  Seen(p, serving.req.stamp)'
  <2>1. Seen(p, serving.req.stamp)
    BY <1>1 DEF FenceInv, Acknowledged, SeenByAll, SeenByCalled
  <2>2. serving.req.stamp \in Nat /\ p \in Driver
    BY <1>1, Requested DEF Asked, Driver
  <2>3. latch'[p].authority >= serving.req.stamp
    BY <2>1, <2>2, SeenRises DEF Seen
  <2> QED BY <2>3 DEF Seen
<1> QED BY <1>1 DEF SeenByCalled
-----------------------------------------------------------------------------
(* Moves. *)
LEMMA MoveFences ==
  ASSUME FenceInv, FaultInv',
         \/ \E p \in Port : ForwardMove(p) \/ LearnActuator(p)
         \/ \E m \in moves : RouterMove(m) \/ PortMove(m)
  PROVE  FenceInv'
<1>0. clock \in Nat /\ clock + 1 \in Nat
  BY DEF FenceInv, FaultInv, Typed
<1>1. /\ UNCHANGED <<ops, last, topic, inbox, portCalls, serving, latch, quiet, restarts>>
      /\ clock' \in {clock, clock + 1}
  BY DEF ForwardMove, LearnActuator, RouterMove, PortMove, channels, drivers, manager
<1>2. CallsPort' /\ Once' /\ Drawn'
  BY <1>1, StillFollows DEF Asked
<1>3. OnePort' /\ Acknowledged'
  BY <1>1 DEF FenceInv, OnePort, Acknowledged, SeenByAll, SeenByCalled, Seen
<1>4. executed' \in [Port -> Nat]
  BY DEF ForwardMove, LearnActuator, RouterMove, PortMove, drivers, FenceInv,
         ChannelsTyped, MovesTyped
<1>5. ChannelsTyped'
  BY <1>1, <1>4 DEF FenceInv, ChannelsTyped
<1>6. ASSUME NEW p \in Port, ForwardMove(p) PROVE MovesTyped' /\ Behind' /\ Guarded'
  <2> DEFINE s == clock + 1
             n == [at |-> Router, port |-> p, stamp |-> s]
  <2>1. s \in Nat /\ s > 0 /\ s > clock /\ s >= clock
    BY <1>0
  <2>2. moves' = moves \cup {n} /\ active = {} /\ clock' = s
    BY <1>6 DEF ForwardMove
  <2> HIDE DEF s
  <2>3. /\ n \in [at : Driver, port : Port, stamp : Nat]
        /\ n.at = Router /\ n.port = p /\ n.stamp = s
    BY <2>1 DEF Driver
  <2> HIDE DEF n
  <2>4. MovesTyped'
    BY <1>0, <1>1, <2>1, <2>2, <2>3 DEF FenceInv, MovesTyped
  <2>5. ~(n.stamp <= quiet[n.port])
    BY <1>0, <2>1, <2>3 DEF FenceInv, MovesTyped
  <2>6. Behind'
    BY <1>1, <2>2, <2>5 DEF FenceInv, Behind
  <2>7. \A o \in Op : \A x : ~Awaits(o, x)
    BY <2>2 DEF FenceInv, FaultInv, Held, Awaits
  <2>8. serving # Nothing => serving.req.op \in Op
    BY Requested DEF Asked
  <2>9. Guarded'
    BY <1>1, <2>7, <2>8 DEF Guarded, Awaits
  <2> QED BY <2>4, <2>6, <2>9
<1>7. ASSUME NEW p \in Port, LearnActuator(p) PROVE MovesTyped' /\ Behind' /\ Guarded'
  <2>1. UNCHANGED <<moves, clock>>
    BY <1>7 DEF LearnActuator, channels
  <2> QED
    BY <1>1, <2>1 DEF FenceInv, MovesTyped, Behind, Guarded, Awaits
<1>8. ASSUME NEW m \in moves, RouterMove(m) PROVE MovesTyped' /\ Behind' /\ Guarded'
  <2> DEFINE n == [m EXCEPT !.at = m.port]
  <2>1. serving = Nothing /\ clock' = clock /\ m.at = Router
        /\ (moves' \subseteq moves
            \/ (moves' \subseteq moves \cup {n} /\ Admits(latch[Router], m.stamp)))
    BY <1>8 DEF RouterMove, LockFree
  <2>2. /\ m \in [at : Driver, port : Port, stamp : Nat] /\ 0 < m.stamp
        /\ m.stamp <= clock
    BY DEF FenceInv, MovesTyped
  <2>3. /\ n \in [at : Driver, port : Port, stamp : Nat]
        /\ n.at = m.port /\ n.port = m.port /\ n.stamp = m.stamp
    BY <2>2 DEF Driver
  <2> HIDE DEF n
  <2>4. MovesTyped'
    BY <1>1, <2>1, <2>2, <2>3 DEF FenceInv, MovesTyped
  <2>5. Admits(latch[Router], m.stamp) => ~(m.stamp <= quiet[m.port])
    <3>1. latch[Router].fence \in Nat
      BY DEF FenceInv, ChannelsTyped, Latch, Driver
    <3> QED BY <2>1, <2>2, <3>1 DEF FenceInv, Behind, Admits
  <2>6. Behind'
    BY <1>1, <2>1, <2>3, <2>5 DEF FenceInv, Behind
  <2>7. Guarded'
    BY <1>1, <2>1 DEF Guarded
  <2> QED BY <2>4, <2>6, <2>7
<1>9. ASSUME NEW m \in moves, PortMove(m) PROVE MovesTyped' /\ Behind' /\ Guarded'
  <2>1. moves' \subseteq moves /\ clock' = clock
    BY <1>9 DEF PortMove
  <2> QED
    BY <1>1, <2>1 DEF FenceInv, MovesTyped, Behind, Guarded, Awaits
<1>10. MovesTyped' /\ Behind' /\ Guarded'
  BY <1>6, <1>7, <1>8, <1>9
<1> QED BY <1>2, <1>3, <1>5, <1>10 DEF FenceInv

(* A sample of the topic reaches a driver. *)
LEMMA DeliverFences ==
  ASSUME FenceInv, FaultInv', NEW d \in Driver, Deliver(d) PROVE FenceInv'
<1> DEFINE l == Observe(latch[d], topic[d].active, topic[d].stamp, clock)
<1>1. /\ UNCHANGED <<clock, ops, last, inbox, portCalls, moves, serving, executed,
                     quiet, restarts>>
      /\ latch' = [latch EXCEPT ![d] = l]
      /\ topic' = [topic EXCEPT ![d] = Nothing]
  BY DEF Deliver, manager
<1>2. /\ latch[d] \in Latch /\ topic[d].active \in BOOLEAN /\ topic[d].stamp \in Nat
      /\ clock \in Nat
  BY DEF FenceInv, FaultInv, Typed, ChannelsTyped, Deliver, SafetySample
<1>3. l \in Latch /\ l.fence >= latch[d].fence /\ l.authority >= latch[d].authority
  BY <1>2, Observed
<1> HIDE DEF l
<1>4. Risen
  BY <1>1, <1>3, OneRises
<1>5. ChannelsTyped'
  BY <1>1, <1>4 DEF FenceInv, ChannelsTyped, Risen
<1>6. CallsPort' /\ Once' /\ Drawn'
  BY <1>1, StillFollows DEF Asked
<1>7. MovesTyped' /\ OnePort'
  BY <1>1 DEF FenceInv, MovesTyped, OnePort
<1>8. Behind'
  BY <1>1, <1>4, BehindRises
<1>9. Acknowledged'
  BY <1>1, <1>4, AllRise, CalledRise DEF Acknowledged
<1>10. Guarded'
  BY <1>1, <1>4, GuardedRises
<1> QED BY <1>5, <1>6, <1>7, <1>8, <1>9, <1>10 DEF FenceInv
-----------------------------------------------------------------------------
(* The router takes a request up, passes it to the ports, or gives up. *)
LEMMA ServiceBegun ==
  ASSUME NEW r \in Requests, NEW T \in SUBSET Port, NEW c \in Port \cup {Nothing},
         NEW s, s = [req |-> r, todo |-> T, port |-> c, ok |-> TRUE]
  PROVE  s \in Service /\ s.req = r /\ s.todo = T /\ s.port = c
<1>1. TRUE \in BOOLEAN
  BY Zenon
<1> QED BY <1>1 DEF Service

LEMMA RequestTaken ==
  ASSUME FenceInv, NEW r \in inbox
  PROVE  /\ r \in Asked /\ r \in Requests /\ r.op \in Op
         /\ r.kind = "stop" => r.port \in Port
BY Requested DEF Asked

LEMMA TakeStopFences ==
  ASSUME FenceInv, FaultInv', NEW r \in inbox, RouterTakesStop(r) PROVE FenceInv'
<1> DEFINE l == Activate(latch[Router], clock)
<1>1. /\ UNCHANGED <<clock, ops, last, topic, moves, executed, quiet, restarts>>
      /\ inbox' = inbox \ {r} /\ serving = Nothing /\ r.kind = "stop"
      /\ latch' = [latch EXCEPT ![Router] = l]
      /\ portCalls' = [portCalls EXCEPT ![r.port] = @ \cup {r}]
      /\ serving' = [req |-> r, todo |-> {}, port |-> r.port, ok |-> TRUE]
  BY DEF RouterTakesStop, manager, LockFree, Calls
<1>2. r \in Asked /\ r \in Requests /\ r.port \in Port /\ r.port # Nothing
  BY <1>1, RequestTaken, DriversAssumption
<1>3. /\ serving' \in Service /\ serving'.req = r /\ serving'.todo = {}
      /\ serving'.port = r.port
  BY <1>1, <1>2, ServiceBegun
<1>4. clock \in Nat /\ latch[Router] \in Latch
  BY DEF FenceInv, FaultInv, Typed, ChannelsTyped, Driver
<1>5. /\ l \in Latch /\ l.fence >= latch[Router].fence /\ l.fence >= clock
      /\ l.authority = latch[Router].authority
  BY <1>4, Activated
<1> HIDE DEF l
<1>6. l.authority >= latch[Router].authority
  BY <1>4, <1>5 DEF Latch
<1>7. Risen /\ latch'[Router] = l
  BY <1>1, <1>5, <1>6, OneRises DEF Driver
<1>8. ChannelsTyped'
  BY <1>1, <1>2, <1>3, <1>7 DEF FenceInv, ChannelsTyped, Risen
<1>9. CallsPort' /\ Once' /\ Drawn'
  BY <1>1, <1>2, <1>3, StillFollows DEF Asked
<1>10. MovesTyped' /\ OnePort'
  BY <1>1, <1>3 DEF FenceInv, MovesTyped, OnePort
<1>11. Behind'
  BY <1>1, <1>7, BehindRises
<1>12. Guarded'
  <2>1. \A m \in moves : m.stamp <= l.fence
    BY <1>4, <1>5 DEF FenceInv, MovesTyped, Latch
  <2> QED BY <2>1, <1>1, <1>2, <1>3, <1>7 DEF Guarded
<1>13. Acknowledged'
  <2>1. restarts = 0 => SeenByAll'
    BY <1>1, <1>7, AllRise
  <2>2. SeenByCalled'
    BY <1>1, <1>3 DEF SeenByCalled
  <2> QED BY <1>1, <2>1, <2>2 DEF Acknowledged
<1> QED BY <1>8, <1>9, <1>10, <1>11, <1>12, <1>13 DEF FenceInv

LEMMA TakeReleaseFences ==
  ASSUME FenceInv, FaultInv', NEW r \in inbox, RouterTakesRelease(r) PROVE FenceInv'
<1>1. /\ UNCHANGED <<clock, ops, last, topic, portCalls, moves, latch, executed, quiet,
                     restarts>>
      /\ inbox' = inbox \ {r} /\ serving = Nothing /\ r.kind = "release"
      /\ serving' = [req |-> r, todo |-> Port, port |-> Nothing, ok |-> TRUE]
  BY DEF RouterTakesRelease, manager, LockFree
<1>2. r \in Asked /\ r \in Requests
  BY RequestTaken
<1>3. serving' \in Service /\ serving'.req = r /\ serving'.todo = Port
  BY <1>1, <1>2, ServiceBegun
<1>4. Risen
  BY <1>1, NoneFalls
<1>5. ChannelsTyped'
  BY <1>1, <1>3 DEF FenceInv, ChannelsTyped
<1>6. CallsPort' /\ Once' /\ Drawn'
  BY <1>1, <1>2, <1>3, StillFollows DEF Asked
<1>7. MovesTyped' /\ OnePort' /\ Guarded'
  BY <1>1, <1>3 DEF FenceInv, MovesTyped, OnePort, Guarded
<1>8. Behind'
  BY <1>1, <1>4, BehindRises
<1>9. Acknowledged'
  <2>1. restarts = 0 => SeenByAll'
    BY <1>1, <1>4, AllRise
  <2>2. SeenByCalled'
    BY <1>3 DEF SeenByCalled
  <2> QED BY <1>1, <2>1, <2>2 DEF Acknowledged
<1> QED BY <1>5, <1>6, <1>7, <1>8, <1>9 DEF FenceInv

LEMMA RouterCallsFences ==
  ASSUME FenceInv, FaultInv', NEW p \in Port, RouterCalls(p) PROVE FenceInv'
<1>1. /\ UNCHANGED <<clock, ops, last, topic, inbox, moves, latch, executed, quiet,
                     restarts>>
      /\ serving # Nothing /\ serving.port = Nothing /\ p \in serving.todo
      /\ serving' = [serving EXCEPT !.port = p, !.todo = @ \ {p}]
      /\ portCalls' = [portCalls EXCEPT ![p] = @ \cup {serving.req}]
  BY DEF RouterCalls, manager, LockFree, Calls
<1>2. serving \in Service /\ serving.req \in Requests
  BY <1>1 DEF FenceInv, ChannelsTyped, Service
<1>3. /\ serving' \in Service /\ serving'.req = serving.req
      /\ serving'.todo = serving.todo \ {p} /\ serving'.port = p
      /\ serving'.ok = serving.ok
  BY <1>1, <1>2 DEF Service
<1>4. Risen
  BY <1>1, NoneFalls
<1>5. ChannelsTyped'
  BY <1>1, <1>2, <1>3 DEF FenceInv, ChannelsTyped
<1>6. CallsPort' /\ Once' /\ Drawn'
  <2>1. Asked' \subseteq Asked
    BY <1>1, <1>3 DEF Asked
  <2> QED BY <1>1, <2>1, StillFollows
<1>7. serving.req.kind # "stop"
  BY <1>1 DEF FenceInv, OnePort
<1>8. MovesTyped' /\ OnePort' /\ Guarded'
  BY <1>1, <1>3, <1>7 DEF FenceInv, MovesTyped, OnePort, Guarded
<1>9. Behind'
  BY <1>1, <1>4, BehindRises
<1>10. Acknowledged'
  <2>1. restarts = 0 => SeenByAll'
    BY <1>1, <1>4, AllRise
  <2>2. ASSUME restarts = 0 PROVE SeenByCalled'
    <3>1. SeenByCalled
      BY <2>2 DEF FenceInv, Acknowledged
    <3>2. \A x \in Port \ serving'.todo : x # serving'.port =>
            x \in Port \ serving.todo /\ x # serving.port
      BY <1>1, <1>3, DriversAssumption
    <3> QED BY <1>1, <1>3, <3>1, <3>2 DEF SeenByCalled, Seen
  <2> QED BY <1>1, <2>1, <2>2 DEF Acknowledged
<1> QED BY <1>5, <1>6, <1>8, <1>9, <1>10 DEF FenceInv

LEMMA RouterTimeoutFences ==
  ASSUME FenceInv, FaultInv', RouterTimeout PROVE FenceInv'
<1>1. /\ UNCHANGED <<clock, ops, last, topic, inbox, portCalls, moves, latch, executed,
                     quiet, restarts>>
      /\ serving # Nothing
      /\ serving' = [serving EXCEPT !.port = Nothing, !.ok = FALSE]
  BY DEF RouterTimeout, manager, channels, LockFree
<1>2. serving \in Service
  BY <1>1 DEF FenceInv, ChannelsTyped
<1>3. FALSE \in BOOLEAN
  BY Zenon
<1>4. /\ serving' \in Service /\ serving'.req = serving.req
      /\ serving'.todo = serving.todo /\ serving'.port = Nothing
      /\ serving'.ok = FALSE
  BY <1>1, <1>2, <1>3 DEF Service
<1>5. ~serving'.ok
  BY <1>4, Zenon
<1>6. Risen
  BY <1>1, NoneFalls
<1>7. ChannelsTyped'
  BY <1>1, <1>4 DEF FenceInv, ChannelsTyped
<1>8. CallsPort' /\ Once' /\ Drawn'
  <2>1. Asked' \subseteq Asked
    BY <1>1, <1>4 DEF Asked
  <2> QED BY <1>1, <2>1, StillFollows
<1>9. MovesTyped' /\ OnePort'
  BY <1>1, <1>4 DEF FenceInv, MovesTyped, OnePort
<1>10. Behind'
  BY <1>1, <1>6, BehindRises
<1>11. Guarded'
  <2>1. serving'.req = serving.req
    BY <1>4
  <2> QED BY <1>1, <1>5, <2>1 DEF FenceInv, Guarded, Awaits
<1>12. Acknowledged'
  <2>1. restarts = 0 => SeenByAll'
    BY <1>1, <1>6, AllRise
  <2>2. SeenByCalled'
    BY <1>5, Zenon DEF SeenByCalled
  <2> QED BY <1>1, <2>1, <2>2 DEF Acknowledged
<1> QED BY <1>7, <1>8, <1>9, <1>10, <1>11, <1>12 DEF FenceInv
-----------------------------------------------------------------------------
(* A port serves a request; its answer may still be waited for. *)
LEMMA PortServesFences ==
  ASSUME FenceInv, FaultInv', NEW p \in Port, NEW r \in portCalls[p],
         NEW written \in BOOLEAN, PortServes(p, r, written)
  PROVE  FenceInv'
<1> DEFINE l == IF r.kind = "stop" THEN StopAtPort(p) ELSE ReleaseAtPort(p, r.stamp)
           awaited == serving # Nothing /\ serving.req = r /\ serving.port = p
           fine == IF r.kind = "stop" THEN written ELSE ~latch'[p].latched
<1>1. /\ UNCHANGED <<clock, ops, last, topic, inbox, moves, executed, quiet, restarts>>
      /\ latch' = [latch EXCEPT ![p] = l]
      /\ portCalls' = [portCalls EXCEPT ![p] = @ \ {r}]
      /\ awaited => serving' = [serving EXCEPT !.port = Nothing, !.ok = @ /\ fine]
      /\ ~awaited => serving' = serving
  BY DEF PortServes, manager, LockFree
<1>2. /\ r \in Requests /\ r.stamp \in Nat /\ clock \in Nat /\ latch[p] \in Latch
      /\ p \in Driver
  BY DEF FenceInv, FaultInv, Typed, ChannelsTyped, Driver, Requests, StopRequests,
         ReleaseRequests
<1>3. /\ l \in Latch /\ l.fence >= latch[p].fence
      /\ l.authority >= latch[p].authority
      /\ r.kind = "stop" => l.fence >= clock
      /\ r.kind # "stop" => l.authority >= r.stamp
  <2>1. CASE r.kind = "stop"
    <3>1. /\ StopAtPort(p) \in Latch /\ StopAtPort(p).fence >= latch[p].fence
          /\ StopAtPort(p).fence >= clock
          /\ StopAtPort(p).authority = latch[p].authority
      BY <1>2, Activated DEF StopAtPort
    <3>2. latch[p].authority >= latch[p].authority
      BY <1>2 DEF Latch
    <3> QED BY <2>1, <3>1, <3>2
  <2>2. CASE r.kind # "stop"
    <3>1. FALSE \in BOOLEAN
      BY Zenon
    <3> QED BY <1>2, <2>2, <3>1, Observed DEF ReleaseAtPort
  <2> QED BY <2>1, <2>2
<1>4. fine \in BOOLEAN
  BY Zenon
<1> HIDE DEF l, fine
<1>5. Risen /\ latch'[p] = l
  BY <1>1, <1>2, <1>3, OneRises
<1>6. awaited => /\ serving' \in Service /\ serving'.req = r
                 /\ serving'.todo = serving.todo /\ serving'.port = Nothing
                 /\ serving'.ok => serving.ok
  <2>1. SUFFICES ASSUME awaited
                 PROVE  /\ serving' \in Service /\ serving'.req = r
                        /\ serving'.todo = serving.todo /\ serving'.port = Nothing
                        /\ serving'.ok => serving.ok
    OBVIOUS
  <2>2. serving \in Service
    BY <2>1 DEF FenceInv, ChannelsTyped
  <2> DEFINE b == serving.ok /\ fine
  <2>3. b \in BOOLEAN /\ (b => serving.ok)
    BY Zenon
  <2>4. serving' = [serving EXCEPT !.port = Nothing, !.ok = b]
    BY <1>1, <2>1
  <2> HIDE DEF b
  <2>5. /\ serving' \in Service /\ serving'.req = r /\ serving'.ok = b
        /\ serving'.todo = serving.todo /\ serving'.port = Nothing
    BY <2>1, <2>2, <2>3, <2>4 DEF Service
  <2> QED BY <2>3, <2>5, Zenon
<1>7. ChannelsTyped'
  <2>1. serving' \in Service \cup {Nothing}
    BY <1>1, <1>6 DEF FenceInv, ChannelsTyped
  <2> QED BY <1>1, <1>5, <2>1 DEF FenceInv, ChannelsTyped, Risen
<1>8. CallsPort' /\ Once' /\ Drawn'
  <2>1. Asked' \subseteq Asked
    BY <1>1, <1>6 DEF Asked
  <2> QED BY <1>1, <2>1, StillFollows
<1>9. MovesTyped' /\ OnePort'
  BY <1>1, <1>6 DEF FenceInv, MovesTyped, OnePort
<1>10. Behind'
  BY <1>1, <1>5, BehindRises
<1>11. Guarded'
  <2>1. CASE ~awaited
    BY <1>1, <1>5, <2>1, GuardedRises
  <2>2. CASE awaited
    <3>1. ASSUME r.kind = "stop", Awaits(r.op, r.port), NEW m \in moves, m.port = r.port
          PROVE  /\ m.at = Router => m.stamp <= latch'[Router].fence
                 /\ m.at = m.port => m.stamp <= latch'[m.port].fence
      <4>1. r.port = p
        BY <2>2, <3>1, DriversAssumption DEF FenceInv, OnePort
      <4>2. m.stamp <= l.fence
        BY <1>2, <1>3, <3>1 DEF FenceInv, MovesTyped, Latch
      <4>3. m.at = Router => m.stamp <= latch[Router].fence
        BY <2>2, <3>1 DEF FenceInv, Guarded
      <4>4. latch'[Router] = latch[Router]
        BY <1>1, DriversAssumption DEF FenceInv, ChannelsTyped, Driver
      <4> QED BY <1>5, <3>1, <4>1, <4>2, <4>3, <4>4
    <3> QED BY <1>1, <1>6, <2>2, <3>1 DEF Guarded, Awaits
  <2> QED BY <2>1, <2>2
<1>12. Acknowledged'
  <2>1. restarts = 0 => SeenByAll'
    BY <1>1, <1>5, AllRise
  <2>2. CASE ~awaited
    BY <1>1, <1>5, <2>1, <2>2, CalledRise DEF Acknowledged
  <2>3. CASE awaited
    <3>1. ASSUME restarts = 0, r.kind = "release", serving'.ok,
                 NEW x \in Port \ serving.todo
          PROVE  Seen(x, r.stamp)'
      <4>1. CASE x = p
        BY <1>3, <1>5, <3>1, <4>1 DEF Seen
      <4>2. CASE x # p
        <5>1. Seen(x, r.stamp)
          BY <1>6, <2>3, <3>1, <4>2 DEF FenceInv, Acknowledged, SeenByCalled
        <5>2. latch'[x].authority >= r.stamp
          BY <1>2, <1>5, <5>1, SeenRises DEF Seen, Driver
        <5> QED BY <5>2 DEF Seen
      <4> QED BY <4>1, <4>2
    <3>2. restarts = 0 => SeenByCalled'
      BY <1>6, <2>3, <3>1 DEF SeenByCalled, Seen
    <3> QED BY <1>1, <2>1, <3>2 DEF Acknowledged
  <2> QED BY <2>2, <2>3
<1> QED BY <1>7, <1>8, <1>9, <1>10, <1>11, <1>12 DEF FenceInv
-----------------------------------------------------------------------------
(* The router answers. *)
LEMMA AnswerStopFences ==
  ASSUME FenceInv, FaultInv', RouterAnswersStop PROVE FenceInv'
<1>0. serving.req \in Asked /\ serving.req.kind = "stop"
  BY DEF RouterAnswersStop, Served, LockFree, Asked
<1>o. PICK o \in Op, p \in Port : o = serving.req.op /\ p = serving.req.port
  BY <1>0, Requested
<1> DEFINE awaited == Awaits(o, p)
<1>1. /\ UNCHANGED <<clock, last, topic, inbox, portCalls, moves, latch, executed,
                     restarts>>
      /\ serving # Nothing /\ serving.port = Nothing /\ serving' = Nothing
      /\ serving.req.kind = "stop"
      /\ awaited => StopAnswered(o, serving.ok)
      /\ ~awaited => UNCHANGED ops
      /\ quiet' = IF awaited /\ serving.ok THEN [quiet EXCEPT ![p] = clock] ELSE quiet
  BY <1>o DEF RouterAnswersStop, Served, channels, LockFree, Awaits
<1>2. clock \in Nat
  BY DEF FenceInv, FaultInv, Typed
<1>3. Risen
  BY <1>1, NoneFalls
<1>4. Asked' \subseteq Asked
  BY <1>1 DEF Asked
<1>5. awaited => Proceeds(o)
  BY <1>1, <1>2, AnswerProceeds DEF Awaits
<1>6. CallsPort' /\ Once' /\ Drawn'
  BY <1>1, <1>2, <1>4, <1>5, ProceedingRequests, StillFollows DEF Proceeds
<1>7. ChannelsTyped'
  BY <1>1 DEF FenceInv, ChannelsTyped
<1>8. MovesTyped'
  BY <1>1, <1>2 DEF FenceInv, MovesTyped
<1>9. OnePort' /\ Guarded'
  BY <1>1 DEF OnePort, Guarded
<1>10. Behind'
  <2>1. CASE ~(awaited /\ serving.ok)
    BY <1>1, <1>3, <2>1, BehindRises
  <2>2. CASE awaited /\ serving.ok
    <3>1. /\ \A x \in Port : x # p => quiet'[x] = quiet[x]
          /\ \A m \in moves : m.port \in Port
      BY <1>1, <1>2, <2>2 DEF FenceInv, MovesTyped
    <3>2. ASSUME NEW m \in moves, m.port = p PROVE m.stamp <= latch[m.at].fence
      BY <1>o, <1>1, <2>2, <3>2 DEF FenceInv, Guarded, MovesTyped
    <3> QED BY <1>1, <3>1, <3>2 DEF FenceInv, Behind
  <2> QED BY <2>1, <2>2
<1>11. Acknowledged'
  <2>1. \A x \in Op : ops'[x].pc = "conclude" =>
          ops[x].pc = "conclude" /\ ops'[x].stamp = ops[x].stamp
    BY <1>1, <1>2, <1>5 DEF Proceeds, Follows
  <2>2. restarts = 0 => SeenByAll'
    BY <1>1, <2>1 DEF FenceInv, Acknowledged, SeenByAll, Seen
  <2>3. SeenByCalled'
    BY <1>1 DEF SeenByCalled
  <2> QED BY <1>1, <2>2, <2>3 DEF Acknowledged
<1> QED BY <1>6, <1>7, <1>8, <1>9, <1>10, <1>11 DEF FenceInv

LEMMA AnswerReleaseFences ==
  ASSUME FenceInv, FaultInv', RouterAnswersRelease PROVE FenceInv'
<1>0. serving.req \in Asked /\ serving.req.kind = "release"
  BY DEF RouterAnswersRelease, Served, LockFree, Asked
<1>o. PICK o \in Op, s \in Nat : o = serving.req.op /\ s = serving.req.stamp
  BY <1>0, Requested
<1> DEFINE l == Observe(latch[Router], FALSE, s, clock)
           fine == serving.ok /\ ~latch'[Router].latched
           c == IF fine THEN "conclude" ELSE "fault"
<1>1. /\ UNCHANGED <<clock, last, topic, inbox, portCalls, moves, executed, quiet,
                     restarts>>
      /\ serving # Nothing /\ serving.port = Nothing /\ serving.todo = {}
      /\ serving' = Nothing /\ serving.req.kind = "release"
      /\ latch' = IF serving.ok THEN [latch EXCEPT ![Router] = l] ELSE latch
      /\ IF ops[o].pc = "releasing" THEN ops' = [ops EXCEPT ![o].pc = c]
                                    ELSE UNCHANGED ops
  BY <1>o DEF RouterAnswersRelease, Served, channels, LockFree, Goto
<1>2. clock \in Nat /\ latch[Router] \in Latch /\ ops \in [Op -> OpRecord]
  BY DEF FenceInv, FaultInv, Typed, ChannelsTyped, Driver
<1>3. FALSE \in BOOLEAN
  BY Zenon
<1>4. /\ l \in Latch /\ l.fence >= latch[Router].fence
      /\ l.authority >= latch[Router].authority /\ l.authority >= s
  BY <1>2, <1>3, Observed
<1>5. c \in {"conclude", "fault"} /\ c \in Phases /\ (c = "conclude" => serving.ok)
  BY DEF Phases
<1> HIDE DEF l, c
<1>6. Risen /\ (serving.ok => latch'[Router].authority >= s)
  <2>1. CASE serving.ok
    BY <1>1, <1>2, <1>4, <2>1, OneRises DEF Driver
  <2>2. CASE ~serving.ok
    BY <1>1, <2>2, NoneFalls
  <2> QED BY <2>1, <2>2
<1>7. Asked' \subseteq Asked
  BY <1>1 DEF Asked
<1>8. ASSUME ops[o].pc = "releasing"
      PROVE  /\ Follows(o)
             /\ ops'[o].pc = c /\ ops'[o].stamp = ops[o].stamp
  <2>1. ops[o].kind # "none" /\ ops[o].port = Nothing
    BY <1>2, <1>8 DEF FenceInv, FaultInv, KindPhases, CallsPort
  <2>2. /\ ops' \in [Op -> OpRecord]
        /\ ops'[o].pc = c /\ ops'[o].kind = ops[o].kind
        /\ ops'[o].todo = ops[o].todo /\ ops'[o].port = ops[o].port
        /\ ops'[o].stamp = ops[o].stamp
        /\ \A x \in Op : x # o => ops'[x] = ops[x]
    BY <1>1, <1>2, <1>5, <1>8, PhaseSet
  <2> QED BY <1>5, <1>8, <2>1, <2>2 DEF Follows, Answerable, Awaits
<1>9. CallsPort' /\ Once' /\ Drawn'
  BY <1>1, <1>2, <1>7, <1>8, ProceedingRequests, StillFollows
<1>10. ChannelsTyped'
  BY <1>1, <1>6 DEF FenceInv, ChannelsTyped, Risen
<1>11. MovesTyped' /\ OnePort' /\ Guarded'
  BY <1>1 DEF FenceInv, MovesTyped, OnePort, Guarded
<1>12. Behind'
  BY <1>1, <1>6, BehindRises
<1>13. ASSUME restarts = 0 PROVE SeenByAll'
  <2>1. ASSUME NEW x \in Op, ops[x].pc = "conclude", ops'[x] = ops[x], NEW d \in Driver
        PROVE  Seen(d, ops[x].stamp)'
    <3>1. Seen(d, ops[x].stamp) /\ ops[x].stamp \in Nat
      BY <1>2, <1>13, <2>1 DEF FenceInv, Acknowledged, SeenByAll, OpRecord
    <3>2. latch'[d].authority >= ops[x].stamp
      BY <1>6, <3>1, SeenRises DEF Seen
    <3> QED BY <2>1, <3>2 DEF Seen
  <2>2. ASSUME ops[o].pc = "releasing", serving.ok, NEW d \in Driver
        PROVE  Seen(d, ops[o].stamp)'
    <3>1. ops'[o].stamp = s /\ ops[o].stamp = s
      BY <1>0, <1>o, <1>8, <1>13, <2>2 DEF FenceInv, Drawn
    <3>2. CASE d = Router
      BY <1>4, <1>6, <2>2, <3>1, <3>2 DEF Seen
    <3>3. CASE d # Router
      <4>1. d \in Port /\ d # Nothing
        BY <3>3, DriversAssumption DEF Driver
      <4>2. Seen(d, s)
        BY <1>o, <1>1, <1>13, <2>2, <4>1 DEF FenceInv, Acknowledged, SeenByCalled
      <4>3. latch'[d].authority >= s
        BY <1>2, <1>6, <4>2, SeenRises DEF Seen
      <4> QED BY <3>1, <4>3 DEF Seen
    <3> QED BY <3>2, <3>3
  <2>3. ASSUME NEW x \in Op, ops'[x].pc = "conclude", NEW d \in Driver
        PROVE  Seen(d, ops[x].stamp)'
    <3>1. CASE x = o /\ ops[o].pc = "releasing"
      BY <1>5, <1>8, <2>2, <2>3, <3>1
    <3>2. CASE ~(x = o /\ ops[o].pc = "releasing")
      <4>1. ops'[x] = ops[x]
        BY <1>1, <1>2, <1>8, <3>2 DEF Follows
      <4> QED BY <2>1, <2>3, <4>1
    <3> QED BY <3>1, <3>2
  <2>4. ASSUME ~last.active /\ last.stamp > 1, NEW d \in Driver
        PROVE  Seen(d, last.stamp)'
    <3>1. Seen(d, last.stamp)
      BY <1>13, <2>4, Zenon DEF FenceInv, Acknowledged, SeenByAll
    <3>2. last.stamp \in Nat
      BY DEF FenceInv, ChannelsTyped, SafetySample
    <3>3. latch'[d].authority >= last.stamp
      BY <1>6, <3>1, <3>2, SeenRises DEF Seen
    <3> QED BY <1>1, <3>3 DEF Seen
  <2>5. last' = last
    BY <1>1
  <2> QED BY <2>3, <2>4, <2>5, Zenon DEF SeenByAll
<1>14. Acknowledged'
  <2>1. SeenByCalled'
    BY <1>1 DEF SeenByCalled
  <2> QED BY <1>1, <1>13, <2>1 DEF Acknowledged
<1> QED BY <1>9, <1>10, <1>11, <1>12, <1>14 DEF FenceInv
-----------------------------------------------------------------------------
(* Restarts. *)
LEMMA ManagerRestartFences ==
  ASSUME FenceInv, FaultInv', ManagerRestart PROVE FenceInv'
<1>1. /\ UNCHANGED <<inbox, portCalls, moves, serving, latch, executed, quiet>>
      /\ restarts' = restarts + 1 /\ Stamped(FALSE)
      /\ ops' = [x \in Op |-> IF ops[x].kind = "none" THEN ops[x]
                              ELSE [Fresh EXCEPT !.kind = ops[x].kind, !.pc = "done"]]
  BY DEF ManagerRestart, drivers
<1>2. /\ ops \in [Op -> OpRecord] /\ clock \in Nat /\ clock + 1 \in Nat
      /\ clock + 1 >= clock /\ restarts + 1 \in Nat /\ restarts + 1 # 0
  BY DEF FenceInv, FaultInv, Typed, ChannelsTyped
<1>3. \A x \in Op : ops[x].kind # "none" =>
        ops'[x].kind = ops[x].kind /\ ops'[x].pc = "done" /\ ops'[x].todo = {}
        /\ ops'[x].port = Nothing
  BY <1>1 DEF Fresh
<1>4. \A x \in Op : ops[x].kind = "none" => ops'[x] = ops[x]
  BY <1>1
<1>5. FALSE \in BOOLEAN
  BY Zenon
<1> DEFINE q == Sample(FALSE, clock + 1)
<1>6. q \in SafetySample
  BY <1>2, <1>5, Sampled
<1>7. last' = q /\ topic' = [d \in Driver |-> q] /\ clock' = clock + 1
  BY <1>1 DEF Stamped, Publish
<1> HIDE DEF q
<1>8. ChannelsTyped'
  <2>1. restarts' \in Nat
    BY <1>1, <1>2
  <2>2. topic' \in [Driver -> SafetySample \cup {Nothing}]
    BY <1>6, <1>7
  <2> QED BY <1>1, <1>6, <1>7, <2>1, <2>2 DEF FenceInv, ChannelsTyped
<1>9. MovesTyped'
  <2>1. /\ clock \in Nat /\ clock' \in Nat /\ clock' >= clock
        /\ UNCHANGED <<moves, quiet>>
    BY <1>1, <1>2, <1>7
  <2> QED BY <2>1 DEF FenceInv, MovesTyped
<1>10. CallsPort'
  BY <1>3, <1>4 DEF FenceInv, CallsPort
<1>11. Asked' = Asked
  BY <1>1 DEF Asked
<1>12. Once'
  <2>1. ASSUME NEW a \in Asked, a.kind = "stop"
        PROVE  ops'[a.op].kind # "none" /\ a.port \notin ops'[a.op].todo
    BY <1>3, <2>1, Requested DEF FenceInv, Once
  <2> QED BY <1>11, <2>1 DEF Once
<1>13. Drawn'
  <2>1. ASSUME NEW a \in Asked, a.kind = "release" PROVE ops'[a.op].pc = "done"
    <3>1. a.op \in Op /\ ops[a.op].kind # "none"
      BY <2>1, Requested DEF FenceInv, FaultInv, KindPhases, Drawn
    <3> QED BY <1>3, <3>1
  <2> QED BY <1>1, <1>2, <1>11, <2>1 DEF Drawn
<1>14. OnePort' /\ Behind'
  BY <1>1 DEF FenceInv, OnePort, Behind
<1>15. Guarded'
  <2>1. ASSUME serving # Nothing, serving.req.kind = "stop"
        PROVE  ops'[serving.req.op].pc = "done"
    <3>1. serving.req \in Asked
      BY <2>1 DEF Asked
    <3> QED BY <1>3, <2>1, <3>1, Requested DEF FenceInv, Once
  <2> QED BY <1>1, <2>1 DEF Guarded, Awaits
<1>16. Acknowledged'
  BY <1>1, <1>2 DEF Acknowledged
<1> QED
  BY <1>8, <1>9, <1>10, <1>12, <1>13, <1>14, <1>15, <1>16 DEF FenceInv

LEMMA DriverRestartFences ==
  ASSUME FenceInv, FaultInv', NEW d \in Driver, DriverRestart(d) PROVE FenceInv'
<1>1. /\ UNCHANGED <<clock, ops, last, executed, quiet>>
      /\ restarts' = restarts + 1
      /\ latch' = [latch EXCEPT ![d] = NewLatch]
      /\ topic' = [topic EXCEPT ![d] = last]
      /\ moves' = {m \in moves : m.at # d}
      /\ d = Router => inbox' = {} /\ serving' = Nothing /\ UNCHANGED portCalls
      /\ d # Router => /\ portCalls' = [portCalls EXCEPT ![d] = {}]
                       /\ UNCHANGED <<inbox, serving>>
  BY DEF DriverRestart, manager
<1>2. restarts + 1 \in Nat /\ restarts + 1 # 0
  BY DEF FenceInv, ChannelsTyped
<1>3. FALSE \in BOOLEAN
  BY Zenon
<1>4. NewLatch \in Latch
  BY <1>3 DEF NewLatch, Latch
<1>5. d # Router => d \in Port
  BY DEF Driver
<1>6. ChannelsTyped'
  BY <1>1, <1>2, <1>4, <1>5 DEF FenceInv, ChannelsTyped
<1>7. Asked' \subseteq Asked
  BY <1>1 DEF Asked
<1>8. CallsPort'
  BY <1>1 DEF FenceInv, CallsPort
<1>9. Once'
  BY <1>1, <1>7 DEF FenceInv, Once, Awaits
<1>10. Drawn'
  BY <1>1, <1>2, <1>7 DEF FenceInv, Drawn
<1>11. MovesTyped' /\ OnePort'
  BY <1>1 DEF FenceInv, MovesTyped, OnePort
<1>12. \A x \in Driver : x # d => latch'[x] = latch[x]
  BY <1>1 DEF FenceInv, ChannelsTyped
<1>13. \A m \in moves' : m \in moves /\ latch'[m.at] = latch[m.at]
  BY <1>1, <1>12 DEF FenceInv, MovesTyped
<1>14. Behind'
  BY <1>1, <1>13 DEF FenceInv, Behind
<1>15. Guarded'
  <2>1. CASE d = Router
    BY <1>1, <2>1 DEF Guarded
  <2>2. CASE d # Router
    <3>1. \A m \in moves' : /\ m.at = Router => latch'[Router] = latch[Router]
                            /\ m.at = m.port => latch'[m.port] = latch[m.port]
      BY <1>13
    <3> QED BY <1>1, <1>13, <2>2, <3>1 DEF FenceInv, Guarded, Awaits
  <2> QED BY <2>1, <2>2
<1>16. Acknowledged'
  BY <1>1, <1>2 DEF Acknowledged
<1> QED
  BY <1>6, <1>8, <1>9, <1>10, <1>11, <1>14, <1>15, <1>16 DEF FenceInv
-----------------------------------------------------------------------------
LEMMA StutterFences ==
  ASSUME FenceInv, FaultInv', UNCHANGED vars PROVE FenceInv'
BY DEF vars, manager, channels, drivers, FenceInv, ChannelsTyped, CallsPort, MovesTyped,
       Once, Drawn, OnePort, Behind, Guarded, Acknowledged, SeenByAll, SeenByCalled,
       Seen, Awaits, Asked

LEMMA StepKeepsFenceInv ==
  ASSUME FenceInv, [Next]_vars PROVE FenceInv'
<1>0. FaultInv'
  BY StepKeepsFaultInv DEF FenceInv
<1>1. CASE UNCHANGED vars
  BY <1>0, <1>1, StutterFences
<1>2. ASSUME NEW o \in Op,
             \/ ManagerStep(o) \/ ReleaseUnavailable(o) \/ EstopOn(o) \/ EstopOff(o)
             \/ \E p \in Port : StopUnreadable(o, p)
             \/ \E ids \in (SUBSET Port) \ {{}} : BeginStop(o, ids)
      PROVE  FenceInv'
  BY <1>0, <1>2, BeginFences, AdvanceFences, PublishFences, StopCallFences,
     ReleaseCallFences
  DEF ManagerStep
<1>3. ASSUME \/ \E p \in Port : ForwardMove(p) \/ LearnActuator(p)
             \/ \E m \in moves : RouterMove(m) \/ PortMove(m)
      PROVE  FenceInv'
  BY <1>0, <1>3, MoveFences
<1>4. CASE RouterNext
  BY <1>0, <1>4, TakeStopFences, TakeReleaseFences, RouterCallsFences,
     RouterTimeoutFences, AnswerStopFences, AnswerReleaseFences
  DEF RouterNext
<1>5. CASE PortNext
  BY <1>0, <1>5, PortServesFences DEF PortNext
<1>6. CASE ManagerRestart
  BY <1>0, <1>6, ManagerRestartFences
<1>7. ASSUME NEW d \in Driver, Deliver(d) \/ DriverRestart(d) PROVE FenceInv'
  BY <1>0, <1>7, DeliverFences, DriverRestartFences
<1> QED BY <1>1, <1>2, <1>3, <1>4, <1>5, <1>6, <1>7 DEF Next, ManagerNext

LEMMA FenceInvariance == Spec => []FenceInv
BY InitFenceInv, StepKeepsFenceInv, PTL DEF Spec
-----------------------------------------------------------------------------
(* Every variable of the stop path keeps its type, and an operation names  *)
(* a port exactly while it waits for that port (the call and its answer in *)
(* execution_manager_node.py:814-880).                                     *)
THEOREM DriversTyped == Spec => []TypeOK
<1>1. FenceInv => TypeOK
  BY DEF FenceInv, FaultInv, Typed, ChannelsTyped, CallsPort, MovesTyped, Latch, TypeOK
<1> QED BY <1>1, FenceInvariance, PTL

(* The manager publishes FALSE only with a stamp that the router and every *)
(* port have acknowledged as newer than all they knew, as long as nothing  *)
(* restarts (execution_manager_node.py:671-731, bus_protocol_router.py).   *)
THEOREM AcknowledgedBeforeFalse == Spec => []AckBeforeFalse
<1>1. FenceInv => AckBeforeFalse
  BY DEF FenceInv, Acknowledged, SeenByAll, Seen, AckBeforeFalse
<1> QED BY <1>1, FenceInvariance, PTL

LEMMA WritesAreNew ==
  ASSUME FenceInv, [Next]_vars, NEW p \in Port, executed'[p] # executed[p]
  PROVE  executed'[p] > quiet[p]
<1>1. PICK m \in moves : PortMove(m)
  BY DEF Next, ManagerNext, ManagerStep, RouterNext, PortNext, vars, drivers, manager,
         Announce, CallTimeout, StopsDone, FinishCheck, RequestRelease, Conclude,
         LatchFault, Alarm, StopCall, ReleaseUnavailable, EstopOn, EstopOff,
         StopUnreadable, BeginStop, ForwardMove, LearnActuator, RouterTakesStop,
         RouterTakesRelease, RouterCalls, RouterTimeout, RouterAnswersStop,
         RouterAnswersRelease, PortServes, ManagerRestart, Deliver, DriverRestart,
         RouterMove
<1>2. /\ m.port = p /\ m.at = p /\ executed'[p] = m.stamp
      /\ Admits(latch[p], m.stamp)
  BY <1>1 DEF PortMove, FenceInv, ChannelsTyped
<1>3. /\ m.stamp \in Nat /\ 0 < m.stamp /\ quiet[p] \in Nat /\ latch[p].fence \in Nat
  BY DEF FenceInv, MovesTyped, ChannelsTyped, Driver, Latch
<1>4. m.stamp <= quiet[p] => m.stamp <= latch[p].fence
  BY <1>2 DEF FenceInv, Behind
<1> QED BY <1>2, <1>3, <1>4 DEF Admits

(* A move that was under way when its port acknowledged a stop is never    *)
(* written, by whatever path, retries, releases and restarts it gets there *)
(* (safety_latch.py:61-108, at the router and at the port).                *)
THEOREM StaleMovesNeverWritten == Spec => StaleMovesFenced
<1>1. FenceInv /\ [Next]_vars =>
        [\A p \in Port : executed'[p] # executed[p] => executed'[p] > quiet[p]]_vars
  BY WritesAreNew
<1> QED BY <1>1, FenceInvariance, PTL DEF Spec, StaleMovesFenced
=============================================================================
