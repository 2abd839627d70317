--------------------------- MODULE BvhPlayer_proofs ---------------------------
(***************************************************************************)
(* A stop that was confirmed is silent, for any number of playbacks:       *)
(* proof.                                                                  *)
(*                                                                         *)
(* A worker cannot be stopped between its look at the stop event and the   *)
(* publication behind it, so "the event is set" is not enough.  What makes *)
(* the confirmation true is that the handle is given up only for a thread  *)
(* that is dead (Alone): a worker that may still publish is the one the    *)
(* handle names, and whoever finds no handle, or has joined it, knows that *)
(* there is none.                                                          *)
(***************************************************************************)
EXTENDS BvhPlayer, TLAPS

Places == {"none", "load", "check", "publish", "wait", "clean", "dead"}

Gates == [blocked : BOOLEAN, stopDone : BOOLEAN, closed : BOOLEAN,
          closeDone : BOOLEAN, context : Blocker \cup {Nothing}]

TypeOK ==
  /\ gate \in Gates
  /\ gen \in 0..MaxPlays
  /\ handle \in 0..MaxPlays
  /\ worker \in [Generation -> Places]
  /\ call \in Operations \cup {Nothing}

(* A thread that has not ended is the one the handle names; the operation  *)
(* that joins a thread, or found none, knows what the handle is.           *)
Alone ==
  /\ \A g \in Generation : Alive(g) => handle = g
  /\ ~Free /\ call.at = "join" => call.target # 0 /\ handle \in {0, call.target}
  /\ ~Free /\ call.at = "start" => handle = 0

(* The lock keeps the gate as an operation left it when it began. *)
GateAwaits ==
  ~Free => /\ call.op = "play" => ~gate.blocked /\ ~gate.closed /\ gen < MaxPlays
           /\ call.op = "close" => gate.closed
           /\ call.at = "start" => call.op = "play"

(* The gate of a closed player is never raised again. *)
ClosedStays ==
  /\ gate.closed => gate.blocked
  /\ gate.closeDone => gate.closed

ContextKept == ~gate.closed => (gate.blocked <=> gate.context # Nothing)

PlayerInv ==
  TypeOK /\ Alone /\ GateAwaits /\ ClosedStays /\ ContextKept
  /\ StopConfirmedIsSilent
-----------------------------------------------------------------------------
USE PlayerAssumption DEF PlayerAssumption

LEMMA InitPlayerInv == PlayerInit => PlayerInv
<1> SUFFICES ASSUME PlayerInit PROVE PlayerInv
  OBVIOUS
<1>1. TypeOK
  BY DEF PlayerInit, TypeOK, Places, Gates
<1> QED
  BY <1>1 DEF PlayerInit, PlayerInv, Alone, GateAwaits, ClosedStays, ContextKept,
              StopConfirmedIsSilent, Free, Alive, Playing

(* The steps of one thread: it never comes back from its end, and gives    *)
(* its handle up only there.                                               *)
LEMMA WorkerStep ==
  ASSUME PlayerInv, NEW g \in Generation, Worker(g)
  PROVE  PlayerInv'
<1>1. CASE CleanUp(g)
  BY <1>1 DEF CleanUp, PlayerInv, TypeOK, Places, Alone, GateAwaits, ClosedStays,
              ContextKept, StopConfirmedIsSilent, Free, Alive, Playing, Generation
<1>2. CASE Load(g) \/ Check(g) \/ Publish(g) \/ WaitFrame(g)
  <2>1. PICK place \in {"check", "clean", "publish", "wait"} :
          Playing(g) /\ MoveTo(g, place)
    BY <1>2 DEF Load, Check, Publish, WaitFrame, Playing
  <2> QED
    BY <2>1 DEF MoveTo, PlayerInv, TypeOK, Places, Alone, GateAwaits, ClosedStays,
                ContextKept, StopConfirmedIsSilent, Free, Alive, Playing
<1> QED BY <1>1, <1>2 DEF Worker

LEMMA Begins ==
  ASSUME NEW op \in {"play", "stop", "block", "close"}, BeginStop(op)
  PROVE  call' \in Operations /\ call' # Nothing /\ call'.op = op /\ call'.at = "grab"
BY DEF BeginStop, Operations

(* What keeps the invariant while no thread moves and the lock is taken    *)
(* from nobody: the gate may only announce a silence there is.             *)
LEMMA GateStep ==
  ASSUME PlayerInv, Free, UNCHANGED <<handle, gen, worker>>, gate' \in Gates,
         \/ UNCHANGED call
         \/ \E op \in {"play", "stop", "block", "close"} : BeginStop(op)
            /\ (op = "play" => ~gate'.blocked /\ ~gate'.closed /\ gen < MaxPlays)
            /\ (op = "close" => gate'.closed),
         gate'.closed => gate'.blocked,
         gate'.closeDone => gate'.closed,
         ~gate'.closed => (gate'.blocked <=> gate'.context # Nothing),
         StopConfirmedIsSilent'
  PROVE  PlayerInv'
<1>1. TypeOK'
  BY Begins DEF PlayerInv, TypeOK
<1>2. Alone'
  BY Begins DEF PlayerInv, Alone, Free, Alive, Playing
<1>3. GateAwaits'
  BY Begins DEF PlayerInv, GateAwaits, Free
<1> QED BY <1>1, <1>2, <1>3 DEF PlayerInv, ClosedStays, ContextKept

LEMMA RequestStep ==
  ASSUME PlayerInv, AskPlay \/ AskStop \/ OnIdleState
  PROVE  PlayerInv'
<1>1. CASE AskPlay \/ AskStop
  <2>1. UNCHANGED gate /\ StopConfirmedIsSilent'
    BY <1>1 DEF AskPlay, AskStop, PlayerInv, StopConfirmedIsSilent, Playing
  <2> QED
    BY <1>1, <2>1, GateStep DEF AskPlay, AskStop, PlayerInv, TypeOK, ClosedStays, ContextKept
<1>2. CASE OnIdleState
  <2> DEFINE g1 == [gate EXCEPT !.blocked = FALSE]
             g2 == [g1 EXCEPT !.stopDone = FALSE]
             g3 == [g2 EXCEPT !.context = Nothing]
  <2>1. gate' = g3
    BY <1>2, Zenon DEF OnIdleState
  <2>2. g1 \in Gates /\ ~g1.blocked /\ g1.closed = gate.closed /\ g1.closeDone = gate.closeDone
    BY DEF Gates, PlayerInv, TypeOK
  <2> HIDE DEF g1
  <2>3. /\ g2 \in Gates /\ ~g2.blocked /\ ~g2.stopDone
        /\ g2.closed = gate.closed /\ g2.closeDone = gate.closeDone
    BY <2>2 DEF Gates
  <2> HIDE DEF g2
  <2>4. /\ gate' \in Gates /\ ~gate'.blocked /\ gate'.context = Nothing
        /\ ~gate'.closed /\ ~gate'.closeDone
    BY <1>2, <2>1, <2>3 DEF Gates, OnIdleState, PlayerInv, ClosedStays
  <2>5. StopConfirmedIsSilent'
    BY <2>4 DEF StopConfirmedIsSilent
  <2> QED BY <1>2, <2>4, <2>5, GateStep DEF OnIdleState
<1> QED BY <1>1, <1>2

(* An execution state that blocks the gate: a stop that is complete is one *)
(* that was complete under the same blocking.                              *)
LEMMA BusyStep ==
  ASSUME PlayerInv, NEW b \in Blocker, OnBusyState(b)
  PROVE  PlayerInv'
<1> DEFINE g1 == [gate EXCEPT !.context = b]
           g2 == [g1 EXCEPT !.blocked = TRUE]
           g3 == [g2 EXCEPT !.stopDone = gate.stopDone /\ gate.blocked]
<1>1. gate' = g3
  BY Zenon DEF OnBusyState
<1>2. /\ g1 \in Gates /\ g1.context = b
      /\ g1.closed = gate.closed /\ g1.closeDone = gate.closeDone
  BY DEF Gates, PlayerInv, TypeOK
<1> HIDE DEF g1
<1>3. /\ g2 \in Gates /\ g2.blocked /\ g2.context = b
      /\ g2.closed = gate.closed /\ g2.closeDone = gate.closeDone
  BY <1>2 DEF Gates
<1> HIDE DEF g2
<1>4. g3 \in Gates /\ g3.stopDone = (gate.stopDone /\ gate.blocked)
  BY <1>3 DEF Gates, PlayerInv, TypeOK
<1>5. /\ g3.blocked /\ g3.context = b
      /\ g3.closed = gate.closed /\ g3.closeDone = gate.closeDone
  BY <1>3 DEF Gates
<1> HIDE DEF g3
<1>6. StopConfirmedIsSilent'
  BY <1>1, <1>4, <1>5 DEF StopConfirmedIsSilent, PlayerInv, Playing, OnBusyState
<1>7. UNCHANGED call \/ BeginStop("block")
  BY DEF OnBusyState
<1> QED
  BY <1>1, <1>4, <1>5, <1>6, <1>7, GateStep DEF OnBusyState, PlayerInv, ClosedStays

(* The same for a close, which may find the stop complete already.         *)
LEMMA CloseStep ==
  ASSUME PlayerInv, Close
  PROVE  PlayerInv'
<1> DEFINE g1 == [gate EXCEPT !.closed = TRUE]
           g2 == [g1 EXCEPT !.blocked = TRUE]
           g3 == [g2 EXCEPT !.stopDone = gate.stopDone /\ gate.blocked]
           g4 == [g3 EXCEPT !.stopDone = TRUE]
           g5 == [g4 EXCEPT !.closeDone = TRUE]
<1>1. \/ gate' = g3 /\ BeginStop("close")
      \/ g3.stopDone /\ gate' = g5 /\ UNCHANGED call
  BY Zenon DEF Close, Confirmed
<1>2. g1 \in Gates /\ g1.closed /\ g1.closeDone = gate.closeDone
  BY DEF Gates, PlayerInv, TypeOK
<1> HIDE DEF g1
<1>3. g2 \in Gates /\ g2.closed /\ g2.blocked /\ g2.closeDone = gate.closeDone
  BY <1>2 DEF Gates
<1> HIDE DEF g2
<1>4. g3 \in Gates /\ g3.stopDone = (gate.stopDone /\ gate.blocked)
  BY <1>3 DEF Gates, PlayerInv, TypeOK
<1>5. g3.closed /\ g3.blocked /\ g3.closeDone = gate.closeDone
  BY <1>3 DEF Gates
<1> HIDE DEF g3
<1>6. g4 \in Gates /\ g4.closed /\ g4.blocked
  BY <1>4, <1>5 DEF Gates
<1> HIDE DEF g4
<1>7. g5 \in Gates /\ g5.closed /\ g5.blocked
  BY <1>6 DEF Gates
<1> HIDE DEF g5
<1>8. gate' \in Gates /\ gate'.closed /\ gate'.blocked
  BY <1>1, <1>4, <1>5, <1>7
<1>9. StopConfirmedIsSilent'
  BY <1>1, <1>4, <1>5 DEF StopConfirmedIsSilent, PlayerInv, Playing, Close
<1>10. UNCHANGED call \/ BeginStop("close")
  BY <1>1
<1> QED
  BY <1>8, <1>9, <1>10, GateStep DEF Close

-----------------------------------------------------------------------------
(* What an operation may return on: that no thread is left.                *)
Silent == \A g \in Generation : ~Alive(g)

LEMMA ConfirmedGate ==
  ASSUME TypeOK, ClosedStays, NEW op \in {"stop", "block", "close"},
         gate' = Confirmed(op, gate), op = "close" => gate.closed
  PROVE  /\ gate' \in Gates
         /\ gate'.blocked = gate.blocked /\ gate'.closed = gate.closed
         /\ gate'.context = gate.context
         /\ gate'.closeDone => gate'.closed
<1> USE DEF Gates
<1>1. gate \in Gates
  BY DEF TypeOK
<1>2. CASE op = "stop"
  <2> DEFINE g1 == [gate EXCEPT !.stopDone = gate.stopDone \/ gate.blocked]
             g2 == [g1 EXCEPT !.closeDone = gate.closeDone \/ gate.closed]
  <2>1. g1.closeDone = gate.closeDone /\ g1.closed = gate.closed
    BY <1>1
  <2>2. gate' = g2
    BY <1>2, <2>1 DEF Confirmed
  <2>3. /\ g1 \in Gates /\ g1.blocked = gate.blocked
        /\ g1.context = gate.context
    BY <1>1
  <2> HIDE DEF g1
  <2>4. g2 \in Gates /\ g2.closeDone = (gate.closeDone \/ gate.closed)
    BY <2>3
  <2>5. g2.blocked = gate.blocked /\ g2.closed = gate.closed /\ g2.context = gate.context
    BY <2>1, <2>3
  <2> QED BY <2>2, <2>4, <2>5 DEF ClosedStays
<1>3. CASE op = "block"
  BY <1>1, <1>3 DEF Confirmed, ClosedStays
<1>4. CASE op = "close"
  <2> DEFINE g1 == [gate EXCEPT !.stopDone = TRUE]
             g2 == [g1 EXCEPT !.closeDone = TRUE]
  <2>1. gate' = g2
    BY <1>4 DEF Confirmed
  <2>2. /\ g1 \in Gates /\ g1.blocked = gate.blocked
        /\ g1.closed = gate.closed /\ g1.context = gate.context
    BY <1>1
  <2> HIDE DEF g1
  <2>3. /\ g2 \in Gates /\ g2.blocked = gate.blocked
        /\ g2.closed = gate.closed /\ g2.context = gate.context
    BY <2>2
  <2> QED BY <1>4, <2>1, <2>3 DEF Confirmed
<1> QED BY <1>2, <1>3, <1>4

(* The end of a stop.  Where it says that it worked, nobody is left.       *)
LEMMA ReturnStep ==
  ASSUME PlayerInv, ~Free, call.at \in {"grab", "join"}, NEW ok \in BOOLEAN, StopReturns(ok),
         UNCHANGED <<gen, worker>>, ok => Silent /\ handle' = 0,
         ~ok => UNCHANGED handle
  PROVE  PlayerInv'
<1>1. handle' \in 0..MaxPlays /\ (\A g \in Generation : Alive(g)' => handle' = g)
  BY DEF PlayerInv, TypeOK, Alone, Silent, Alive, Playing
<1>2. call \in Operations
  BY DEF PlayerInv, TypeOK, Free
<1>3. CASE ok /\ call.op = "play"
  <2>1. /\ call' \in Operations /\ call'.at = "start" /\ call'.op = "play"
        /\ UNCHANGED gate
    BY <1>2, <1>3 DEF StopReturns, Operations
  <2>2. TypeOK'
    BY <1>1, <2>1 DEF PlayerInv, TypeOK
  <2>3. Alone' /\ GateAwaits'
    BY <1>1, <1>3, <2>1 DEF PlayerInv, Alone, GateAwaits, Free
  <2>4. StopConfirmedIsSilent'
    BY <1>3 DEF StopConfirmedIsSilent, Silent, Alive, Playing
  <2> QED BY <2>1, <2>2, <2>3, <2>4 DEF PlayerInv, ClosedStays, ContextKept
<1>4. CASE ok /\ call.op # "play"
  <2>1. call' = Nothing /\ gate' = Confirmed(call.op, gate)
    BY <1>4 DEF StopReturns
  <2>2. call.op \in {"stop", "block", "close"}
    BY <1>2, <1>4 DEF Operations
  <2>3. call.op = "close" => gate.closed
    BY DEF PlayerInv, GateAwaits
  <2>4. /\ gate' \in Gates
        /\ gate'.blocked = gate.blocked /\ gate'.closed = gate.closed
        /\ gate'.context = gate.context
        /\ gate'.closeDone => gate'.closed
    BY <2>1, <2>2, <2>3, ConfirmedGate DEF PlayerInv
  <2>5. StopConfirmedIsSilent'
    BY <1>4 DEF StopConfirmedIsSilent, Silent, Alive, Playing
  <2> QED
    BY <1>1, <2>1, <2>4, <2>5
    DEF PlayerInv, TypeOK, Alone, GateAwaits, ClosedStays, ContextKept, Free
<1>5. CASE ~ok
  <2>1. call' = Nothing /\ UNCHANGED gate
    BY <1>5 DEF StopReturns
  <2> QED
    BY <1>1, <1>5, <2>1
    DEF PlayerInv, TypeOK, Alone, GateAwaits, ClosedStays, ContextKept, Free,
        StopConfirmedIsSilent, Playing
<1> QED BY <1>3, <1>4, <1>5

(* A stop at its two awaits.  With no handle, or with the thread the       *)
(* handle named dead, all are.                                             *)
LEMMA StopStep ==
  ASSUME PlayerInv, StopLocked
  PROVE  PlayerInv'
<1>1. CASE Grab
  <2>1. CASE handle = 0
    <3>1. Silent
      BY <2>1 DEF PlayerInv, Alone, Silent, Generation
    <3> QED BY <1>1, <2>1, <3>1, ReturnStep DEF Grab
  <2>2. CASE handle # 0
    <3>1. call \in Operations /\ handle \in 0..MaxPlays
      BY <1>1 DEF Grab, PlayerInv, TypeOK, Free
    <3> DEFINE c == [call EXCEPT !.at = "join"]
    <3>2. call' = [c EXCEPT !.target = handle] /\ UNCHANGED gate
      BY <1>1, <2>2 DEF Grab
    <3>3. c \in Operations /\ c.at = "join" /\ c.op = call.op
      BY <3>1 DEF Operations
    <3> HIDE DEF c
    <3>4. /\ call' \in Operations /\ call'.at = "join"
          /\ call'.op = call.op /\ call'.target = handle
      BY <3>1, <3>2, <3>3 DEF Operations
    <3>5. UNCHANGED <<gate, handle, gen, worker>>
      BY <1>1, <3>2 DEF Grab
    <3>6. TypeOK' /\ StopConfirmedIsSilent'
      BY <3>4, <3>5 DEF PlayerInv, TypeOK, StopConfirmedIsSilent, Playing
    <3>7. Alone' /\ GateAwaits'
      BY <1>1, <2>2, <3>4, <3>5 DEF PlayerInv, Alone, GateAwaits, Free, Alive, Playing, Grab
    <3> QED BY <3>5, <3>6, <3>7 DEF PlayerInv, ClosedStays, ContextKept
  <2> QED BY <2>1, <2>2
<1>2. CASE Joined
  <2>1. Silent /\ handle' = 0
    BY <1>2 DEF Joined, PlayerInv, TypeOK, Alone, Silent, Generation
  <2> QED BY <1>2, <2>1, ReturnStep DEF Joined
<1>3. CASE JoinTimeout
  BY <1>3, ReturnStep DEF JoinTimeout
<1> QED BY <1>1, <1>2, <1>3 DEF StopLocked

(* A play that got so far found nobody, and may begin the next generation. *)
LEMMA StartStep ==
  ASSUME PlayerInv, NEW starts \in BOOLEAN, StartWorker(starts)
  PROVE  PlayerInv'
<1>1. call # Nothing /\ call.op = "play" /\ call.at = "start" /\ handle = 0
  BY DEF StartWorker, Holding, PlayerInv, Alone, Free
<1>2. ~gate.blocked /\ ~gate.closed /\ gen < MaxPlays
  BY <1>1 DEF PlayerInv, GateAwaits, Free
<1>3. gen' \in Generation /\ handle' \in {0, gen'}
  BY <1>2 DEF PlayerInv, TypeOK, Generation, StartWorker
<1>4. worker' \in [Generation -> Places]
  BY <1>3 DEF PlayerInv, TypeOK, StartWorker, Places
<1>5. \A g \in Generation : Alive(g)' => handle' = g
  <2> SUFFICES ASSUME NEW g \in Generation, Alive(g)' PROVE handle' = g
    OBVIOUS
  <2>1. ~Alive(g)
    BY <1>1 DEF PlayerInv, Alone, Generation
  <2>2. g = gen' /\ worker'[g] # "dead"
    BY <2>1, <1>3 DEF PlayerInv, TypeOK, Alive, Playing, StartWorker
  <2> QED BY <2>2, <1>3 DEF PlayerInv, TypeOK, StartWorker
<1>6. TypeOK' /\ Alone' /\ GateAwaits'
  BY <1>3, <1>4, <1>5
  DEF PlayerInv, TypeOK, Alone, GateAwaits, Free, StartWorker, Generation
<1>7. StopConfirmedIsSilent'
  BY <1>2 DEF StopConfirmedIsSilent, PlayerInv, ClosedStays, StartWorker
<1> QED BY <1>6, <1>7 DEF PlayerInv, ClosedStays, ContextKept, StartWorker
-----------------------------------------------------------------------------
LEMMA PlayerInductive == PlayerInv /\ [PlayerNext]_playerVars => PlayerInv'
<1> SUFFICES ASSUME PlayerInv, [PlayerNext]_playerVars PROVE PlayerInv'
  OBVIOUS
<1>1. CASE UNCHANGED playerVars
  BY <1>1 DEF playerVars, PlayerInv, TypeOK, Alone, GateAwaits, ClosedStays, ContextKept,
              StopConfirmedIsSilent, Free, Alive, Playing
<1>2. CASE PlayerNext
  BY <1>2, RequestStep, CloseStep, BusyStep, StopStep, StartStep, WorkerStep DEF PlayerNext
<1> QED BY <1>1, <1>2

(* However many playbacks, stops and closes there are: once a stop of a    *)
(* blocked epoch, or of its close, was confirmed, no thread can publish    *)
(* another command (BvhMotionRuntime._stop_locked).                        *)
THEOREM ConfirmedSilence == PlayerSpec => []StopConfirmedIsSilent
<1>1. PlayerInv => StopConfirmedIsSilent
  BY DEF PlayerInv
<1> QED BY InitPlayerInv, PlayerInductive, <1>1, PTL DEF PlayerSpec

(* What blocks a play can be named whenever a play may ask, also after a   *)
(* stop that failed (BvhWebsocketAdapter.set_blocked).                     *)
THEOREM ContextTruthful == PlayerSpec => []ContextFollowsGate
<1>1. PlayerInv => ContextFollowsGate
  BY DEF PlayerInv, ContextKept, ContextFollowsGate
<1> QED BY InitPlayerInv, PlayerInductive, <1>1, PTL DEF PlayerSpec
=============================================================================
