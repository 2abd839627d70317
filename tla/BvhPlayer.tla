------------------------------ MODULE BvhPlayer ------------------------------
(***************************************************************************)
(* Playback of recorded actions inside the websocket bridge: the player's  *)
(* worker threads (bvh_player.py), the runtime that starts and stops them  *)
(* (bvh_runtime.py), the adapter and the extension around it               *)
(* (bvh_websocket_*.py).  Requests come from the asyncio thread, execution *)
(* states from the ROS thread, the close from the main thread; the         *)
(* adapter's lock lets one of them in at a time, for the whole operation.  *)
(* A worker takes none of these locks: it only sees its own stop event.    *)
(*                                                                         *)
(* What a worker plays is left out: a load that finds no frames, a step of *)
(* one command and the end of an action are choices.                       *)
(***************************************************************************)
EXTENDS Naturals, FiniteSets

CONSTANTS
  MaxPlays,       \* bound: workers created in a behaviour
  CloseAttempts,  \* the bridge closes an extension at most so often
  Nothing

Generation == 1..MaxPlays
Blocker == {"teleop", "task"}
Operations == [op : {"play", "stop", "block", "close"},
               at : {"grab", "join", "start"}, target : 0..MaxPlays]

ASSUME PlayerAssumption ==
  /\ MaxPlays \in Nat /\ CloseAttempts \in Nat
  /\ Nothing \notin Blocker /\ Nothing \notin Operations

VARIABLES
  gate,     \* the runtime's flags and the adapter's _block_context
  handle,   \* generation of _thread and _stop_event, 0 for None
  gen,      \* _generation
  worker,   \* per generation: where its thread is
  stopSet,  \* generations whose stop event is set
  call,     \* the operation that holds the adapter's lock
  closes    \* close attempts begun

playerVars == <<gate, handle, gen, worker, stopSet, call, closes>>

PlayerInit ==
  /\ gate = [blocked |-> FALSE, stopDone |-> FALSE, closed |-> FALSE,
             closeDone |-> FALSE, context |-> Nothing]
  /\ handle = 0
  /\ gen = 0
  /\ worker = [g \in Generation |-> "none"]
  /\ stopSet = {}
  /\ call = Nothing
  /\ closes = 0

(* A worker that may still publish, and one whose thread has not ended. *)
Playing(g) == worker[g] \in {"load", "check", "publish", "wait"}
Alive(g) == Playing(g) \/ worker[g] = "clean"

Free == call = Nothing
Holding(op, at) == call # Nothing /\ call.op = op /\ call.at = at
BeginStop(op) == call' = [op |-> op, at |-> "grab", target |-> 0]
-----------------------------------------------------------------------------
(* What an operation does once the worker is known to be gone. *)
Confirmed(op, g) ==
  CASE op = "stop"  -> [g EXCEPT !.stopDone = @ \/ g.blocked,
                                 !.closeDone = @ \/ g.closed]
    [] op = "block" -> [g EXCEPT !.stopDone = TRUE]
    [] op = "close" -> [g EXCEPT !.stopDone = TRUE, !.closeDone = TRUE]

(* Requests on the asyncio thread.  A refused play changes nothing. *)
AskPlay ==
  /\ Free
  /\ ~gate.closed /\ ~gate.blocked
  /\ gen < MaxPlays
  /\ BeginStop("play")
  /\ UNCHANGED <<gate, handle, gen, worker, stopSet, closes>>

AskStop ==
  /\ Free
  /\ BeginStop("stop")
  /\ UNCHANGED <<gate, handle, gen, worker, stopSet, closes>>

(* The context is kept only once the stop is known to have worked. *)
OnBusyState_LateContext(b) ==
  LET next == [gate EXCEPT !.blocked = TRUE, !.stopDone = @ /\ gate.blocked] IN
  /\ Free
  /\ IF next.stopDone
     THEN gate' = [next EXCEPT !.context = b] /\ UNCHANGED call
     ELSE gate' = next /\ BeginStop("block")
  /\ UNCHANGED <<handle, gen, worker, stopSet, closes>>

(* The ROS thread: an execution state that shows teleop or a task active. *)
OnBusyState(b) ==
  LET next == [gate EXCEPT !.context = b, !.blocked = TRUE,
                           !.stopDone = @ /\ gate.blocked] IN
  /\ Free
  /\ gate' = next
  /\ IF next.stopDone THEN UNCHANGED call ELSE BeginStop("block")
  /\ UNCHANGED <<handle, gen, worker, stopSet, closes>>

OnIdleState ==
  /\ Free
  /\ gate.blocked /\ ~gate.closed
  /\ gate' = [gate EXCEPT !.blocked = FALSE, !.stopDone = FALSE,
                          !.context = Nothing]
  /\ UNCHANGED <<handle, gen, worker, stopSet, call, closes>>

(* The main thread, at shutdown. *)
Close ==
  LET next == [gate EXCEPT !.closed = TRUE, !.blocked = TRUE,
                           !.stopDone = @ /\ gate.blocked] IN
  /\ Free
  /\ closes < CloseAttempts
  /\ ~gate.closeDone
  /\ closes' = closes + 1
  /\ IF next.stopDone
     THEN gate' = Confirmed("close", next) /\ UNCHANGED call
     ELSE gate' = next /\ BeginStop("close")
  /\ UNCHANGED <<handle, gen, worker, stopSet>>
-----------------------------------------------------------------------------
(* _stop_locked, in the steps a worker can come between. *)

StopReturns(ok) ==
  IF ok /\ call.op = "play"
  THEN call' = [call EXCEPT !.at = "start"] /\ UNCHANGED gate
  ELSE /\ gate' = IF ok THEN Confirmed(call.op, gate) ELSE gate
       /\ call' = Nothing

(* A stop joins without setting the event. *)
Grab_NoEvent ==
  /\ ~Free /\ call.at = "grab"
  /\ IF handle = 0
     THEN StopReturns(TRUE)
     ELSE /\ call' = [call EXCEPT !.at = "join", !.target = handle]
          /\ UNCHANGED gate
  /\ UNCHANGED <<handle, gen, worker, stopSet, closes>>

Grab ==
  /\ ~Free /\ call.at = "grab"
  /\ IF handle = 0
     THEN StopReturns(TRUE) /\ UNCHANGED stopSet
     ELSE /\ stopSet' = stopSet \cup {handle}
          /\ call' = [call EXCEPT !.at = "join", !.target = handle]
          /\ UNCHANGED gate
  /\ UNCHANGED <<handle, gen, worker, closes>>

Joined ==
  /\ ~Free /\ call.at = "join"
  /\ ~Alive(call.target)
  /\ handle' = IF handle = call.target THEN 0 ELSE handle
  /\ StopReturns(TRUE)
  /\ UNCHANGED <<gen, worker, stopSet, closes>>

(* A timed out join counts as a stop. *)
JoinTimeout_Confirms ==
  /\ ~Free /\ call.at = "join"
  /\ Alive(call.target)
  /\ StopReturns(TRUE)
  /\ UNCHANGED <<handle, gen, worker, stopSet, closes>>

(* The join ran into its timeout: the handle stays. *)
JoinTimeout ==
  /\ ~Free /\ call.at = "join"
  /\ Alive(call.target)
  /\ StopReturns(FALSE)
  /\ UNCHANGED <<handle, gen, worker, stopSet, closes>>

(* play, behind its stop: a new generation, whose thread may fail to start. *)
StartWorker(starts) ==
  /\ Holding("play", "start")
  /\ gen' = gen + 1
  /\ handle' = IF starts THEN gen' ELSE 0
  /\ worker' = [worker EXCEPT ![gen'] = IF starts THEN "load" ELSE "dead"]
  /\ call' = Nothing
  /\ UNCHANGED <<gate, stopSet, closes>>
-----------------------------------------------------------------------------
(* A worker. *)

MoveTo(g, place) ==
  /\ worker' = [worker EXCEPT ![g] = place]
  /\ UNCHANGED <<gate, handle, gen, stopSet, call, closes>>

Load(g) ==
  /\ worker[g] = "load"
  /\ \E next \in {"check", "clean"} : MoveTo(g, next)

Check(g) ==
  /\ worker[g] = "check"
  /\ MoveTo(g, IF g \in stopSet THEN "clean" ELSE "publish")

(* To the next command of the frame, or to the wait behind it. *)
Publish(g) ==
  /\ worker[g] = "publish"
  /\ \E next \in {"check", "wait"} : MoveTo(g, next)

(* The wait ends early when the event is set.  Without loop the action ends. *)
WaitFrame(g) ==
  /\ worker[g] = "wait"
  /\ \E next \in IF g \in stopSet THEN {"clean"} ELSE {"check", "clean"} :
       MoveTo(g, next)

(* The finally block of _worker_entry. *)
CleanUp(g) ==
  /\ worker[g] = "clean"
  /\ worker' = [worker EXCEPT ![g] = "dead"]
  /\ handle' = IF gen = g /\ handle = g THEN 0 ELSE handle
  /\ UNCHANGED <<gate, gen, stopSet, call, closes>>

Worker(g) == Load(g) \/ Check(g) \/ Publish(g) \/ WaitFrame(g) \/ CleanUp(g)
StopLocked == Grab \/ Joined \/ JoinTimeout
-----------------------------------------------------------------------------
PlayerNext ==
  \/ AskPlay \/ AskStop \/ OnIdleState \/ Close
  \/ \E b \in Blocker : OnBusyState(b)
  \/ StopLocked
  \/ \E starts \in BOOLEAN : StartWorker(starts)
  \/ \E g \in Generation : Worker(g)

PlayerSpec == PlayerInit /\ [][PlayerNext]_playerVars

(* Threads run: a worker goes on, and so does the operation under way. *)
PlayerFairness ==
  /\ \A g \in Generation : WF_playerVars(Worker(g))
  /\ WF_playerVars(StopLocked)
-----------------------------------------------------------------------------
(* While the runtime says the stop of a blocked epoch, or of its close, is *)
(* complete, no worker can publish another command.  (The stop of          *)
(* bvh_runtime against the worker that is past its last look at the        *)
(* event.)                                                                 *)
StopConfirmedIsSilent ==
  (gate.blocked /\ gate.stopDone) \/ gate.closeDone
    => \A g \in Generation : ~Playing(g)

(* Between operations the refusal of a play can name what blocks it, and   *)
(* only then: the context follows the gate also when the stop failed.      *)
ContextFollowsGate ==
  Free /\ ~gate.closed => (gate.blocked <=> gate.context # Nothing)

(* A gate that stays down is followed by silence, though its stop timed    *)
(* out and though the action loops.                                        *)
BlockedFallsSilent ==
  gate.blocked ~> (~gate.blocked \/ \A g \in Generation : ~Playing(g))
=============================================================================
