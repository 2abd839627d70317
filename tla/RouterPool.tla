------------------------------ MODULE RouterPool ------------------------------
(***************************************************************************)
(* The threads of bus_protocol_router.py.  Its callbacks are all reentrant *)
(* and share the pool of one MultiThreadedExecutor.  Topic callbacks wait  *)
(* for safety_command_lock; a stop and a release keep that lock while they *)
(* call ports and wait for the answers on an event; a read waits the same  *)
(* way without the lock.  An answer sets its event only when a thread of   *)
(* the same pool runs the client callback that received it.                *)
(*                                                                         *)
(* What the calls do to the latches is in DriverSafety.                    *)
(***************************************************************************)
EXTENDS Naturals, FiniteSets

CONSTANTS
  Command,    \* messages for _on_command and _on_driver_safety
  Stop,       \* requests for _handle_execute_command, protocol given
  Release,    \* requests for _handle_driver_safety
  Read,       \* requests for _handle_read_position, runtime probes
  Ports,      \* number of ports a release calls
  Protocols,  \* number of protocols a read tries
  Threads,    \* num_threads of the executor
  Nobody

ASSUME PoolAssumption ==
  /\ \A S, T \in {Command, Stop, Release, Read} : S # T => S \cap T = {}
  /\ IsFiniteSet(Command \cup Stop \cup Release \cup Read)
  /\ Nobody \notin Command \cup Stop \cup Release \cup Read
  /\ Ports \in Nat \ {0} /\ Protocols \in Nat \ {0} /\ Threads \in Nat \ {0}

Call == Stop \cup Release \cup Read
Locker == Command \cup Stop \cup Release
Callback == Command \cup Call

VARIABLES
  at,      \* per callback: how far it is
  lock,    \* holder of safety_command_lock
  left,    \* per call: port calls still to make
  answer   \* per call: the answer to the port call under way

vars == <<at, lock, left, answer>>

PortCalls(c) == IF c \in Release THEN Ports
                ELSE IF c \in Read THEN Protocols ELSE 1

Init ==
  /\ at = [t \in Callback |-> "away"]
  /\ lock = Nobody
  /\ left = [c \in Call |-> PortCalls(c)]
  /\ answer = [c \in Call |-> "none"]

OnThread(t) == at[t] \in {"started", "calling"}
ThreadFree == Cardinality({t \in Callback : OnThread(t)}) < Threads
-----------------------------------------------------------------------------
(* The executor. *)

Arrive(t) ==
  /\ at[t] = "away"
  /\ at' = [at EXCEPT ![t] = "ready"]
  /\ UNCHANGED <<lock, left, answer>>

Start(t) ==
  /\ at[t] = "ready"
  /\ ThreadFree
  /\ at' = [at EXCEPT ![t] = "started"]
  /\ UNCHANGED <<lock, left, answer>>

(* A port answers, or never does. *)
PortAnswers(c) ==
  /\ answer[c] = "due"
  /\ answer' = [answer EXCEPT ![c] = "received"]
  /\ UNCHANGED <<at, lock, left>>

(* The client callback sets the event: done_event.set *)
MarkDone(c) ==
  /\ answer[c] = "received"
  /\ ThreadFree
  /\ answer' = [answer EXCEPT ![c] = "set"]
  /\ UNCHANGED <<at, lock, left>>
-----------------------------------------------------------------------------
(* The callbacks. *)

CanEnter(t) == t \in Locker => lock = Nobody

(* _on_command, _on_driver_safety: nothing in it waits once it has the lock *)
HandleCommand(t) ==
  /\ t \in Command
  /\ at[t] = "started"
  /\ CanEnter(t)
  /\ at' = [at EXCEPT ![t] = "done"]
  /\ UNCHANGED <<lock, left, answer>>

NextCall(c) ==
  /\ left' = [left EXCEPT ![c] = @ - 1]
  /\ answer' = [answer EXCEPT ![c] = "due"]
  /\ UNCHANGED at

Return(c) ==
  /\ at' = [at EXCEPT ![c] = "done"]
  /\ answer' = [answer EXCEPT ![c] = "none"]
  /\ lock' = IF lock = c THEN Nobody ELSE lock
  /\ UNCHANGED left

(* _handle_execute_command, _handle_driver_safety, _handle_read_position *)
BeginCall(c) ==
  /\ at[c] = "started"
  /\ CanEnter(c)
  /\ at' = [at EXCEPT ![c] = "calling"]
  /\ lock' = IF c \in Locker THEN c ELSE lock
  /\ left' = [left EXCEPT ![c] = @ - 1]
  /\ answer' = [answer EXCEPT ![c] = "due"]

(* done_event.wait returns: a release goes on to the next port, a read     *)
(* tries the other protocol if this one failed.                            *)
Answered(c) ==
  /\ at[c] = "calling"
  /\ answer[c] = "set"
  /\ \/ left[c] > 0 /\ NextCall(c) /\ UNCHANGED lock
     \/ c \notin Release /\ Return(c)
     \/ left[c] = 0 /\ Return(c)

(* Mutant: a wait without a timeout. *)
GiveUp_OnlyIfReceived(c) ==
  /\ at[c] = "calling"
  /\ answer[c] = "received"
  /\ IF left[c] > 0 THEN NextCall(c) /\ UNCHANGED lock ELSE Return(c)

(* done_event.wait times out: the answer is as good as none. *)
GiveUp(c) ==
  /\ at[c] = "calling"
  /\ answer[c] # "set"
  /\ IF left[c] > 0 THEN NextCall(c) /\ UNCHANGED lock ELSE Return(c)

CallStep(c) == BeginCall(c) \/ Answered(c) \/ GiveUp(c)

Next ==
  \/ \E t \in Callback : Arrive(t) \/ Start(t) \/ HandleCommand(t)
  \/ \E c \in Call : PortAnswers(c) \/ MarkDone(c) \/ CallStep(c)

Spec == Init /\ [][Next]_vars

(* The pool runs what is ready, the lock goes to a callback that waits for *)
(* it once nobody else takes it, and a wait on an event ends.              *)
PoolFairness ==
  /\ \A t \in Callback : WF_vars(Start(t))
  /\ \A t \in Command : WF_vars(HandleCommand(t))
  /\ \A c \in Call : WF_vars(CallStep(c))

FairSpec == Spec /\ PoolFairness
-----------------------------------------------------------------------------
(* Something other than a timeout can go on. *)
Progress ==
  \/ ThreadFree
  \/ \E t \in Callback : at[t] = "started" /\ CanEnter(t)
  \/ \E c \in Call : answer[c] = "set"

(* The comment at bus_protocol_router.py:133: the callback groups keep     *)
(* service forwarding and command subscriptions from blocking each other;  *)
(* so an answer a port gave in time is not left until the call times out.  *)
ForwardingNotBlocked ==
  \A c \in Call : at[c] = "calling" /\ answer[c] = "received" => Progress

(* Whatever the ports do and however few threads there are, the timeouts   *)
(* bring every callback that arrives to its end, and free the lock.        *)
EveryCallbackEnds ==
  \A t \in Callback : at[t] = "ready" ~> at[t] = "done" /\ lock # t
=============================================================================
