----------------------------- MODULE TeleopBridge -----------------------------
(***************************************************************************)
(* The teleoperation websocket bridge (bridge_node.py, ws_server.py,       *)
(* websocket_handler.py) in front of the arbitrator.                       *)
(*                                                                         *)
(* Clients talk to an asyncio thread, which publishes teleop control and   *)
(* commands; the execution manager handles them and publishes states; a    *)
(* ROS thread stores each state, first in the bridge (latest), then in the *)
(* handler (known), and schedules a broadcast on the asyncio thread.  A    *)
(* client is a connection: its uuid is its requester id.  All clients are  *)
(* connected when a behaviour begins, with an empty session each, and one  *)
(* that comes back is another client.                                      *)
(*                                                                         *)
(* The asyncio thread runs one coroutine at a time, up to an await that    *)
(* really waits, which is the send of the reply; the ROS thread can come   *)
(* between any two of its reads.                                           *)
(***************************************************************************)
EXTENDS CommandArbitrator, SequencesExt

CONSTANTS
  MaxQueue,    \* bound on the control messages under way
  StateDepth   \* depth of the subscription to /execution/state

ASSUME QueueAssumption == MaxQueue \in Nat \ {0} /\ StateDepth \in Nat \ {0}

VARIABLES
  open,      \* connected clients
  session,   \* per client: teleop_lease_id of its client_info
  loop,      \* what the asyncio thread is in the middle of
  castDue,   \* a scheduled broadcast of an execution state
  latest,    \* bridge.latest_execution_state
  known,     \* handler.execution_state
  passing,   \* the ROS thread is between the two
  controls,  \* /execution/teleop/control
  states     \* /execution/state

bridgeVars == <<open, session, loop, castDue, latest, known, passing>>
topicVars == <<controls, states>>
teleopBridgeVars == <<vars, bridgeVars, topicVars>>

NoState == [holder |-> NoName, lease |-> NoLease]
Active(s) == s.lease # NoLease
Idle == [at |-> "idle"]

Claims == Cardinality({n \in DOMAIN controls : controls[n].action = "claim"})

BridgeInit ==
  /\ Init
  /\ open = Requester
  /\ session = [c \in Requester |-> NoLease]
  /\ loop = Idle
  /\ castDue = FALSE
  /\ latest = NoState
  /\ known = NoState
  /\ passing = FALSE
  /\ controls = << >>
  /\ states = << >>
-----------------------------------------------------------------------------
(* Messages of the clients, on the asyncio thread. *)

(* A message names its sender's connection; `from` is where it came from. *)
SendControl(a, c) ==
  /\ Len(controls) < MaxQueue
  /\ controls' = Append(controls, [action |-> a, from |-> c, requester |-> c,
                                   lease |-> session[c]])

(* _sync_client_teleop_lease *)
LeaseFor(c, s, match) == IF match /\ Active(s) THEN s.lease ELSE NoLease

(* What a reply without lease fields does to the session it is sent to. *)
Unsynced(c) == session' = [session EXCEPT ![c] = NoLease]

(* Claim and release are published, then acknowledged from latest. *)
Ask(a, c) ==
  /\ loop = Idle
  /\ c \in open
  /\ a = "claim" => issued + Claims < MaxLeases
  /\ SendControl(a, c)
  /\ loop' = [at |-> "ack", who |-> c]
  /\ UNCHANGED <<vars, open, session, castDue, latest, known, passing, states>>

Acknowledge ==
  /\ loop.at = "ack"
  /\ LET c == loop.who IN
     session' = [session EXCEPT ![c] = LeaseFor(c, latest, latest.holder = c)]
  /\ loop' = Idle
  /\ UNCHANGED <<vars, open, castDue, latest, known, passing, topicVars>>

(* A keepalive is sent in the name of the holder that latest shows. *)
Heartbeat_ForHolder(c) ==
  /\ loop = Idle
  /\ c \in open
  /\ IF Active(latest)
     THEN /\ Len(controls) < MaxQueue
          /\ controls' = Append(controls,
               [action |-> "keepalive", from |-> c, requester |-> latest.holder,
                lease |-> session[c]])
     ELSE UNCHANGED controls
  /\ Unsynced(c)
  /\ UNCHANGED <<vars, open, loop, castDue, latest, known, passing, states>>

(* A heartbeat renews what latest shows as held; its reply has no lease. *)
Heartbeat(c) ==
  /\ loop = Idle
  /\ c \in open
  /\ IF Active(latest) THEN SendControl("keepalive", c) ELSE UNCHANGED controls
  /\ Unsynced(c)
  /\ UNCHANGED <<vars, open, loop, castDue, latest, known, passing, states>>

(* _ensure_teleop_command_allowed *)
CommandAllowed(c) ==
  Active(latest) /\ latest.holder = c /\ latest.lease = session[c]

(* Every other message the handler replies to: a command whose type is     *)
(* inferred, a BVH request.  Commands change nothing here; one of type     *)
(* servo_control is answered by the server itself, without a sync.         *)
Reply(c) ==
  /\ loop = Idle
  /\ c \in open
  /\ Unsynced(c)
  /\ UNCHANGED <<vars, open, loop, castDue, latest, known, passing, topicVars>>

(* status_query, and the broadcast of a state to all clients, read known.  *)
StatusQuery(c) ==
  /\ loop = Idle
  /\ c \in open
  /\ loop' = [at |-> "read", left |-> {c}]
  /\ UNCHANGED <<vars, open, session, castDue, latest, known, passing, topicVars>>

Broadcast ==
  /\ loop = Idle
  /\ castDue
  /\ castDue' = FALSE
  /\ loop' = IF open = {} THEN Idle ELSE [at |-> "read", left |-> open]
  /\ UNCHANGED <<vars, open, session, latest, known, passing, topicVars>>

(* get_requester_teleop_status reads the holder, then the lease.           *)
ReadHolder ==
  /\ loop.at = "read"
  /\ \E c \in loop.left :
       loop' = [at |-> "store", left |-> loop.left \ {c}, who |-> c,
                match |-> known.holder = c]
  /\ UNCHANGED <<vars, open, session, castDue, latest, known, passing, topicVars>>

StoreLease ==
  /\ loop.at = "store"
  /\ session' = [session EXCEPT ![loop.who] =
                   LeaseFor(loop.who, known, loop.match)]
  /\ loop' = IF loop.left = {} THEN Idle
             ELSE [at |-> "read", left |-> loop.left]
  /\ UNCHANGED <<vars, open, castDue, latest, known, passing, topicVars>>

(* The connection ends: a release is published, the session is dropped. *)
Disconnect(c) ==
  /\ loop = Idle
  /\ c \in open
  /\ SendControl("release", c)
  /\ open' = open \ {c}
  /\ session' = [session EXCEPT ![c] = NoLease]
  /\ UNCHANGED <<vars, loop, castDue, latest, known, passing, states>>

Client(c) ==
  \/ Heartbeat(c) \/ Reply(c) \/ StatusQuery(c) \/ Disconnect(c)
  \/ \E a \in {"claim", "release"} : Ask(a, c)
-----------------------------------------------------------------------------
(* The ROS thread: execution_state_callback. *)

TakeState ==
  /\ ~passing
  /\ states # << >>
  /\ latest' = Head(states)
  /\ states' = Tail(states)
  /\ passing' = TRUE
  /\ UNCHANGED <<vars, open, session, loop, castDue, known, controls>>

(* A state is only broadcast if it shows another holder or lease. *)
PassState_OnlyChanges ==
  /\ passing
  /\ known' = latest
  /\ castDue' = (castDue \/ known # latest)
  /\ passing' = FALSE
  /\ UNCHANGED <<vars, open, session, loop, latest, topicVars>>

(* Every state has its own stamp, so it always counts as changed. *)
PassState ==
  /\ passing
  /\ known' = latest
  /\ castDue' = TRUE
  /\ passing' = FALSE
  /\ UNCHANGED <<vars, open, session, loop, latest, topicVars>>
-----------------------------------------------------------------------------
(* The execution manager: one arbitrator call, then a publication. *)

Published ==
  LET view == [holder |-> teleopHolder', lease |-> teleopLease']
      kept == IF Len(states) = StateDepth THEN Tail(states) ELSE states
  IN states' = Append(kept, view)

TeleopClaimable(r) ==
  ~estop /\ ~TaskHeld /\ (TeleopHeld => r = teleopHolder)

HandleControl ==
  /\ controls # << >>
  /\ LET m == Head(controls) IN
     CASE m.action = "claim" ->
            IF TeleopClaimable(m.requester) THEN TeleopClaim(m.requester)
            ELSE Refresh
       [] m.action = "keepalive" ->
            IF TeleopPermitted(m.requester, m.lease)
            THEN TeleopKeepalive(m.requester, m.lease) ELSE Refresh
       [] m.action = "release" ->
            IF TeleopPermitted(m.requester, m.lease)
            THEN TeleopRelease(m.requester, m.lease) ELSE Refresh
  /\ controls' = Tail(controls)
  /\ Published
  /\ UNCHANGED bridgeVars

StateTimer ==
  /\ Refresh
  /\ Published
  /\ UNCHANGED <<bridgeVars, controls>>

(* An estop comes and goes; a task that starts takes teleop away the same. *)
Preempted ==
  /\ \/ \E r \in StopReason : ~estop /\ SetEstop(r)
     \/ estop /\ ClearEstop
  /\ Published
  /\ UNCHANGED <<bridgeVars, controls>>

TimePasses == Tick /\ UNCHANGED <<bridgeVars, topicVars>>
-----------------------------------------------------------------------------
BridgeNext ==
  \/ \E c \in Requester : Client(c)
  \/ Acknowledge \/ Broadcast \/ ReadHolder \/ StoreLease
  \/ TakeState \/ PassState
  \/ HandleControl \/ StateTimer
  \/ Preempted
  \/ TimePasses

BridgeSpec == BridgeInit /\ [][BridgeNext]_teleopBridgeVars

(* The threads and the state timer run, topics deliver, time passes.       *)
(* Clients owe nothing.                                                    *)
BridgeFairness ==
  /\ WF_teleopBridgeVars(HandleControl)
  /\ WF_teleopBridgeVars(StateTimer)
  /\ WF_teleopBridgeVars(TimePasses)
  /\ WF_teleopBridgeVars(TakeState)
  /\ WF_teleopBridgeVars(PassState)
  /\ WF_teleopBridgeVars(Acknowledge \/ ReadHolder \/ StoreLease)
  /\ SF_teleopBridgeVars(Broadcast)

BridgeFairSpec == BridgeSpec /\ BridgeFairness
-----------------------------------------------------------------------------
(* Types; only an open session holds a lease, and only an issued one.      *)
BridgeTypeOK ==
  /\ open \subseteq Requester
  /\ session \in [Requester -> 0 .. issued]
  /\ \A c \in Requester : session[c] # NoLease => c \in open
  /\ loop.at \in {"idle", "ack", "read", "store"}
  /\ {latest, known} \cup Range(states)
       \subseteq [holder : Requester \cup {NoName}, lease : 0 .. issued]
  /\ passing \/ latest = known
  /\ Len(controls) <= MaxQueue
  /\ Len(states) <= StateDepth

(* A control message renews or ends a session that is held only if it came *)
(* over the holder's own connection, whatever the caches say and however   *)
(* late it is handled.                                                     *)
OwnMessagesOnly ==
  [][TeleopHeld /\ controls' # controls /\ Len(controls') < Len(controls)
       /\ (teleopAge' # teleopAge \/ teleopLease' # teleopLease)
     => Head(controls).from = teleopHolder]_teleopBridgeVars

(* A client that disconnected does not keep the robot, also when its       *)
(* release carried a lease of an earlier session and was refused, and      *)
(* whatever the clients that stay do.                                      *)
GoneLosesControl ==
  \A c \in Requester :
    c \notin open /\ teleopHolder = c ~> teleopHolder # c

(* A client that holds control and stays gets its commands through the     *)
(* bridge, although every reply that has no lease in it takes the lease    *)
(* away that they need.                                                    *)
Holds(c) == c \in open /\ TeleopHeld /\ teleopHolder = c
HolderMayCommand == \A c \in Requester : Holds(c) ~> ~Holds(c) \/ CommandAllowed(c)

(* A confirmed lease stays with its connection while the state it was      *)
(* confirmed by is still the one the bridge knows.                         *)
ConfirmedLeaseKept ==
  [][\A c \in Requester :
       c \in open /\ session[c] # NoLease
         /\ latest = [holder |-> c, lease |-> session[c]]
         /\ known = latest /\ UNCHANGED <<open, latest, known>>
       => session'[c] = session[c]]_teleopBridgeVars
=============================================================================
