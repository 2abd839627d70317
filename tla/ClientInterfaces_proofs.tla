------------------------ MODULE ClientInterfaces_proofs ------------------------
(***************************************************************************)
(* The two interfaces that clients speak to: the speech interface, for any *)
(* set of intents and any number of threads, and the websocket bridge in   *)
(* front of the arbitrator, for any set of clients and any timeouts and    *)
(* bounds.                                                                 *)
(***************************************************************************)
EXTENDS TeleopBridge, SpeechInterface, CommandArbitrator_proofs

(* Nothing was sent for an intent whose request is not done; a rejection   *)
(* is the end of a request that sent nothing, of a goal that the server    *)
(* refused, or of a task that it ended as rejected.                        *)
IntentsTyped ==
  /\ request \in [Intents -> {"unsaid", "queued", "waiting", "sending", "done"}]
  /\ future \in [Intents -> {"none", "goal", "goal accepted", "goal refused", "result",
                            "result there", "no result", "broken", "over"}]
  /\ status \in [Intents -> Outcome \cup {"none", "accepted", "executing"}]
  /\ task \in [Intents -> {"none", "offered", "running", "refused", "lost"} \cup Outcome]
  /\ served \in BOOLEAN

ToldTruly(i) ==
  /\ request[i] # "done" => future[i] = "none" /\ task[i] = "none"
  /\ future[i] = "goal refused" => task[i] = "refused"
  /\ future[i] = "result there" => task[i] \in Outcome
  /\ status[i] = "rejected" =>
       /\ request[i] = "done"
       /\ \/ future[i] = "none" /\ task[i] = "none"
          \/ future[i] = "over" /\ task[i] \in {"refused", "rejected"}

SpeechInv == IntentsTyped /\ \A i \in Intents : ToldTruly(i)

(* A step of one intent does nothing to the others. *)
LEMMA IntentStep ==
  ASSUME SpeechInv, NEW i \in Intents,
         Say(i) \/ Submission(i) \/ Callbacks(i) \/ Server(i) \/ FutureBreaks(i)
  PROVE  SpeechInv'
<1> USE DEF SpeechInv, IntentsTyped, ToldTruly, PublishStatus, Becomes
<1>1. CASE Say(i)
  BY <1>1 DEF Say
<1>7. CASE ServerFound(i)
  BY <1>7 DEF ServerFound
<1>8. CASE ServerMissing(i)
  BY <1>8 DEF ServerMissing, Unavailable, Outcome
<1>2. CASE RequestCallback(i)
  BY <1>2 DEF RequestCallback, Outcome
<1>3. CASE SendGoal(i)
  <2>1. request[i] = "sending" /\ request' = [request EXCEPT ![i] = "done"] /\ served' = served
    BY <1>3 DEF SendGoal
  <2>2. future[i] = "none" /\ task[i] = "none" /\ status[i] # "rejected"
    BY <2>1
  <2>3. CASE /\ future' = [future EXCEPT ![i] = "goal"] /\ UNCHANGED status
             /\ task' = [task EXCEPT ![i] = "offered"] \/ task' = [task EXCEPT ![i] = "lost"]
    BY <2>1, <2>2, <2>3
  <2>4. CASE status' = [status EXCEPT ![i] = "failed"] /\ UNCHANGED <<future, task>>
    BY <2>1, <2>2, <2>4 DEF Outcome
  <2> QED BY <1>3, <2>3, <2>4 DEF SendGoal
<1>4. CASE GoalResponseCallback(i)
  BY <1>4 DEF GoalResponseCallback, Outcome
<1>5. CASE ResultCallback(i)
  <2>1. /\ future' = [future EXCEPT ![i] = "over"] /\ UNCHANGED <<request, task, served>>
        /\ future[i] \in {"result there", "no result", "broken"}
    BY <1>5 DEF ResultCallback
  <2>2. PICK s \in Outcome :
          /\ status' = [status EXCEPT ![i] = s]
          /\ s = "rejected" => task[i] = "rejected"
    BY <1>5 DEF ResultCallback, Outcome
  <2>3. request[i] = "done"
    BY <2>1
  <2> QED BY <2>1, <2>2, <2>3
<1>6. CASE Server(i) \/ FutureBreaks(i)
  <2>1. UNCHANGED <<request, status, served>>
    BY <1>6 DEF Server, ServerAnswers, ServerEnds, ServerReports, FutureBreaks
  <2>2. CASE ServerAnswers(i)
    BY <2>1, <2>2 DEF ServerAnswers
  <2>3. CASE ServerEnds(i)
    BY <2>1, <2>3 DEF ServerEnds, Outcome
  <2>4. CASE ServerReports(i)
    BY <2>1, <2>4 DEF ServerReports
  <2>5. CASE FutureBreaks(i)
    BY <2>1, <2>5 DEF FutureBreaks
  <2> QED BY <1>6, <2>2, <2>3, <2>4, <2>5 DEF Server
<1> QED
  BY <1>1, <1>2, <1>3, <1>4, <1>5, <1>6, <1>7, <1>8 DEF Submission, Waited, Callbacks

LEMMA SpeechStep == SpeechInv /\ [SpeechNext]_speechVars => SpeechInv'
<1> SUFFICES ASSUME SpeechInv, [SpeechNext]_speechVars PROVE SpeechInv'
  OBVIOUS
<1>1. CASE ServerGoes
  <2>1. /\ served' = FALSE /\ UNCHANGED <<request, future, status>>
        /\ task' \in [Intents -> {"none", "offered", "running", "refused", "lost"} \cup Outcome]
        /\ \A i \in Intents : task'[i] = task[i]
                              \/ (/\ task[i] \in {"offered", "running"} \cup Outcome
                                  /\ task'[i] = "lost"
                                  /\ future[i] \notin {"result there", "over"})
    BY <1>1 DEF ServerGoes, SpeechInv, IntentsTyped
  <2>2. \A i \in Intents : task[i] \in {"none", "refused"} => task'[i] = task[i]
    BY <2>1 DEF Outcome
  <2>3. \A i \in Intents : future[i] = "over" => task'[i] = task[i]
    BY <2>1
  <2> QED
    BY <2>1, <2>2, <2>3 DEF SpeechInv, IntentsTyped, ToldTruly
<1>2. CASE ServerComes \/ UNCHANGED speechVars
  BY <1>2 DEF ServerComes, speechVars, SpeechInv, IntentsTyped, ToldTruly
<1> QED
  BY <1>1, <1>2, IntentStep DEF SpeechNext

(* An intent that was told to be rejected is no task that runs then, or    *)
(* later: it never was, or the server has ended it as rejected itself,     *)
(* however the waits, the callbacks and the coming and going of the task   *)
(* server fall (speech_interface_node.py _goal_response_callback, _result_callback).    *)
THEOREM RejectionsTrue == SpeechSpec => []RejectedNeverRuns
<1>1. SpeechInit => SpeechInv
  BY DEF SpeechInit, Outcome, SpeechInv, IntentsTyped, ToldTruly
<1>2. SpeechInv => RejectedNeverRuns
  BY DEF SpeechInv, ToldTruly, RejectedNeverRuns
<1> QED
  BY <1>1, <1>2, SpeechStep, PTL DEF SpeechSpec
-----------------------------------------------------------------------------
(* The websocket bridge.  What it holds and what is on its way, with leases *)
(* that were issued, for clients that are there; a control message names    *)
(* the connection it came over.                                             *)
Message == [action : {"claim", "keepalive", "release"}, from : Requester,
            requester : Requester, lease : Nat]
View == [holder : Requester \cup {NoName}, lease : Nat]

SessionsHeld ==
  /\ open \subseteq Requester
  /\ session \in [Requester -> Nat]
  /\ \A c \in Requester : session[c] <= issued /\ (session[c] # NoLease => c \in open)

AtWork ==
  loop \in [at : {"idle"}] \cup [at : {"ack"}, who : open]
           \cup [at : {"read"}, left : SUBSET open]
           \cup [at : {"store"}, left : SUBSET open, who : open, match : BOOLEAN]

CachesHeld ==
  /\ latest \in View /\ latest.lease <= issued
  /\ known \in View /\ known.lease <= issued
  /\ passing \in BOOLEAN /\ (passing \/ latest = known)

ControlsOwn ==
  /\ controls \in Seq(Message) /\ Len(controls) <= MaxQueue
  /\ \A n \in 1 .. Len(controls) :
       controls[n].requester = controls[n].from /\ controls[n].lease <= issued

StatesShown ==
  /\ states \in Seq(View) /\ Len(states) <= StateDepth
  /\ \A n \in 1 .. Len(states) : states[n].lease <= issued

BridgeHeld == SessionsHeld /\ AtWork /\ CachesHeld /\ ControlsOwn /\ StatesShown
BridgeInv == IInv /\ teleopLease <= issued /\ BridgeHeld

(* What a step leaves alone stays in order; leases are only ever added. *)
LEMMA Stays ==
  ASSUME BridgeHeld, issued \in Nat, issued' \in Nat, issued <= issued'
  PROVE  /\ UNCHANGED <<open, session>> => SessionsHeld'
         /\ UNCHANGED <<open, loop>> => AtWork'
         /\ UNCHANGED <<latest, known, passing>> => CachesHeld'
         /\ UNCHANGED controls => ControlsOwn'
         /\ UNCHANGED states => StatesShown'
<1> USE DEF BridgeHeld
<1>1. UNCHANGED <<open, session>> => SessionsHeld'
  BY DEF SessionsHeld
<1>2. UNCHANGED <<open, loop>> => AtWork'
  BY DEF AtWork
<1>3. UNCHANGED <<latest, known, passing>> => CachesHeld'
  BY DEF CachesHeld, View
<1>4. UNCHANGED controls => ControlsOwn'
  <2> SUFFICES ASSUME UNCHANGED controls PROVE ControlsOwn'
    OBVIOUS
  <2>1. \A n \in 1 .. Len(controls) : controls[n] \in Message
    BY DEF ControlsOwn
  <2>2. \A n \in 1 .. Len(controls) : controls[n].lease \in Nat
    BY <2>1 DEF Message
  <2> QED BY <2>2 DEF ControlsOwn
<1>5. UNCHANGED states => StatesShown'
  <2> SUFFICES ASSUME UNCHANGED states PROVE StatesShown'
    OBVIOUS
  <2>1. \A n \in 1 .. Len(states) : states[n] \in View
    BY DEF StatesShown
  <2>2. \A n \in 1 .. Len(states) : states[n].lease \in Nat
    BY <2>1 DEF View
  <2> QED BY <2>2 DEF StatesShown
<1> QED
  BY <1>1, <1>2, <1>3, <1>4, <1>5

LEMMA ArbitratorRests ==
  ASSUME BridgeInv, UNCHANGED vars
  PROVE  IInv' /\ teleopLease' <= issued' /\ issued' = issued /\ issued \in Nat
<1>1. IInv'
  BY StepIInv DEF BridgeInv
<1> QED
  BY <1>1 DEF BridgeInv, IInv, TypeOK, vars, teleopVars

LEMMA SentOwn ==
  ASSUME BridgeHeld, NEW c \in Requester, NEW a \in {"claim", "keepalive", "release"},
         SendControl(a, c), issued' = issued, issued \in Nat
  PROVE  ControlsOwn'
<1> DEFINE m == [action |-> a, from |-> c, requester |-> c, lease |-> session[c]]
<1>1. /\ Len(controls) < MaxQueue /\ controls' = Append(controls, m) /\ controls \in Seq(Message)
      /\ m \in Message /\ m.from = m.requester /\ m.lease <= issued
  BY DEF SendControl, BridgeHeld, ControlsOwn, SessionsHeld, Message
<1> HIDE DEF m
<1>2. /\ controls' \in Seq(Message) /\ Len(controls') = Len(controls) + 1
      /\ \A n \in 1 .. Len(controls') : controls'[n] = IF n <= Len(controls) THEN controls[n] ELSE m
  BY <1>1
<1>3. MaxQueue \in Nat
  BY QueueAssumption
<1>4. \A n \in 1 .. Len(controls') :
        controls'[n].requester = controls'[n].from /\ controls'[n].lease <= issued
  BY <1>1, <1>2 DEF BridgeHeld, ControlsOwn
<1> QED
  BY <1>1, <1>2, <1>3, <1>4 DEF ControlsOwn

(* The session of one client is set to no lease or to an issued one. *)
LEMMA SessionSet ==
  ASSUME BridgeHeld, NEW c \in Requester, NEW l \in Nat, issued' = issued, issued \in Nat,
         session' = [session EXCEPT ![c] = l], open' = open,
         l <= issued, l = NoLease \/ c \in open
  PROVE  SessionsHeld'
  BY DEF BridgeHeld, SessionsHeld, NoLease

LEMMA Worker ==
  ASSUME BridgeHeld
  PROVE  /\ loop.at = "ack" => loop.who \in open
         /\ loop.at = "read" => loop.left \in SUBSET open
         /\ loop.at = "store" =>
              loop.who \in open /\ loop.left \in SUBSET open /\ loop.match \in BOOLEAN
  BY DEF BridgeHeld, AtWork

LEMMA LeaseForIssued ==
  ASSUME BridgeHeld, issued \in Nat, NEW c, NEW match \in BOOLEAN
  PROVE  /\ LeaseFor(c, latest, match) \in Nat /\ LeaseFor(c, latest, match) <= issued
         /\ LeaseFor(c, known, match) \in Nat /\ LeaseFor(c, known, match) <= issued
  BY DEF LeaseFor, Active, NoLease, BridgeHeld, CachesHeld, View

LEMMA ClientStep ==
  ASSUME BridgeInv, NEW c \in Requester, Client(c)
  PROVE  BridgeInv'
<1>1. UNCHANGED vars /\ c \in open
  BY DEF Client, Ask, Heartbeat, Reply, StatusQuery, Disconnect
<1>2. /\ IInv' /\ teleopLease' <= issued' /\ issued' = issued /\ issued \in Nat
      /\ BridgeHeld /\ issued <= issued'
  BY <1>1, ArbitratorRests DEF BridgeInv
<1>3. ASSUME NEW a \in {"claim", "release"}, Ask(a, c) PROVE BridgeHeld'
  <2>1. /\ SendControl(a, c) /\ loop' = [at |-> "ack", who |-> c]
        /\ UNCHANGED <<open, session, latest, known, passing, states>>
    BY <1>3 DEF Ask
  <2>2. AtWork'
    BY <1>1, <2>1 DEF AtWork
  <2>3. ControlsOwn'
    BY <1>2, <2>1, SentOwn
  <2> QED BY <1>2, <2>1, <2>2, <2>3, Stays DEF BridgeHeld
<1>4. CASE Heartbeat(c)
  <2>1. /\ SendControl("keepalive", c) \/ UNCHANGED controls
        /\ session' = [session EXCEPT ![c] = NoLease]
        /\ UNCHANGED <<open, loop, latest, known, passing, states>>
    BY <1>4 DEF Heartbeat, Unsynced
  <2>2. ControlsOwn'
    BY <1>2, <2>1, SentOwn, Stays
  <2>3. SessionsHeld'
    BY <1>1, <1>2, <2>1 DEF BridgeHeld, SessionsHeld, NoLease
  <2> QED BY <1>2, <2>1, <2>2, <2>3, Stays DEF BridgeHeld, BridgeInv
<1>5. CASE Reply(c)
  <2>1. /\ session' = [session EXCEPT ![c] = NoLease]
        /\ UNCHANGED <<open, loop, latest, known, passing, controls, states>>
    BY <1>5 DEF Reply, Unsynced, topicVars
  <2>2. SessionsHeld'
    BY <1>1, <1>2, <2>1 DEF BridgeHeld, SessionsHeld, NoLease
  <2> QED BY <1>2, <2>1, <2>2, Stays DEF BridgeHeld, BridgeInv
<1>6. CASE StatusQuery(c)
  <2>1. /\ loop' = [at |-> "read", left |-> {c}]
        /\ UNCHANGED <<open, session, latest, known, passing, controls, states>>
    BY <1>6 DEF StatusQuery, topicVars
  <2>2. AtWork'
    BY <1>1, <2>1 DEF AtWork
  <2> QED BY <1>2, <2>1, <2>2, Stays DEF BridgeHeld, BridgeInv
<1>7. CASE Disconnect(c)
  <2>1. /\ SendControl("release", c) /\ open' = open \ {c} /\ loop = Idle
        /\ session' = [session EXCEPT ![c] = NoLease]
        /\ UNCHANGED <<loop, latest, known, passing, states>>
    BY <1>7 DEF Disconnect
  <2>2. AtWork'
    BY <2>1 DEF AtWork, Idle
  <2>3. ControlsOwn'
    BY <1>2, <2>1, SentOwn
  <2>4. SessionsHeld'
    BY <1>2, <2>1 DEF BridgeHeld, SessionsHeld, NoLease
  <2> QED BY <1>2, <2>1, <2>2, <2>3, <2>4, Stays DEF BridgeHeld, BridgeInv
<1> QED
  BY <1>2, <1>3, <1>4, <1>5, <1>6, <1>7 DEF Client, BridgeInv

LEMMA BridgeThreadStep ==
  ASSUME BridgeInv,
         Acknowledge \/ Broadcast \/ ReadHolder \/ StoreLease \/ TakeState \/ PassState
  PROVE  BridgeInv'
<1>1. UNCHANGED vars
  BY DEF Acknowledge, Broadcast, ReadHolder, StoreLease, TakeState, PassState
<1>2. /\ IInv' /\ teleopLease' <= issued' /\ issued' = issued /\ issued \in Nat
      /\ BridgeHeld /\ issued <= issued' /\ open \subseteq Requester
  BY <1>1, ArbitratorRests DEF BridgeInv, BridgeHeld, SessionsHeld
<1>3. CASE Acknowledge
  <2>1. PICK c, l : /\ c = loop.who /\ l = LeaseFor(c, latest, latest.holder = c)
                    /\ session' = [session EXCEPT ![c] = l]
    BY <1>3 DEF Acknowledge
  <2>2. /\ loop.at = "ack" /\ loop' = Idle
        /\ UNCHANGED <<open, latest, known, passing, controls, states>>
    BY <1>3 DEF Acknowledge, topicVars
  <2>3. c \in open /\ l \in Nat /\ l <= issued
    BY <1>2, <2>1, <2>2, Worker, LeaseForIssued
  <2>4. SessionsHeld'
    BY <1>2, <2>1, <2>2, <2>3, SessionSet
  <2>5. AtWork'
    BY <2>2 DEF AtWork, Idle
  <2> QED BY <1>2, <2>2, <2>4, <2>5, Stays DEF BridgeHeld, BridgeInv
<1>4. CASE Broadcast
  <2>1. /\ loop' = Idle \/ loop' = [at |-> "read", left |-> open]
        /\ UNCHANGED <<open, session, latest, known, passing, controls, states>>
    BY <1>4 DEF Broadcast, topicVars
  <2>2. AtWork'
    BY <2>1 DEF AtWork, Idle
  <2> QED BY <1>2, <2>1, <2>2, Stays DEF BridgeHeld, BridgeInv
<1>5. CASE ReadHolder
  <2>1. PICK c \in loop.left :
          loop' = [at |-> "store", left |-> loop.left \ {c}, who |-> c, match |-> known.holder = c]
    BY <1>5 DEF ReadHolder
  <2>2. loop.at = "read" /\ UNCHANGED <<open, session, latest, known, passing, controls, states>>
    BY <1>5 DEF ReadHolder, topicVars
  <2>3. loop.left \in SUBSET open
    BY <1>2, <2>2, Worker
  <2>4. AtWork'
    BY <2>1, <2>2, <2>3 DEF AtWork
  <2> QED BY <1>2, <2>2, <2>4, Stays DEF BridgeHeld, BridgeInv
<1>6. CASE StoreLease
  <2>1. PICK c, l : /\ c = loop.who /\ l = LeaseFor(c, known, loop.match)
                    /\ session' = [session EXCEPT ![c] = l]
    BY <1>6 DEF StoreLease
  <2>2. /\ loop.at = "store"
        /\ loop' = Idle \/ loop' = [at |-> "read", left |-> loop.left]
        /\ UNCHANGED <<open, latest, known, passing, controls, states>>
    BY <1>6 DEF StoreLease, topicVars
  <2>3. c \in open /\ l \in Nat /\ l <= issued /\ loop.left \in SUBSET open
    BY <1>2, <2>1, <2>2, Worker, LeaseForIssued
  <2>4. SessionsHeld'
    BY <1>2, <2>1, <2>2, <2>3, SessionSet
  <2>5. AtWork'
    BY <2>2, <2>3 DEF AtWork, Idle
  <2> QED BY <1>2, <2>2, <2>4, <2>5, Stays DEF BridgeHeld, BridgeInv
<1>7. CASE TakeState
  <2>1. /\ states # << >> /\ latest' = Head(states) /\ states' = Tail(states) /\ passing' = TRUE
        /\ UNCHANGED <<open, session, loop, known, controls>>
    BY <1>7 DEF TakeState
  <2>2. /\ states \in Seq(View) /\ Len(states) <= StateDepth /\ StateDepth \in Nat
        /\ \A n \in 1 .. Len(states) : states[n].lease <= issued
    BY <1>2, QueueAssumption DEF BridgeHeld, StatesShown
  <2>3. /\ latest' = states[1] /\ 1 \in 1 .. Len(states)
        /\ states' \in Seq(View) /\ Len(states') = Len(states) - 1
        /\ \A n \in 1 .. Len(states') : states'[n] = states[n + 1] /\ n + 1 \in 1 .. Len(states)
    BY <2>1, <2>2
  <2>4. StatesShown'
    BY <1>2, <2>2, <2>3 DEF StatesShown
  <2>5. CachesHeld'
    BY <1>2, <2>1, <2>2, <2>3 DEF BridgeHeld, CachesHeld
  <2> QED BY <1>2, <2>1, <2>4, <2>5, Stays DEF BridgeHeld, BridgeInv
<1>8. CASE PassState
  <2>1. /\ known' = latest /\ passing' = FALSE
        /\ UNCHANGED <<open, session, loop, latest, controls, states>>
    BY <1>8 DEF PassState, topicVars
  <2>2. CachesHeld'
    BY <1>2, <2>1 DEF BridgeHeld, CachesHeld
  <2> QED BY <1>2, <2>1, <2>2, Stays DEF BridgeHeld, BridgeInv
<1> QED
  BY <1>2, <1>3, <1>4, <1>5, <1>6, <1>7, <1>8 DEF BridgeInv

(* A publication adds the present view and, at the depth, drops the oldest. *)
LEMMA PublishedShown ==
  ASSUME BridgeHeld, Published, issued \in Nat, issued' \in Nat, issued <= issued',
         teleopHolder' \in Requester \cup {NoName}, teleopLease' \in Nat, teleopLease' <= issued'
  PROVE  StatesShown'
<1> DEFINE view == [holder |-> teleopHolder', lease |-> teleopLease']
           kept == IF Len(states) = StateDepth THEN Tail(states) ELSE states
<1>1. states' = Append(kept, view) /\ view \in View /\ view.lease <= issued'
  BY DEF Published, View
<1>2. /\ states \in Seq(View) /\ Len(states) <= StateDepth /\ StateDepth \in Nat \ {0}
      /\ \A n \in 1 .. Len(states) : states[n] \in View /\ states[n].lease <= issued
  BY QueueAssumption DEF BridgeHeld, StatesShown
<1>3. \A n \in 1 .. Len(states) : states[n].lease \in Nat
  BY <1>2 DEF View
<1>4. /\ kept \in Seq(View) /\ Len(kept) < StateDepth
      /\ \A n \in 1 .. Len(kept) : \E m \in 1 .. Len(states) : kept[n] = states[m]
  <2>1. CASE Len(states) = StateDepth
    <3>1. /\ kept = Tail(states) /\ kept \in Seq(View) /\ Len(kept) = Len(states) - 1
          /\ \A n \in 1 .. Len(kept) : kept[n] = states[n + 1] /\ n + 1 \in 1 .. Len(states)
      BY <1>2, <2>1
    <3> HIDE DEF kept
    <3> QED BY <1>2, <3>1
  <2>2. CASE Len(states) # StateDepth
    BY <1>2, <2>2
  <2> QED BY <2>1, <2>2
<1> HIDE DEF kept, view
<1>5. /\ states' \in Seq(View) /\ Len(states') = Len(kept) + 1
      /\ \A n \in 1 .. Len(states') : states'[n] = IF n <= Len(kept) THEN kept[n] ELSE view
  BY <1>1, <1>4
<1>6. \A n \in 1 .. Len(kept) : kept[n].lease <= issued'
  BY <1>2, <1>3, <1>4
<1>7. \A n \in 1 .. Len(states') : states'[n].lease <= issued'
  BY <1>1, <1>4, <1>5, <1>6
<1> QED
  BY <1>2, <1>4, <1>5, <1>7 DEF StatesShown

(* The message that is handled is gone from the topic. *)
LEMMA Handled ==
  ASSUME BridgeHeld, controls # << >>, controls' = Tail(controls),
         issued \in Nat, issued' \in Nat, issued <= issued'
  PROVE  /\ ControlsOwn'
         /\ Head(controls) \in Message
         /\ Head(controls).requester = Head(controls).from /\ Head(controls).lease <= issued
<1>1. /\ controls \in Seq(Message) /\ Len(controls) <= MaxQueue /\ MaxQueue \in Nat
      /\ \A n \in 1 .. Len(controls) :
           /\ controls[n].requester = controls[n].from /\ controls[n].lease <= issued
           /\ controls[n] \in Message
  BY QueueAssumption DEF BridgeHeld, ControlsOwn
<1>2. \A n \in 1 .. Len(controls) : controls[n].lease \in Nat
  BY <1>1 DEF Message
<1>3. /\ controls' \in Seq(Message) /\ Len(controls') = Len(controls) - 1
      /\ \A n \in 1 .. Len(controls') : controls'[n] = controls[n + 1] /\ n + 1 \in 1 .. Len(controls)
      /\ Head(controls) = controls[1] /\ 1 \in 1 .. Len(controls)
  BY <1>1
<1> QED
  BY <1>1, <1>2, <1>3 DEF ControlsOwn

(* The steps of the execution manager are steps of the arbitrator; a lease *)
(* they show was issued.                                                   *)
LEMMA ManagerCalls ==
  ASSUME BridgeInv, HandleControl \/ StateTimer \/ Preempted \/ TimePasses
  PROVE  /\ Next /\ issued' \in Nat /\ issued <= issued'
         /\ teleopLease' <= issued'
<1>1. /\ issued \in Nat /\ teleopLease \in Nat /\ teleopLease <= issued /\ BridgeHeld
  BY DEF BridgeInv, IInv, TypeOK
<1>2. ASSUME issued' = issued, teleopLease' \in {teleopLease, NoLease}
      PROVE  issued' \in Nat /\ issued <= issued' /\ teleopLease' <= issued'
  BY <1>1, <1>2 DEF NoLease
<1>3. TeleopSettles => teleopLease' \in {teleopLease, NoLease}
  BY DEF TeleopSettles, TeleopCleared, teleopVars
<1>4. CASE Refresh
  BY <1>2, <1>3, <1>4 DEF Refresh, Next
<1>5. CASE HandleControl
  <2> DEFINE m == Head(controls)
  <2>1. m \in Message /\ m.lease <= issued
    <3>1. controls # << >> /\ controls' = Tail(controls)
      BY <1>5 DEF HandleControl
    <3>2. /\ controls \in Seq(Message) /\ m = controls[1] /\ 1 \in 1 .. Len(controls)
          /\ \A n \in 1 .. Len(controls) : controls[n].lease <= issued
      BY <1>1, <3>1 DEF BridgeHeld, ControlsOwn
    <3> QED BY <3>2
  <2>2. m.requester \in Requester /\ m.lease \in Presented
    BY <1>1, <2>1 DEF Message, Presented, NoLease
  <2>3. \/ Refresh
        \/ TeleopClaim(m.requester)
        \/ TeleopKeepalive(m.requester, m.lease) \/ TeleopRelease(m.requester, m.lease)
    BY <1>5, <2>1 DEF HandleControl, Message
  <2>4. PICK r, l : r = m.requester /\ l = m.lease
    OBVIOUS
  <2>5. CASE TeleopClaim(r)
    <3>1. \/ issued' = issued /\ teleopLease' = teleopLease
          \/ issued' = issued + 1 /\ teleopLease' = issued + 1
      BY <2>5 DEF TeleopClaim
    <3> QED BY <1>1, <2>2, <2>4, <2>5, <3>1 DEF Next, TeleopNext
  <2>6. CASE TeleopKeepalive(r, l) \/ TeleopRelease(r, l)
    <3>1. issued' = issued /\ teleopLease' \in {teleopLease, NoLease}
      BY <2>6 DEF TeleopKeepalive, TeleopRelease, TeleopCleared
    <3> QED BY <1>2, <2>2, <2>4, <2>6, <3>1 DEF Next, TeleopNext
  <2> QED BY <1>4, <2>3, <2>4, <2>5, <2>6
<1>6. CASE StateTimer
  BY <1>4, <1>6 DEF StateTimer
<1>7. CASE Preempted
  <2>1. ASSUME NEW r \in StopReason, SetEstop(r)
        PROVE  Next /\ issued' = issued /\ teleopLease' \in {teleopLease, NoLease}
    BY <2>1 DEF SetEstop, TeleopCleared, Next
  <2>2. CASE ClearEstop
    BY <1>2, <1>3, <2>2 DEF ClearEstop, Next
  <2> QED BY <1>2, <1>7, <2>1, <2>2 DEF Preempted
<1>8. CASE TimePasses
  BY <1>2, <1>8 DEF TimePasses, Tick, Next
<1> QED
  BY <1>5, <1>6, <1>7, <1>8

LEMMA BridgeStep == BridgeInv /\ [BridgeNext]_teleopBridgeVars => BridgeInv'
<1> SUFFICES ASSUME BridgeInv, [BridgeNext]_teleopBridgeVars PROVE BridgeInv'
  OBVIOUS
<1>1. ASSUME NEW c \in Requester, Client(c) PROVE BridgeInv'
  BY <1>1, ClientStep
<1>2. CASE Acknowledge \/ Broadcast \/ ReadHolder \/ StoreLease \/ TakeState \/ PassState
  BY <1>2, BridgeThreadStep
<1>3. CASE HandleControl \/ StateTimer \/ Preempted \/ TimePasses
  <2>1. /\ Next /\ issued' \in Nat /\ issued <= issued' /\ issued \in Nat
        /\ teleopLease' <= issued' /\ BridgeHeld
    BY <1>3, ManagerCalls DEF BridgeInv, IInv, TypeOK
  <2>2. IInv'
    BY <2>1, StepIInv DEF BridgeInv
  <2>3. /\ UNCHANGED <<open, session, loop, latest, known, passing>>
        /\ Published \/ UNCHANGED states
        /\ (controls # << >> /\ controls' = Tail(controls)) \/ UNCHANGED controls
    BY <1>3 DEF HandleControl, StateTimer, Preempted, TimePasses, bridgeVars, topicVars
  <2>4. StatesShown'
    BY <2>1, <2>2, <2>3, PublishedShown, Stays DEF IInv, TypeOK
  <2>5. ControlsOwn'
    BY <2>1, <2>3, Handled, Stays
  <2>6. SessionsHeld' /\ AtWork' /\ CachesHeld'
    BY <2>1, <2>3, Stays
  <2> QED BY <2>1, <2>2, <2>4, <2>5, <2>6 DEF BridgeInv, BridgeHeld
<1>4. CASE UNCHANGED teleopBridgeVars
  <2>1. /\ UNCHANGED vars
        /\ UNCHANGED <<open, session, loop, latest, known, passing, controls, states>>
    BY <1>4 DEF teleopBridgeVars, bridgeVars, topicVars
  <2>2. /\ IInv' /\ teleopLease' <= issued' /\ issued' = issued /\ issued \in Nat
        /\ BridgeHeld /\ issued <= issued'
    BY <2>1, ArbitratorRests DEF BridgeInv
  <2> QED BY <2>1, <2>2, Stays DEF BridgeInv, BridgeHeld
<1> QED
  BY <1>1, <1>2, <1>3, <1>4 DEF BridgeNext

LEMMA BridgeInvariance == BridgeSpec => []BridgeInv
<1>1. BridgeInit => BridgeInv
  <2> SUFFICES ASSUME BridgeInit PROVE BridgeInv
    OBVIOUS
  <2>1. IInv /\ teleopLease = 0 /\ issued = 0
    BY InitIInv DEF BridgeInit, Init, NoLease
  <2>2. SessionsHeld /\ AtWork
    BY <2>1 DEF BridgeInit, SessionsHeld, AtWork, Idle, NoLease
  <2>3. CachesHeld
    <3>1. NoState \in View /\ NoState.lease = 0
      BY DEF NoState, View, NoLease
    <3>2. latest = NoState /\ known = NoState /\ passing = FALSE
      BY DEF BridgeInit
    <3>3. latest.lease <= issued /\ known.lease <= issued
      BY <2>1, <3>1, <3>2
    <3> QED BY <3>1, <3>2, <3>3 DEF CachesHeld
  <2>4. ControlsOwn /\ StatesShown
    BY QueueAssumption DEF BridgeInit, ControlsOwn, StatesShown
  <2> QED BY <2>1, <2>2, <2>3, <2>4 DEF BridgeInv, BridgeHeld
<1> QED
  BY <1>1, BridgeStep, PTL DEF BridgeSpec

(* Sessions, caches and topics keep their types; only an open session      *)
(* holds a lease, and none that was not issued (ws_server.py, bridge_node  *)
(* .py).                                                                   *)
THEOREM BridgeTypeCorrect == BridgeSpec => []BridgeTypeOK
<1>1. BridgeInv => BridgeTypeOK
  <2> SUFFICES ASSUME BridgeInv PROVE BridgeTypeOK
    OBVIOUS
  <2>1. BridgeHeld /\ issued \in Nat
    BY DEF BridgeInv, IInv, TypeOK
  <2>2. /\ open \subseteq Requester /\ session \in [Requester -> 0 .. issued]
        /\ \A c \in Requester : session[c] # NoLease => c \in open
    BY <2>1 DEF BridgeHeld, SessionsHeld
  <2>3. loop.at \in {"idle", "ack", "read", "store"}
    BY <2>1 DEF BridgeHeld, AtWork
  <2>4. /\ {latest, known} \subseteq [holder : Requester \cup {NoName}, lease : 0 .. issued]
        /\ passing \/ latest = known
    BY <2>1 DEF BridgeHeld, CachesHeld, View
  <2>5. Range(states) \subseteq [holder : Requester \cup {NoName}, lease : 0 .. issued]
    <3>1. /\ DOMAIN states = 1 .. Len(states)
          /\ \A n \in 1 .. Len(states) : states[n] \in View /\ states[n].lease <= issued
      BY <2>1 DEF BridgeHeld, StatesShown
    <3>2. \A v \in View : v.lease <= issued => v \in [holder : Requester \cup {NoName}, lease : 0 .. issued]
      BY <2>1 DEF View
    <3> QED BY <3>1, <3>2 DEF Range
  <2>6. Len(controls) <= MaxQueue /\ Len(states) <= StateDepth
    BY <2>1 DEF BridgeHeld, ControlsOwn, StatesShown
  <2> QED BY <2>2, <2>3, <2>4, <2>5, <2>6 DEF BridgeTypeOK
<1> QED
  BY <1>1, BridgeInvariance, PTL

(* A held session is renewed or ended by a message only if that came over  *)
(* the connection of its holder, whatever the two caches show and however  *)
(* late it is handled (bridge_node.py, execution_manager_node.py           *)
(* _handle_teleop_control).                                                *)
THEOREM OwnMessages == BridgeSpec => OwnMessagesOnly
<1> DEFINE Own == TeleopHeld /\ controls' # controls /\ Len(controls') < Len(controls)
                    /\ (teleopAge' # teleopAge \/ teleopLease' # teleopLease)
                  => Head(controls).from = teleopHolder
<1>1. ASSUME BridgeInv, BridgeNext PROVE Own
  <2> SUFFICES ASSUME TeleopHeld, Len(controls') < Len(controls),
                      teleopAge' # teleopAge \/ teleopLease' # teleopLease
               PROVE  Head(controls).from = teleopHolder
    OBVIOUS
  <2>1. CASE HandleControl
    <3>1. /\ Head(controls) \in Message /\ Head(controls).requester = Head(controls).from
      <4>1. controls # << >> /\ controls \in Seq(Message)
        BY <1>1, <2>1 DEF HandleControl, BridgeInv, BridgeHeld, ControlsOwn
      <4>2. Head(controls) = controls[1] /\ 1 \in 1 .. Len(controls) /\ controls[1] \in Message
        BY <4>1
      <4> QED BY <1>1, <4>2 DEF BridgeInv, BridgeHeld, ControlsOwn
    <3>2. ~Refresh
      <4>1. ~TeleopExpired
        BY BoundsAssumption DEF TeleopHeld, TeleopExpired
      <4> QED BY <4>1 DEF Refresh, TeleopSettles, teleopVars
    <3>3. \/ TeleopClaim(Head(controls).requester)
          \/ TeleopKeepalive(Head(controls).requester, Head(controls).lease)
          \/ TeleopRelease(Head(controls).requester, Head(controls).lease)
      BY <2>1, <3>1, <3>2 DEF HandleControl, Message
    <3> QED BY <3>1, <3>3 DEF TeleopClaim, TeleopKeepalive, TeleopRelease, TeleopPermitted
  <2>2. CASE ~HandleControl
    <3>1. controls' = controls \/ \E m : controls' = Append(controls, m)
      BY <1>1, <2>2 DEF BridgeNext, Client, Ask, Heartbeat, Reply, StatusQuery, Disconnect, SendControl,
         Acknowledge, Broadcast, ReadHolder, StoreLease, TakeState, PassState, StateTimer, Preempted,
         TimePasses, topicVars
    <3>2. controls \in Seq(Message)
      BY <1>1 DEF BridgeInv, BridgeHeld, ControlsOwn
    <3> QED BY <3>1, <3>2
  <2> QED BY <2>1, <2>2
<1>2. BridgeInv /\ [BridgeNext]_teleopBridgeVars => [Own]_teleopBridgeVars
  BY <1>1
<1> QED
  BY <1>2, BridgeInvariance, PTL DEF BridgeSpec, OwnMessagesOnly

(* Behind the bridge the arbitrator behaves as it does alone: whatever     *)
(* connections, caches and late messages make of it, every step is one of  *)
(* its own, so that each of its properties holds there too.                *)
THEOREM BridgeArbitrates == BridgeSpec => Spec
<1>1. BridgeInit => Init
  BY DEF BridgeInit
<1>2. BridgeInv /\ [BridgeNext]_teleopBridgeVars => [Next]_vars
  <2> SUFFICES ASSUME BridgeInv, [BridgeNext]_teleopBridgeVars PROVE [Next]_vars
    OBVIOUS
  <2>1. CASE HandleControl \/ StateTimer \/ Preempted \/ TimePasses
    BY <2>1, ManagerCalls
  <2>2. CASE \/ \E c \in Requester : Client(c)
             \/ Acknowledge \/ Broadcast \/ ReadHolder \/ StoreLease \/ TakeState \/ PassState
    BY <2>2 DEF Client, Ask, Heartbeat, Reply, StatusQuery, Disconnect, Acknowledge, Broadcast,
       ReadHolder, StoreLease, TakeState, PassState
  <2>3. CASE UNCHANGED teleopBridgeVars
    BY <2>3 DEF teleopBridgeVars
  <2> QED BY <2>1, <2>2, <2>3 DEF BridgeNext
<1> QED
  BY <1>1, <1>2, BridgeInvariance, PTL DEF BridgeSpec, Spec

(* The promise of the execution layer, kept with the bridge in front.      *)
THEOREM BridgeKeepsAuthority == BridgeSpec => ImplementsAuthority
  BY BridgeArbitrates, AuthorityImplemented, PTL
=============================================================================
