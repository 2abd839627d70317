--------------------------- MODULE BusServos_proofs ---------------------------
(***************************************************************************)
(* Two components of the bus servos.  The protocol registry, for every set *)
(* of servos, every manual map and every ranges map, and however often the *)
(* router dies: what it saves it keeps, and a servo that nobody            *)
(* misdescribed is commanded in a protocol it does not speak only after a  *)
(* client's command was written to it in that one without an answer.  The  *)
(* serial line, for every request: the position a servo was sent to is     *)
(* shown, when it is read, as what the client asked for.                   *)
(***************************************************************************)
EXTENDS ProtocolProbe, PortSerial, SequenceTheorems, TLAPS

Spoken == {"lx", "zl"}
Entry == Spoken \cup {Unknown}
Registry == [Servo -> Entry]

(* What may be entered for a servo: what it answers in, and what it was    *)
(* written to in without an answer.                                        *)
Grounds(s) == {Speaks[s]} \cup blind[s]

(* A registry that holds nothing without grounds. *)
Truthful(r) == r \in Registry /\ \A s \in Servo : r[s] \in {Unknown} \cup Grounds(s)

(* Registry r has lost nothing of registry q. *)
Keeps(r, q) == \A s \in Servo : q[s] # Unknown => r[s] # Unknown

(* In memory, in the file and in the file being written. *)
OnlyGrounded ==
  /\ Truthful(cache)
  /\ file # NoFile => Truthful(file)
  /\ temp # NoFile => Truthful(temp)

(* A running router knows all that the file says and all that it is about  *)
(* to put in its place, which says all that the file says; a router that   *)
(* is down neither calls nor writes.                                       *)
NothingLost ==
  /\ phase # "down" /\ file # NoFile => Keeps(cache, file)
  /\ temp # NoFile => /\ phase # "down"
                      /\ Keeps(cache, temp)
                      /\ file # NoFile => Keeps(temp, file)
Quiet == phase = "down" => calls = {}

(* A call that is done has the grounds for its entry. *)
Call == [servo : Servo, client : BOOLEAN, answers : BOOLEAN,
         left : Seq(Spoken), step : {"asking", "done", "saving"}]
CallsGrounded ==
  /\ calls \subseteq Call
  /\ \A c \in calls : c.step = "done" => c.left # << >> /\ Head(c.left) \in Grounds(c.servo)
QueueTyped == queue \in Seq(Servo)
BlindTyped == blind \in [Servo -> SUBSET Spoken]
RoutesTyped == routed \subseteq Servo \X Entry

ProbeInv ==
  /\ OnlyGrounded /\ NothingLost /\ Quiet
  /\ CallsGrounded /\ QueueTyped /\ BlindTyped /\ RoutesTyped /\ NeverMisrouted
-----------------------------------------------------------------------------
(* One entry more, and that one with grounds. *)
LEMMA GroundsEntered ==
  ASSUME NEW r, Truthful(r), NEW s \in Servo, NEW protocol \in Spoken,
         protocol \in Grounds(s)
  PROVE  /\ Truthful([r EXCEPT ![s] = protocol])
         /\ \A q : Truthful(q) /\ Keeps(r, q) => Keeps([r EXCEPT ![s] = protocol], q)
<1> DEFINE new == [r EXCEPT ![s] = protocol]
<1>1. new \in Registry
  BY DEF Truthful, Registry, Entry
<1>2. \A t \in Servo : new[t] = (IF t = s THEN protocol ELSE r[t])
  BY DEF Truthful, Registry
<1>3. Truthful(new)
  BY <1>1, <1>2 DEF Truthful
<1>4. ASSUME NEW q, Truthful(q), Keeps(r, q) PROVE Keeps(new, q)
  <2>1. protocol # Unknown
    BY DEF Spoken, Unknown
  <2> QED
    BY <1>2, <1>4, <2>1 DEF Keeps
<1> QED
  BY <1>3, <1>4

(* Grounds are never withdrawn. *)
LEMMA GroundsStay ==
  ASSUME ProbeInv, \A s \in Servo : blind[s] \subseteq blind'[s],
         UNCHANGED <<cache, file, temp, routed>>
  PROVE  OnlyGrounded' /\ NeverMisrouted'
<1>1. \A s \in Servo : Grounds(s) \subseteq Grounds(s)'
  BY DEF Grounds
<1>2. \A r : Truthful(r) => r \in Registry /\ \A s \in Servo : r[s] \in {Unknown} \cup Grounds(s)'
  BY <1>1 DEF Truthful
<1>3. OnlyGrounded'
  BY <1>2 DEF OnlyGrounded, Truthful, ProbeInv
<1>4. NeverMisrouted'
  BY DEF NeverMisrouted, WellDescribed, ProbeInv, RoutesTyped
<1> QED
  BY <1>3, <1>4

(* The registry a router starts with that finds no file. *)
LEMMA EmptyTruthful == Truthful(Empty)
  BY DEF Truthful, Registry, Entry, Empty

(* get_protocol never names a protocol that a well described servo does    *)
(* not speak, but on the grounds of a command nobody answered.             *)
LEMMA ProtocolRight ==
  ASSUME Truthful(cache), NEW s \in Servo
  PROVE  /\ Protocol(s) \in Entry
         /\ WellDescribed(s) => Protocol(s) \in {Unknown} \cup Grounds(s)
<1>1. Manual[s] \in Entry /\ InRange[s] \in Entry /\ Speaks[s] # Unknown
  BY ProbeAssumption DEF Entry, Spoken, Unknown
<1>2. cache[s] \in Entry /\ cache[s] \in {Unknown} \cup Grounds(s)
  BY DEF Truthful, Registry
<1>3. CASE Manual[s] # Unknown
  <2>1. Protocol(s) = Manual[s]
    BY <1>3 DEF Protocol
  <2> QED
    BY <1>1, <1>3, <2>1 DEF WellDescribed, Grounds
<1>4. CASE Manual[s] = Unknown /\ cache[s] # Unknown
  <2>1. Protocol(s) = cache[s]
    BY <1>4 DEF Protocol
  <2> QED
    BY <1>2, <2>1
<1>5. CASE Manual[s] = Unknown /\ cache[s] = Unknown
  <2>1. Protocol(s) = InRange[s]
    BY <1>5 DEF Protocol
  <2> QED
    BY <1>1, <1>5, <2>1 DEF WellDescribed, Grounds
<1> QED
  BY <1>3, <1>4, <1>5

LEMMA ProbeInit == Init => ProbeInv
<1> SUFFICES ASSUME Init PROVE ProbeInv
  OBVIOUS
<1>1. Truthful(cache)
  BY EmptyTruthful DEF Init
<1>2. OnlyGrounded /\ NothingLost /\ Quiet
  BY <1>1 DEF Init, OnlyGrounded, NothingLost, Quiet
<1>3. CallsGrounded /\ BlindTyped /\ RoutesTyped /\ NeverMisrouted
  BY DEF Init, CallsGrounded, BlindTyped, RoutesTyped, NeverMisrouted
<1>4. QueueTyped
  BY DEF Init, QueueTyped
<1> QED
  BY <1>2, <1>3, <1>4 DEF ProbeInv

(* A step that leaves the grounds, the calls, the queue and the routes     *)
(* alone, or drops them, keeps what is said of them.                       *)
LEMMA CallsAside ==
  ASSUME ProbeInv, UNCHANGED <<blind, routed>>,
         calls' \subseteq calls, queue' \in Seq(Servo)
  PROVE  CallsGrounded' /\ QueueTyped' /\ BlindTyped' /\ RoutesTyped' /\ NeverMisrouted'
<1>1. \A s : Grounds(s)' = Grounds(s)
  BY DEF Grounds
<1>2. CallsGrounded'
  BY <1>1 DEF ProbeInv, CallsGrounded
<1>3. QueueTyped' /\ BlindTyped' /\ RoutesTyped'
  BY DEF ProbeInv, QueueTyped, BlindTyped, RoutesTyped
<1>4. NeverMisrouted'
  BY DEF ProbeInv, NeverMisrouted, WellDescribed
<1> QED
  BY <1>2, <1>3, <1>4

(* The registry, its file and the router itself change hands; no command   *)
(* is routed.                                                              *)
LEMMA RegistrySteps ==
  ASSUME ProbeInv,
         \/ Start \/ StartupOver \/ Replace \/ SaveFails \/ Crash
         \/ \E s \in Servo : StartupProbe(s)
  PROVE  ProbeInv'
<1> USE DEF ProbeInv
<1>0. UNCHANGED <<blind, routed>> /\ calls' \subseteq calls
  BY DEF Start, StartupOver, Replace, SaveFails, Crash, StartupProbe, memory
<1>a. queue' = queue \/ queue' = << >>
  BY DEF Start, StartupOver, Replace, SaveFails, Crash, StartupProbe, memory
<1>b. queue' \in Seq(Servo)
  <2>1. queue \in Seq(Servo) /\ << >> \in Seq(Servo)
    BY DEF QueueTyped
  <2> QED
    BY <1>a, <2>1
<1>1. CallsGrounded' /\ QueueTyped' /\ BlindTyped' /\ RoutesTyped' /\ NeverMisrouted'
  BY <1>0, <1>b, CallsAside
<1>g. \A r : Truthful(r)' <=> r' \in Registry /\ \A s \in Servo : r'[s] \in {Unknown} \cup Grounds(s)
  BY <1>0 DEF Truthful, Grounds
<1>2. CASE Start
  <2>1. temp = NoFile /\ temp' = NoFile /\ file' = file /\ phase' = "startup"
    BY <1>2 DEF Start, NothingLost
  <2>2. Truthful(cache')
    BY <1>2, EmptyTruthful DEF Start, OnlyGrounded
  <2>3. file # NoFile => cache' = file
    BY <1>2 DEF Start
  <2> QED
    BY <1>0, <1>1, <2>1, <2>2, <2>3 DEF OnlyGrounded, NothingLost, Quiet, Keeps, Truthful, Grounds
<1>3. CASE StartupOver
  <2>1. /\ phase = "startup" /\ phase' = "spinning"
        /\ cache' = cache /\ file' = file
        /\ temp' # NoFile => temp' = cache
    BY <1>3 DEF StartupOver
  <2> QED
    BY <1>0, <1>1, <2>1 DEF OnlyGrounded, NothingLost, Quiet, Keeps, Truthful, Grounds
<1>4. CASE Replace
  <2>1. /\ temp # NoFile /\ file' = temp /\ temp' = NoFile
        /\ phase' = phase /\ cache' = cache
    BY <1>4 DEF Replace, memory
  <2> QED
    BY <1>0, <1>1, <2>1 DEF OnlyGrounded, NothingLost, Quiet, Keeps, Truthful, Grounds
<1>5. CASE SaveFails
  <2>1. temp' = NoFile /\ UNCHANGED <<phase, cache, file>>
    BY <1>5 DEF SaveFails, memory
  <2> QED
    BY <1>0, <1>1, <2>1 DEF OnlyGrounded, NothingLost, Quiet, Keeps, Truthful, Grounds
<1>6. CASE Crash
  <2>1. /\ phase' = "down" /\ cache' = Empty /\ calls' = {}
        /\ temp' = NoFile /\ file' = file
    BY <1>6 DEF Crash
  <2>2. Truthful(cache')
    BY <2>1, EmptyTruthful
  <2> QED
    BY <1>0, <1>1, <2>1, <2>2 DEF OnlyGrounded, NothingLost, Quiet, Truthful, Grounds
<1>7. CASE \E s \in Servo : StartupProbe(s)
  <2> PICK s \in Servo : StartupProbe(s)
    BY <1>7
  <2>1. /\ phase = "startup" /\ UNCHANGED <<phase, file, temp>>
        /\ cache' = [cache EXCEPT ![s] = Speaks[s]] \/ cache' = cache
    BY DEF StartupProbe
  <2>s. Speaks[s] \in Spoken /\ Speaks[s] \in Grounds(s)
    BY ProbeAssumption DEF Spoken, Grounds
  <2>2. /\ Truthful(cache')
        /\ file # NoFile => Keeps(cache', file)
        /\ temp # NoFile => Keeps(cache', temp)
    BY <2>1, <2>s, GroundsEntered DEF OnlyGrounded, NothingLost
  <2> QED
    BY <1>0, <1>1, <2>1, <2>2 DEF OnlyGrounded, NothingLost, Quiet, Truthful, Keeps, Grounds
<1> QED
  BY <1>2, <1>3, <1>4, <1>5, <1>6, <1>7

(* The candidates of a call are protocols.                                 *)
LEMMA OrdersTyped ==
  ASSUME ProbeInv, NEW s \in Servo, NEW requested \in {"lx", "zl", Unknown}
  PROVE  ProtocolOrder(s, requested) \in Seq(Spoken)
<1>1. Protocol(s) \in Entry
  BY ProtocolRight DEF ProbeInv, OnlyGrounded
<1>2. Other(Protocol(s)) \in Spoken
  BY DEF Other, Spoken
<1>3. requested # Unknown => requested \in Spoken
  BY DEF Spoken
<1>4. Protocol(s) # Unknown => Protocol(s) \in Spoken
  BY <1>1 DEF Entry
<1>5. "lx" \in Spoken /\ "zl" \in Spoken
  BY DEF Spoken
<1> QED
  BY <1>2, <1>3, <1>4, <1>5 DEF ProtocolOrder, Protocols

(* A step that leaves the registry and the router's phase alone, takes no  *)
(* grounds away, and calls only while the router runs.                     *)
LEMMA RegistryAside ==
  ASSUME ProbeInv, UNCHANGED <<phase, cache, file, temp, routed>>,
         phase = "down" => calls' = {},
         \A s \in Servo : blind[s] \subseteq blind'[s]
  PROVE  OnlyGrounded' /\ NothingLost' /\ Quiet' /\ RoutesTyped' /\ NeverMisrouted'
<1>1. OnlyGrounded' /\ NeverMisrouted'
  BY GroundsStay
<1>2. NothingLost' /\ Quiet' /\ RoutesTyped'
  BY DEF ProbeInv, NothingLost, Keeps, Quiet, RoutesTyped
<1> QED
  BY <1>1, <1>2

LEMMA RouteStep ==
  ASSUME ProbeInv, NEW s \in Servo, Route(s) PROVE ProbeInv'
<1>1. /\ UNCHANGED <<phase, cache, file, temp, blind, calls, queue>>
      /\ routed' = {<<s, Protocol(s)>>}
  BY DEF Route, memory
<1>2. OnlyGrounded' /\ NothingLost' /\ Quiet' /\ CallsGrounded' /\ QueueTyped' /\ BlindTyped'
  BY <1>1 DEF ProbeInv, OnlyGrounded, NothingLost, Quiet, CallsGrounded, QueueTyped,
              BlindTyped, Truthful, Keeps, Grounds
<1>3. /\ Protocol(s) \in Entry /\ Protocol(s) # Unknown
      /\ WellDescribed(s) => Protocol(s) \in {Unknown} \cup Grounds(s)
  BY ProtocolRight DEF ProbeInv, OnlyGrounded, Route
<1>4. RoutesTyped' /\ NeverMisrouted'
  BY <1>1, <1>3 DEF RoutesTyped, NeverMisrouted, WellDescribed, Grounds
<1> QED
  BY <1>2, <1>4 DEF ProbeInv

LEMMA QueueSteps ==
  ASSUME ProbeInv, NEW s \in Servo, Schedule(s) \/ Rested(s) PROVE ProbeInv'
<1>1. UNCHANGED <<phase, cache, file, temp, routed, blind, calls>>
  BY DEF Schedule, Rested
<1>2. queue' \in Seq(Servo)
  BY DEF Schedule, Rested, ProbeInv, QueueTyped
<1>3. CallsGrounded' /\ QueueTyped' /\ BlindTyped'
  BY <1>1, <1>2, CallsAside
<1>4. OnlyGrounded' /\ NothingLost' /\ Quiet' /\ RoutesTyped' /\ NeverMisrouted'
  BY <1>1, RegistryAside DEF ProbeInv, Quiet
<1> QED
  BY <1>3, <1>4 DEF ProbeInv

(* A call that is new, or has gone on without success, is one of those     *)
(* that owe no grounds.                                                    *)
LEMMA CallGoesOn ==
  ASSUME ProbeInv, phase # "down", UNCHANGED <<phase, cache, file, temp, routed, blind>>,
         queue' \in Seq(Servo),
         \A d \in calls' \ calls : d \in Call /\ d.step # "done"
  PROVE  ProbeInv'
<1>1. OnlyGrounded' /\ NothingLost' /\ Quiet' /\ RoutesTyped' /\ NeverMisrouted'
  BY RegistryAside
<1>2. CallsGrounded'
  BY DEF ProbeInv, CallsGrounded, Grounds
<1>3. QueueTyped' /\ BlindTyped'
  BY DEF ProbeInv, QueueTyped, BlindTyped
<1> QED
  BY <1>1, <1>2, <1>3 DEF ProbeInv

LEMMA CallBegins ==
  ASSUME ProbeInv,
         \/ TakeProbe
         \/ \E s \in Served, requested \in {"lx", "zl", Unknown}, answers \in BOOLEAN :
              Serve(s, requested, answers)
  PROVE  ProbeInv'
<1>1. CASE TakeProbe
  <2>1. queue \in Seq(Servo) /\ queue # << >>
    BY <1>1 DEF TakeProbe, ProbeInv, QueueTyped
  <2>2. Head(queue) \in Servo /\ Tail(queue) \in Seq(Servo)
    BY <2>1
  <2>3. Probe(Head(queue)) \in Call
    BY <2>2 DEF Probe, Call, Protocols, Spoken
  <2>4. Probe(Head(queue)).step # "done"
    BY DEF Probe
  <2>5. /\ phase # "down" /\ UNCHANGED <<phase, cache, file, temp, routed, blind>>
        /\ queue' = Tail(queue)
        /\ \A d \in calls' \ calls : d = Probe(Head(queue))
    BY <1>1 DEF TakeProbe
  <2> QED
    BY <2>2, <2>3, <2>4, <2>5, CallGoesOn
<1>2. ASSUME NEW s \in Served, NEW requested \in {"lx", "zl", Unknown}, NEW answers \in BOOLEAN,
             Serve(s, requested, answers)
      PROVE  ProbeInv'
  <2> DEFINE new == [servo |-> s, client |-> TRUE, answers |-> answers,
                     left |-> ProtocolOrder(s, requested), step |-> "asking"]
  <2>1. s \in Servo
    BY ProbeAssumption
  <2>2. new \in Call /\ new.step # "done"
    BY <2>1, OrdersTyped DEF Call
  <2>3. /\ phase # "down" /\ UNCHANGED <<phase, cache, file, temp, routed, blind, queue>>
        /\ calls' = calls \cup {new}
    BY <1>2 DEF Serve
  <2> HIDE DEF new
  <2>4. queue' \in Seq(Servo)
    BY <2>3 DEF ProbeInv, QueueTyped
  <2>5. \A d \in calls' \ calls : d \in Call /\ d.step # "done"
    BY <2>2, <2>3
  <2> QED
    BY <2>3, <2>4, <2>5, CallGoesOn
<1> QED
  BY <1>1, <1>2

LEMMA CallInVain ==
  ASSUME ProbeInv, NEW c \in calls, TimesOut(c) \/ GiveUp(c) \/ Saved(c) PROVE ProbeInv'
<1>1. phase # "down" /\ c \in Call /\ queue \in Seq(Servo)
  BY DEF ProbeInv, Quiet, CallsGrounded, QueueTyped
<1>2. UNCHANGED <<phase, cache, file, temp, routed, blind, queue>>
  BY DEF TimesOut, GiveUp, Saved
<1>3. CASE TimesOut(c)
  <2> DEFINE new == [c EXCEPT !.left = Tail(@)]
  <2>1. c.left \in Seq(Spoken) /\ c.left # << >> /\ c.step = "asking"
    BY <1>1, <1>3 DEF TimesOut, Call
  <2>2. Tail(c.left) \in Seq(Spoken)
    BY <2>1
  <2>3. new \in Call /\ new.step = "asking"
    BY <1>1, <2>1, <2>2 DEF Call
  <2>4. calls' \subseteq calls \cup {new}
    BY <1>3 DEF TimesOut
  <2> HIDE DEF new
  <2>5. \A d \in calls' \ calls : d \in Call /\ d.step # "done"
    BY <2>3, <2>4
  <2> QED
    BY <1>1, <1>2, <2>5, CallGoesOn
<1>4. CASE GiveUp(c) \/ Saved(c)
  <2>1. \A d \in calls' \ calls : d \in Call /\ d.step # "done"
    BY <1>4 DEF GiveUp, Saved
  <2> QED
    BY <1>1, <1>2, <2>1, CallGoesOn
<1> QED
  BY <1>3, <1>4

(* A call that succeeds has its grounds: the answer, or the write that got *)
(* none.                                                                   *)
LEMMA CallSucceeds ==
  ASSUME ProbeInv, NEW c \in calls, Succeeds(c) PROVE ProbeInv'
<1> DEFINE p == Head(c.left)
           done == [c EXCEPT !.step = "done"]
<1>1. /\ phase # "down" /\ c \in Call /\ c.servo \in Servo
      /\ c.left \in Seq(Spoken) /\ c.left # << >> /\ p \in Spoken
  BY DEF ProbeInv, Quiet, CallsGrounded, Call, Succeeds
<1>2. /\ UNCHANGED <<phase, cache, file, temp, routed, queue>>
      /\ calls' \subseteq calls \cup {done}
      /\ blind' = [blind EXCEPT ![c.servo] = @ \cup ({p} \ {Speaks[c.servo]})]
  BY DEF Succeeds
<1>3. done \in Call /\ done.left = c.left /\ done.servo = c.servo
  BY <1>1 DEF Call
<1> HIDE DEF p, done
<1>4. BlindTyped' /\ \A s \in Servo : blind[s] \subseteq blind'[s]
  BY <1>1, <1>2 DEF ProbeInv, BlindTyped
<1>5. p \in Grounds(c.servo)'
  BY <1>1, <1>2 DEF ProbeInv, BlindTyped, Grounds
<1>6. OnlyGrounded' /\ NothingLost' /\ Quiet' /\ RoutesTyped' /\ NeverMisrouted'
  BY <1>1, <1>2, <1>4, RegistryAside
<1>7. CallsGrounded'
  <2>1. calls' \subseteq Call
    BY <1>2, <1>3 DEF ProbeInv, CallsGrounded
  <2>2. ASSUME NEW d \in calls', d.step = "done"
        PROVE  d.left # << >> /\ Head(d.left) \in Grounds(d.servo)'
    <3>1. CASE d = done
      BY <1>1, <1>3, <1>5, <3>1 DEF p
    <3>2. CASE d \in calls
      <4>1. d.servo \in Servo /\ d.left # << >> /\ Head(d.left) \in Grounds(d.servo)
        BY <2>2, <3>2 DEF ProbeInv, CallsGrounded, Call
      <4> QED
        BY <1>4, <4>1 DEF Grounds
    <3> QED
      BY <1>2, <3>1, <3>2
  <2> QED
    BY <2>1, <2>2 DEF CallsGrounded
<1>8. QueueTyped'
  BY <1>2 DEF ProbeInv, QueueTyped
<1> QED
  BY <1>4, <1>6, <1>7, <1>8 DEF ProbeInv

LEMMA RegisterStep ==
  ASSUME ProbeInv, NEW c \in calls, Register(c) PROVE ProbeInv'
<1> DEFINE saving == [c EXCEPT !.step = "saving"]
<1>1. /\ phase # "down" /\ c \in Call /\ c.servo \in Servo /\ c.left \in Seq(Spoken)
      /\ c.left # << >> /\ Head(c.left) \in Grounds(c.servo)
  BY DEF ProbeInv, Quiet, CallsGrounded, Call, Register
<1>2. PICK p \in Spoken : p = Head(c.left)
  BY <1>1
<1>3. /\ UNCHANGED <<phase, file, routed, blind, queue>> /\ temp = NoFile
      /\ cache' = [cache EXCEPT ![c.servo] = p] /\ temp' = cache'
      /\ calls' \subseteq calls \cup {saving}
  BY <1>2 DEF Register, LockFree
<1>4. saving \in Call /\ saving.step # "done"
  BY <1>1 DEF Call
<1> HIDE DEF saving
<1>5. Truthful(cache') /\ (file # NoFile => Keeps(cache', file))
  BY <1>1, <1>2, <1>3, GroundsEntered DEF ProbeInv, OnlyGrounded, NothingLost
<1>6. OnlyGrounded' /\ NothingLost' /\ Quiet'
  BY <1>1, <1>3, <1>5 DEF ProbeInv, OnlyGrounded, NothingLost, Quiet, Truthful, Keeps, Grounds
<1>7. CallsGrounded' /\ QueueTyped' /\ BlindTyped' /\ RoutesTyped'
  BY <1>3, <1>4 DEF ProbeInv, CallsGrounded, QueueTyped, BlindTyped, RoutesTyped, Grounds
<1>8. NeverMisrouted'
  BY <1>3 DEF ProbeInv, NeverMisrouted, WellDescribed
<1> QED
  BY <1>6, <1>7, <1>8 DEF ProbeInv

LEMMA ProbeStep == ProbeInv /\ [Next]_vars => ProbeInv'
<1> SUFFICES ASSUME ProbeInv, [Next]_vars PROVE ProbeInv'
  OBVIOUS
<1>1. CASE UNCHANGED vars
  BY <1>1 DEF vars, memory, ProbeInv, OnlyGrounded, NothingLost, Quiet, CallsGrounded,
              QueueTyped, BlindTyped, RoutesTyped, NeverMisrouted, WellDescribed,
              Truthful, Keeps, Grounds
<1>2. CASE \/ Start \/ StartupOver \/ Replace \/ SaveFails \/ Crash
           \/ \E s \in Servo : StartupProbe(s)
  BY <1>2, RegistrySteps
<1>3. CASE \E s \in Servo : Route(s) \/ Schedule(s) \/ Rested(s)
  BY <1>3, RouteStep, QueueSteps
<1>4. CASE \/ TakeProbe
           \/ \E s \in Served, requested \in {"lx", "zl", Unknown}, answers \in BOOLEAN :
                Serve(s, requested, answers)
  BY <1>4, CallBegins
<1>5. CASE \E c \in calls : Succeeds(c) \/ TimesOut(c) \/ GiveUp(c) \/ Register(c) \/ Saved(c)
  BY <1>5, CallSucceeds, CallInVain, RegisterStep
<1> QED
  BY <1>1, <1>2, <1>3, <1>4, <1>5 DEF Next

LEMMA RegistryGrounded == Spec => []ProbeInv
<1> QED
  BY ProbeInit, ProbeStep, PTL DEF Spec

(* A servo that nobody misdescribed is never commanded in a protocol that  *)
(* it does not speak, however many servos there are, whatever the maps     *)
(* say, however many clients read and command it and however often the     *)
(* router dies; but for a protocol in which a client's command was written *)
(* to it without an answer (bus_protocol_registry.py, get_protocol).       *)
THEOREM ProtocolNeverWrong == Spec => []NeverMisrouted
<1>1. ProbeInv => NeverMisrouted
  BY DEF ProbeInv
<1> QED
  BY <1>1, RegistryGrounded, PTL

(* What the file says of a servo it goes on saying, through crashes in the *)
(* middle of a save and saves of other callbacks, until the servo answers  *)
(* in another protocol or is written to in one without an answer           *)
(* (bus_protocol_registry.py, save_cache).                                 *)
THEOREM EntriesSurvive == Spec => SavedIsKept
<1>1. ASSUME ProbeInv, [Next]_vars
      PROVE  \A s \in Servo :
               file # NoFile /\ file[s] # Unknown =>
                 file' # NoFile /\ file'[s] \in {file[s], Speaks[s]} \cup blind[s]
  <2>1. CASE file' = file
    BY <2>1
  <2>2. CASE Replace
    <3>1. temp # NoFile /\ file' = temp
      BY <2>2 DEF Replace
    <3>2. Truthful(temp) /\ (file # NoFile => Keeps(temp, file))
      BY <1>1, <3>1 DEF ProbeInv, OnlyGrounded, NothingLost
    <3> QED
      BY <3>1, <3>2 DEF Truthful, Keeps, Grounds
  <2> QED
    BY <1>1, <2>1, <2>2 DEF Next, vars, Start, StartupOver, TakeProbe, SaveFails, Crash,
         StartupProbe, Route, Schedule, Rested, Serve, Succeeds, TimesOut, GiveUp,
         Register, Saved
<1>2. ProbeInv /\ [Next]_vars =>
        [\A s \in Servo :
           file # NoFile /\ file[s] # Unknown =>
             file' # NoFile /\ file'[s] \in {file[s], Speaks[s]} \cup blind[s]]_vars
  BY <1>1
<1> QED
  BY <1>2, RegistryGrounded, PTL DEF Spec, SavedIsKept
-----------------------------------------------------------------------------
(* Servo commands: what is asked for, in degrees or microseconds, goes out   *)
(* in the units of a protocol and comes back in them.                        *)

(* A scaled value is off by half a step at most. *)
Rounds(s, base, v, n, d) ==
  /\ s \in Int /\ s = Scaled(base, v, n, d)
  /\ 2 * d * (s - base) <= 2 * v * n + d /\ 2 * v * n <= 2 * d * (s - base) + d

LEMMA HalfStep ==
  ASSUME NEW base \in Int, NEW v \in Nat, NEW n \in Nat, NEW d \in Nat, d # 0
  PROVE  \E s : Rounds(s, base, v, n, d)
<1>1. PICK t \in Nat : t = v * n
  OBVIOUS
<1>2. PICK q \in Int, r \in Int : /\ q = t \div d /\ r = t % d
                                  /\ t = d * q + r /\ 0 <= r /\ r < d
  OBVIOUS
<1>3. PICK s \in Int : /\ s = Scaled(base, v, n, d)
                       /\ (s = base + q /\ 2 * r <= d) \/ (s = base + q + 1 /\ d <= 2 * r)
  <2>1. (v * n) \div d = q /\ (v * n) % d = r
    BY <1>1, <1>2
  <2>2. Scaled(base, v, n, d) = IF 2 * r > d \/ (2 * r = d /\ (base + q) % 2 = 1)
                                THEN base + q + 1 ELSE base + q
    BY <2>1 DEF Scaled
  <2>3. CASE Scaled(base, v, n, d) = base + q /\ 2 * r <= d
    BY <2>3
  <2>4. CASE Scaled(base, v, n, d) = base + q + 1 /\ d <= 2 * r
    BY <2>4
  <2>5. 2 * r \in Int /\ base + q + 1 \in Int
    OBVIOUS
  <2> QED BY <2>2, <2>3, <2>4, <2>5
<1>4. t = d * q + r /\ 0 <= r /\ r < d
  BY <1>2
<1>5. PICK a \in Int : a = s - base
  OBVIOUS
<1>6. (a = q /\ 2 * r <= d) \/ (a = q + 1 /\ d <= 2 * r)
  BY <1>3, <1>5
<1>7. d * (q + 1) = d * q + d
  OBVIOUS
<1>8. 2 * (d * a) <= 2 * t + d /\ 2 * t <= 2 * (d * a) + d
  <2>1. PICK m \in Int : m = d * q
    OBVIOUS
  <2>2. (d * a = m /\ 2 * r <= d) \/ (d * a = m + d /\ d <= 2 * r)
    BY <1>6, <1>7, <2>1
  <2>3. PICK da \in Int : da = d * a
    OBVIOUS
  <2> QED BY <1>4, <2>1, <2>2, <2>3
<1>9. 2 * d * (s - base) = 2 * (d * a) /\ 2 * v * n = 2 * t
  BY <1>1, <1>5
<1>10. Rounds(s, base, v, n, d)
  BY <1>3, <1>8, <1>9 DEF Rounds
<1> QED BY <1>10

Ratio(base, v, n, d) == base \in Int /\ v \in Nat /\ n \in Nat /\ d \in Nat /\ d # 0

LEMMA Rounding ==
  ASSUME NEW base, NEW v, NEW n, NEW d, Ratio(base, v, n, d)
  PROVE  \E s : Rounds(s, base, v, n, d)
<1>1. base \in Int /\ v \in Nat /\ n \in Nat /\ d \in Nat /\ d # 0
  BY DEF Ratio
<1> QED BY <1>1, HalfStep

(* A position of a servo, and the pulse width it is shown as.               *)
Placed(w, protocol, u) ==
  /\ u \in Places(protocol) /\ u = FrameTarget(protocol, u)
  /\ w \in 500 .. 2500 /\ w = UnitToPulse(protocol, u)
  /\ protocol = "lx" => /\ 1500 * (w - 500) <= 4000 * (u - 125) + 750
                        /\ 4000 * (u - 125) <= 1500 * (w - 500) + 750
  /\ protocol = "zl" => /\ 2668 * (w - 500) <= 4000 * (u - 833) + 1334
                        /\ 4000 * (u - 833) <= 2668 * (w - 500) + 1334

LEMMA PlaceIsPulse ==
  ASSUME NEW protocol \in {"lx", "zl"}, NEW u \in Places(protocol)
  PROVE  \E w : Placed(w, protocol, u)
<1>1. CASE protocol = "lx"
  <2>1. PICK a \in 0 .. 750 : a = u - 125 /\ a = Limited(u, 125, 875) - 125
    BY <1>1 DEF Places, Limited
  <2>2. PICK w : Rounds(w, 500, a, 2000, 750)
    <3>1. Ratio(500, a, 2000, 750)
      BY DEF Ratio
    <3> QED BY <3>1, Rounding
  <2>3. /\ w \in Int /\ 1500 * (w - 500) <= 4000 * a + 750
        /\ 4000 * a <= 1500 * (w - 500) + 750
    BY <2>2 DEF Rounds
  <2>4. w \in 500 .. 2500
    <3>1. 500 <= w
      BY <2>3
    <3>2. w <= 2500
      BY <2>3
    <3> QED BY <2>3, <3>1, <3>2
  <2>5. w = UnitToPulse(protocol, u)
    BY <1>1, <2>1, <2>2 DEF UnitToPulse, LxUnitToPulse, Rounds
  <2>6. FrameTarget(protocol, u) = u
    BY <1>1 DEF Places, FrameTarget, Limited
  <2>7. u \in Places(protocol)
    OBVIOUS
  <2> QED BY <1>1, <2>1, <2>3, <2>4, <2>5, <2>6, <2>7 DEF Placed
<1>2. CASE protocol = "zl"
  <2>1. PICK a \in 0 .. 1334 : a = u - 833 /\ a = Limited(u, 833, 2167) - 833
    BY <1>2 DEF Places, Limited
  <2>2. PICK w : Rounds(w, 500, a, 2000, 1334)
    <3>1. Ratio(500, a, 2000, 1334)
      BY DEF Ratio
    <3> QED BY <3>1, Rounding
  <2>3. /\ w \in Int /\ 2668 * (w - 500) <= 4000 * a + 1334
        /\ 4000 * a <= 2668 * (w - 500) + 1334
    BY <2>2 DEF Rounds
  <2>4. w \in 500 .. 2500
    <3>1. 500 <= w
      BY <2>3
    <3>2. w <= 2500
      BY <2>3
    <3> QED BY <2>3, <3>1, <3>2
  <2>5. w = UnitToPulse(protocol, u)
    BY <1>2, <2>1, <2>2 DEF UnitToPulse, ZlPositionToPulse, Rounds
  <2>6. FrameTarget(protocol, u) = u
    BY <1>2 DEF Places, FrameTarget, Limited
  <2>7. u \in Places(protocol)
    OBVIOUS
  <2> QED BY <1>2, <2>1, <2>3, <2>4, <2>5, <2>6, <2>7 DEF Placed
<1> QED BY <1>1, <1>2

(* The pulse width is the same behind the units of either protocol, up to    *)
(* one microsecond.                                                          *)
PulseToUnit(protocol, pulse) ==
  IF protocol = "lx" THEN PulseToLxUnit(pulse) ELSE PulseToZlPosition(pulse)

ComesBack(u, w, protocol, pulse) ==
  /\ u = PulseToUnit(protocol, pulse) /\ Placed(w, protocol, u)
  /\ w <= pulse + 1 /\ pulse <= w + 1

LEMMA PulseComesBack ==
  ASSUME NEW protocol \in {"lx", "zl"}, NEW pulse \in 500 .. 2500
  PROVE  \E u, w : ComesBack(u, w, protocol, pulse)
<1>a. PICK x \in 0 .. 2000 : x = pulse - 500
  OBVIOUS
<1>0. x = pulse - 500 /\ x = Limited(pulse, 500, 2500) - 500
  BY <1>a DEF Limited
<1>1. CASE protocol = "lx"
  <2>1. PICK u : Rounds(u, 125, x, 750, 2000)
    <3>1. Ratio(125, x, 750, 2000)
      BY DEF Ratio
    <3> QED BY <3>1, Rounding
  <2>2. u \in 125 .. 875
    <3>1. /\ u \in Int /\ 4000 * (u - 125) <= 1500 * x + 2000
          /\ 1500 * x <= 4000 * (u - 125) + 2000
      BY <2>1 DEF Rounds
    <3>2. 125 <= u
      BY <3>1
    <3>3. u <= 875
      BY <3>1
    <3> QED BY <3>1, <3>2, <3>3
  <2>3. PICK w : Placed(w, protocol, u)
    <3>1. u \in Places(protocol)
      BY <1>1, <2>2 DEF Places
    <3> QED BY <3>1, PlaceIsPulse
  <2>4. w <= pulse + 1 /\ pulse <= w + 1
    <3>1. PICK a \in 0 .. 750 : a = u - 125
      BY <2>2
    <3>2. /\ w \in 500 .. 2500 /\ 1500 * (w - 500) <= 4000 * a + 750
          /\ 4000 * a <= 1500 * (w - 500) + 750
      BY <1>1, <2>3, <3>1 DEF Placed
    <3>3. 4000 * a <= 1500 * x + 2000 /\ 1500 * x <= 4000 * a + 2000
      BY <2>1, <3>1 DEF Rounds
    <3>4. x = pulse - 500
      BY <1>0
    <3> QED BY <3>2, <3>3, <3>4
  <2>5. u = PulseToUnit(protocol, pulse)
    BY <1>0, <1>1, <2>1 DEF PulseToUnit, PulseToLxUnit, Rounds
  <2> QED BY <2>3, <2>4, <2>5 DEF ComesBack, Placed
<1>2. CASE protocol = "zl"
  <2>1. PICK u : Rounds(u, 833, x, 1334, 2000)
    <3>1. Ratio(833, x, 1334, 2000)
      BY DEF Ratio
    <3> QED BY <3>1, Rounding
  <2>2. u \in 833 .. 2167
    <3>1. /\ u \in Int /\ 4000 * (u - 833) <= 2668 * x + 2000
          /\ 2668 * x <= 4000 * (u - 833) + 2000
      BY <2>1 DEF Rounds
    <3>2. 833 <= u
      BY <3>1
    <3>3. u <= 2167
      BY <3>1
    <3> QED BY <3>1, <3>2, <3>3
  <2>3. PICK w : Placed(w, protocol, u)
    <3>1. u \in Places(protocol)
      BY <1>2, <2>2 DEF Places
    <3> QED BY <3>1, PlaceIsPulse
  <2>4. w <= pulse + 1 /\ pulse <= w + 1
    <3>1. PICK a \in 0 .. 1334 : a = u - 833
      BY <2>2
    <3>2. /\ w \in 500 .. 2500 /\ 2668 * (w - 500) <= 4000 * a + 1334
          /\ 4000 * a <= 2668 * (w - 500) + 1334
      BY <1>2, <2>3, <3>1 DEF Placed
    <3>3. 4000 * a <= 2668 * x + 2000 /\ 2668 * x <= 4000 * a + 2000
      BY <2>1, <3>1 DEF Rounds
    <3>4. x = pulse - 500
      BY <1>0
    <3> QED BY <3>2, <3>3, <3>4
  <2>5. u = PulseToUnit(protocol, pulse)
    BY <1>0, <1>2, <2>1 DEF PulseToUnit, PulseToZlPosition, Rounds
  <2> QED BY <2>3, <2>4, <2>5 DEF ComesBack, Placed
<1> QED BY <1>1, <1>2

(* Where a move takes a servo, the pulse width its state says, and the one   *)
(* that is read there.                                                       *)
Aimed(u, p, w, protocol, v) ==
  /\ u = FrameTarget(protocol, MoveTarget(protocol, v).unit) /\ Placed(w, protocol, u)
  /\ p \in 500 .. 2500 /\ p = MoveTarget(protocol, v).pulse
  /\ v \in 500 .. 2500 => p = v
  /\ w <= p + 1 /\ p <= w + 1

TakenAs(p, protocol, v) ==
  /\ protocol \in {"lx", "zl"} /\ p \in 500 .. 2500 /\ (v \in 500 .. 2500 => p = v)
  /\ MoveTarget(protocol, v) = [unit |-> PulseToUnit(protocol, p), pulse |-> p]

LEMMA PulseIsAimed ==
  ASSUME NEW protocol, NEW v, NEW p, TakenAs(p, protocol, v)
  PROVE  \E u, w : Aimed(u, p, w, protocol, v)
<1>0. protocol \in {"lx", "zl"} /\ p \in 500 .. 2500 /\ (v \in 500 .. 2500 => p = v)
  BY DEF TakenAs
<1>1. PICK u, w : ComesBack(u, w, protocol, p)
  <2>1. PICK q \in 500 .. 2500 : q = p
    BY <1>0
  <2>2. PICK codec \in {"lx", "zl"} : codec = protocol
    BY <1>0
  <2>3. \E u, w : ComesBack(u, w, codec, q)
    BY PulseComesBack
  <2> QED BY <2>1, <2>2, <2>3
<1>2. MoveTarget(protocol, v).unit = u /\ MoveTarget(protocol, v).pulse = p
  BY <1>1 DEF ComesBack, TakenAs
<1>3. Placed(w, protocol, u) /\ FrameTarget(protocol, u) = u
  BY <1>1 DEF ComesBack, Placed
<1>4. w <= p + 1 /\ p <= w + 1
  BY <1>1 DEF ComesBack
<1>5. Aimed(u, p, w, protocol, v)
  BY <1>0, <1>2, <1>3, <1>4 DEF Aimed
<1> QED BY <1>5

LEMMA MoveIsAimed ==
  ASSUME NEW protocol \in {"lx", "zl"}, NEW v \in Int
  PROVE  \E u, p, w : Aimed(u, p, w, protocol, v)
<1>1. CASE v \in 500 .. 2500
  <2>1. MoveTarget(protocol, v) = [unit |-> PulseToUnit(protocol, v), pulse |-> v]
    BY <1>1 DEF MoveTarget, LxTarget, ZlTarget, PulseToUnit
  <2>2. PICK q \in 500 .. 2500 : q = v
    BY <1>1
  <2>3. MoveTarget(protocol, v) = [unit |-> PulseToUnit(protocol, q), pulse |-> q]
    BY <2>1, <2>2
  <2>4. TakenAs(q, protocol, v)
    BY <2>2, <2>3 DEF TakenAs
  <2>5. \E u, w : Aimed(u, q, w, protocol, v)
    BY <2>4, PulseIsAimed
  <2> QED BY <2>5
<1>2. CASE v \in 0 .. 180
  <2>0. ~(v \in 500 .. 2500)
    <3>1. v < 500
      BY <1>2
    <3> QED BY <3>1
  <2>1. PICK p : Rounds(p, 500, v, 2000, 180)
    <3>1. Ratio(500, v, 2000, 180)
      BY <1>2 DEF Ratio
    <3> QED BY <3>1, Rounding
  <2>2. /\ p \in Int /\ 360 * (p - 500) <= 4000 * v + 180
        /\ 4000 * v <= 360 * (p - 500) + 180
    BY <2>1 DEF Rounds
  <2>3. p \in 500 .. 2500
    BY <1>2, <2>2
  <2>4. MoveTarget(protocol, v) = [unit |-> PulseToUnit(protocol, p), pulse |-> p]
    <3>1. p = Scaled(500, v, 2000, 180)
      BY <2>1 DEF Rounds
    <3> QED BY <1>2, <2>0, <3>1 DEF MoveTarget, LxTarget, ZlTarget, PulseToUnit
  <2>5. TakenAs(p, protocol, v)
    BY <2>0, <2>3, <2>4 DEF TakenAs
  <2>6. \E u, w : Aimed(u, p, w, protocol, v)
    BY <2>5, PulseIsAimed
  <2> QED BY <2>6
<1>3. CASE v \notin 0 .. 180 /\ v \notin 500 .. 2500
  <2>1. PICK u \in Places(protocol) :
          u = IF protocol = "lx" THEN Limited(v, 125, 875) ELSE Limited(v, 833, 2167)
    BY DEF Places, Limited
  <2>2. PICK w : Placed(w, protocol, u)
    BY PlaceIsPulse
  <2>3. MoveTarget(protocol, v) = [unit |-> u, pulse |-> w]
    <3>1. w = UnitToPulse(protocol, u)
      BY <2>2 DEF Placed
    <3>2. CASE protocol = "lx"
      BY <1>3, <2>1, <3>1, <3>2 DEF MoveTarget, LxTarget, UnitToPulse
    <3>3. CASE protocol = "zl"
      BY <1>3, <2>1, <3>1, <3>3 DEF MoveTarget, ZlTarget, UnitToPulse
    <3> QED BY <3>2, <3>3
  <2>4. MoveTarget(protocol, v).unit = u /\ MoveTarget(protocol, v).pulse = w
    BY <2>3
  <2>5. u = FrameTarget(protocol, u) /\ w \in 500 .. 2500
    BY <2>2 DEF Placed
  <2>6. w <= w + 1
    BY <2>5
  <2>7. Aimed(u, w, w, protocol, v)
    BY <1>3, <2>2, <2>4, <2>5, <2>6 DEF Aimed
  <2> QED BY <2>7
<1> QED BY <1>1, <1>2, <1>3

(* What a client asked for became a pulse width within a microsecond.        *)
Meant(p, m, r) ==
  /\ p \in 500 .. 2500 /\ m \in Int /\ p = Position(r) /\ m = Meaning(r)
  /\ 9 * p - 13500 <= m + 9 /\ m <= 9 * p - 13500 + 9

LEMMA LargeIsPulse ==
  ASSUME NEW r, NEW v \in Int, v = r.value, v >= 500 PROVE Meaning(r) = CenteredAngle(v)
BY DEF Meaning, CenteredAngle, Limited

LEMMA PositionIsMeant ==
  ASSUME NEW r \in ServoRequest, Position(r) # Refused
  PROVE  \E p, m : Meant(p, m, r)
<1>0. PICK v \in Int : v = r.value
  BY DEF ServoRequest
<1>1. /\ v = r.value /\ r.raw \in BOOLEAN /\ r.encoded \in BOOLEAN
      /\ r.form \in {"web", "bcp", "full"} /\ (r.form = "web" => ~r.raw)
  BY <1>0 DEF ServoRequest
<1>2. ParseServoControl(r) \in 500 .. 2500 /\ Position(r) = ParseServoControl(r)
  BY DEF Position, NormalizeMotionPosition, Refused
<1>3. PICK c \in 500 .. 2500 : c = Limited(v, 500, 2500)
  <2>1. Limited(v, 500, 2500) \in 500 .. 2500
    BY DEF Limited
  <2> QED BY <2>1
<1>4. CenteredAngle(v) = 9 * c - 13500
  BY <1>3 DEF CenteredAngle
<1>5. CASE r.form = "bcp" \/ (r.form = "full" /\ r.raw /\ ~r.encoded)
  <2>1. ParseServoControl(r) = c
    BY <1>1, <1>3, <1>5 DEF ParseServoControl, ParseBcp, ParseFullFormat, NormalizeBusPosition
  <2>2. Meaning(r) = CenteredAngle(v)
    BY <1>1, <1>5 DEF Meaning
  <2>3. PICK m \in Int : m = 9 * c - 13500
    OBVIOUS
  <2>4. Meant(c, m, r)
    BY <1>2, <1>4, <2>1, <2>2, <2>3 DEF Meant
  <2> QED BY <2>4
<1>6. CASE r.form # "bcp" /\ ~(r.form = "full" /\ r.raw /\ ~r.encoded)
  <2>1. ParseServoControl(r) = NormalizeBusPosition(v, r.encoded, FALSE)
    BY <1>1, <1>6 DEF ParseServoControl, ParseWebServo, ParseFullFormat, NormalizeBusPosition
  <2>2. CASE v \in 500 .. 2500
    <3>1. ParseServoControl(r) = c
      <4>1. c = v
        BY <1>3, <2>2 DEF Limited
      <4> QED BY <2>1, <2>2, <4>1 DEF NormalizeBusPosition
    <3>2. Meaning(r) = CenteredAngle(v)
      <4>1. v >= 500
        BY <2>2
      <4> QED BY <1>0, <4>1, LargeIsPulse
    <3>3. PICK m \in Int : m = 9 * c - 13500
      OBVIOUS
    <3>4. Meant(c, m, r)
      BY <1>2, <1>4, <3>1, <3>2, <3>3 DEF Meant
    <3> QED BY <3>4
  <2>3. CASE v \notin 500 .. 2500
    <3>1. ~r.encoded /\ (v \in 0 .. 180 \/ v \in -90 .. -1)
      BY <1>2, <2>1, <2>3 DEF NormalizeBusPosition, Refused
    <3>2. ~r.raw
      BY <1>1, <1>6, <3>1
    <3>3. CASE v \in 0 .. 180
      <4>1. PICK q \in Int, k \in Int : /\ q = (v * 2000) \div 180
                                        /\ v * 2000 = 180 * q + k /\ 0 <= k /\ k < 180
        BY <3>3
      <4>2. v * 2000 = 180 * q + k /\ 0 <= k /\ k < 180
        BY <4>1
      <4>3. PICK p \in 500 .. 2500 : p = 500 + q
        BY <3>3, <4>2
      <4>4. ParseServoControl(r) = p
        <5>1. AngleToUs(v) = p
          BY <4>1, <4>3 DEF AngleToUs, Limited
        <5> QED BY <2>1, <2>3, <3>1, <3>3, <5>1 DEF NormalizeBusPosition
      <4>5. PICK m \in Int : m = 100 * (v - 90)
        OBVIOUS
      <4>6. Meaning(r) = m
        BY <1>1, <1>6, <3>2, <3>3, <4>5 DEF Meaning
      <4>7. 9 * p - 13500 <= m + 9 /\ m <= 9 * p - 13500 + 9
        BY <3>3, <4>2, <4>3, <4>5
      <4>8. Meant(p, m, r)
        BY <1>2, <4>4, <4>6, <4>7 DEF Meant
      <4> QED BY <4>8
    <3>4. CASE v \in -90 .. -1
      <4>1. PICK a \in 0 .. 180 : a = v + 90 /\ a = Limited(v, -90, 90) + 90
        BY <3>4 DEF Limited
      <4>2. PICK p : Rounds(p, 500, a, 2000, 180)
        <5>1. Ratio(500, a, 2000, 180)
          BY DEF Ratio
        <5> QED BY <5>1, Rounding
      <4>3. /\ p \in Int /\ 360 * (p - 500) <= 4000 * a + 180
            /\ 4000 * a <= 360 * (p - 500) + 180
        BY <4>2 DEF Rounds
      <4>4. p \in 500 .. 2500
        BY <4>3
      <4>5. ParseServoControl(r) = p
        <5>1. CenteredAngleToUs(v) = p
          BY <4>1, <4>2 DEF CenteredAngleToUs, Rounds
        <5> QED BY <2>1, <2>3, <3>1, <3>4, <5>1 DEF NormalizeBusPosition
      <4>6. PICK m \in Int : m = 100 * v
        OBVIOUS
      <4>7. Meaning(r) = m
        BY <1>1, <1>6, <3>2, <3>4, <4>6 DEF Meaning
      <4>8. 9 * p - 13500 <= m + 9 /\ m <= 9 * p - 13500 + 9
        BY <4>1, <4>3, <4>6
      <4>9. Meant(p, m, r)
        BY <1>2, <4>4, <4>5, <4>7, <4>8 DEF Meant
      <4> QED BY <4>9
    <3> QED BY <3>1, <3>3, <3>4
  <2> QED BY <2>2, <2>3
<1> QED BY <1>1, <1>5, <1>6

(* The angle shown for what comes back of a command, and that it is the one  *)
(* that was asked for.                                                       *)
AngleBehind(protocol, unit) == CenteredAngle(UnitToPulse(protocol, unit))
Reached(protocol, unit, angle) ==
  LET error == AngleBehind(protocol, unit) - angle IN -18 <= error /\ error <= 18

(* Whatever position a client asks for, in any of the three message forms    *)
(* and whichever protocol its servo speaks: if the request is not refused,   *)
(* what a servo that stands where it was sent answers is shown as an angle   *)
(* within 0.18 degree of what the client meant (message_handler.py, bridge   *)
(* _node.py, bus_port_driver.py).                                            *)
THEOREM MovesReadBack ==
  ASSUME NEW protocol \in {"lx", "zl"}, NEW r \in ServoRequest, Position(r) # Refused
  PROVE  Reached(protocol, FrameTarget(protocol, MoveTarget(protocol, Position(r)).unit),
                 Meaning(r))
<1>1. PICK q, m : Meant(q, m, r)
  BY PositionIsMeant
<1>2. q \in 500 .. 2500 /\ q = Position(r) /\ m \in Int /\ m = Meaning(r)
  BY <1>1 DEF Meant
<1>3. PICK u, p, w : Aimed(u, p, w, protocol, q)
  BY <1>2, MoveIsAimed
<1>4. /\ p = q /\ w \in 500 .. 2500 /\ w = UnitToPulse(protocol, u)
      /\ u = FrameTarget(protocol, MoveTarget(protocol, q).unit)
  BY <1>2, <1>3 DEF Aimed, Placed
<1>5. CenteredAngle(w) = 9 * w - 13500
  BY <1>4 DEF CenteredAngle, Limited
<1>6. PICK e \in Int : e = (9 * w - 13500) - m /\ -18 <= e /\ e <= 18
  <2>1. 9 * q - 13500 <= m + 9 /\ m <= 9 * q - 13500 + 9
    BY <1>1 DEF Meant
  <2>2. w <= q + 1 /\ q <= w + 1
    BY <1>3, <1>4 DEF Aimed
  <2> QED BY <1>2, <1>4, <2>1, <2>2
<1>7. AngleBehind(protocol, u) - Meaning(r) = e
  BY <1>2, <1>4, <1>5, <1>6 DEF AngleBehind
<1> QED BY <1>2, <1>4, <1>6, <1>7 DEF Reached

(* The same for a position that some other node sends.                       *)
LEMMA GoalIsPlace ==
  ASSUME NEW protocol \in {"lx", "zl"}, NEW v \in Int
  PROVE  FrameTarget(protocol, MoveTarget(protocol, v).unit) \in Places(protocol)
<1>1. PICK u, p, w : Aimed(u, p, w, protocol, v)
  BY MoveIsAimed
<1> QED BY <1>1 DEF Aimed, Placed

LEMMA OtherReadsBack ==
  ASSUME NEW protocol \in {"lx", "zl"}, NEW v \in Int
  PROVE  Reached(protocol, FrameTarget(protocol, MoveTarget(protocol, v).unit),
                 CenteredAngle(MoveTarget(protocol, v).pulse))
<1>1. PICK u, p, w : Aimed(u, p, w, protocol, v)
  BY MoveIsAimed
<1>2. /\ p \in 500 .. 2500 /\ p = MoveTarget(protocol, v).pulse
      /\ w \in 500 .. 2500 /\ w = UnitToPulse(protocol, u)
      /\ u = FrameTarget(protocol, MoveTarget(protocol, v).unit)
      /\ w <= p + 1 /\ p <= w + 1
  BY <1>1 DEF Aimed, Placed
<1>3. CenteredAngle(w) = 9 * w - 13500 /\ CenteredAngle(p) = 9 * p - 13500
  <2>1. w \in 500 .. 2500 /\ p \in 500 .. 2500
    BY <1>2
  <2>2. CenteredAngle(w) = 9 * w - 13500
    BY <2>1 DEF CenteredAngle, Limited
  <2>3. CenteredAngle(p) = 9 * p - 13500
    BY <2>1 DEF CenteredAngle, Limited
  <2> QED BY <2>2, <2>3
<1>4. PICK e \in Int : e = (9 * w - 13500) - (9 * p - 13500) /\ -18 <= e /\ e <= 18
  BY <1>2
<1>5. AngleBehind(protocol, u) - CenteredAngle(p) = e
  BY <1>2, <1>3, <1>4 DEF AngleBehind
<1> QED BY <1>2, <1>4, <1>5 DEF Reached
-----------------------------------------------------------------------------
(* Symbols on the line: bytes, groups of digits, checksums.                  *)
Symbol == Int \cup {Checksum(body) : body \in Seq(Int)}

LEMMA PacketIsSymbols ==
  ASSUME NEW id \in Int, NEW cmd \in Int, NEW params \in Seq(Int)
  PROVE  LxPacket(id, cmd, params) \in Seq(Symbol)
<1>1. PICK body : body = <<id, 3 + Len(params), cmd>> \o params
  OBVIOUS
<1>2. body \in Seq(Int)
  <2>1. <<id, 3 + Len(params), cmd>> \in Seq(Int)
    OBVIOUS
  <2> QED BY <1>1, <2>1
<1>3. Checksum(body) \in Symbol
  BY <1>2 DEF Symbol
<1>4. body \in Seq(Symbol)
  <2>1. Int \subseteq Symbol
    BY DEF Symbol
  <2> QED BY <1>2, <2>1, SeqMonotonic
<1>5. <<85, 85>> \in Seq(Symbol) /\ <<Checksum(body)>> \in Seq(Symbol)
  BY <1>3 DEF Symbol
<1>6. <<85, 85>> \o body \o <<Checksum(body)>> \in Seq(Symbol)
  BY <1>4, <1>5
<1>7. LxPacket(id, cmd, params) = <<85, 85>> \o body \o <<Checksum(body)>>
  BY <1>1 DEF LxPacket
<1> QED BY <1>6, <1>7

LEMMA Piece ==
  ASSUME NEW S, NEW w \in Seq(S), NEW i \in Nat, NEW j \in Nat, i + j <= Len(w)
  PROVE  /\ SubSeq(w, i + 1, i + j) \in Seq(S) /\ Len(SubSeq(w, i + 1, i + j)) = j
         /\ \A k \in 1 .. j : SubSeq(w, i + 1, i + j)[k] = w[i + k]
<1>1. \A k \in i + 1 .. i + j : w[k] \in S
  OBVIOUS
<1>2. PICK p : p = SubSeq(w, i + 1, i + j)
  OBVIOUS
<1>3. /\ p \in Seq(S) /\ Len(p) = IF i + 1 <= i + j THEN (i + j) - (i + 1) + 1 ELSE 0
      /\ \A k \in 1 .. (i + j) - (i + 1) + 1 : p[k] = w[(i + 1) + k - 1]
  BY <1>1, <1>2, SubSeqProperties
<1>4. Len(p) = j
  BY <1>3
<1>5. \A k \in 1 .. j : p[k] = w[i + k]
  BY <1>3
<1> QED BY <1>2, <1>3, <1>4, <1>5

LEMMA Pieces ==
  ASSUME NEW S, NEW b \in Seq(S), NEW w \in Seq(S),
         NEW n \in Nat, NEW m \in Nat, n + m <= Len(w)
  PROVE  (b \o SubSeq(w, 1, n)) \o SubSeq(SubSeq(w, n + 1, Len(w)), 1, m)
           = b \o SubSeq(w, 1, n + m)
<1>1. PICK p \in Seq(S) : p = SubSeq(w, 1, n) /\ Len(p) = n /\ \A i \in 1 .. n : p[i] = w[i]
  <2>1. 0 + n <= Len(w) /\ 0 + 1 = 1 /\ 0 + n = n /\ \A i \in 1 .. n : 0 + i = i
    OBVIOUS
  <2>2. /\ SubSeq(w, 0 + 1, 0 + n) \in Seq(S) /\ Len(SubSeq(w, 0 + 1, 0 + n)) = n
        /\ \A k \in 1 .. n : SubSeq(w, 0 + 1, 0 + n)[k] = w[0 + k]
    BY <2>1, Piece
  <2> QED BY <2>1, <2>2
<1>2. PICK q \in Seq(S) : /\ q = SubSeq(w, n + 1, Len(w)) /\ Len(q) = Len(w) - n
                          /\ \A i \in 1 .. Len(w) - n : q[i] = w[n + i]
  <2>1. PICK l \in Nat : l = Len(w) - n /\ n + l = Len(w)
    OBVIOUS
  <2>2. n + l <= Len(w)
    BY <2>1
  <2>3. /\ SubSeq(w, n + 1, n + l) \in Seq(S) /\ Len(SubSeq(w, n + 1, n + l)) = l
        /\ \A k \in 1 .. l : SubSeq(w, n + 1, n + l)[k] = w[n + k]
    BY <2>2, Piece
  <2> QED BY <2>1, <2>3
<1>3. PICK t \in Seq(S) : /\ t = SubSeq(q, 1, m) /\ Len(t) = m
                          /\ \A i \in 1 .. m : t[i] = q[i]
  <2>1. 0 + m <= Len(q) /\ 0 + 1 = 1 /\ 0 + m = m /\ \A i \in 1 .. m : 0 + i = i
    BY <1>2
  <2>2. /\ SubSeq(q, 0 + 1, 0 + m) \in Seq(S) /\ Len(SubSeq(q, 0 + 1, 0 + m)) = m
        /\ \A k \in 1 .. m : SubSeq(q, 0 + 1, 0 + m)[k] = q[0 + k]
    BY <2>1, Piece
  <2> QED BY <2>1, <2>2
<1>4. PICK r \in Seq(S) : /\ r = SubSeq(w, 1, n + m) /\ Len(r) = n + m
                          /\ \A i \in 1 .. n + m : r[i] = w[i]
  <2>0. PICK l \in Nat : l = n + m
    OBVIOUS
  <2>1. 0 + l <= Len(w) /\ 0 + 1 = 1 /\ 0 + l = l /\ \A i \in 1 .. l : 0 + i = i
    BY <2>0
  <2>2. /\ SubSeq(w, 0 + 1, 0 + l) \in Seq(S) /\ Len(SubSeq(w, 0 + 1, 0 + l)) = l
        /\ \A k \in 1 .. l : SubSeq(w, 0 + 1, 0 + l)[k] = w[0 + k]
    BY <2>1, Piece
  <2> QED BY <2>0, <2>1, <2>2
<1>5. p \o t = r
  <2>1. /\ p \o t \in Seq(S) /\ Len(p \o t) = n + m
        /\ \A i \in 1 .. n + m : (p \o t)[i] = IF i <= n THEN p[i] ELSE t[i - n]
    BY <1>1, <1>3, ConcatProperties
  <2>2. ASSUME NEW i \in 1 .. n + m PROVE (p \o t)[i] = r[i]
    <3>1. CASE i <= n
      BY <1>1, <1>4, <2>1, <3>1
    <3>2. CASE ~(i <= n)
      <4>1. i - n \in 1 .. m /\ n + (i - n) = i /\ i - n \in 1 .. Len(w) - n
        BY <3>2
      <4>2. t[i - n] = w[i]
        BY <1>2, <1>3, <4>1
      <4> QED BY <1>4, <2>1, <3>2, <4>2
    <3> QED BY <3>1, <3>2
  <2> QED BY <1>4, <2>1, <2>2, SeqEqual
<1>6. (b \o p) \o t = b \o (p \o t)
  OBVIOUS
<1> QED BY <1>1, <1>2, <1>3, <1>4, <1>5, <1>6
-----------------------------------------------------------------------------
(* The line, in every state it can reach.                                    *)

(* A servo stands and goes where its units are defined.                      *)
Standing ==
  /\ DOMAIN pose = LineServo /\ DOMAIN goal = LineServo
  /\ \A s \in LineServo : pose[s] \in Places(Codec[s]) /\ goal[s] \in Places(Codec[s])

(* What the last move asked of a servo is what is shown where it goes.       *)
GoalMeant ==
  /\ DOMAIN meant = LineServo /\ DOMAIN shown = LineServo
  /\ \A s \in LineServo : meant[s] # NoAngle => Reached(Codec[s], goal[s], meant[s])

Commands == {PosRead, VinRead}
Lefts == {l \in Seq({"lx", "zl"}) : l # << >>}
Asking == [at : {"ask"}, servo : LineServo, left : Lefts, cmd : Commands]
Awaiting ==
  [at : {"await"}, servo : LineServo, left : Lefts, cmd : Commands,
   buffer : Seq(Symbol), fresh : BOOLEAN, answered : BOOLEAN]
Exchanging ==
  /\ echoes \in BOOLEAN /\ wire \in Seq(Symbol)
  /\ call = Idle \/ call \in Asking \/ call \in Awaiting

(* While the answer to a read of a servo at rest comes in, whatever is       *)
(* there of it reads as the position of the servo or as nothing.             *)
Found(protocol, s) == {<< >>} \cup (IF protocol = Codec[s] THEN {<<pose[s]>>} ELSE {})
Promised ==
  call.at = "await" /\ call.cmd = PosRead /\ call.fresh =>
    /\ pose[call.servo] = goal[call.servo]
    /\ \A n \in 0 .. Len(wire) :
         Value(Head(call.left), call.buffer \o SubSeq(wire, 1, n), call.servo, PosRead)
           \in Found(Head(call.left), call.servo)

LineInv == Standing /\ GoalMeant /\ Exchanging /\ Promised /\ CommandReadsBack

LEMMA LineBegins == LineInit => LineInv
<1> SUFFICES ASSUME LineInit PROVE LineInv
  OBVIOUS
<1>1. \A s \in LineServo : Codec[s] = "lx" \/ Codec[s] = "zl"
  BY LineAssumption
<1>2. Standing
  BY <1>1 DEF LineInit, Standing, Places
<1>3. GoalMeant
  BY DEF LineInit, GoalMeant
<1>4. Exchanging
  BY DEF LineInit, Exchanging
<1>5. Promised
  BY DEF LineInit, Promised, Idle
<1>6. CommandReadsBack
  BY DEF LineInit, CommandReadsBack
<1> QED BY <1>2, <1>3, <1>4, <1>5, <1>6 DEF LineInv

(* Between exchanges a move or a stop owes only that the servo stays where   *)
(* its units are defined and is shown what was asked for.                    *)
LEMMA MoveKeeps ==
  ASSUME LineInv, NEW s \in LineServo, NEW v \in Int, NEW meaning, NEW written \in BOOLEAN,
         Reached(Codec[s], FrameTarget(Codec[s], MoveTarget(Codec[s], v).unit), meaning),
         ExecuteMove(s, v, meaning, written)
  PROVE  LineInv'
<1>1. /\ call = Idle /\ answer' = NoAnswer /\ DOMAIN shown' = DOMAIN shown
      /\ goal' = [goal EXCEPT ![s] = IF written THEN FrameTarget(Codec[s], MoveTarget(Codec[s], v).unit)
                                     ELSE @]
      /\ meant' = [meant EXCEPT ![s] = IF written THEN meaning ELSE NoAngle]
      /\ UNCHANGED <<pose, echoes, wire, call>>
  BY DEF ExecuteMove
<1>2. Codec[s] \in {"lx", "zl"}
  BY LineAssumption
<1>3. FrameTarget(Codec[s], MoveTarget(Codec[s], v).unit) \in Places(Codec[s])
  BY <1>2, GoalIsPlace
<1>4. PICK u : u = FrameTarget(Codec[s], MoveTarget(Codec[s], v).unit)
  OBVIOUS
<1>5. Standing'
  BY <1>1, <1>3, <1>4 DEF LineInv, Standing
<1>6. GoalMeant'
  BY <1>1, <1>4 DEF LineInv, Standing, GoalMeant
<1>7. Exchanging'
  BY <1>1 DEF LineInv, Exchanging
<1>8. Promised'
  BY <1>1 DEF Promised, Idle
<1>9. CommandReadsBack'
  BY <1>1 DEF CommandReadsBack
<1> QED BY <1>5, <1>6, <1>7, <1>8, <1>9 DEF LineInv

LEMMA ClientMoveKeeps ==
  ASSUME LineInv, NEW s \in LineServo, NEW r \in Requests, NEW written \in BOOLEAN,
         ClientMove(s, r, written)
  PROVE  LineInv'
<1>1. Position(r) # Refused /\ ExecuteMove(s, Position(r), Meaning(r), written)
  BY DEF ClientMove
<1>2. r \in ServoRequest /\ Codec[s] \in {"lx", "zl"}
  BY LineAssumption
<1>3. Position(r) \in Int
  <2>1. PICK p, m : Meant(p, m, r)
    BY <1>1, <1>2, PositionIsMeant
  <2> QED BY <2>1 DEF Meant
<1>4. Reached(Codec[s], FrameTarget(Codec[s], MoveTarget(Codec[s], Position(r)).unit), Meaning(r))
  BY <1>1, <1>2, MovesReadBack
<1> QED BY <1>1, <1>3, <1>4, MoveKeeps

LEMMA OtherMoveKeeps ==
  ASSUME LineInv, NEW s \in LineServo, NEW v \in Targets, NEW written \in BOOLEAN,
         OtherMove(s, v, written)
  PROVE  LineInv'
<1>1. v \in Int /\ Codec[s] \in {"lx", "zl"}
  BY LineAssumption
<1>2. Reached(Codec[s], FrameTarget(Codec[s], MoveTarget(Codec[s], v).unit),
              CenteredAngle(MoveTarget(Codec[s], v).pulse))
  BY <1>1, OtherReadsBack
<1>3. ExecuteMove(s, v, CenteredAngle(MoveTarget(Codec[s], v).pulse), written)
  BY DEF OtherMove
<1> QED BY <1>1, <1>2, <1>3, MoveKeeps

LEMMA ArriveKeeps ==
  ASSUME LineInv, NEW s \in LineServo, Arrive(s) PROVE LineInv'
<1>1. /\ pose[s] # goal[s] /\ pose' = [pose EXCEPT ![s] = goal[s]]
      /\ UNCHANGED <<goal, echoes, wire, call, shown, meant, answer>>
  BY DEF Arrive
<1>2. Standing'
  BY <1>1 DEF LineInv, Standing
<1>3. GoalMeant'
  BY <1>1 DEF LineInv, GoalMeant
<1>4. Exchanging'
  BY <1>1 DEF LineInv, Exchanging
<1>5. Promised'
  <2> SUFFICES ASSUME call.at = "await", call.cmd = PosRead, call.fresh PROVE Promised'
    BY <1>1 DEF Promised
  <2>1. pose[call.servo] = goal[call.servo]
    BY DEF LineInv, Promised
  <2>2. call.servo # s
    BY <1>1, <2>1
  <2>3. pose'[call.servo] = pose[call.servo]
    <3>1. call.servo \in LineServo
      BY DEF LineInv, Exchanging, Idle, Asking, Awaiting
    <3> QED BY <1>1, <2>2, <3>1 DEF LineInv, Standing
  <2> QED BY <1>1, <2>1, <2>3 DEF LineInv, Promised, Found
<1>6. CommandReadsBack'
  BY <1>1 DEF LineInv, CommandReadsBack
<1> QED BY <1>2, <1>3, <1>4, <1>5, <1>6 DEF LineInv

LEMMA BeginKeeps ==
  ASSUME LineInv, NEW s \in LineServo, NEW order \in Lefts, NEW cmd \in Commands,
         Begin(s, order, cmd)
  PROVE  LineInv'
<1>1. /\ call' = [at |-> "ask", servo |-> s, left |-> order, cmd |-> cmd]
      /\ answer' = NoAnswer
      /\ UNCHANGED <<pose, goal, echoes, wire, shown, meant>>
  BY DEF Begin, line
<1>2. Standing'
  BY <1>1 DEF LineInv, Standing
<1>3. GoalMeant'
  BY <1>1 DEF LineInv, GoalMeant
<1>4. Exchanging'
  BY <1>1 DEF LineInv, Exchanging, Asking
<1>5. Promised'
  BY <1>1 DEF Promised
<1>6. CommandReadsBack'
  BY <1>1 DEF CommandReadsBack
<1> QED BY <1>2, <1>3, <1>4, <1>5, <1>6 DEF LineInv

LEMMA OrderIsTried ==
  ASSUME NEW requested \in {"auto", "lx", "zl"}, NEW s PROVE Order(requested, s) \in Lefts
<1>1. <<"lx">> \in Lefts /\ <<"zl">> \in Lefts /\ <<"lx", "zl">> \in Lefts
  BY DEF Lefts
<1> QED BY <1>1 DEF Order

LEMMA ReadKeeps ==
  ASSUME LineInv, NEW s \in LineServo, NEW requested \in {"auto", "lx", "zl"},
         Read(s, requested)
  PROVE  LineInv'
<1>1. Order(requested, s) \in Lefts /\ PosRead \in Commands
  BY OrderIsTried DEF Commands
<1>2. Begin(s, Order(requested, s), PosRead)
  BY DEF Read
<1> QED BY <1>1, <1>2, BeginKeeps

LEMMA ExecuteKeeps ==
  ASSUME LineInv, NEW s \in LineServo, NEW p \in {"lx", "zl"}, NEW cmd \in Commands,
         Execute(s, p, cmd)
  PROVE  LineInv'
<1>1. <<p>> \in Lefts
  BY DEF Lefts
<1>2. Begin(s, <<p>>, cmd)
  BY DEF Execute
<1> QED BY <1>1, <1>2, BeginKeeps

(* All that a line carries are symbols.                                      *)
LEMMA FrameIsSymbols ==
  ASSUME NEW p \in {"lx", "zl"}, NEW s \in LineServo, NEW cmd \in Int
  PROVE  Frame(p, s, cmd) \in Seq(Symbol)
<1>1. s \in Int
  BY LineAssumption
<1>2. LxPacket(s, cmd, << >>) \in Seq(Symbol)
  <2>1. PICK params : params = << >>
    OBVIOUS
  <2>2. params \in Seq(Int)
    BY <2>1
  <2>3. LxPacket(s, cmd, params) \in Seq(Symbol)
    BY <1>1, <2>2, PacketIsSymbols
  <2> QED BY <2>1, <2>3
<1>3. Int \subseteq Symbol
  BY DEF Symbol
<1>4. <<35, s, 80>> \o <<82, 65, 68>> \o <<33>> \in Seq(Int)
  BY <1>1
<1>5. <<35, s, 80>> \o <<68, 83, 84>> \o <<33>> \in Seq(Int)
  BY <1>1
<1>6. CASE p = "lx"
  BY <1>2, <1>6 DEF Frame
<1>7. CASE p = "zl"
  <2>1. Frame(p, s, cmd) \in Seq(Int)
    BY <1>4, <1>5, <1>7 DEF Frame
  <2> QED BY <1>3, <2>1, SeqMonotonic
<1> QED BY <1>6, <1>7

LEMMA RestIsSymbols ==
  ASSUME wire \in Seq(Symbol), NEW dropped \in 0 .. Len(wire)
  PROVE  SubSeq(wire, dropped + 1, Len(wire)) \in Seq(Symbol)
<1>1. \A i \in dropped + 1 .. Len(wire) : wire[i] \in Symbol
  OBVIOUS
<1> QED BY <1>1, SubSeqProperties

LEMMA StopKeeps ==
  ASSUME LineInv, NEW s \in LineServo, NEW p \in {"lx", "zl"}, NEW dropped \in 0 .. Len(wire),
         ExecuteStop(s, p, dropped)
  PROVE  LineInv'
<1>1. /\ call = Idle /\ answer' = NoAnswer
      /\ goal' = [goal EXCEPT ![s] = IF p = Codec[s] THEN pose[s] ELSE @]
      /\ meant' = [meant EXCEPT ![s] = NoAngle]
      /\ wire' = SubSeq(wire, dropped + 1, Len(wire))
                   \o (IF echoes THEN Frame(p, s, MoveStop) ELSE << >>)
      /\ UNCHANGED <<pose, echoes, call, shown>>
  BY DEF ExecuteStop
<1>2. Standing'
  BY <1>1 DEF LineInv, Standing
<1>3. GoalMeant'
  BY <1>1 DEF LineInv, Standing, GoalMeant
<1>4. Exchanging'
  <2>1. Frame(p, s, MoveStop) \in Seq(Symbol)
    <3>1. PICK cmd \in Int : cmd = MoveStop
      BY DEF MoveStop
    <3>2. Frame(p, s, cmd) \in Seq(Symbol)
      BY FrameIsSymbols
    <3> QED BY <3>1, <3>2
  <2>2. wire \in Seq(Symbol)
    BY DEF LineInv, Exchanging
  <2>3. SubSeq(wire, dropped + 1, Len(wire)) \in Seq(Symbol)
    BY <2>2, RestIsSymbols
  <2>4. (IF echoes THEN Frame(p, s, MoveStop) ELSE << >>) \in Seq(Symbol)
    BY <2>1
  <2>5. wire' \in Seq(Symbol)
    BY <1>1, <2>3, <2>4, ConcatProperties
  <2> QED BY <1>1, <2>5 DEF LineInv, Exchanging
<1>5. Promised'
  BY <1>1 DEF Promised, Idle
<1>6. CommandReadsBack'
  BY <1>1 DEF CommandReadsBack
<1> QED BY <1>2, <1>3, <1>4, <1>5, <1>6 DEF LineInv

LEMMA DeadlineKeeps ==
  ASSUME LineInv, Deadline PROVE LineInv'
<1>1. /\ call.at = "await"
      /\ call' = IF Len(call.left) = 1 THEN Idle
                 ELSE [at |-> "ask", servo |-> call.servo, left |-> Tail(call.left),
                       cmd |-> call.cmd]
      /\ UNCHANGED <<pose, goal, echoes, wire, shown, meant, answer>>
  BY DEF Deadline, line
<1>2. Standing'
  BY <1>1 DEF LineInv, Standing
<1>3. GoalMeant'
  BY <1>1 DEF LineInv, GoalMeant
<1>4. Exchanging'
  <2>1. call \in Awaiting
    BY <1>1 DEF LineInv, Exchanging, Idle, Asking
  <2>2. call.servo \in LineServo /\ call.cmd \in Commands
    BY <2>1 DEF Awaiting
  <2>3. call.left \in Seq({"lx", "zl"}) /\ call.left # << >>
    BY <2>1 DEF Awaiting, Lefts
  <2>4. Len(call.left) # 1 => Tail(call.left) \in Lefts
    <3>1. PICK l \in Seq({"lx", "zl"}) : l = call.left
      BY <2>3
    <3>2. Tail(l) \in Seq({"lx", "zl"}) /\ Len(Tail(l)) = Len(l) - 1
      BY <2>3, <3>1
    <3>3. Len(l) # 1 => Tail(l) # << >>
      BY <3>2
    <3> QED BY <3>1, <3>2, <3>3 DEF Lefts
  <2>5. call' = Idle \/ call' \in Asking
    BY <1>1, <2>2, <2>4 DEF Asking
  <2> QED BY <1>1, <2>5 DEF LineInv, Exchanging
<1>5. Promised'
  BY <1>1 DEF Promised, Idle
<1>6. CommandReadsBack'
  BY <1>1 DEF LineInv, CommandReadsBack
<1> QED BY <1>2, <1>3, <1>4, <1>5, <1>6 DEF LineInv

LEMMA AnswerIsSymbols ==
  ASSUME NEW s \in LineServo, NEW cmd \in Int, NEW reading \in Int
  PROVE  AnswerFrame(s, cmd, reading) \in Seq(Symbol)
<1>1. s \in Int
  BY LineAssumption
<1>2. CASE Codec[s] = "lx"
  <2>1. PICK params : params = U16(reading)
    OBVIOUS
  <2>2. params \in Seq(Int)
    BY <2>1 DEF U16
  <2>3. LxPacket(s, cmd, params) \in Seq(Symbol)
    BY <1>1, <2>2, PacketIsSymbols
  <2> QED BY <1>2, <2>1, <2>3 DEF AnswerFrame
<1>3. CASE Codec[s] # "lx"
  <2>1. Int \subseteq Symbol
    BY DEF Symbol
  <2>2. <<35, s, 80, reading, 33>> \in Seq(Int)
    BY <1>1
  <2>3. AnswerFrame(s, cmd, reading) \in Seq(Int)
    BY <1>3, <2>2 DEF AnswerFrame
  <2> QED BY <2>1, <2>3, SeqMonotonic
<1> QED BY <1>2, <1>3

LEMMA Overwritten ==
  ASSUME NEW S, NEW f \in Seq(S), NEW i, NEW x \in S PROVE [f EXCEPT ![i] = x] \in Seq(S)
<1>1. PICK n \in Nat : f \in [1 .. n -> S]
  BY SeqDef
<1>2. [f EXCEPT ![i] = x] \in [1 .. n -> S]
  BY <1>1
<1> QED BY <1>2, SeqDef

LEMMA TrafficIsSymbols ==
  ASSUME NEW echo \in BOOLEAN, NEW s \in LineServo, NEW p \in {"lx", "zl"}, NEW cmd \in Int,
         NEW reading \in Int, NEW lead \in Noise, NEW reply \in Replies(s, p, cmd, reading)
  PROVE  Traffic(echo, s, p, cmd, lead, reply) \in Seq(Symbol)
<1>1. Int \subseteq Symbol /\ 0 .. 255 \subseteq Symbol
  BY DEF Symbol
<1>2. (IF echo THEN Frame(p, s, cmd) ELSE << >>) \in Seq(Symbol)
  <2>1. Frame(p, s, cmd) \in Seq(Symbol)
    BY FrameIsSymbols
  <2>2. << >> \in Seq(Symbol)
    OBVIOUS
  <2> QED BY <2>1, <2>2
<1>3. lead \in Seq(Symbol)
  <2>1. lead \in Seq(0 .. 255)
    BY LineAssumption
  <2> QED BY <1>1, <2>1, SeqMonotonic
<1>4. reply \in Seq(Symbol)
  <2>1. PICK frame \in Seq(Symbol) : frame = AnswerFrame(s, cmd, reading)
    BY AnswerIsSymbols
  <2>2. ASSUME NEW d \in Damage PROVE [frame EXCEPT ![d.at] = d.to] \in Seq(Symbol)
    <3>1. d.to \in 0 .. 255
      BY LineAssumption
    <3>2. d.to \in Symbol
      BY <1>1, <3>1
    <3> QED BY <3>2, Overwritten
  <2>3. << >> \in Seq(Symbol)
    OBVIOUS
  <2>4. reply = << >> \/ reply = frame \/ \E d \in Damage : reply = [frame EXCEPT ![d.at] = d.to]
    BY <2>1 DEF Replies
  <2> QED BY <2>2, <2>3, <2>4, Zenon
<1>5. Traffic(echo, s, p, cmd, lead, reply)
        = (IF echo THEN Frame(p, s, cmd) ELSE << >>) \o lead \o reply
  BY DEF Traffic
<1>6. PICK e \in Seq(Symbol) : e = IF echo THEN Frame(p, s, cmd) ELSE << >>
  BY <1>2
<1>7. e \o lead \o reply \in Seq(Symbol)
  BY <1>3, <1>4
<1> QED BY <1>5, <1>6, <1>7

LEMMA PositionIsFound ==
  ASSUME PositionsAreFound, NEW s \in LineServo, NEW p \in {"lx", "zl"}, NEW echo \in BOOLEAN,
         NEW lead \in Noise, NEW place \in Places(Codec[s]),
         NEW reply \in Replies(s, p, PosRead, place)
  PROVE  ReadsAs(IF reply = << >> THEN {} ELSE {<<place>>}, p, s,
                 Traffic(echo, s, p, PosRead, lead, reply))
BY DEF PositionsAreFound

LEMMA AskKeeps ==
  ASSUME PositionsAreFound, LineInv, call.at = "ask", NEW dropped \in 0 .. Len(wire),
         NEW lead \in Noise,
         NEW reply \in Replies(call.servo, Head(call.left), call.cmd,
                               Reading(call.servo, call.cmd)),
         Ask(dropped, lead, reply)
  PROVE  LineInv'
<1>1. call \in Asking
  BY DEF LineInv, Exchanging, Idle, Awaiting
<1>2. PICK s \in LineServo, left \in Lefts, cmd \in Commands :
        s = call.servo /\ left = call.left /\ cmd = call.cmd
  BY <1>1 DEF Asking
<1>3. PICK p \in {"lx", "zl"} : p = Head(call.left)
  BY <1>2 DEF Lefts
<1>4. PICK reading \in Int : reading = Reading(s, cmd) /\ (cmd = PosRead => reading = pose[s])
  <2>1. pose[s] \in Int
    <3>1. pose[s] \in Places(Codec[s])
      BY DEF LineInv, Standing
    <3>2. Places(Codec[s]) \subseteq Int
      BY DEF Places
    <3> QED BY <3>1, <3>2
  <2> QED BY <2>1 DEF Reading, Voltage
<1>5. PICK all \in Seq(Symbol) : all = Traffic(echoes, s, p, cmd, lead, reply)
  <2>1. echoes \in BOOLEAN /\ reply \in Replies(s, p, cmd, reading)
    BY <1>2, <1>3, <1>4 DEF LineInv, Exchanging
  <2>2. cmd \in Int
    BY DEF Commands, PosRead, VinRead
  <2> QED BY <2>1, <2>2, TrafficIsSymbols
<1>6. PICK late \in Seq(Symbol) : late = SubSeq(wire, dropped + 1, Len(wire))
  <2>1. wire \in Seq(Symbol)
    BY DEF LineInv, Exchanging
  <2> QED BY <2>1, RestIsSymbols
<1>7. /\ wire' = late \o all
      /\ call' = [at |-> "await", servo |-> s, left |-> left, cmd |-> cmd, buffer |-> << >>,
                  fresh |-> late = << >> /\ pose[s] = goal[s], answered |-> reply # << >>]
      /\ UNCHANGED <<pose, goal, echoes, shown, meant, answer>>
  BY <1>2, <1>3, <1>5, <1>6 DEF Ask
<1>8. Standing'
  BY <1>7 DEF LineInv, Standing
<1>9. GoalMeant'
  BY <1>7 DEF LineInv, GoalMeant
<1>10. Exchanging'
  <2>1. wire' \in Seq(Symbol)
    BY <1>7
  <2>2. call' \in Awaiting
    BY <1>7 DEF Awaiting
  <2> QED BY <1>7, <2>1, <2>2 DEF LineInv, Exchanging
<1>11. Promised'
  <2> SUFFICES ASSUME call'.cmd = PosRead, call'.fresh PROVE Promised'
    BY DEF Promised
  <2>1. cmd = PosRead /\ late = << >> /\ pose[s] = goal[s]
    BY <1>7
  <2>2. wire' = all
    BY <1>7, <2>1
  <2>3. ASSUME NEW n \in 0 .. Len(all)
        PROVE  Value(p, << >> \o SubSeq(all, 1, n), s, PosRead) \in Found(p, s)
    <3>1. << >> \o SubSeq(all, 1, n) = SubSeq(all, 1, n)
      <4>1. SubSeq(all, 1, n) \in Seq(Symbol)
        OBVIOUS
      <4> QED BY <4>1
    <3>2. pose[s] \in Places(Codec[s])
      BY DEF LineInv, Standing
    <3>3. reply \in Replies(s, p, PosRead, pose[s])
      BY <1>2, <1>3, <1>4, <2>1
    <3>4. all = Traffic(echoes, s, p, PosRead, lead, reply) /\ echoes \in BOOLEAN
      BY <1>5, <2>1 DEF LineInv, Exchanging
    <3>5. ReadsAs(IF reply = << >> THEN {} ELSE {<<pose[s]>>}, p, s, all)
      <4>1. PICK place \in Places(Codec[s]) : place = pose[s]
        BY <3>2
      <4>2. PICK answered \in Replies(s, p, PosRead, place) : answered = reply
        BY <3>3, <4>1
      <4>3. PICK echo \in BOOLEAN : echo = echoes
        BY <3>4
      <4>4. ReadsAs(IF answered = << >> THEN {} ELSE {<<place>>}, p, s,
                    Traffic(echo, s, p, PosRead, lead, answered))
        BY PositionIsFound
      <4> QED BY <3>4, <4>1, <4>2, <4>3, <4>4
    <3>6. reply # << >> => p = Codec[s]
      BY <3>3 DEF Replies
    <3> QED BY <3>1, <3>5, <3>6 DEF Found, ReadsAs
  <2> QED BY <1>2, <1>3, <1>7, <2>1, <2>2, <2>3 DEF Promised, Found
<1>12. CommandReadsBack'
  BY <1>7 DEF LineInv, CommandReadsBack
<1> QED BY <1>8, <1>9, <1>10, <1>11, <1>12 DEF LineInv

LEMMA PollKeeps ==
  ASSUME LineInv, NEW n \in 1 .. Len(wire), Poll(n) PROVE LineInv'
<1>1. call \in Awaiting /\ call.at = "await"
  BY DEF LineInv, Exchanging, Idle, Asking, Poll
<1>2. PICK s \in LineServo, left \in Lefts, cmd \in Commands, held \in Seq(Symbol) :
        s = call.servo /\ left = call.left /\ cmd = call.cmd /\ held = call.buffer
  BY <1>1 DEF Awaiting
<1>3. PICK w \in Seq(Symbol) : w = wire
  BY DEF LineInv, Exchanging
<1>4. PICK buffer \in Seq(Symbol), rest \in Seq(Symbol) :
        /\ buffer = held \o SubSeq(w, 1, n) /\ rest = SubSeq(w, n + 1, Len(w))
        /\ Len(rest) = Len(w) - n
  <2>1. PICK p : p = SubSeq(w, 1, n)
    OBVIOUS
  <2>2. p \in Seq(Symbol)
    <3>1. \A i \in 1 .. n : w[i] \in Symbol
      BY <1>3
    <3> QED BY <2>1, <3>1, SubSeqProperties
  <2>3. PICK rest : rest = SubSeq(w, n + 1, Len(w))
    OBVIOUS
  <2>4. rest \in Seq(Symbol) /\ Len(rest) = Len(w) - n
    <3>1. \A i \in n + 1 .. Len(w) : w[i] \in Symbol
      OBVIOUS
    <3>2. rest \in Seq(Symbol) /\ Len(rest) = IF n + 1 <= Len(w) THEN Len(w) - (n + 1) + 1 ELSE 0
      BY <2>3, <3>1, SubSeqProperties
    <3>3. n <= Len(w) /\ n \in Nat /\ Len(w) \in Nat
      BY <1>3
    <3> QED BY <3>2, <3>3
  <2>5. held \o p \in Seq(Symbol)
    BY <2>2
  <2> QED BY <2>1, <2>3, <2>4, <2>5
<1>5. PICK value : value = Value(Head(left), buffer, s, cmd)
  OBVIOUS
<1>6. /\ wire' = rest
      /\ UNCHANGED <<pose, goal, echoes, meant>>
      /\ value = << >> => /\ call' = [call EXCEPT !.buffer = buffer]
                          /\ UNCHANGED <<shown, answer>>
      /\ value # << >> =>
           /\ call' = Idle
           /\ answer' = [servo |-> s, cmd |-> cmd, value |-> value[1], fresh |-> call.fresh]
           /\ shown' = IF Publishes(cmd)
                       THEN [shown EXCEPT ![s] = Shown(UnitToPulse(Head(left), value[1]), 0)]
                       ELSE shown
  BY <1>2, <1>3, <1>4, <1>5 DEF Poll
<1>7. Standing'
  BY <1>6 DEF LineInv, Standing
<1>8. GoalMeant'
  BY <1>6 DEF LineInv, GoalMeant
<1>9. value = << >> => call' \in Awaiting
  BY <1>1, <1>6 DEF Awaiting
<1>10. Exchanging'
  BY <1>6, <1>9 DEF LineInv, Exchanging
<1>11. ASSUME cmd = PosRead, call.fresh
       PROVE  /\ pose[s] = goal[s]
              /\ \A k \in 0 .. Len(w) :
                   Value(Head(left), held \o SubSeq(w, 1, k), s, PosRead) \in Found(Head(left), s)
  BY <1>1, <1>2, <1>3, <1>11 DEF LineInv, Promised
<1>12. Promised'
  <2>1. CASE value # << >>
    BY <1>6, <2>1 DEF Promised, Idle
  <2>2. CASE value = << >>
    <3> SUFFICES ASSUME cmd = PosRead, call.fresh
                 PROVE  /\ pose[s] = goal[s]
                        /\ \A k \in 0 .. Len(rest) :
                             Value(Head(left), buffer \o SubSeq(rest, 1, k), s, PosRead)
                               \in Found(Head(left), s)
      <4>1. /\ call'.cmd = cmd /\ call'.fresh = call.fresh /\ call'.servo = s
            /\ call'.left = left /\ call'.buffer = buffer
        BY <1>1, <1>2, <1>6, <2>2 DEF Awaiting
      <4> QED BY <1>6, <4>1 DEF Promised, Found
    <3>1. ASSUME NEW k \in 0 .. Len(rest)
          PROVE  Value(Head(left), buffer \o SubSeq(rest, 1, k), s, PosRead)
                   \in Found(Head(left), s)
      <4>1. n \in Nat /\ k \in Nat /\ n + k <= Len(w) /\ n + k \in 0 .. Len(w)
        BY <1>3, <1>4
      <4>2. buffer \o SubSeq(rest, 1, k) = held \o SubSeq(w, 1, n + k)
        <5>1. n + k <= Len(w)
          BY <4>1
        <5>2. (held \o SubSeq(w, 1, n)) \o SubSeq(SubSeq(w, n + 1, Len(w)), 1, k)
                = held \o SubSeq(w, 1, n + k)
          <6>1. PICK i \in Nat, j \in Nat : i = n /\ j = k
            BY <4>1
          <6>2. i + j <= Len(w)
            BY <5>1, <6>1
          <6>3. (held \o SubSeq(w, 1, i)) \o SubSeq(SubSeq(w, i + 1, Len(w)), 1, j)
                  = held \o SubSeq(w, 1, i + j)
            BY <6>2, Pieces
          <6> QED BY <6>1, <6>3
        <5>3. buffer = held \o SubSeq(w, 1, n) /\ rest = SubSeq(w, n + 1, Len(w))
          BY <1>4
        <5> QED BY <5>2, <5>3
      <4> QED BY <1>11, <4>1, <4>2
    <3> QED BY <1>11, <3>1
  <2> QED BY <2>1, <2>2
<1>13. CommandReadsBack'
  <2>1. CASE value = << >>
    BY <1>6, <2>1 DEF LineInv, CommandReadsBack
  <2>2. CASE value # << >>
    <3> SUFFICES ASSUME cmd = PosRead, call.fresh, meant[s] # NoAngle
                 PROVE  LET error == shown'[s].angle - meant[s] IN -18 <= error /\ error <= 18
      BY <1>6, <2>2 DEF CommandReadsBack
    <3>1. n \in 0 .. Len(w)
      BY <1>3
    <3>2. Head(left) = Codec[s] /\ value[1] = goal[s]
      BY <1>4, <1>5, <1>11, <2>2, <3>1 DEF Found
    <3>3. shown'[s].angle = AngleBehind(Codec[s], goal[s])
      BY <1>6, <2>2, <3>2 DEF LineInv, GoalMeant, Publishes, Shown, AngleBehind
    <3>4. Reached(Codec[s], goal[s], meant[s])
      BY DEF LineInv, GoalMeant
    <3> QED BY <3>3, <3>4 DEF Reached
  <2> QED BY <2>1, <2>2
<1> QED BY <1>7, <1>8, <1>10, <1>12, <1>13 DEF LineInv

LEMMA StutterKeeps ==
  ASSUME LineInv, UNCHANGED lineVars PROVE LineInv'
BY DEF LineInv, Standing, GoalMeant, Exchanging, Promised, Found, CommandReadsBack,
       lineVars, line

(* On a line whose noise and damage make no whole packets: what a client     *)
(* asked for is what it is shown once the servo is there and was read,       *)
(* within 0.18 degree, for any requests and positions, any servos, whatever  *)
(* answers come late, in pieces or not at all, and whichever protocol is     *)
(* tried first (bus_port_driver.py, lx_protocol.py, zl_protocol.py).         *)
THEOREM LineReadsBack ==
  ASSUME PositionsAreFound PROVE LineSpec => []CommandReadsBack
<1>1. ASSUME LineInv, [LineNext]_lineVars PROVE LineInv'
  <2>1. CASE UNCHANGED lineVars
    BY <1>1, <2>1, StutterKeeps
  <2>2. ASSUME NEW s \in LineServo, NEW r \in Requests, NEW written \in BOOLEAN,
               ClientMove(s, r, written)
        PROVE  LineInv'
    BY <1>1, <2>2, ClientMoveKeeps
  <2>3. ASSUME NEW s \in LineServo, NEW v \in Targets, NEW written \in BOOLEAN,
               OtherMove(s, v, written)
        PROVE  LineInv'
    BY <1>1, <2>3, OtherMoveKeeps
  <2>4. ASSUME NEW s \in LineServo, Arrive(s) PROVE LineInv'
    BY <1>1, <2>4, ArriveKeeps
  <2>5. ASSUME NEW s \in LineServo, NEW requested \in {"auto", "lx", "zl"}, Read(s, requested)
        PROVE  LineInv'
    BY <1>1, <2>5, ReadKeeps
  <2>6. ASSUME NEW s \in LineServo, NEW p \in {"lx", "zl"}, NEW cmd \in Commands,
               Execute(s, p, cmd)
        PROVE  LineInv'
    BY <1>1, <2>6, ExecuteKeeps
  <2>7. ASSUME NEW s \in LineServo, NEW p \in {"lx", "zl"}, NEW dropped \in 0 .. Len(wire),
               ExecuteStop(s, p, dropped)
        PROVE  LineInv'
    BY <1>1, <2>7, StopKeeps
  <2>8. ASSUME call.at = "ask", NEW dropped \in 0 .. Len(wire), NEW lead \in Noise,
               NEW reply \in Replies(call.servo, Head(call.left), call.cmd,
                                     Reading(call.servo, call.cmd)),
               Ask(dropped, lead, reply)
        PROVE  LineInv'
    BY <1>1, <2>8, AskKeeps
  <2>9. ASSUME NEW n \in 1 .. Len(wire), Poll(n) PROVE LineInv'
    BY <1>1, <2>9, PollKeeps
  <2>10. ASSUME Deadline PROVE LineInv'
    BY <1>1, <2>10, DeadlineKeeps
  <2> QED BY <1>1, <2>1, <2>2, <2>3, <2>4, <2>5, <2>6, <2>7, <2>8, <2>9, <2>10
          DEF LineNext, Commands
<1>2. LineInv => CommandReadsBack
  BY DEF LineInv
<1> QED BY <1>1, <1>2, LineBegins, PTL DEF LineSpec
=============================================================================
