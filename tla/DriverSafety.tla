---------------------------- MODULE DriverSafety ----------------------------
(***************************************************************************)
(* The stop path of the robot: execution_manager_node.py, the bus router   *)
(* and the port drivers, with the two channels that join them.  Stops are  *)
(* announced on the latched topic /servo/driver_safety, carried out by     *)
(* service calls through the router, and undone by a release call that     *)
(* every port has to acknowledge.                                          *)
(*                                                                         *)
(* A stop service request, an estop and an estop release each run as one   *)
(* operation of the execution manager.  The first runs in a reentrant      *)
(* group; the other two hold the default callback group (busy) until they  *)
(* are done, and so hold up every command and every other estop message.   *)
(* Any service call may time out on its caller and still be served late.   *)
(* The clock advances when a stamp is drawn: only their order matters.     *)
(***************************************************************************)
EXTENDS Integers, FiniteSets, DriverSafetyLatch

CONSTANTS
  Port,          \* port drivers, one bus actuator each
  Router,        \* the bus_protocol_router
  Nothing,       \* no message, no request, no port
  MaxOps,        \* bound on the operations begun; not in the code
  MaxMoves,      \* bound on the moves forwarded; not in the code
  MaxRestarts    \* bound on the restarts of nodes; not in the code

ASSUME DriversAssumption ==
  /\ IsFiniteSet(Port)
  /\ Router \notin Port
  /\ Nothing \notin Port \cup {Router}
  /\ MaxOps \in Nat /\ MaxMoves \in Nat /\ MaxRestarts \in Nat

Driver == Port \cup {Router}
Op == 1 .. MaxOps
NoOp == 0

VARIABLES
  \* execution manager
  clock,       \* the last stamp drawn by anybody
  ops,         \* one record per operation, see Fresh
  active,      \* _active_stop_operation_ids
  busy,        \* the operation that holds the default callback group
  estop,
  fault,       \* _latched_stop_fault_reason is set
  known,       \* _known_bus_actuator_ids
  \* channels
  last,        \* the sample /servo/driver_safety retains
  topic,       \* per driver: the sample not taken yet (depth 1)
  inbox,       \* requests the router has not taken up
  portCalls,   \* per port: requests not served yet
  moves,       \* moves on their way, at the router or at their port
  \* router and port drivers
  serving,     \* the request served under the router's safety_command_lock
  latch,       \* per driver: its DriverSafetyLatch
  executed,    \* per port: the stamp of the last move written
  \* bookkeeping of the model
  quiet,       \* history, per port: when its last stop was acknowledged
  sent, restarts

manager  == <<ops, active, busy, estop, fault, known>>
channels == <<last, topic, inbox, portCalls, moves>>
drivers  == <<serving, latch, executed>>
vars == <<clock, manager, channels, drivers, quiet, sent, restarts>>

Fresh == [kind |-> "none", pc |-> "idle", todo |-> {}, port |-> Nothing,
          ok |-> TRUE, stamp |-> 0]

Sample(on, stamp) == [active |-> on, stamp |-> stamp]

Init ==
  /\ clock = 1
  /\ ops = [o \in Op |-> Fresh]
  /\ active = {}
  /\ busy = NoOp
  /\ estop = FALSE /\ fault = FALSE
  /\ known = {}
  /\ last = Sample(FALSE, 1)            \* published by the constructor
  /\ topic = [d \in Driver |-> Sample(FALSE, 1)]
  /\ inbox = {}
  /\ portCalls = [p \in Port |-> {}]
  /\ moves = {}
  /\ serving = Nothing
  /\ latch = [d \in Driver |-> NewLatch]
  /\ executed = [p \in Port |-> 0]
  /\ quiet = [p \in Port |-> 0]
  /\ sent = 0 /\ restarts = 0
-----------------------------------------------------------------------------
(* Channels. *)

Publish(on, stamp) ==
  /\ last' = Sample(on, stamp)
  /\ topic' = [d \in Driver |-> Sample(on, stamp)]

Stamped(on) == clock' = clock + 1 /\ Publish(on, clock + 1)

LockFree == serving = Nothing

(* _on_driver_safety, of the router (under its lock) and of a port *)
Deliver(d) ==
  /\ topic[d] # Nothing
  /\ d = Router => LockFree
  /\ latch' = [latch EXCEPT ![d] =
                 Observe(@, topic[d].active, topic[d].stamp, clock)]
  /\ topic' = [topic EXCEPT ![d] = Nothing]
  /\ UNCHANGED <<clock, manager, last, inbox, portCalls, moves, serving,
                 executed, quiet, sent, restarts>>
-----------------------------------------------------------------------------
(* Moves. *)

(* Mutant: a command is let through while stops are pending. *)
ForwardMove_Ungated(p) ==
  /\ busy = NoOp
  /\ ~estop
  /\ sent < MaxMoves
  /\ sent' = sent + 1
  /\ clock' = clock + 1
  /\ known' = known \cup {p}
  /\ moves' = moves \cup {[at |-> Router, port |-> p, stamp |-> clock + 1]}
  /\ UNCHANGED <<ops, active, busy, estop, fault, last, topic, inbox,
                 portCalls, drivers, quiet, restarts>>

(* _handle_command of a source the arbitrator accepts *)
ForwardMove(p) ==
  /\ busy = NoOp
  /\ ~estop
  /\ active = {}
  /\ sent < MaxMoves
  /\ sent' = sent + 1
  /\ clock' = clock + 1
  /\ known' = known \cup {p}
  /\ moves' = moves \cup {[at |-> Router, port |-> p, stamp |-> clock + 1]}
  /\ UNCHANGED <<ops, active, busy, estop, fault, last, topic, inbox,
                 portCalls, drivers, quiet, restarts>>

(* _handle_driver_state *)
LearnActuator(p) ==
  /\ busy = NoOp
  /\ known' = known \cup {p}
  /\ UNCHANGED <<clock, ops, active, busy, estop, fault, channels,
                 drivers, quiet, sent, restarts>>

(* _on_command of the router *)
RouterMove(m) ==
  /\ m.at = Router
  /\ LockFree
  /\ moves' = (moves \ {m}) \cup IF Admits(latch[Router], m.stamp)
                                 THEN {[m EXCEPT !.at = m.port]} ELSE {}
  /\ UNCHANGED <<clock, manager, last, topic, inbox, portCalls, drivers, quiet,
                 sent, restarts>>

(* _on_zl_command, _on_lx_command of a port driver *)
PortMove(m) ==
  /\ m.at = m.port
  /\ moves' = moves \ {m}
  /\ executed' = IF Admits(latch[m.port], m.stamp)
                 THEN [executed EXCEPT ![m.port] = m.stamp] ELSE executed
  /\ UNCHANGED <<clock, manager, last, topic, inbox, portCalls, serving, latch,
                 quiet, sent, restarts>>
-----------------------------------------------------------------------------
(* Operations of the execution manager begin. *)

NextOp(o) == /\ ops[o].kind = "none"
             /\ \A x \in Op : x < o => ops[x].kind # "none"

(* _begin_stop_operation: the task lease is valid, which excludes an estop *)
BeginStop(o, ids) ==
  /\ NextOp(o)
  /\ ~estop
  /\ ops' = [ops EXCEPT ![o] = [Fresh EXCEPT !.kind = "stop", !.pc = "announce",
                                             !.todo = ids]]
  /\ active' = active \cup {o}
  /\ UNCHANGED <<clock, busy, estop, fault, known, channels, drivers,
                 quiet, sent, restarts>>

(* _handle_estop(True): no token is registered if no actuator is known *)
EstopOn(o) ==
  /\ busy = NoOp
  /\ NextOp(o)
  /\ estop' = TRUE
  /\ ops' = [ops EXCEPT ![o] = [Fresh EXCEPT !.kind = "estop", !.pc = "announce",
                                             !.todo = known]]
  /\ active' = IF known = {} THEN active ELSE active \cup {o}
  /\ busy' = o
  /\ UNCHANGED <<clock, fault, known, channels, drivers, quiet, sent, restarts>>

(* Mutant: an estop is released although a stop failed. *)
EstopOff_IgnoresFault(o) ==
  /\ busy = NoOp
  /\ NextOp(o)
  /\ estop
  /\ ops' = [ops EXCEPT ![o] = [Fresh EXCEPT !.kind = "release", !.pc = "draw"]]
  /\ active' = active \cup {o}
  /\ busy' = o
  /\ UNCHANGED <<clock, estop, fault, known, channels, drivers,
                 quiet, sent, restarts>>

(* _handle_estop_release *)
EstopOff(o) ==
  /\ busy = NoOp
  /\ NextOp(o)
  /\ estop
  /\ ~fault
  /\ active = {}
  /\ ops' = [ops EXCEPT ![o] = [Fresh EXCEPT !.kind = "release", !.pc = "draw"]]
  /\ active' = active \cup {o}
  /\ busy' = o
  /\ UNCHANGED <<clock, estop, fault, known, channels, drivers,
                 quiet, sent, restarts>>
-----------------------------------------------------------------------------
(* The steps of an operation. *)

Goto(o, pc) == ops' = [ops EXCEPT ![o].pc = pc]
GroupLeftBy(o) == busy' = IF busy = o THEN NoOp ELSE busy

(* _publish_driver_safety(True), outside the lock *)
Announce(o) ==
  /\ ops[o].pc = "announce"
  /\ Stamped(TRUE)
  /\ IF o \in active THEN Goto(o, "stopping") /\ UNCHANGED busy
     ELSE Goto(o, "done") /\ GroupLeftBy(o)
  /\ UNCHANGED <<active, estop, fault, known, inbox, portCalls,
                 moves, drivers, quiet, sent, restarts>>

(* _stop_driver_actuators: one call after the other *)
StopRequest(o, p) == [kind |-> "stop", op |-> o, port |-> p, stamp |-> 0]
ReleaseRequest(o, s) == [kind |-> "release", op |-> o, port |-> Nothing, stamp |-> s]

StopCall(o, p) ==
  /\ ops[o].pc = "stopping"
  /\ p \in ops[o].todo
  /\ ops' = [ops EXCEPT ![o].pc = "calling", ![o].port = p]
  /\ inbox' = inbox \cup {StopRequest(o, p)}
  /\ UNCHANGED <<clock, active, busy, estop, fault, known, last, topic,
                 portCalls, moves, drivers, quiet, sent, restarts>>

StopAnswered(o, ok) ==
  ops' = [ops EXCEPT ![o].pc = "stopping", ![o].port = Nothing,
                     ![o].todo = @ \ {ops[o].port}, ![o].ok = @ /\ ok]

(* The actuator's protocol cannot be read, so no stop is sent. *)
StopUnreadable(o, p) ==
  /\ ops[o].pc = "stopping"
  /\ p \in ops[o].todo
  /\ ops' = [ops EXCEPT ![o].todo = @ \ {p}, ![o].ok = FALSE]
  /\ UNCHANGED <<clock, active, busy, estop, fault, known, channels,
                 drivers, quiet, sent, restarts>>

(* Mutant: only a stop is given up on. *)
CallTimeout_StopsOnly(o) ==
  /\ ops[o].pc = "calling" /\ StopAnswered(o, FALSE)
  /\ UNCHANGED <<clock, active, busy, estop, fault, known, channels,
                 drivers, quiet, sent, restarts>>

(* _await_driver_response gives up on a stop or on a release *)
CallTimeout(o) ==
  /\ \/ ops[o].pc = "calling" /\ StopAnswered(o, FALSE)
     \/ ops[o].pc = "releasing" /\ Goto(o, "fault")
  /\ UNCHANGED <<clock, active, busy, estop, fault, known, channels,
                 drivers, quiet, sent, restarts>>

StopsDone(o) ==
  /\ ops[o].pc = "stopping"
  /\ ops[o].todo = {}
  /\ Goto(o, IF ops[o].ok THEN "check" ELSE "fault")
  /\ UNCHANGED <<clock, active, busy, estop, fault, known, channels,
                 drivers, quiet, sent, restarts>>

(* _finish_stop_operation, up to the release *)
FinishCheck(o) ==
  /\ ops[o].pc = "check"
  /\ IF active \ {o} # {} \/ fault \/ estop
     THEN Goto(o, "done") /\ GroupLeftBy(o) /\ active' = active \ {o}
     ELSE Goto(o, "draw") /\ UNCHANGED <<busy, active>>
  /\ UNCHANGED <<clock, estop, fault, known, channels, drivers, quiet,
                 sent, restarts>>

(* _request_driver_safety_release *)
RequestRelease(o) ==
  /\ ops[o].pc = "draw"
  /\ clock' = clock + 1
  /\ ops' = [ops EXCEPT ![o].pc = "releasing", ![o].stamp = clock + 1]
  /\ inbox' = inbox \cup {ReleaseRequest(o, clock + 1)}
  /\ UNCHANGED <<active, busy, estop, fault, known, last, topic,
                 portCalls, moves, drivers, quiet, sent, restarts>>

ReleaseUnavailable(o) ==
  /\ ops[o].pc = "draw"
  /\ Goto(o, "fault")
  /\ UNCHANGED <<clock, active, busy, estop, fault, known, channels,
                 drivers, quiet, sent, restarts>>

(* A released operation gives up its token; the authoritative FALSE goes   *)
(* out with the stamp of the release.                                      *)
Conclude(o) ==
  /\ ops[o].pc = "conclude"
  /\ active' = active \ {o}
  /\ estop' = (estop /\ ops[o].kind # "release")
  /\ IF ops[o].kind = "release" \/ (active' = {} /\ ~fault /\ ~estop)
     THEN Publish(FALSE, ops[o].stamp) ELSE UNCHANGED <<last, topic>>
  /\ Goto(o, "done")
  /\ GroupLeftBy(o)
  /\ UNCHANGED <<clock, fault, known, inbox, portCalls, moves, drivers,
                 quiet, sent, restarts>>

(* _latch_stop_fault: the token is never given back *)
LatchFault(o) ==
  /\ ops[o].pc = "fault"
  /\ fault' = TRUE
  /\ estop' = TRUE
  /\ Goto(o, "alarm")
  /\ UNCHANGED <<clock, active, busy, known, channels, drivers, quiet, sent, restarts>>

Alarm(o) ==
  /\ ops[o].pc = "alarm"
  /\ Stamped(TRUE)
  /\ Goto(o, "done")
  /\ GroupLeftBy(o)
  /\ UNCHANGED <<active, estop, fault, known, inbox, portCalls, moves,
                 drivers, quiet, sent, restarts>>
-----------------------------------------------------------------------------
(* The router serves stops and releases under safety_command_lock. *)

Calls(r, p) == portCalls' = [portCalls EXCEPT ![p] = @ \cup {r}]

(* _handle_execute_command with a stop command *)
RouterTakesStop(r) ==
  /\ r \in inbox /\ r.kind = "stop"
  /\ LockFree
  /\ inbox' = inbox \ {r}
  /\ latch' = [latch EXCEPT ![Router] = Activate(@, clock)]
  /\ serving' = [req |-> r, todo |-> {}, port |-> r.port, ok |-> TRUE]
  /\ Calls(r, r.port)
  /\ UNCHANGED <<clock, manager, last, topic, moves, executed, quiet, sent, restarts>>

(* _handle_driver_safety with a release: every port is called in turn *)
RouterTakesRelease(r) ==
  /\ r \in inbox /\ r.kind = "release"
  /\ LockFree
  /\ inbox' = inbox \ {r}
  /\ serving' = [req |-> r, todo |-> Port, port |-> Nothing, ok |-> TRUE]
  /\ UNCHANGED <<clock, manager, last, topic, portCalls, moves, latch, executed,
                 quiet, sent, restarts>>

RouterCalls(p) ==
  /\ ~LockFree
  /\ serving.port = Nothing
  /\ p \in serving.todo
  /\ serving' = [serving EXCEPT !.port = p, !.todo = @ \ {p}]
  /\ Calls(serving.req, p)
  /\ UNCHANGED <<clock, manager, last, topic, inbox, moves, latch, executed, quiet,
                 sent, restarts>>

RouterTimeout ==
  /\ ~LockFree
  /\ serving.port # Nothing
  /\ serving' = [serving EXCEPT !.port = Nothing, !.ok = FALSE]
  /\ UNCHANGED <<clock, manager, channels, latch, executed, quiet, sent, restarts>>

(* _handle_execute_command and _handle_driver_safety of a port *)
StopAtPort(p) == Activate(latch[p], clock)
ReleaseAtPort(p, stamp) == Observe(latch[p], FALSE, stamp, clock)

(* The frame of a stop may fail; an answer counts if the router still      *)
(* waits for it.                                                           *)
PortServes(p, r, written) ==
  /\ r \in portCalls[p]
  /\ portCalls' = [portCalls EXCEPT ![p] = @ \ {r}]
  /\ latch' = [latch EXCEPT ![p] = IF r.kind = "stop" THEN StopAtPort(p)
                                   ELSE ReleaseAtPort(p, r.stamp)]
  /\ serving' =
       IF ~LockFree /\ serving.req = r /\ serving.port = p
       THEN [serving EXCEPT !.port = Nothing,
               !.ok = @ /\ IF r.kind = "stop" THEN written ELSE ~latch'[p].latched]
       ELSE serving
  /\ UNCHANGED <<clock, manager, last, topic, inbox, moves, executed, quiet, sent,
                 restarts>>

Served == ~LockFree /\ serving.port = Nothing /\ serving.todo = {}

RouterAnswersStop ==
  /\ Served
  /\ serving.req.kind = "stop"
  /\ serving' = Nothing
  /\ LET o == serving.req.op
         p == serving.req.port
         awaited == ops[o].pc = "calling" /\ ops[o].port = p
     IN /\ IF awaited THEN StopAnswered(o, serving.ok) ELSE UNCHANGED ops
        /\ quiet' = IF awaited /\ serving.ok THEN [quiet EXCEPT ![p] = clock]
                    ELSE quiet
  /\ UNCHANGED <<clock, active, busy, estop, fault, known, channels,
                 latch, executed, sent, restarts>>

(* Mutant: the router acknowledges for ports that did not. *)
RouterAnswersRelease_AnyPort ==
  /\ Served
  /\ serving.req.kind = "release"
  /\ serving' = Nothing
  /\ latch' = [latch EXCEPT ![Router] = Observe(@, FALSE, serving.req.stamp, clock)]
  /\ LET o == serving.req.op IN
     IF ops[o].pc = "releasing"
     THEN Goto(o, IF ~latch'[Router].latched THEN "conclude" ELSE "fault")
     ELSE UNCHANGED ops
  /\ UNCHANGED <<clock, active, busy, estop, fault, known, channels,
                 executed, quiet, sent, restarts>>

RouterAnswersRelease ==
  /\ Served
  /\ serving.req.kind = "release"
  /\ serving' = Nothing
  /\ latch' = IF serving.ok
              THEN [latch EXCEPT ![Router] = Observe(@, FALSE, serving.req.stamp, clock)]
              ELSE latch
  /\ LET o == serving.req.op IN
     IF ops[o].pc = "releasing"
     THEN Goto(o, IF serving.ok /\ ~latch'[Router].latched THEN "conclude" ELSE "fault")
     ELSE UNCHANGED ops
  /\ UNCHANGED <<clock, active, busy, estop, fault, known, channels,
                 executed, quiet, sent, restarts>>
-----------------------------------------------------------------------------
(* Restarts. *)

(* A new execution manager knows nothing and publishes FALSE at once. *)
ManagerRestart ==
  /\ restarts < MaxRestarts
  /\ restarts' = restarts + 1
  /\ ops' = [o \in Op |-> IF ops[o].kind = "none" THEN ops[o]
                          ELSE [Fresh EXCEPT !.kind = ops[o].kind, !.pc = "done"]]
  /\ active' = {}
  /\ busy' = NoOp
  /\ estop' = FALSE /\ fault' = FALSE
  /\ known' = {}
  /\ Stamped(FALSE)
  /\ UNCHANGED <<inbox, portCalls, moves, drivers, quiet, sent>>

(* A new driver is open and gets the retained sample; what the old one had *)
(* not taken up is lost, and its callers time out.                         *)
DriverRestart(d) ==
  /\ restarts < MaxRestarts
  /\ restarts' = restarts + 1
  /\ latch' = [latch EXCEPT ![d] = NewLatch]
  /\ topic' = [topic EXCEPT ![d] = last]
  /\ moves' = {m \in moves : m.at # d}
  /\ IF d = Router
     THEN inbox' = {} /\ serving' = Nothing /\ UNCHANGED portCalls
     ELSE portCalls' = [portCalls EXCEPT ![d] = {}] /\ UNCHANGED <<inbox, serving>>
  /\ UNCHANGED <<clock, manager, last, executed, quiet, sent>>
-----------------------------------------------------------------------------
ManagerStep(o) ==
  \/ Announce(o) \/ CallTimeout(o) \/ StopsDone(o) \/ FinishCheck(o)
  \/ RequestRelease(o) \/ Conclude(o) \/ LatchFault(o) \/ Alarm(o)
  \/ \E p \in Port : StopCall(o, p)

ManagerNext ==
  \/ \E o \in Op : \/ ManagerStep(o)
                   \/ ReleaseUnavailable(o)
                   \/ EstopOn(o)
                   \/ EstopOff(o)
                   \/ \E p \in Port : StopUnreadable(o, p)
                   \/ \E ids \in (SUBSET Port) \ {{}} : BeginStop(o, ids)
  \/ \E p \in Port : ForwardMove(p) \/ LearnActuator(p)

RouterNext ==
  \/ \E r \in inbox : RouterTakesStop(r) \/ RouterTakesRelease(r)
  \/ \E p \in Port : RouterCalls(p)
  \/ RouterTimeout
  \/ RouterAnswersStop
  \/ RouterAnswersRelease

PortNext ==
  \E p \in Port : \E r \in portCalls[p], written \in BOOLEAN :
    PortServes(p, r, written)

Next ==
  \/ ManagerNext
  \/ RouterNext
  \/ PortNext
  \/ ManagerRestart
  \/ \E d \in Driver : Deliver(d) \/ DriverRestart(d)
  \/ \E m \in moves : RouterMove(m) \/ PortMove(m)

Spec == Init /\ [][Next]_vars

(* The executor runs what is ready and the timers of pending calls fire.   *)
FairSpec == Spec /\ \A o \in Op : WF_vars(ManagerStep(o))
-----------------------------------------------------------------------------
Kinds == {"none", "stop", "estop", "release"}
Phases == {"idle", "announce", "stopping", "calling", "check", "draw",
           "releasing", "conclude", "fault", "alarm", "done"}
OpRecord == [kind : Kinds, pc : Phases, todo : SUBSET Port,
             port : Port \cup {Nothing}, ok : BOOLEAN, stamp : Nat]

TypeOK ==
  /\ clock \in Nat
  /\ ops \in [Op -> OpRecord]
  /\ \A o \in Op : ops[o].port # Nothing <=> ops[o].pc = "calling"
  /\ active \in SUBSET Op
  /\ busy \in Op \cup {NoOp}
  /\ estop \in BOOLEAN /\ fault \in BOOLEAN
  /\ known \in SUBSET Port
  /\ latch \in [Driver -> [latched : BOOLEAN, fence : Nat, authority : Nat]]
  /\ executed \in [Port -> Nat]
  /\ quiet \in [Port -> Nat]

(* A stop that the port and the router acknowledged is never undone by a   *)
(* move on its way: what a port writes afterwards was commanded after the  *)
(* acknowledgement, even across late releases and restarts of a driver.    *)
StaleMovesFenced ==
  [][\A p \in Port : executed'[p] # executed[p] => executed'[p] > quiet[p]]_vars

(* A latched stop fault keeps the estop and its token until the execution  *)
(* manager restarts, whatever releases and late answers are under way.     *)
FaultIsSticky ==
  [][fault => \/ fault' /\ estop' /\ active' # {}
              \/ ManagerRestart]_vars

(* docs/current_module_responsibilities.md:416: FALSE is published only    *)
(* when the router and all ports have acknowledged a release as new.  (A   *)
(* restarted driver has forgotten it, a new manager publishes FALSE.)      *)
AckBeforeFalse ==
  restarts = 0 /\ ~last.active /\ last.stamp > 1 =>
    \A d \in Driver : latch[d].authority >= last.stamp

(* Every operation ends, and with it the hold on the default group: a time *)
(* always comes again when none is under way.                              *)
OperationsEnd ==
  []<>(\A o \in Op : ops[o].kind = "none" \/ (ops[o].pc = "done" /\ busy # o))

(* Nothing is under way between the execution manager and the drivers.     *)
Settled ==
  /\ \A o \in Op : ops[o].pc \in {"idle", "done"}
  /\ inbox = {} /\ LockFree
  /\ \A p \in Port : portCalls[p] = {}
  /\ \A d \in Driver : topic[d] = Nothing

(* docs/current_module_responsibilities.md:226: while the safety state is  *)
(* active the drivers refuse moves; so once it has reached them none of    *)
(* them is open.                                                           *)
EstopLatchesDrivers ==
  Settled /\ last.active => \A d \in Driver : latch[d].latched

(* test_driver_safety_latch.py:50: an authoritative release allows new     *)
(* moves; so once all is over and clear every driver is open again.        *)
ClearOpensDrivers ==
  Settled /\ ~estop /\ active = {} => \A d \in Driver : ~latch[d].latched

=============================================================================
