---------------------------- MODULE ProtocolProbe ----------------------------
(***************************************************************************)
(* How bus_protocol_router learns which protocol each servo speaks         *)
(* (bus_protocol_router.py, bus_protocol_registry.py).  A command for a    *)
(* servo of unknown protocol is dropped and a probe is queued; the probe   *)
(* timer asks the servo in one protocol after the other, through the port  *)
(* driver's read service; an answer enters the registry, which is saved to *)
(* a file that the next start of the router loads.  So does every read and *)
(* every command of a client that succeeded through the router's services, *)
(* also a command that only writes, which succeeds without an answer       *)
(* (bus_port_driver.py, _exchange_with_servo).                             *)
(*                                                                         *)
(* All of them run in reentrant groups of a four-thread executor.          *)
(* Saving writes a second file and then renames it over the first; the     *)
(* process may die between any two steps.  The clock of the retry interval *)
(* is one bit per servo: the interval has passed or not.                   *)
(***************************************************************************)
EXTENDS Integers, Sequences, FiniteSets

CONSTANTS
  Servo,        \* ids that have a port
  Speaks,       \* external: the protocol each servo really speaks
  Manual,       \* manual_map: what the operator wrote down, id -> protocol
  InRange,      \* lx_ranges and zl_ranges: id -> protocol
  NoFile,       \* the cache file does not exist
  Served,       \* servos that clients read or command through the services
  MaxClients,   \* bound on the services' calls under way at a time
  MaxCrashes    \* bound on the crashes; neither is in the code

Protocols == <<"lx", "zl">>     \* the order of the candidates
Unknown == "unknown"

ASSUME ProbeAssumption ==
  /\ Speaks \in [Servo -> {"lx", "zl"}]
  /\ Manual \in [Servo -> {"lx", "zl", Unknown}]
  /\ InRange \in [Servo -> {"lx", "zl", Unknown}]
  /\ Served \subseteq Servo /\ MaxClients \in Nat /\ MaxCrashes \in Nat

VARIABLES
  phase,     \* "down", "startup" (run_startup_probe) or "spinning"
  cache,     \* cache_map, Unknown where there is no entry
  file,      \* the cache file
  temp,      \* the .tmp file being written by the holder of registry_lock
  queue,     \* runtime_probe_queue
  pending,   \* runtime_probe_pending
  resting,   \* servos whose last_probe_attempt is too recent
  calls,     \* calls of port drivers under way, and the protocols left to try
  found,     \* startup: results not saved yet
  routed,    \* history: the last command that went out, {} or {<<servo, protocol>>}
  blind,     \* history: foreign protocols in which a servo was written to
             \* successfully, for a client and without an answer
  crashes

memory == <<cache, queue, pending, resting, calls, found>>
vars == <<phase, memory, file, temp, routed, blind, crashes>>

Empty == [s \in Servo |-> Unknown]

Init ==
  /\ phase = "down"
  /\ cache = Empty /\ file = NoFile /\ temp = NoFile
  /\ queue = << >> /\ pending = {} /\ resting = {}
  /\ calls = {} /\ found = {}
  /\ routed = {} /\ blind = [s \in Servo |-> {}]
  /\ crashes = 0

(* Mutant: the ranges decide before the operator. *)
Protocol_RangesFirst(s) ==
  IF InRange[s] # Unknown THEN InRange[s]
  ELSE IF Manual[s] # Unknown THEN Manual[s]
  ELSE cache[s]

(* get_protocol: the operator's word, then the cache, then the ranges *)
Protocol(s) ==
  IF Manual[s] # Unknown THEN Manual[s]
  ELSE IF cache[s] # Unknown THEN cache[s]
  ELSE InRange[s]

LockFree == temp = NoFile       \* registry_lock
-----------------------------------------------------------------------------
(* The router starts: load_cache, then the startup probes one by one. *)

Unresolved == {s \in Servo : Protocol(s) = Unknown}

Start ==
  /\ phase = "down"
  /\ phase' = "startup"
  /\ cache' = IF file = NoFile THEN Empty ELSE file
  /\ found' = {}
  /\ UNCHANGED <<queue, pending, resting, calls, file, temp, routed, blind, crashes>>

(* _probe_servo_id with use_spin: no answer leaves the servo unknown *)
StartupProbe(s) ==
  /\ phase = "startup"
  /\ s \in Unresolved \ found
  /\ found' = found \cup {s}
  /\ \/ cache' = [cache EXCEPT ![s] = Speaks[s]]
     \/ UNCHANGED cache
  /\ UNCHANGED <<phase, queue, pending, resting, calls, file, temp, routed, blind, crashes>>

StartupOver ==
  /\ phase = "startup"
  /\ Unresolved \subseteq found
  /\ LockFree
  /\ phase' = "spinning"
  /\ temp' = IF \E s \in found : cache[s] # Unknown THEN cache ELSE NoFile
  /\ found' = {}
  /\ UNCHANGED <<cache, queue, pending, resting, calls, file, routed, blind, crashes>>
-----------------------------------------------------------------------------
(* Commands: _on_command, _schedule_runtime_probe. *)

Route(s) ==
  /\ phase = "spinning" /\ LockFree
  /\ Protocol(s) # Unknown
  /\ routed' = {<<s, Protocol(s)>>}
  /\ UNCHANGED <<phase, memory, file, temp, blind, crashes>>

Schedule(s) ==
  /\ phase = "spinning" /\ LockFree
  /\ Protocol(s) = Unknown
  /\ s \notin resting
  /\ s \notin pending
  /\ resting' = resting \cup {s}
  /\ pending' = pending \cup {s}
  /\ queue' = Append(queue, s)
  /\ UNCHANGED <<phase, cache, calls, found, file, temp, routed, blind, crashes>>

(* probe_retry_interval_sec has passed *)
Rested(s) ==
  /\ s \in resting
  /\ resting' = resting \ {s}
  /\ UNCHANGED <<phase, cache, queue, pending, calls, found, file, temp, routed, blind, crashes>>
-----------------------------------------------------------------------------
(* What goes to a port driver: a probe, or a service's call, in one        *)
(* protocol after the other until one succeeds.                            *)

Probe(s) == [servo |-> s, client |-> FALSE, answers |-> TRUE,
             left |-> Protocols, step |-> "asking"]

(* _process_runtime_probe_queue *)
TakeProbe ==
  /\ phase = "spinning"
  /\ queue # << >>
  /\ queue' = Tail(queue)
  /\ calls' = calls \cup {Probe(Head(queue))}
  /\ UNCHANGED <<phase, cache, pending, resting, found, file, temp, routed, blind, crashes>>

(* _resolve_protocol_order: Unknown where the client names no protocol *)
Other(p) == IF p = "lx" THEN "zl" ELSE "lx"
ProtocolOrder(s, requested) ==
  IF requested # Unknown THEN <<requested>>
  ELSE IF Protocol(s) # Unknown THEN <<Protocol(s), Other(Protocol(s))>>
  ELSE Protocols

(* _handle_read_position, _handle_execute_command: answers is FALSE for a  *)
(* command that only writes.                                               *)
Serve(s, requested, answers) ==
  /\ phase = "spinning"
  /\ requested = Unknown => LockFree
  /\ Cardinality({c \in calls : c.client}) < MaxClients
  /\ calls' = calls \cup {[servo |-> s, client |-> TRUE, answers |-> answers,
                           left |-> ProtocolOrder(s, requested), step |-> "asking"]}
  /\ UNCHANGED <<phase, cache, queue, pending, resting, found, file, temp, routed, blind, crashes>>

(* The servo answers in its own protocol only; what is only written        *)
(* succeeds in any.                                                        *)
Succeeds(c) ==
  /\ c.step = "asking" /\ c.left # << >>
  /\ c.answers => Head(c.left) = Speaks[c.servo]
  /\ calls' = (calls \ {c}) \cup {[c EXCEPT !.step = "done"]}
  /\ blind' = [blind EXCEPT ![c.servo] = @ \cup ({Head(c.left)} \ {Speaks[c.servo]})]
  /\ UNCHANGED <<phase, cache, queue, pending, resting, found, file, temp, routed, crashes>>

(* The driver refuses, or the timeout passes, whether or not an answer     *)
(* would still come.                                                       *)
TimesOut(c) ==
  /\ c.step = "asking" /\ c.left # << >>
  /\ calls' = (calls \ {c}) \cup {[c EXCEPT !.left = Tail(@)]}
  /\ UNCHANGED <<phase, cache, queue, pending, resting, found, file, temp, routed, blind, crashes>>

NoLongerPending(c) == pending' = IF c.client THEN pending ELSE pending \ {c.servo}

(* Mutant: a servo that answers nothing is taken for the last candidate. *)
GiveUp_Guesses(c) ==
  /\ c.step = "asking" /\ c.left = << >>
  /\ LockFree
  /\ calls' = calls \ {c}
  /\ NoLongerPending(c)
  /\ cache' = [cache EXCEPT ![c.servo] = "zl"]
  /\ UNCHANGED <<phase, queue, resting, found, file, temp, routed, blind, crashes>>

(* Mutant: the early return of a probe in vain skips the clean-up. *)
GiveUp_StaysPending(c) ==
  /\ c.step = "asking" /\ c.left = << >>
  /\ calls' = calls \ {c}
  /\ UNCHANGED <<phase, cache, queue, pending, resting, found, file, temp, routed, blind, crashes>>

(* no protocol is left: an error, or finally of a probe in vain *)
GiveUp(c) ==
  /\ c.step = "asking" /\ c.left = << >>
  /\ calls' = calls \ {c}
  /\ NoLongerPending(c)
  /\ UNCHANGED <<phase, cache, queue, resting, found, file, temp, routed, blind, crashes>>

(* Mutant: the file is opened and written in place, so that it is empty    *)
(* until it is whole again.                                                *)
Register_InPlace(c) ==
  /\ c.step = "done"
  /\ LockFree
  /\ cache' = [cache EXCEPT ![c.servo] = Head(c.left)]
  /\ temp' = cache' /\ file' = NoFile
  /\ calls' = (calls \ {c}) \cup (IF c.client THEN {} ELSE {[c EXCEPT !.step = "saving"]})
  /\ UNCHANGED <<phase, queue, pending, resting, found, routed, blind, crashes>>

(* _update_registry, under registry_lock until the file is replaced *)
Register(c) ==
  /\ c.step = "done"
  /\ LockFree
  /\ cache' = [cache EXCEPT ![c.servo] = Head(c.left)]
  /\ temp' = cache'
  /\ calls' = (calls \ {c}) \cup (IF c.client THEN {} ELSE {[c EXCEPT !.step = "saving"]})
  /\ UNCHANGED <<phase, queue, pending, resting, found, file, routed, blind, crashes>>

Saved(c) ==
  /\ c.step = "saving"
  /\ LockFree
  /\ calls' = calls \ {c}
  /\ NoLongerPending(c)
  /\ UNCHANGED <<phase, cache, queue, resting, found, file, temp, routed, blind, crashes>>

(* save_cache: os.replace, or the write that failed before it *)
Replace ==
  /\ temp # NoFile
  /\ file' = temp
  /\ temp' = NoFile
  /\ UNCHANGED <<phase, memory, routed, blind, crashes>>

SaveFails ==
  /\ temp # NoFile
  /\ temp' = NoFile
  /\ UNCHANGED <<phase, memory, file, routed, blind, crashes>>

(* The process dies; what is left of the .tmp file is never read. *)
Crash ==
  /\ phase # "down"
  /\ crashes < MaxCrashes
  /\ crashes' = crashes + 1
  /\ phase' = "down"
  /\ temp' = NoFile
  /\ cache' = Empty /\ queue' = << >> /\ pending' = {} /\ resting' = {}
  /\ calls' = {} /\ found' = {}
  /\ UNCHANGED <<file, routed, blind>>
-----------------------------------------------------------------------------
Next ==
  \/ Start \/ StartupOver \/ TakeProbe \/ Replace \/ SaveFails \/ Crash
  \/ \E s \in Servo : StartupProbe(s) \/ Route(s) \/ Schedule(s) \/ Rested(s)
  \/ \E s \in Served, requested \in {"lx", "zl", Unknown}, answers \in BOOLEAN :
       Serve(s, requested, answers)
  \/ \E c \in calls : Succeeds(c) \/ TimesOut(c) \/ GiveUp(c) \/ Register(c) \/ Saved(c)

Spec == Init /\ [][Next]_vars

(* The callbacks run, commands for every servo keep coming, and a servo    *)
(* that is asked often enough in its own protocol answers in time once.    *)
(* Nothing is owed to the calls of clients.                                *)
FairSpec ==
  /\ Spec
  /\ WF_vars(Start) /\ WF_vars(StartupOver) /\ WF_vars(TakeProbe)
  /\ WF_vars(Replace \/ SaveFails)
  /\ \A s \in Servo :
       LET probes == {c \in calls : c.servo = s /\ ~c.client} IN
       /\ WF_vars(StartupProbe(s)) /\ WF_vars(Rested(s))
       /\ SF_vars(Schedule(s))
       /\ SF_vars(\E c \in probes : Succeeds(c))
       /\ SF_vars(\E c \in probes : Register(c))
       /\ SF_vars(\E c \in probes : Saved(c))
       /\ WF_vars(\E c \in probes : TimesOut(c) \/ GiveUp(c))
-----------------------------------------------------------------------------
(* Whatever the cache file says stays there: a crash in the middle of a    *)
(* save costs entries, never their truth, and no later save loses an entry *)
(* or changes it, unless to what the servo answered in, or to what a       *)
(* client's command was written in without an answer.                      *)
SavedIsKept ==
  [][\A s \in Servo :
       file # NoFile /\ file[s] # Unknown =>
         file' # NoFile /\ file'[s] \in {file[s], Speaks[s]} \cup blind[s]]_vars

(* What decides the protocol of a servo, the operator before the ranges,   *)
(* is right or silent.                                                     *)
WellDescribed(s) ==
  \/ Manual[s] = Speaks[s]
  \/ Manual[s] = Unknown /\ InRange[s] \in {Unknown, Speaks[s]}

(* A servo that nobody misdescribed gets commands in the protocol it       *)
(* speaks and in no other, through probes that time out in one protocol    *)
(* and go on to the next, reads and commands of clients that do the same,  *)
(* saves that fail, crashes and restarts; but for a protocol in which a    *)
(* client's command was written to it without an answer.                   *)
NeverMisrouted ==
  \A r \in routed : WellDescribed(r[1]) => r[2] \in {Speaks[r[1]]} \cup blind[r[1]]

(* "协议自动识别 ... 未知ID按需探测并缓存" (README.md:11): the protocol of a     *)
(* servo is recognised, and so what the router has in its cache is the one *)
(* the servo speaks.  False: a client's command that only writes           *)
(* succeeds in the first protocol that is tried, or in the second when the *)
(* first times out, and is entered like an answer.                         *)
CachedIsAnswered == \A s \in Servo : cache[s] \in {Unknown, Speaks[s]}

(* A servo that is commanded and answers is not left unknown for ever: a   *)
(* probe in vain leaves nothing behind that keeps the next one away.       *)
EveryServoFound ==
  \A s \in Servo : (phase = "spinning" /\ Protocol(s) = Unknown) ~> Protocol(s) # Unknown
=============================================================================
