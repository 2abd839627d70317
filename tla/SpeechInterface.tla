---------------------------- MODULE SpeechInterface ----------------------------
(***************************************************************************)
(* speech_interface_node.py: spoken intents, checked and submitted as task *)
(* goals, and what it tells of each.  All callbacks are reentrant and      *)
(* share the two threads of one MultiThreadedExecutor; a request keeps its *)
(* thread while it waits for the task server, the other callbacks only     *)
(* while they run.                                                         *)
(*                                                                         *)
(* external: the task server (task_service_bridge), which accepts or       *)
(* refuses a goal, ends it, and may go away and come back without its      *)
(* goals.  What parse_speech_intent says of a request is an open choice.   *)
(***************************************************************************)
EXTENDS FiniteSets, Naturals

CONSTANTS
  Intents,        \* requests, each published once
  SpeechThreads   \* num_threads of the executor

ASSUME SpeechAssumption == IsFiniteSet(Intents) /\ SpeechThreads \in Nat \ {0}

(* What is told at last of an intent, by the interface itself or word for  *)
(* word from the result of its task: a task that was accepted, and even    *)
(* one that ran, may end as rejected.                                      *)
Outcome == {"succeeded", "cancelled", "timed_out", "failed", "rejected"}

VARIABLES
  request,   \* per intent: its request callback
  future,    \* per intent: what the goal or the result future waits for or holds
  status,    \* per intent: the last status published of it
  task,      \* external, per intent: its goal at the server
  served     \* external: the task server is there

speechVars == <<request, future, status, task, served>>

SpeechInit ==
  /\ request = [i \in Intents |-> "unsaid"]
  /\ future = [i \in Intents |-> "none"]
  /\ status = [i \in Intents |-> "none"]
  /\ task = [i \in Intents |-> "none"]
  /\ served \in BOOLEAN

(* Threads are only kept by requests that wait; a callback that runs       *)
(* through is a step that needs one of the others. *)
FreeThread == Cardinality({i \in Intents : request[i] \in {"waiting", "sending"}}) < SpeechThreads

PublishStatus(i, s) == status' = [status EXCEPT ![i] = s]
Becomes(i, r) == request' = [request EXCEPT ![i] = r]
-----------------------------------------------------------------------------
Say(i) ==
  /\ request[i] = "unsaid" /\ Becomes(i, "queued")
  /\ UNCHANGED <<future, status, task, served>>

RequestCallback(i) ==
  /\ request[i] = "queued" /\ FreeThread
  /\ \/ PublishStatus(i, "rejected") /\ Becomes(i, "done")
     \/ PublishStatus(i, "accepted") /\ Becomes(i, "waiting")
  /\ UNCHANGED <<future, task, served>>

(* wait_for_server looks again and again, and at last for the last time *)
ServerFound(i) ==
  /\ request[i] = "waiting" /\ served /\ Becomes(i, "sending")
  /\ UNCHANGED <<future, status, task, served>>

(* Mutants: a wait without a timeout; a missing return behind the status. *)
Unavailable_Waits(i) == FALSE
Unavailable_SendsOn(i) == PublishStatus(i, "rejected") /\ Becomes(i, "sending")
Unavailable(i) == PublishStatus(i, "rejected") /\ Becomes(i, "done")

ServerMissing(i) ==
  /\ request[i] = "waiting" /\ ~served /\ Unavailable(i)
  /\ UNCHANGED <<future, task, served>>

(* A goal sent to a server that went away meanwhile reaches nobody. *)
SendGoal(i) ==
  /\ request[i] = "sending" /\ Becomes(i, "done")
  /\ \/ /\ future' = [future EXCEPT ![i] = "goal"]
        /\ task' = [task EXCEPT ![i] = IF served THEN "offered" ELSE "lost"]
        /\ UNCHANGED status
     \/ PublishStatus(i, "failed") /\ UNCHANGED <<future, task>>
  /\ UNCHANGED served
-----------------------------------------------------------------------------
(* external *)

ServerAnswers(i) ==
  /\ served /\ task[i] = "offered" /\ future[i] = "goal"
  /\ \E yes \in BOOLEAN :
       /\ task' = [task EXCEPT ![i] = IF yes THEN "running" ELSE "refused"]
       /\ future' = [future EXCEPT ![i] = IF yes THEN "goal accepted" ELSE "goal refused"]
  /\ UNCHANGED <<request, status, served>>

ServerEnds(i) ==
  /\ served /\ task[i] = "running"
  /\ \E end \in Outcome : task' = [task EXCEPT ![i] = end]
  /\ UNCHANGED <<request, future, status, served>>

ServerReports(i) ==
  /\ served /\ task[i] \in Outcome /\ future[i] = "result"
  /\ future' = [future EXCEPT ![i] = "result there"]
  /\ UNCHANGED <<request, status, task, served>>

(* a future that was answered with an exception *)
FutureBreaks(i) ==
  /\ future[i] \in {"goal", "result"} /\ future' = [future EXCEPT ![i] = "broken"]
  /\ UNCHANGED <<request, status, task, served>>

ServerGoes ==
  /\ served /\ served' = FALSE
  /\ task' = [i \in Intents |-> IF task[i] \in {"offered", "running"} \cup Outcome
                                     /\ future[i] \notin {"result there", "over"}
                                THEN "lost" ELSE task[i]]
  /\ UNCHANGED <<request, future, status>>

ServerComes == ~served /\ served' = TRUE /\ UNCHANGED <<request, future, status, task>>
-----------------------------------------------------------------------------
(* The callbacks of the futures.  A server that does not know the goal      *)
(* answers the question for its result at once, without a result.          *)

GoalResponseCallback(i) ==
  /\ FreeThread
  /\ \/ future[i] = "goal refused" /\ PublishStatus(i, "rejected")
        /\ future' = [future EXCEPT ![i] = "over"]
     \/ future[i] = "goal accepted" /\ PublishStatus(i, "executing")
        /\ future' = [future EXCEPT ![i] = IF task[i] = "lost" /\ served THEN "no result" ELSE "result"]
  /\ UNCHANGED <<request, task, served>>

ResultCallback(i) ==
  /\ FreeThread
  /\ \/ future[i] = "result there" /\ PublishStatus(i, task[i])
     \/ future[i] \in {"no result", "broken"} /\ PublishStatus(i, "failed")
  /\ future' = [future EXCEPT ![i] = "over"]
  /\ UNCHANGED <<request, task, served>>

Waited(i) == ServerFound(i) \/ ServerMissing(i)
Submission(i) == RequestCallback(i) \/ Waited(i) \/ SendGoal(i)
Callbacks(i) == GoalResponseCallback(i) \/ ResultCallback(i)
Server(i) == ServerAnswers(i) \/ ServerEnds(i) \/ ServerReports(i)

SpeechNext ==
  \/ \E i \in Intents : Say(i) \/ Submission(i) \/ Callbacks(i) \/ Server(i) \/ FutureBreaks(i)
  \/ ServerGoes \/ ServerComes

SpeechSpec == SpeechInit /\ [][SpeechNext]_speechVars

(* The executor runs what is ready, a wait ends, and a server that stays    *)
(* answers what it was asked (EveryTaskEnds of TaskBridge).                 *)
SpeechFairness ==
  \A i \in Intents :
    /\ WF_speechVars(RequestCallback(i)) /\ WF_speechVars(Waited(i)) /\ WF_speechVars(SendGoal(i))
    /\ WF_speechVars(Callbacks(i)) /\ WF_speechVars(Server(i))
-----------------------------------------------------------------------------
(* What was told to be rejected is no task that runs then, or later: it    *)
(* never was one, the server refused it, or the server itself has ended it *)
(* as rejected; neither when the server appears just behind the last look  *)
(* for it, nor when the two callbacks of one intent run on two threads.    *)
(* (_result_callback publishes result.status as it is.)                    *)
RejectedNeverRuns ==
  \A i \in Intents : status[i] = "rejected" => task[i] \in {"none", "refused", "rejected"}

(* An intent that was said comes to an end that is told, however many       *)
(* requests keep the threads of the pool in their wait for a server; unless *)
(* the server that had its goal went away.                                  *)
EveryIntentConcludes ==
  \A i \in Intents : request[i] = "queued" ~> status[i] \in Outcome \/ task[i] = "lost"
=============================================================================
