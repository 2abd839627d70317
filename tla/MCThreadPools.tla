----------------------------- MODULE MCThreadPools -----------------------------
(* Three processes that wait for threads: two whose callbacks share the      *)
(* threads of one executor, and one that joins the threads it started.  One *)
(* behaviour is that of one of them.                                        *)
EXTENDS RouterPool, SpeechInterface, BvhPlayer

VARIABLE process

allVars == <<process, vars, speechVars, playerVars>>

PoolsInit == /\ process \in {"router", "speech", "player"}
             /\ Init /\ SpeechInit /\ PlayerInit
PoolsNext ==
  /\ \/ process = "router" /\ Next /\ UNCHANGED <<speechVars, playerVars>>
     \/ process = "speech" /\ SpeechNext /\ UNCHANGED <<vars, playerVars>>
     \/ process = "player" /\ PlayerNext /\ UNCHANGED <<vars, speechVars>>
  /\ process' = process
PoolsSpec == PoolsInit /\ [][PoolsNext]_allVars
             /\ PoolFairness /\ SpeechFairness /\ PlayerFairness
=============================================================================
