----------------------------- MODULE MCBusServos -----------------------------
(* The bus servos as the router knows them and as one port meets them: one  *)
(* behaviour is that of the registry or that of the line.                   *)
EXTENDS MCProtocolProbe, MCPortSerial

VARIABLE part

BusVars == <<part, vars, lineVars>>

BusInit == /\ part \in {"registry", "line"}
           /\ Init /\ LineInit
           /\ part = "registry" => ~echoes
BusNext == /\ \/ part = "registry" /\ Next /\ UNCHANGED lineVars
              \/ part = "line" /\ LineNext /\ UNCHANGED vars
           /\ part' = part
BusSpec == BusInit /\ [][BusNext]_BusVars
=============================================================================
