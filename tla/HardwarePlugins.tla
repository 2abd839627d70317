---------------------------- MODULE HardwarePlugins ----------------------------
(***************************************************************************)
(* What may own the servo boards and the IMU: a component that ros2_control *)
(* loads, or one of the older servo nodes, which has to be stopped before   *)
(* (src/hardware/README.md).  They have nothing in common: one behaviour is *)
(* that of one of them, on a line or device of its own, while the others    *)
(* are not there.                                                           *)
(***************************************************************************)
EXTENDS PositionActuator, ImuSensor, ServoNodes

VARIABLE loaded

vars == <<loaded, actuatorVars, imuVars, nodeVars>>

Init == /\ loaded \in {"actuator", "imu", "node"}
        /\ ActuatorInit /\ ImuInit /\ NodeInit
        /\ loaded # "actuator" => kind = "pca"
        /\ loaded # "imu" => transport = "i2c"
        /\ loaded # "node" => driver = "pca"
Next == /\ \/ loaded = "actuator" /\ ActuatorNext /\ UNCHANGED <<imuVars, nodeVars>>
           \/ loaded = "imu" /\ ImuNext /\ UNCHANGED <<actuatorVars, nodeVars>>
           \/ loaded = "node" /\ NodeNext /\ UNCHANGED <<actuatorVars, imuVars>>
        /\ loaded' = loaded
Spec == Init /\ [][Next]_vars
=============================================================================
