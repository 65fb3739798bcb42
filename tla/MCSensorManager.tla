-------------------------- MODULE MCSensorManager --------------------------
(* Instance of SensorManager for TLC. *)
EXTENDS SensorManager

(* All devices answer at power-up, as on the characterised board. *)
HealthyBoot == \A d \in Devices : links[d] = "ok"
HealthyBootSpec == SensorInit /\ HealthyBoot /\ [][SensorNext]_sensorVars
=============================================================================
