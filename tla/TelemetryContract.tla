------------------------- MODULE TelemetryContract -------------------------
(***************************************************************************)
(* What a telemetry device promises to whoever reads its line stream, with  *)
(* nothing about sensors, clocks or channels (docs/protocol.md and          *)
(* docs/fault_management.md):                                               *)
(*   - packets are numbered consecutively from 1 after a start;             *)
(*   - a packet leaves only while telemetry is not paused, carries the      *)
(*     measurements of exactly the sensors it reports OK, and a system      *)
(*     state that agrees with them;                                         *)
(*   - PAUSE, RESUME and SET_RATE alone change the stream, each is answered *)
(*     by its acknowledgement and a STATUS line with the new values, and a  *)
(*     rejected command changes nothing;                                    *)
(*   - a restart returns to the defaults.                                   *)
(* The firmware's device implements it (module Device).                     *)
(***************************************************************************)
EXTENDS Integers, Sequences

CONSTANTS SeqMod, MinInterval, MaxInterval, DefaultInterval

VARIABLES sequence, paused, rate, lines

contractVars == <<sequence, paused, rate, lines>>

ContractInit == sequence = 0 /\ paused = FALSE /\ rate = DefaultInterval /\ lines = <<>>

(* The table of docs/fault_management.md; AUX does not count. *)
StateOf(bme, imu) ==
    CASE bme /\ imu -> "NORMAL"
      [] bme # imu -> "DEGRADED"
      [] ~bme /\ ~imu -> "FAULT"

ConsistentHealth(h) == h.BME \in BOOLEAN /\ h.IMU \in BOOLEAN /\ h.state = StateOf(h.BME, h.IMU)

IsStatus(line) ==
    /\ line.kind = "STATUS" /\ ConsistentHealth(line.health)
    /\ line.paused = paused' /\ line.rate = rate'
IsAck(line, command) == line.kind = "ACK" /\ line.command = command

Answered(command) ==
    /\ Len(lines') = 2
    /\ IsAck(lines'[1], command) /\ IsStatus(lines'[2])
    /\ UNCHANGED sequence

PauseStream == paused' = TRUE /\ Answered("PAUSE") /\ UNCHANGED rate
ResumeStream == paused' = FALSE /\ Answered("RESUME") /\ UNCHANGED rate
ChangeRate ==
    /\ rate' \in MinInterval .. MaxInterval
    /\ Answered("SET_RATE") /\ lines'[1].rate = rate'
    /\ UNCHANGED paused
Report ==
    /\ UNCHANGED <<paused, rate>>
    /\ \E command \in {"STATUS", "INJECT_FAULT", "CLEAR_FAULTS"} : Answered(command)
Refuse ==
    /\ Len(lines') = 1 /\ lines'[1].kind = "ERR"
    /\ UNCHANGED <<sequence, paused, rate>>
Announce ==
    /\ Len(lines') = 1 /\ IsStatus(lines'[1])
    /\ UNCHANGED <<sequence, paused, rate>>

Emit ==
    /\ ~paused
    /\ sequence' = (sequence + 1) % SeqMod
    /\ Len(lines') = 1
    /\ LET packet == lines'[1]
       IN  /\ packet.kind = "TEL" /\ packet.sequence = sequence'
           /\ ConsistentHealth(packet.health)
           /\ packet.environment = packet.health.BME /\ packet.motion = packet.health.IMU
    /\ UNCHANGED <<paused, rate>>

(* A restart is announced when it was asked for by a wire that can still    *)
(* carry the answer.                                                        *)
Start ==
    /\ sequence' = 0 /\ paused' = FALSE /\ rate' = DefaultInterval
    /\ lines' = <<>> \/ (Len(lines') = 1 /\ IsAck(lines'[1], "RESET"))

Quiet == lines' = <<>> /\ UNCHANGED <<sequence, paused, rate>>

ContractNext ==
    \/ PauseStream
    \/ ResumeStream
    \/ ChangeRate
    \/ Report
    \/ Refuse
    \/ Announce
    \/ Emit
    \/ Start
    \/ Quiet

ContractSpec == ContractInit /\ [][ContractNext]_contractVars
=============================================================================
