------------------------ MODULE DeviceContractProofs ------------------------
(* The device implements TelemetryContract, for every value of the          *)
(* constants: each step maps to a step of the contract or to a stutter.     *)
EXTENDS DeviceProofs

mapped == <<runtime.sequenceNumber, runtime.telemetryPaused, runtime.telemetryIntervalMs, output.lines>>

-----------------------------------------------------------------------------
(* What the lines say.                                                      *)

(* A health report agrees with itself, as the contract asks. *)
LEMMA ReportIsConsistent ==
  ASSUME NEW s \in SensorState
  PROVE  Contract!ConsistentHealth(HealthReport(s))
  <1>1. Healthy(s, "BME") \in BOOLEAN /\ Healthy(s, "IMU") \in BOOLEAN
    BY DEF Healthy, SensorState, Sensors
  <1> DEFINE bme == Healthy(s, "BME")  imu == Healthy(s, "IMU")
  <1>2. SystemState(bme, imu) = Contract!StateOf(bme, imu) BY DEF SystemState, Contract!StateOf
  <1>3. /\ HealthReport(s).BME = bme /\ HealthReport(s).IMU = imu
        /\ HealthReport(s).state = SystemState(bme, imu)
    BY DEF HealthReport
  <1> QED BY <1>1, <1>2, <1>3, Zenon DEF Contract!ConsistentHealth

(* A STATUS line of the next state is one the contract accepts. *)
LEMMA StatusIsStatus ==
  ASSUME sensors' \in SensorState
  PROVE  Contract!IsStatus(StatusLine(sensors', runtime'))
  <1>1. Contract!ConsistentHealth(HealthReport(sensors'))
    <2>1. \A s \in SensorState : Contract!ConsistentHealth(HealthReport(s)) BY ReportIsConsistent
    <2> QED BY <2>1
  <1>2. /\ StatusLine(sensors', runtime').kind = "STATUS"
        /\ StatusLine(sensors', runtime').health = HealthReport(sensors')
        /\ StatusLine(sensors', runtime').paused = runtime'.telemetryPaused
        /\ StatusLine(sensors', runtime').rate = runtime'.telemetryIntervalMs
    BY DEF StatusLine
  <1> QED BY <1>1, <1>2, Zenon DEF Contract!IsStatus

(* An acknowledgement and a STATUS line are the contract's answer. *)
LEMMA AnswerIsAnswered ==
  ASSUME sensors' \in SensorState, NEW ack, NEW command,
         ack.kind = "ACK", ack.command = command,
         output'.lines = <<ack, StatusLine(sensors', runtime')>>,
         runtime'.sequenceNumber = runtime.sequenceNumber
  PROVE  Contract!Answered(command) /\ output'.lines[1] = ack
  <1> DEFINE status == StatusLine(sensors', runtime')
  <1>1. Contract!IsStatus(status) BY StatusIsStatus
  <1> HIDE DEF status
  <1>2. Len(output'.lines) = 2 /\ output'.lines[1] = ack /\ output'.lines[2] = status BY DEF status
  <1>3. Contract!IsAck(output'.lines[1], command) BY <1>2 DEF Contract!IsAck
  <1> QED BY <1>1, <1>2, <1>3, Zenon DEF Contract!Answered

(* Steps that write nothing and leave the stream alone, and restarts.       *)
LEMMA QuietSteps ==
  ASSUME runtime' = runtime, output'.lines = <<>>
  PROVE  Contract!ContractNext
  BY DEF Contract!ContractNext, Contract!Quiet

(* A restart, announced or not, is the contract's Start. *)
LEMMA RestartIsStart ==
  ASSUME Restart,
         output'.lines = <<>> \/ (\E a : output'.lines = <<a>> /\ a.kind = "ACK" /\ a.command = "RESET")
  PROVE  Contract!ContractNext
  <1>1. /\ runtime'.sequenceNumber = 0 /\ runtime'.telemetryPaused = FALSE
        /\ runtime'.telemetryIntervalMs = DefaultInterval
    BY DEF Restart, InitialRuntime
  <1>2. \/ output'.lines = <<>>
        \/ Len(output'.lines) = 1 /\ Contract!IsAck(output'.lines[1], "RESET")
    <2>1. CASE output'.lines = <<>> BY <2>1
    <2>2. ASSUME NEW a, output'.lines = <<a>>, a.kind = "ACK", a.command = "RESET"
          PROVE  Len(output'.lines) = 1 /\ Contract!IsAck(output'.lines[1], "RESET")
      <3>1. Len(output'.lines) = 1 /\ output'.lines[1] = a BY <2>2
      <3> QED BY <2>2, <3>1 DEF Contract!IsAck
    <2> QED BY <2>1, <2>2
  <1> QED BY <1>1, <1>2 DEF Contract!ContractNext, Contract!Start

-----------------------------------------------------------------------------
(* Each command line is answered as the contract says. *)
LEMMA CommandRefines ==
  ASSUME DeviceInv, NEW ch \in Channels, NEW line \in Lines, ProcessCommand(ch, line)
  PROVE  Contract!ContractNext
  <1>0. /\ runtime \in RuntimeState /\ sensors \in SensorState
        /\ links \in [Devices -> LinkStates]
    BY DEF DeviceInv, DeviceTypeOK, SensorTypeOK
  <1>1. ASSUME NEW lines, Answer(ch, line, lines) PROVE output'.lines = lines
    BY <1>1 DEF Answer
  <1>2. ~Restart => sensors' \in SensorState BY CommandEffect DEF DeviceInv
  <1>3. CASE Reset(ch, line)
    <2>1. Restart /\ output'.lines = IF ch = "wifi" THEN <<>> ELSE <<Ack("RESET")>> BY <1>3 DEF Reset
    <2>2. Ack("RESET").kind = "ACK" /\ Ack("RESET").command = "RESET" BY DEF Ack
    <2> QED BY <2>1, <2>2, RestartIsStart
  <1>5. CASE Ignored(ch, line)
    <2>1. runtime' = runtime /\ output'.lines = <<>> BY <1>1, <1>5 DEF Ignored
    <2> QED BY <2>1, QuietSteps
  <1>6. CASE Rejected(ch, line)
    <2>1. runtime' = runtime /\ output'.lines = <<Err(Rejection(line))>> BY <1>1, <1>6 DEF Rejected
    <2>2. Len(output'.lines) = 1 /\ output'.lines[1].kind = "ERR" BY <2>1 DEF Err
    <2> QED BY <2>1, <2>2 DEF Contract!ContractNext, Contract!Refuse
  <1>7. CASE Status(ch, line)
    <2>1. /\ runtime' = runtime /\ sensors' = sensors
          /\ output'.lines = <<Ack("STATUS"), StatusLine(sensors', runtime')>>
      BY <1>1, <1>7 DEF Status
    <2>2. Ack("STATUS").kind = "ACK" /\ Ack("STATUS").command = "STATUS" BY DEF Ack
    <2>3. Contract!Answered("STATUS") BY <1>0, <2>1, <2>2, AnswerIsAnswered
    <2> QED BY <2>1, <2>3 DEF Contract!ContractNext, Contract!Report
  <1>8. CASE Pause(ch, line)
    <2>1. /\ runtime' = [runtime EXCEPT !.telemetryPaused = TRUE] /\ sensors' = sensors
          /\ output'.lines = <<Ack("PAUSE"), StatusLine(sensors', runtime')>>
      BY <1>1, <1>8 DEF Pause
    <2>2. /\ runtime'.telemetryPaused = TRUE
          /\ UNCHANGED <<runtime.sequenceNumber, runtime.telemetryIntervalMs>>
      BY <1>0, <2>1 DEF RuntimeState
    <2>3. Ack("PAUSE").kind = "ACK" /\ Ack("PAUSE").command = "PAUSE" BY DEF Ack
    <2>4. Contract!Answered("PAUSE") BY <1>0, <2>1, <2>2, <2>3, AnswerIsAnswered
    <2> QED BY <2>2, <2>4 DEF Contract!ContractNext, Contract!PauseStream
  <1>9. CASE Resume(ch, line)
    <2>1. /\ runtime' = [runtime EXCEPT !.telemetryPaused = FALSE, !.lastTelemetryMs = clock]
          /\ sensors' = sensors
          /\ output'.lines = <<Ack("RESUME"), StatusLine(sensors', runtime')>>
      BY <1>1, <1>9 DEF Resume
    <2>2. /\ runtime'.telemetryPaused = FALSE
          /\ UNCHANGED <<runtime.sequenceNumber, runtime.telemetryIntervalMs>>
      BY <1>0, <2>1 DEF RuntimeState
    <2>3. Ack("RESUME").kind = "ACK" /\ Ack("RESUME").command = "RESUME" BY DEF Ack
    <2>4. Contract!Answered("RESUME") BY <1>0, <2>1, <2>2, <2>3, AnswerIsAnswered
    <2> QED BY <2>2, <2>4 DEF Contract!ContractNext, Contract!ResumeStream
  <1>10. CASE SetRate(ch, line)
    <2>1. /\ runtime' = [runtime EXCEPT !.telemetryIntervalMs = line.number] /\ sensors' = sensors
          /\ output'.lines = <<AckRate(line.number), StatusLine(sensors', runtime')>>
      BY <1>1, <1>10 DEF SetRate
    <2>2. /\ runtime'.telemetryIntervalMs = line.number
          /\ UNCHANGED <<runtime.sequenceNumber, runtime.telemetryPaused>>
      BY <1>0, <2>1 DEF RuntimeState
    <2>3. line.number \in MinInterval .. MaxInterval
      <3>1. ~Restart BY <1>10 DEF SetRate, Answer, After, Restart
      <3>2. runtime' \in RuntimeState BY <3>1, CommandEffect DEF DeviceInv
      <3> QED BY <2>2, <3>2 DEF RuntimeState, Intervals
    <2>4. AckRate(line.number).kind = "ACK" /\ AckRate(line.number).command = "SET_RATE"
          /\ AckRate(line.number).rate = line.number
      BY DEF AckRate
    <2>5. Contract!Answered("SET_RATE") /\ output'.lines[1] = AckRate(line.number)
      BY <1>0, <2>1, <2>2, <2>4, AnswerIsAnswered
    <2> QED BY <2>2, <2>3, <2>4, <2>5 DEF Contract!ContractNext, Contract!ChangeRate
  <1>11. CASE Inject(ch, line)
    <2> DEFINE ack == AckValue("INJECT_FAULT", line.value)
    <2>1. runtime' = runtime /\ output'.lines = <<ack, StatusLine(sensors', runtime')>>
      BY <1>1, <1>11 DEF Inject
    <2>2. sensors' \in SensorState
      <3>1. ~Restart BY <1>11 DEF Inject, Answer, After, Restart
      <3> QED BY <1>2, <3>1
    <2>3. ack.kind = "ACK" /\ ack.command = "INJECT_FAULT" BY DEF AckValue
    <2> HIDE DEF ack
    <2>4. Contract!Answered("INJECT_FAULT") BY <2>1, <2>2, <2>3, AnswerIsAnswered
    <2> QED BY <2>1, <2>4 DEF Contract!ContractNext, Contract!Report
  <1>12. CASE ClearFaults(ch, line)
    <2>1. runtime' = runtime /\ output'.lines = <<Ack("CLEAR_FAULTS"), StatusLine(sensors', runtime')>>
      BY <1>1, <1>12 DEF ClearFaults
    <2>2. sensors' \in SensorState
      <3>1. ~Restart BY <1>12 DEF ClearFaults, Answer, After, Restart
      <3> QED BY <1>2, <3>1
    <2>3. Ack("CLEAR_FAULTS").kind = "ACK" /\ Ack("CLEAR_FAULTS").command = "CLEAR_FAULTS" BY DEF Ack
    <2>4. Contract!Answered("CLEAR_FAULTS") BY <2>1, <2>2, <2>3, AnswerIsAnswered
    <2> QED BY <2>1, <2>4 DEF Contract!ContractNext, Contract!Report
  <1> QED
    BY <1>3, <1>5, <1>6, <1>7, <1>8, <1>9, <1>10, <1>11, <1>12 DEF ProcessCommand

(* A packet is the contract's Emit. *)
LEMMA EmitRefines == ASSUME DeviceInv, EmitTelemetry PROVE Contract!ContractNext
  <1>0. /\ runtime \in RuntimeState /\ sensors \in SensorState
        /\ links \in [Devices -> LinkStates]
    BY DEF DeviceInv, DeviceTypeOK, SensorTypeOK
  <1> DEFINE seq == (runtime.sequenceNumber + 1) % SeqMod
  <1>1. PICK e \in EnvironmentReads(sensors) : \E m \in MotionReads(e.sensors) :
          /\ sensors' = m.sensors
          /\ output' = [answers |-> "", to |-> Channels, lines |-> <<Packet(seq, e, m, m.sensors)>>]
    BY Zenon DEF EmitTelemetry
  <1>2. PICK m \in MotionReads(e.sensors) :
          /\ sensors' = m.sensors
          /\ output' = [answers |-> "", to |-> Channels, lines |-> <<Packet(seq, e, m, m.sensors)>>]
    BY <1>1
  <1>3. runtime' = [runtime EXCEPT !.lastTelemetryMs = now, !.sequenceNumber = seq]
        /\ ~runtime.telemetryPaused
    BY DEF EmitTelemetry, TelemetryDue
  <1>4. /\ runtime'.sequenceNumber = seq
        /\ UNCHANGED <<runtime.telemetryPaused, runtime.telemetryIntervalMs>>
    <2> HIDE DEF seq
    <2> QED BY <1>0, <1>3 DEF RuntimeState
  <1>5. /\ e.sensors \in SensorState /\ e.valid = Healthy(e.sensors, "BME")
        /\ m.sensors \in SensorState /\ m.valid = Healthy(m.sensors, "IMU")
        /\ m.sensors.online["BME"] = e.sensors.online["BME"] /\ m.sensors.injected = e.sensors.injected
    <2>1. e.sensors \in SensorState /\ e.valid = Healthy(e.sensors, "BME") BY <1>0, <1>1, ReadsType
    <2> QED BY <1>0, <1>2, <2>1, ReadsType
  <1>6. e.valid = Healthy(m.sensors, "BME") BY <1>5 DEF Healthy
  <1> DEFINE packet == Packet(seq, e, m, m.sensors)
  <1>7. /\ packet.kind = "TEL" /\ packet.sequence = seq
        /\ packet.environment = e.valid /\ packet.motion = m.valid
        /\ packet.health = HealthReport(m.sensors)
    BY DEF Packet
  <1>8. packet.health.BME = Healthy(m.sensors, "BME") /\ packet.health.IMU = Healthy(m.sensors, "IMU")
    <2>1. HealthReport(m.sensors).BME = Healthy(m.sensors, "BME")
          /\ HealthReport(m.sensors).IMU = Healthy(m.sensors, "IMU")
      BY DEF HealthReport
    <2> HIDE DEF packet
    <2> QED BY <1>7, <2>1
  <1>9. Contract!ConsistentHealth(packet.health)
    <2>1. Contract!ConsistentHealth(HealthReport(m.sensors)) BY <1>5, ReportIsConsistent
    <2> HIDE DEF packet
    <2> QED BY <1>7, <2>1
  <1>10. Len(output'.lines) = 1 /\ output'.lines[1] = packet
    <2>1. output' = [answers |-> "", to |-> Channels, lines |-> <<packet>>] BY <1>2
    <2> HIDE DEF packet
    <2> QED BY <2>1
  <1>11. Contract!Emit
    <2> HIDE DEF packet
    <2>1. packet.sequence = runtime'.sequenceNumber
          /\ packet.environment = packet.health.BME /\ packet.motion = packet.health.IMU
      BY <1>4, <1>5, <1>6, <1>7, <1>8
    <2> QED BY <1>3, <1>4, <1>7, <1>9, <1>10, <2>1 DEF Contract!Emit
  <1> QED BY <1>11 DEF Contract!ContractNext

(* Each step maps to a step of the contract or to a stutter. *)
LEMMA StepRefines == ASSUME DeviceInv, [DeviceNext]_deviceVars PROVE [Contract!ContractNext]_mapped
  <1>0. sensors \in SensorState /\ Silent.lines = <<>>
    BY DEF DeviceInv, DeviceTypeOK, SensorTypeOK, Silent
  <1>1. CASE StartStream
    <2>1. /\ runtime' = [runtime EXCEPT !.lastTelemetryMs = clock] /\ sensors' = sensors
          /\ output'.lines = <<StatusLine(sensors, runtime)>>
      BY <1>1 DEF StartStream
    <2>2. UNCHANGED <<runtime.sequenceNumber, runtime.telemetryPaused, runtime.telemetryIntervalMs>>
      BY <2>1 DEF DeviceInv, DeviceTypeOK, RuntimeState
    <2>3. StatusLine(sensors, runtime) = StatusLine(sensors', runtime') BY <2>1, <2>2 DEF StatusLine
    <2>4. Contract!IsStatus(StatusLine(sensors', runtime')) BY <1>0, <2>1, StatusIsStatus
    <2>5. Len(output'.lines) = 1 /\ output'.lines[1] = StatusLine(sensors', runtime') BY <2>1, <2>3
    <2> QED BY <2>2, <2>4, <2>5 DEF Contract!ContractNext, Contract!Announce
  <1>2. CASE Begin \/ (\E ch \in Channels : NoCommand(ch)) \/ ServiceHealth \/ SkipTelemetry \/ Tick
    <2>1. output' = Silent /\ runtime' = runtime
      BY <1>2 DEF Begin, NoCommand, ServiceHealth, SkipTelemetry, Tick
    <2> QED BY <1>0, <2>1, QuietSteps
  <1>3. CASE DeviceLinkChange BY <1>0, <1>3, QuietSteps DEF DeviceLinkChange
  <1>4. CASE EmitTelemetry BY <1>4, EmitRefines
  <1>5. CASE \E ch \in Channels, line \in Lines : ProcessCommand(ch, line) BY <1>5, CommandRefines
  <1>6. CASE PowerCycle BY <1>0, <1>6, RestartIsStart DEF PowerCycle
  <1>7. CASE UNCHANGED deviceVars BY <1>7 DEF deviceVars, mapped
  <1> QED BY <1>1, <1>2, <1>3, <1>4, <1>5, <1>6, <1>7 DEF DeviceNext, LoopStep

(* Whatever sensors, clock and commands do, the lines the device writes and *)
(* the stream settings behind them follow the contract.                     *)
THEOREM DeviceImplementsContract == DeviceSpec => ImplementsContract
  <1>1. DeviceInit => Contract!ContractInit
    <2> SUFFICES ASSUME DeviceInit PROVE Contract!ContractInit OBVIOUS
    <2>1. /\ runtime.sequenceNumber = 0 /\ runtime.telemetryPaused = FALSE
          /\ runtime.telemetryIntervalMs = DefaultInterval
      BY DEF DeviceInit, InitialRuntime
    <2>2. output.lines = <<>> BY DEF DeviceInit, Silent
    <2> QED BY <2>1, <2>2 DEF Contract!ContractInit
  <1>2. DeviceInv /\ [DeviceNext]_deviceVars => [Contract!ContractNext]_(Contract!contractVars)
    BY StepRefines DEF mapped, Contract!contractVars
  <1> QED
    BY <1>1, <1>2, DeviceInvariant, PTL DEF DeviceSpec, ImplementsContract, Contract!ContractSpec
=============================================================================
