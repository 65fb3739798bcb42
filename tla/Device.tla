------------------------------- MODULE Device -------------------------------
(***************************************************************************)
(* The firmware as one sequential program: setup() and loop() of            *)
(* src/main.cpp with the command processor (src/command.cpp), packet        *)
(* construction (src/telemetry.cpp), the periodic health service and the    *)
(* SensorManager it drives.                                                 *)
(*                                                                          *)
(* One pass of loop() is                                                    *)
(*     serial -> wifi -> health -> telemetry -> serial ...                  *)
(* where `pc` names the call that comes next.  Time passes between any two  *)
(* calls: Tick advances millis(), at most MaxLag times in one pass.  The    *)
(* clock wraps, as the 32-bit unsigned long does.                           *)
(*                                                                          *)
(* `idle` and `healthAge` are history variables: the true time since        *)
(* lastTelemetryMs and lastHealthCheckMs_ were last assigned, which the     *)
(* program can only estimate by an unsigned subtraction.                    *)
(***************************************************************************)
EXTENDS SensorManager, Integers, Sequences

CONSTANTS
    ClockMod,        \* millis() wraps at this value: 2^32
    SeqMod,          \* sequenceNumber wraps at this value: 2^32
    MinInterval, MaxInterval, DefaultInterval, \* of telemetry, include/config.h
    HealthInterval,  \* HEALTH_CHECK_INTERVAL_MS
    MaxLag,          \* bound: the longest a pass of loop() may take
    SetupLag,        \* bound: the longest setup() may take after sensors.begin()
    Lines            \* the command lines this instance sends

Clock == 0 .. ClockMod - 1
Intervals == MinInterval .. MaxInterval

(* No line comes this long after the last packet, nor after the last check. *)
MaxIdle == MaxInterval + 2 * MaxLag
MaxHealthAge == HealthInterval + SetupLag + 2 * MaxLag

ASSUME IntervalAssumption ==
    /\ MinInterval \in Nat \ {0} /\ MaxInterval \in Nat /\ DefaultInterval \in Intervals
    /\ HealthInterval \in Nat \ {0}
ASSUME ClockAssumption ==
    /\ MaxLag \in Nat /\ SetupLag \in Nat /\ ClockMod \in Nat
    /\ ClockMod > MaxIdle /\ ClockMod > MaxHealthAge
ASSUME SeqAssumption == SeqMod \in Nat \ {0}

(* A received line after trim() and toUpperCase(): blank, not a command, or *)
(* a command with its value ("" when missing) and what toInt() makes of it. *)
ASSUME LinesAssumption ==
    Lines \subseteq [form : {"BLANK", "OTHER", "CMD"}, command : STRING, value : STRING, number : Int]

VARIABLES
    runtime,            \* RuntimeState
    lastHealthCheckMs,  \* SensorManager's lastHealthCheckMs_
    clock,              \* millis()
    now,                \* loop()'s local variable
    pc,                 \* the next call: "boot", "setup", "serial", "wifi", "health", "telemetry"
    lag,                \* time spent in this pass of loop(), or in setup()
    idle, healthAge,    \* history variables
    output              \* what the last step wrote: the lines, to whom, in answer to which command

timers == <<lastHealthCheckMs, clock, now, lag, idle, healthAge>>
deviceVars == <<sensors, links, runtime, timers, pc, output>>

Channels == {"serial", "wifi"}
Looping == pc \in {"serial", "wifi", "health", "telemetry"}

RuntimeState ==
    [sequenceNumber : 0 .. SeqMod - 1, telemetryIntervalMs : Intervals,
     lastTelemetryMs : Clock, telemetryPaused : BOOLEAN]

InitialRuntime ==
    [sequenceNumber |-> 0, telemetryIntervalMs |-> DefaultInterval,
     lastTelemetryMs |-> 0, telemetryPaused |-> FALSE]

InitialSensors ==
    [online |-> [x \in Sensors |-> FALSE], injected |-> [x \in Sensors |-> FALSE],
     auxPresent |-> FALSE, failures |-> [x \in Sensors |-> 0],
     i2cErrors |-> 0, recoveryAttempts |-> 0, successfulRecoveries |-> 0]

(* Mutant of Elapsed: a signed difference.                                  *)
ElapsedSigned(later, earlier) == later - earlier

(* later - earlier on unsigned long. *)
Elapsed(later, earlier) ==
    IF later >= earlier THEN later - earlier ELSE (later + ClockMod) - earlier

-----------------------------------------------------------------------------
(* What is written.  A line is a record; its wording is left out.           *)

SystemState(bme, imu) ==
    CASE bme /\ imu -> "NORMAL"
      [] bme # imu -> "DEGRADED"
      [] ~bme /\ ~imu -> "FAULT"

(* The fields telemetry packets and STATUS lines have in common. *)
HealthReport(s) ==
    [BME |-> Healthy(s, "BME"), IMU |-> Healthy(s, "IMU"), AUX |-> s.auxPresent,
     state |-> SystemState(Healthy(s, "BME"), Healthy(s, "IMU")),
     counters |-> <<s.i2cErrors, s.successfulRecoveries, s.recoveryAttempts, s.failures>>]

StatusLine(s, r) ==
    [kind |-> "STATUS", health |-> HealthReport(s),
     paused |-> r.telemetryPaused, rate |-> r.telemetryIntervalMs]
Ack(command) == [kind |-> "ACK", command |-> command]
AckValue(command, value) == [kind |-> "ACK", command |-> command, value |-> value]
AckRate(rate) == [kind |-> "ACK", command |-> "SET_RATE", rate |-> rate]
Err(error) == [kind |-> "ERR", error |-> error]

(* The packet built from samples e and m, in the state s they left. *)
Packet(seq, e, m, s) ==
    [kind |-> "TEL", sequence |-> seq, environment |-> e.valid, motion |-> m.valid,
     health |-> HealthReport(s)]

Silent == [answers |-> "", to |-> {}, lines |-> <<>>]

-----------------------------------------------------------------------------
(* setup() *)

DeviceInit ==
    /\ LinksInit /\ sensors = InitialSensors
    /\ runtime = InitialRuntime
    /\ lastHealthCheckMs = 0 /\ clock = 0 /\ now = 0
    /\ pc = "boot" /\ lag = 0 /\ idle = 0 /\ healthAge = 0
    /\ output = Silent

(* Serial.begin(), delay(1000), sensors.begin(), which starts the health    *)
(* timer.                                                                   *)
Begin ==
    /\ pc = "boot"
    /\ sensors' \in Begins
    /\ lastHealthCheckMs' = clock /\ healthAge' = 0
    /\ pc' = "setup" /\ lag' = 0 /\ output' = Silent
    /\ UNCHANGED <<links, runtime, clock, now, idle>>

(* WiFi provisioning is over: the first STATUS line, and the stream starts. *)
StartStream ==
    /\ pc = "setup"
    /\ output' = [answers |-> "", to |-> {"serial"}, lines |-> <<StatusLine(sensors, runtime)>>]
    /\ runtime' = [runtime EXCEPT !.lastTelemetryMs = clock] /\ idle' = 0
    /\ lag' = 0 /\ pc' = "serial"
    /\ UNCHANGED <<sensors, links, lastHealthCheckMs, clock, now, healthAge>>

(* A reset clears the RAM and restarts millis(). *)
Restart ==
    /\ pc' = "boot"
    /\ sensors' = InitialSensors /\ runtime' = InitialRuntime
    /\ lastHealthCheckMs' = 0 /\ clock' = 0 /\ now' = 0
    /\ lag' = 0 /\ idle' = 0 /\ healthAge' = 0
    /\ UNCHANGED links

PowerCycle == pc # "boot" /\ Restart /\ output' = Silent

-----------------------------------------------------------------------------
(* processCommand(), for a line from channel ch.  processSerialInput()      *)
(* stays in its loop; the WiFi transport handles one line per pass.         *)

After(ch) == IF ch = "serial" THEN "serial" ELSE "health"

Answer(ch, line, lines) ==
    /\ pc = ch /\ pc' = After(ch)
    /\ output' = [answers |-> line.command, to |-> IF lines = <<>> THEN {} ELSE {ch}, lines |-> lines]

Ignored(ch, line) ==
    /\ line.form = "BLANK"
    /\ Answer(ch, line, <<>>)
    /\ UNCHANGED <<sensors, links, runtime, timers>>

(* The error a line is answered with, or "" for a line that is accepted. *)
Rejection(line) ==
    CASE line.form = "OTHER" -> "BAD_FORMAT"
      [] line.form = "CMD" /\ line.command = "SET_RATE" ->
            IF line.value = "" THEN "MISSING_VALUE"
            ELSE IF line.number < MinInterval \/ line.number > MaxInterval THEN "RATE_RANGE" ELSE ""
      [] line.form = "CMD" /\ line.command = "INJECT_FAULT" ->
            IF line.value \in Sensors THEN "" ELSE "BAD_TARGET"
      [] line.form = "CMD" /\ line.command \in {"STATUS", "PAUSE", "RESUME", "CLEAR_FAULTS", "RESET"} -> ""
      [] OTHER -> "UNKNOWN_COMMAND"

Rejected(ch, line) ==
    /\ line.form # "BLANK" /\ Rejection(line) # ""
    /\ Answer(ch, line, <<Err(Rejection(line))>>)
    /\ UNCHANGED <<sensors, links, runtime, timers>>

Accepted(line, command) ==
    line.form = "CMD" /\ line.command = command /\ Rejection(line) = ""

Status(ch, line) ==
    /\ Accepted(line, "STATUS")
    /\ Answer(ch, line, <<Ack("STATUS"), StatusLine(sensors, runtime)>>)
    /\ UNCHANGED <<sensors, links, runtime, timers>>

Pause(ch, line) ==
    /\ Accepted(line, "PAUSE")
    /\ runtime' = [runtime EXCEPT !.telemetryPaused = TRUE]
    /\ Answer(ch, line, <<Ack("PAUSE"), StatusLine(sensors, runtime')>>)
    /\ UNCHANGED <<sensors, links, timers>>

(* Mutant of Resume: the timer is not restarted.                            *)
ResumeOldTimer(ch, line) ==
    /\ Accepted(line, "RESUME")
    /\ runtime' = [runtime EXCEPT !.telemetryPaused = FALSE]
    /\ idle' = 0
    /\ Answer(ch, line, <<Ack("RESUME"), StatusLine(sensors, runtime')>>)
    /\ UNCHANGED <<sensors, links, lastHealthCheckMs, clock, now, lag, healthAge>>

Resume(ch, line) ==
    /\ Accepted(line, "RESUME")
    /\ runtime' = [runtime EXCEPT !.telemetryPaused = FALSE, !.lastTelemetryMs = clock]
    /\ idle' = 0
    /\ Answer(ch, line, <<Ack("RESUME"), StatusLine(sensors, runtime')>>)
    /\ UNCHANGED <<sensors, links, lastHealthCheckMs, clock, now, lag, healthAge>>

(* Mutant of SetRate: the range is not looked at.                           *)
SetRateUnchecked(ch, line) ==
    /\ line.form = "CMD" /\ line.command = "SET_RATE" /\ line.value # ""
    /\ runtime' = [runtime EXCEPT !.telemetryIntervalMs = line.number]
    /\ Answer(ch, line, <<AckRate(line.number), StatusLine(sensors, runtime')>>)
    /\ UNCHANGED <<sensors, links, timers>>

SetRate(ch, line) ==
    /\ Accepted(line, "SET_RATE")
    /\ runtime' = [runtime EXCEPT !.telemetryIntervalMs = line.number]
    /\ Answer(ch, line, <<AckRate(line.number), StatusLine(sensors, runtime')>>)
    /\ UNCHANGED <<sensors, links, timers>>

Inject(ch, line) ==
    /\ Accepted(line, "INJECT_FAULT")
    /\ sensors' = Injected(sensors, line.value)
    /\ Answer(ch, line, <<AckValue("INJECT_FAULT", line.value), StatusLine(sensors', runtime)>>)
    /\ UNCHANGED <<links, runtime, timers>>

ClearFaults(ch, line) ==
    /\ Accepted(line, "CLEAR_FAULTS")
    /\ sensors' \in HealthChecks(Cleared(sensors))
    /\ Answer(ch, line, <<Ack("CLEAR_FAULTS"), StatusLine(sensors', runtime)>>)
    /\ UNCHANGED <<links, runtime, timers>>

(* The acknowledgement goes into the channel's Print.  For the UART that is *)
(* Serial, flushed before the restart; for WiFi it is a buffer that         *)
(* publishResponseLines() would send after processCommand() returned: the   *)
(* sender of RESET is not answered there, whatever docs/protocol.md says.   *)
Reset(ch, line) ==
    /\ Accepted(line, "RESET") /\ pc = ch
    /\ Restart
    /\ output' = [answers |-> "RESET", to |-> {ch} \ {"wifi"},
                  lines |-> IF ch = "wifi" THEN <<>> ELSE <<Ack("RESET")>>]

ProcessCommand(ch, line) ==
    \/ Ignored(ch, line)
    \/ Rejected(ch, line)
    \/ Status(ch, line)
    \/ Pause(ch, line)
    \/ Resume(ch, line)
    \/ SetRate(ch, line)
    \/ Inject(ch, line)
    \/ ClearFaults(ch, line)
    \/ Reset(ch, line)

(* Serial.available() is 0, or wifiTransport.loop() has no pending command. *)
NoCommand(ch) ==
    /\ pc = ch
    /\ pc' = IF ch = "serial" THEN "wifi" ELSE "health"
    /\ output' = Silent
    /\ UNCHANGED <<sensors, links, runtime, timers>>

-----------------------------------------------------------------------------
(* now = millis(); sensors.serviceHealth(now) *)
ServiceHealth ==
    /\ pc = "health" /\ pc' = "telemetry"
    /\ now' = clock
    /\ IF Elapsed(now', lastHealthCheckMs) < HealthInterval
       THEN UNCHANGED <<sensors, lastHealthCheckMs, healthAge>>
       ELSE /\ sensors' \in HealthChecks(sensors)
            /\ lastHealthCheckMs' = now' /\ healthAge' = 0
    /\ output' = Silent
    /\ UNCHANGED <<links, runtime, clock, lag, idle>>

(* Mutants of TelemetryDue: a comparison of points in time, which the wrap  *)
(* breaks; and an interval that must be exceeded.                           *)
TelemetryDueByDeadline ==
    ~runtime.telemetryPaused /\ now >= runtime.lastTelemetryMs + runtime.telemetryIntervalMs
TelemetryDueLate ==
    ~runtime.telemetryPaused /\ Elapsed(now, runtime.lastTelemetryMs) > runtime.telemetryIntervalMs

TelemetryDue ==
    ~runtime.telemetryPaused /\ Elapsed(now, runtime.lastTelemetryMs) >= runtime.telemetryIntervalMs

(* Mutant of EmitTelemetry: the health is read before the samples.          *)
EmitOldHealth ==
    /\ pc = "telemetry" /\ TelemetryDue
    /\ LET seq == (runtime.sequenceNumber + 1) % SeqMod
       IN  /\ runtime' = [runtime EXCEPT !.lastTelemetryMs = now, !.sequenceNumber = seq]
           /\ \E e \in EnvironmentReads(sensors) : \E m \in MotionReads(e.sensors) :
                 /\ sensors' = m.sensors
                 /\ output' = [answers |-> "", to |-> Channels, lines |-> <<Packet(seq, e, m, sensors)>>]
    /\ idle' = Elapsed(clock, now)
    /\ pc' = "serial" /\ lag' = 0
    /\ UNCHANGED <<links, lastHealthCheckMs, clock, now, healthAge>>

(* buildTelemetryPacket(), printed and published. *)
EmitTelemetry ==
    /\ pc = "telemetry" /\ TelemetryDue
    /\ LET seq == (runtime.sequenceNumber + 1) % SeqMod
       IN  /\ runtime' = [runtime EXCEPT !.lastTelemetryMs = now, !.sequenceNumber = seq]
           /\ \E e \in EnvironmentReads(sensors) : \E m \in MotionReads(e.sensors) :
                 /\ sensors' = m.sensors
                 /\ output' = [answers |-> "", to |-> Channels, lines |-> <<Packet(seq, e, m, m.sensors)>>]
    /\ idle' = Elapsed(clock, now)
    /\ pc' = "serial" /\ lag' = 0
    /\ UNCHANGED <<links, lastHealthCheckMs, clock, now, healthAge>>

SkipTelemetry ==
    /\ pc = "telemetry" /\ ~TelemetryDue
    /\ output' = Silent
    /\ pc' = "serial" /\ lag' = 0
    /\ UNCHANGED <<sensors, links, runtime, lastHealthCheckMs, clock, now, idle, healthAge>>

-----------------------------------------------------------------------------
(* The environment. *)

Saturated(age, cap) == IF age = cap THEN cap ELSE age + 1

Tick ==
    /\ \/ Looping /\ lag < MaxLag
       \/ pc = "setup" /\ lag < SetupLag
    /\ clock' = IF clock + 1 = ClockMod THEN 0 ELSE clock + 1
    /\ lag' = lag + 1
    /\ idle' = Saturated(idle, MaxIdle) /\ healthAge' = Saturated(healthAge, MaxHealthAge)
    /\ output' = Silent
    /\ UNCHANGED <<sensors, links, runtime, lastHealthCheckMs, now, pc>>

DeviceLinkChange ==
    /\ LinkChange
    /\ output' = Silent
    /\ UNCHANGED <<runtime, timers, pc>>

(* Steps the program takes without input. *)
LoopStep ==
    \/ Begin
    \/ StartStream
    \/ \E ch \in Channels : NoCommand(ch)
    \/ ServiceHealth
    \/ EmitTelemetry
    \/ SkipTelemetry

DeviceNext ==
    \/ LoopStep
    \/ \E ch \in Channels, line \in Lines : ProcessCommand(ch, line)
    \/ Tick
    \/ DeviceLinkChange
    \/ PowerCycle

DeviceSpec == DeviceInit /\ [][DeviceNext]_deviceVars

(* The scheduler's fairness: the CPU keeps running loop(), time passes, and *)
(* the UART is not fed faster than it is read for ever.                     *)
Fairness == WF_deviceVars(LoopStep) /\ WF_deviceVars(Tick)
FairDeviceSpec == DeviceSpec /\ Fairness

-----------------------------------------------------------------------------
(* Type invariant. *)
DeviceTypeOK ==
    /\ SensorTypeOK
    /\ runtime \in RuntimeState
    /\ lastHealthCheckMs \in Clock /\ clock \in Clock /\ now \in Clock
    /\ pc \in {"boot", "setup"} \cup {"serial", "wifi", "health", "telemetry"}
    /\ lag \in 0 .. (IF pc = "setup" THEN SetupLag ELSE MaxLag)
    /\ idle \in 0 .. MaxIdle /\ healthAge \in 0 .. MaxHealthAge

(* No packet is early: whatever commands arrive in whatever order and       *)
(* wherever the clock wraps, a packet leaves only when the true time since  *)
(* the last packet, RESUME or boot is at least the rate in force (loop()'s  *)
(* unsigned subtraction, main.cpp).                                         *)
Emission == \E i \in DOMAIN output'.lines : output'.lines[i].kind = "TEL"
NoEarlyPacketStep == Emission => idle >= runtime.telemetryIntervalMs /\ ~runtime.telemetryPaused
NoEarlyPacket == [][NoEarlyPacketStep]_deviceVars

(* No packet is late: when a pass of loop() ends with the stream running,   *)
(* the last packet, RESUME or boot is less than one interval and one pass   *)
(* ago, also just after the interval was shortened or the stream resumed.   *)
OnTimeStep ==
    pc = "telemetry" /\ pc' = "serial" /\ ~runtime'.telemetryPaused =>
        idle' < runtime'.telemetryIntervalMs + MaxLag
OnTime == [][OnTimeStep]_deviceVars

(* The running stream never goes silent for MaxIdle, whatever the rates set *)
(* meanwhile: a ground station may call a longer silence stale.             *)
NeverSilent == Looping /\ ~runtime.telemetryPaused => idle < MaxIdle

(* The health a packet reports is never older than one health interval and  *)
(* one pass, although the health timer starts before WiFi provisioning and  *)
(* runs on a clock that wraps (serviceHealth()).                            *)
HealthFresh == pc = "telemetry" => healthAge < HealthInterval + MaxLag

(* The device implements the contract of TelemetryContract: its state is    *)
(* the runtime's, its lines are those of the last step.  "Health/state      *)
(* fields remain present so the receiver can distinguish an intentional     *)
(* degraded packet from a malformed packet" (docs/protocol.md): a packet has *)
(* a sensor's measurements exactly when it reports that sensor OK, also when *)
(* a sample of the same packet lost it.                                     *)
Contract == INSTANCE TelemetryContract WITH
    sequence <- runtime.sequenceNumber, paused <- runtime.telemetryPaused,
    rate <- runtime.telemetryIntervalMs, lines <- output.lines
ImplementsContract == Contract!ContractSpec

(* A sensor whose link is restored for good returns to OK and stays there,  *)
(* once no fault is injected and the device is not rebooted any more        *)
(* (docs/fault_management.md, recovery strategy).                           *)
RecoversWhenBack ==
    \A x \in Sensors :
        <>[](links[x] = "ok" /\ ~sensors.injected[x] /\ pc # "boot") => <>[]Healthy(sensors, x)

(* A sensor that stops answering for good is reported FAULT for good,       *)
(* whatever commands arrive.                                                *)
LossIsReported ==
    \A x \in Sensors : <>[](links[x] = "gone") => <>[](~Healthy(sensors, x))
=============================================================================
