---------------------------- MODULE DeviceProofs ----------------------------
(* Theorems about Device, for every clock width, interval, bound and set of *)
(* command lines its assumptions allow.                                     *)
EXTENDS Device, SensorManagerProofs

-----------------------------------------------------------------------------
(* The unsigned subtraction on a clock that wraps. *)

NextClock(c) == IF c + 1 = ClockMod THEN 0 ELSE c + 1

(* It counts up with the clock until it would wrap itself. *)
LEMMA ElapsedFacts ==
  ASSUME NEW a \in Clock, NEW b \in Clock
  PROVE  /\ Elapsed(a, b) \in Clock
         /\ Elapsed(a, a) = 0
         /\ NextClock(a) \in Clock
         /\ Elapsed(a, b) < ClockMod - 1 => Elapsed(NextClock(a), b) = Elapsed(a, b) + 1
  BY ClockAssumption DEF Clock, Elapsed, NextClock

(* Of three readings a, b, c of which c is the oldest and b lies between.   *)
LEMMA ElapsedSplit ==
  ASSUME NEW a \in Clock, NEW b \in Clock, NEW c \in Clock, Elapsed(a, b) <= Elapsed(a, c)
  PROVE  Elapsed(b, c) = Elapsed(a, c) - Elapsed(a, b)
  BY ClockAssumption DEF Clock, Elapsed

(* What the assumptions say of the constants, in the form proofs use. *)
LEMMA ConstantsType ==
  /\ MinInterval \in Nat \ {0} /\ MaxInterval \in Nat \ {0} /\ DefaultInterval \in Intervals
  /\ MaxLag \in Nat /\ SetupLag \in Nat /\ HealthInterval \in Nat \ {0}
  /\ Intervals \subseteq Nat \ {0} /\ \A i \in Intervals : i <= MaxInterval
  /\ MaxIdle = MaxInterval + 2 * MaxLag /\ MaxHealthAge = HealthInterval + SetupLag + 2 * MaxLag
  /\ 0 \in Clock /\ 0 \in Counter /\ 0 \in 0 .. SeqMod - 1
  BY IntervalAssumption, ClockAssumption, CounterModAssumption, SeqAssumption
     DEF Intervals, MaxIdle, MaxHealthAge, Clock, Counter

(* Every interval is a positive number. *)
LEMMA IntervalType ==
  ASSUME NEW i \in Intervals
  PROVE  i \in Nat /\ i # 0 /\ i \in Int /\ i <= MaxInterval
  BY IntervalAssumption DEF Intervals

(* The state after a reset is well typed. *)
LEMMA InitialTypes == InitialSensors \in SensorState /\ InitialRuntime \in RuntimeState
  BY ConstantsType DEF InitialSensors, InitialRuntime, SensorState, RuntimeState

(* A line of code the program executes between two Ticks leaves a record    *)
(* of the right type.                                                       *)
LEMMA RuntimeUpdates ==
  ASSUME NEW r \in RuntimeState, NEW i \in Intervals, NEW t \in Clock, NEW n \in 0 .. SeqMod - 1,
         NEW p \in BOOLEAN
  PROVE  /\ [r EXCEPT !.telemetryPaused = p] \in RuntimeState
         /\ [r EXCEPT !.telemetryPaused = p, !.lastTelemetryMs = t] \in RuntimeState
         /\ [r EXCEPT !.lastTelemetryMs = t] \in RuntimeState
         /\ [r EXCEPT !.telemetryIntervalMs = i] \in RuntimeState
         /\ [r EXCEPT !.lastTelemetryMs = t, !.sequenceNumber = n] \in RuntimeState
  BY DEF RuntimeState

(* The sequence number stays in its range. *)
LEMMA SeqType == ASSUME NEW n \in 0 .. SeqMod - 1 PROVE (n + 1) % SeqMod \in 0 .. SeqMod - 1
  <1>1. n + 1 \in Nat BY SeqAssumption
  <1> QED BY <1>1, SeqAssumption, SMT

-----------------------------------------------------------------------------
(* What a command can do to the timers and to the stream.                   *)

Pausing == runtime'.telemetryPaused = TRUE
SameStream ==
    /\ runtime'.lastTelemetryMs = runtime.lastTelemetryMs
    /\ runtime'.telemetryPaused = runtime.telemetryPaused
    /\ UNCHANGED timers
Resumed ==
    /\ runtime'.lastTelemetryMs = clock /\ idle' = 0
    /\ UNCHANGED <<lastHealthCheckMs, clock, now, lag, healthAge>>

(* A command that does not restart the device touches the stream in one of three ways. *)
LEMMA CommandEffect ==
  ASSUME DeviceTypeOK, NEW ch \in Channels, NEW line \in Lines, ProcessCommand(ch, line)
  PROVE  \/ Restart
         \/ /\ pc = ch /\ pc' = After(ch)
            /\ runtime' \in RuntimeState /\ sensors' \in SensorState /\ UNCHANGED links
            /\ runtime'.sequenceNumber = runtime.sequenceNumber
            /\ \/ SameStream
               \/ Pausing /\ UNCHANGED timers
               \/ Resumed
  <1>0. /\ runtime \in RuntimeState /\ sensors \in SensorState /\ clock \in Clock
        /\ links \in [Devices -> LinkStates]
        /\ runtime.telemetryPaused \in BOOLEAN
    BY DEF DeviceTypeOK, SensorTypeOK, RuntimeState
  <1>1. CASE Ignored(ch, line) \/ Rejected(ch, line) \/ Status(ch, line)
    BY <1>0, <1>1 DEF Ignored, Rejected, Status, Answer, SameStream
  <1>2. CASE Pause(ch, line)
    <2>1. runtime' = [runtime EXCEPT !.telemetryPaused = TRUE] BY <1>2 DEF Pause
    <2>2. /\ runtime' \in RuntimeState /\ runtime'.telemetryPaused = TRUE
          /\ runtime'.sequenceNumber = runtime.sequenceNumber
      BY <1>0, <2>1 DEF RuntimeState
    <2> QED BY <1>0, <1>2, <2>2 DEF Pause, Answer, Pausing
  <1>3. CASE Resume(ch, line)
    <2>1. runtime' = [runtime EXCEPT !.telemetryPaused = FALSE, !.lastTelemetryMs = clock]
      BY <1>3 DEF Resume
    <2>2. /\ runtime' \in RuntimeState /\ runtime'.lastTelemetryMs = clock
          /\ runtime'.sequenceNumber = runtime.sequenceNumber
      BY <1>0, <2>1 DEF RuntimeState
    <2> QED BY <1>0, <1>3, <2>2 DEF Resume, Answer, Resumed
  <1>4. CASE SetRate(ch, line)
    <2>1. line.number \in Intervals
      <3>1. line.form = "CMD" /\ line.command = "SET_RATE" /\ Rejection(line) = ""
        BY <1>4 DEF SetRate, Accepted
      <3>2. line.number \in Int BY LinesAssumption
      <3>3. ~(line.number < MinInterval \/ line.number > MaxInterval)
        BY <3>1, Zenon DEF Rejection
      <3> QED BY <3>2, <3>3, ConstantsType DEF Intervals
    <2>2. /\ runtime' \in RuntimeState
          /\ runtime'.lastTelemetryMs = runtime.lastTelemetryMs
          /\ runtime'.telemetryPaused = runtime.telemetryPaused
          /\ runtime'.sequenceNumber = runtime.sequenceNumber
      BY <1>0, <1>4, <2>1 DEF SetRate, RuntimeState
    <2> QED BY <1>0, <1>4, <2>2 DEF SetRate, Answer, SameStream
  <1>5. CASE Inject(ch, line)
    <2>1. line.value \in Sensors
      <3>1. line.form = "CMD" /\ line.command = "INJECT_FAULT" /\ Rejection(line) = ""
        BY <1>5 DEF Inject, Accepted
      <3> QED BY <3>1 DEF Rejection
    <2>2. sensors' \in SensorState BY <1>0, <1>5, <2>1 DEF Inject, Injected, SensorState
    <2> QED BY <1>0, <1>5, <2>2 DEF Inject, Answer, SameStream
  <1>6. CASE ClearFaults(ch, line)
    <2>1. Cleared(sensors) \in SensorState BY <1>0 DEF Cleared, SensorState
    <2>2. sensors' \in SensorState BY <1>0, <1>6, <2>1, HealthChecksType DEF ClearFaults
    <2> QED BY <1>0, <1>6, <2>2 DEF ClearFaults, Answer, SameStream
  <1>7. CASE Reset(ch, line) BY <1>7 DEF Reset
  <1> QED BY <1>1, <1>2, <1>3, <1>4, <1>5, <1>6, <1>7 DEF ProcessCommand

-----------------------------------------------------------------------------
(* The inductive invariant of the timers: while the stream runs, what the   *)
(* wrapping clock says about the last packet is its true age, and no age    *)
(* grows beyond its bound.  It is why the subtraction in loop() is sound:   *)
(* an age stays far below the clock's width, because RESUME restarts the    *)
(* only timer that a pause can leave to grow old.                           *)
StreamTimed ==
    Looping /\ runtime.telemetryPaused = FALSE =>
        /\ idle = Elapsed(clock, runtime.lastTelemetryMs)
        /\ idle < MaxInterval + MaxLag + lag
        /\ pc = "telemetry" => Elapsed(clock, now) <= idle
HealthTimed ==
    /\ pc = "setup" => healthAge = Elapsed(clock, lastHealthCheckMs) /\ healthAge <= lag
    /\ Looping =>
         /\ healthAge = Elapsed(clock, lastHealthCheckMs)
         /\ healthAge < HealthInterval + SetupLag + MaxLag + lag
    /\ pc = "telemetry" => healthAge < HealthInterval + lag /\ Elapsed(clock, now) <= lag
DeviceInv == DeviceTypeOK /\ StreamTimed /\ HealthTimed

(* The invariant holds at first. *)
LEMMA InitInv == DeviceInit => DeviceInv
  <1> SUFFICES ASSUME DeviceInit PROVE DeviceInv OBVIOUS
  <1>1. DeviceTypeOK
    BY InitialTypes, ConstantsType, LinkStatesAssumption DEF DeviceInit, LinksInit, DeviceTypeOK, SensorTypeOK
  <1>2. StreamTimed /\ HealthTimed BY DEF DeviceInit, StreamTimed, HealthTimed, Looping
  <1> QED BY <1>1, <1>2 DEF DeviceInv

(* A restart establishes or keeps the invariant. *)
LEMMA RestartInv == ASSUME DeviceTypeOK, Restart PROVE DeviceInv'
  <1>1. DeviceTypeOK'
    BY InitialTypes, ConstantsType DEF Restart, DeviceTypeOK, SensorTypeOK
  <1>2. StreamTimed' /\ HealthTimed' BY DEF Restart, StreamTimed, HealthTimed, Looping
  <1> QED BY <1>1, <1>2 DEF DeviceInv

(* A command keeps the invariant. *)
LEMMA CommandInv ==
  ASSUME DeviceInv, NEW ch \in Channels, NEW line \in Lines, ProcessCommand(ch, line)
  PROVE  DeviceInv'
  <1> USE DEF DeviceInv
  <1>1. CASE Restart BY <1>1, RestartInv
  <1>2. CASE /\ pc = ch /\ pc' = After(ch)
             /\ runtime' \in RuntimeState /\ sensors' \in SensorState /\ UNCHANGED links
             /\ \/ SameStream
                \/ Pausing /\ UNCHANGED timers
                \/ Resumed
    <2>1. pc \in {"serial", "wifi"} /\ pc' \in {"serial", "health"}
      BY <1>2 DEF Channels, After
    <2>2. UNCHANGED <<lastHealthCheckMs, clock, now, lag, healthAge>>
      BY <1>2 DEF SameStream, Resumed, timers
    <2>3. idle' = idle \/ idle' = 0 BY <1>2 DEF SameStream, Resumed, timers
    <2>4. DeviceTypeOK'
      BY <1>2, <2>1, <2>2, <2>3, ConstantsType DEF DeviceTypeOK, SensorTypeOK
    <2>5. HealthTimed' BY <2>1, <2>2 DEF HealthTimed, Looping
    <2>6. StreamTimed'
      <3>1. CASE SameStream
        BY <2>1, <3>1 DEF SameStream, timers, StreamTimed, Looping
      <3>2. CASE Pausing BY <3>2 DEF Pausing, StreamTimed
      <3>3. CASE Resumed
        <4>1. idle' = 0 /\ clock' = clock /\ runtime'.lastTelemetryMs = clock /\ lag' = lag
          BY <3>3 DEF Resumed
        <4>2. Elapsed(clock, clock) = 0 /\ lag \in Nat
          BY <2>1, ElapsedFacts DEF DeviceTypeOK
        <4>3. 0 < MaxInterval + MaxLag + lag BY <4>2, ConstantsType
        <4>4. Elapsed(clock', runtime'.lastTelemetryMs) = 0 BY <4>1, <4>2
        <4> QED BY <2>1, <4>1, <4>3, <4>4 DEF StreamTimed
      <3> QED BY <1>2, <3>1, <3>2, <3>3
    <2> QED BY <2>4, <2>5, <2>6
  <1> QED BY <1>1, <1>2, CommandEffect

(* The passing of time keeps the invariant. *)
LEMMA TickInv == ASSUME DeviceInv, Tick PROVE DeviceInv'
  <1> USE DEF DeviceInv
  <1>1. /\ clock' = NextClock(clock) /\ lag' = lag + 1 /\ pc' = pc
        /\ UNCHANGED <<sensors, links, runtime, lastHealthCheckMs, now>>
        /\ idle' = Saturated(idle, MaxIdle) /\ healthAge' = Saturated(healthAge, MaxHealthAge)
    BY DEF Tick, NextClock
  <1>2. /\ clock \in Clock /\ now \in Clock /\ lastHealthCheckMs \in Clock
        /\ runtime.lastTelemetryMs \in Clock
        /\ idle \in 0 .. MaxIdle /\ healthAge \in 0 .. MaxHealthAge /\ lag \in Nat
    BY ConstantsType DEF DeviceTypeOK, RuntimeState
  <1>3. \/ Looping /\ lag < MaxLag
        \/ pc = "setup" /\ lag < SetupLag
    BY DEF Tick
  <1>4. DeviceTypeOK'
    <2>1. /\ idle' \in 0 .. MaxIdle /\ healthAge' \in 0 .. MaxHealthAge
      BY <1>1, <1>2, ConstantsType DEF Saturated
    <2>2. clock' \in Clock BY <1>1, <1>2, ElapsedFacts
    <2>3. lag' \in 0 .. (IF pc' = "setup" THEN SetupLag ELSE MaxLag)
      BY <1>1, <1>2, <1>3, ConstantsType DEF Looping
    <2> QED BY <1>1, <2>1, <2>2, <2>3 DEF DeviceTypeOK, SensorTypeOK
  <1>5. ASSUME NEW t \in Clock, Elapsed(clock, t) < MaxIdle \/ Elapsed(clock, t) < MaxHealthAge
        PROVE  Elapsed(clock', t) = Elapsed(clock, t) + 1
    <2>1. Elapsed(clock, t) < ClockMod - 1
      <3>1. Elapsed(clock, t) \in Int
        <4>1. Elapsed(clock, t) \in Clock BY <1>2, ElapsedFacts
        <4> QED BY <4>1 DEF Clock
      <3>2. MaxIdle \in Int /\ MaxHealthAge \in Int BY ConstantsType
      <3> QED BY <1>5, <3>1, <3>2, ClockAssumption
    <2> QED BY <1>1, <1>2, <2>1, ElapsedFacts
  <1>6. ASSUME Looping, runtime.telemetryPaused = FALSE
        PROVE  /\ idle' = Elapsed(clock', runtime.lastTelemetryMs)
               /\ idle' < MaxInterval + MaxLag + lag'
               /\ idle' = idle + 1
    <2>1. idle = Elapsed(clock, runtime.lastTelemetryMs) /\ idle < MaxInterval + MaxLag + lag
      BY <1>6 DEF StreamTimed
    <2>2. lag < MaxLag BY <1>3, <1>6 DEF Looping
    <2>3. idle < MaxIdle BY <1>2, <2>1, <2>2, ConstantsType
    <2>4. idle' = idle + 1 BY <1>1, <1>2, <2>3, ConstantsType DEF Saturated
    <2>5. Elapsed(clock', runtime.lastTelemetryMs) = idle + 1 BY <1>2, <1>5, <2>1, <2>3
    <2> QED BY <1>1, <1>2, <2>1, <2>4, <2>5, ConstantsType
  <1>7. ASSUME pc = "telemetry" PROVE Elapsed(clock', now) = Elapsed(clock, now) + 1 /\ Elapsed(clock, now) \in Nat
    <2>1. Elapsed(clock, now) <= lag BY <1>7 DEF HealthTimed
    <2>2. lag < MaxLag BY <1>3, <1>7
    <2>3. Elapsed(clock, now) \in Clock BY <1>2, ElapsedFacts
    <2>4. Elapsed(clock, now) < MaxIdle BY <1>2, <2>1, <2>2, <2>3, ConstantsType DEF Clock
    <2> QED BY <1>2, <1>5, <2>3, <2>4 DEF Clock
  <1>8. StreamTimed'
    <2> SUFFICES ASSUME Looping, runtime.telemetryPaused = FALSE
                 PROVE  /\ idle' = Elapsed(clock', runtime.lastTelemetryMs)
                        /\ idle' < MaxInterval + MaxLag + lag'
                        /\ pc = "telemetry" => Elapsed(clock', now) <= idle'
      BY <1>1 DEF StreamTimed, Looping
    <2>1. CASE pc = "telemetry"
      <3>1. Elapsed(clock, now) <= idle BY <2>1 DEF StreamTimed
      <3>2. idle \in Nat BY <1>2, ConstantsType
      <3>3. idle' = idle + 1 /\ Elapsed(clock', now) = Elapsed(clock, now) + 1 /\ Elapsed(clock, now) \in Nat
        BY <1>6, <1>7, <2>1
      <3>4. Elapsed(clock', now) <= idle' BY <3>1, <3>2, <3>3
      <3> QED BY <1>6, <3>4
    <2> QED BY <1>6, <2>1
  <1>9. HealthTimed'
    <2>1. CASE pc = "setup"
      <3>1. healthAge = Elapsed(clock, lastHealthCheckMs) /\ healthAge <= lag /\ lag < SetupLag
        BY <1>3, <2>1 DEF HealthTimed, Looping
      <3>2. healthAge < MaxHealthAge BY <1>2, <3>1, ConstantsType
      <3>3. healthAge' = healthAge + 1 BY <1>1, <1>2, <3>2, ConstantsType DEF Saturated
      <3>4. Elapsed(clock', lastHealthCheckMs) = healthAge + 1 BY <1>2, <1>5, <3>1, <3>2
      <3>5. lastHealthCheckMs' = lastHealthCheckMs /\ healthAge' <= lag'
        BY <1>1, <1>2, <3>1, <3>3, ConstantsType
      <3> QED BY <1>1, <2>1, <3>3, <3>4, <3>5 DEF HealthTimed, Looping
    <2>2. CASE Looping /\ lag < MaxLag
      <3>1. healthAge = Elapsed(clock, lastHealthCheckMs) /\ healthAge < HealthInterval + SetupLag + MaxLag + lag
        BY <2>2 DEF HealthTimed
      <3>2. healthAge < MaxHealthAge BY <1>2, <2>2, <3>1, ConstantsType
      <3>3. healthAge' = healthAge + 1 BY <1>1, <1>2, <3>2, ConstantsType DEF Saturated
      <3>4. Elapsed(clock', lastHealthCheckMs) = healthAge + 1 BY <1>2, <1>5, <3>1, <3>2
      <3>5. /\ healthAge' < HealthInterval + SetupLag + MaxLag + lag'
            /\ pc = "telemetry" => healthAge' < HealthInterval + lag' /\ Elapsed(clock', now) <= lag'
        BY <1>1, <1>2, <1>7, <3>1, <3>3, ConstantsType DEF HealthTimed
      <3>6. lastHealthCheckMs' = lastHealthCheckMs /\ now' = now BY <1>1
      <3>7. pc' # "setup" BY <1>1, <2>2 DEF Looping
      <3> QED BY <1>1, <3>3, <3>4, <3>5, <3>6, <3>7 DEF HealthTimed
    <2> QED BY <1>3, <2>1, <2>2
  <1> QED BY <1>4, <1>8, <1>9

(* setup() keeps the invariant. *)
LEMMA StartInv == ASSUME DeviceInv, Begin \/ StartStream PROVE DeviceInv'
  <1> USE DEF DeviceInv
  <1>0. /\ links \in [Devices -> LinkStates] /\ runtime \in RuntimeState /\ clock \in Clock
        /\ Elapsed(clock, clock) = 0
    BY ElapsedFacts DEF DeviceTypeOK, SensorTypeOK
  <1>1. CASE Begin
    <2>1. sensors' \in SensorState BY <1>0, <1>1, BeginsType DEF Begin
    <2>2. DeviceTypeOK' BY <1>1, <2>1, ConstantsType DEF Begin, DeviceTypeOK, SensorTypeOK
    <2>3. StreamTimed' /\ HealthTimed'
      BY <1>0, <1>1 DEF Begin, StreamTimed, HealthTimed, Looping
    <2> QED BY <2>2, <2>3
  <1>2. CASE StartStream
    <2>1. runtime' \in RuntimeState /\ runtime'.lastTelemetryMs = clock
      BY <1>0, <1>2 DEF StartStream, RuntimeState
    <2>0. /\ pc = "setup" /\ pc' = "serial" /\ lag' = 0 /\ idle' = 0
          /\ UNCHANGED <<sensors, links, lastHealthCheckMs, clock, now, healthAge>>
      BY <1>2 DEF StartStream
    <2>2. DeviceTypeOK'
      <3>1. 0 \in 0 .. MaxLag /\ 0 \in 0 .. MaxIdle BY ConstantsType
      <3> QED BY <2>0, <2>1, <3>1 DEF DeviceTypeOK, SensorTypeOK
    <2>3. StreamTimed'
      <3>1. Elapsed(clock', runtime'.lastTelemetryMs) = 0 BY <1>0, <1>2, <2>1 DEF StartStream
      <3>2. idle' = 0 /\ lag' = 0 /\ pc' = "serial" BY <1>2 DEF StartStream
      <3>3. 0 < MaxInterval + MaxLag + 0 BY ConstantsType
      <3> QED BY <3>1, <3>2, <3>3 DEF StreamTimed
    <2>4. HealthTimed'
      <3>1. healthAge = Elapsed(clock, lastHealthCheckMs) /\ healthAge <= lag
        BY <1>2 DEF StartStream, HealthTimed
      <3>2. lag <= SetupLag /\ lag \in Nat /\ healthAge \in Nat
        <4>1. lag \in 0 .. SetupLag /\ healthAge \in 0 .. MaxHealthAge BY <2>0 DEF DeviceTypeOK
        <4> QED BY <4>1, ConstantsType
      <3>3. healthAge < HealthInterval + SetupLag + MaxLag + 0 BY <3>1, <3>2, ConstantsType
      <3> QED BY <1>2, <3>1, <3>3 DEF StartStream, HealthTimed, Looping
    <2> QED BY <2>2, <2>3, <2>4
  <1> QED BY <1>1, <1>2

(* A pass without a command keeps the invariant. *)
LEMMA NoCommandInv == ASSUME DeviceInv, NEW ch \in Channels, NoCommand(ch) PROVE DeviceInv'
  <1>1. /\ pc \in Channels /\ pc' \in {"wifi", "health"}
        /\ UNCHANGED <<sensors, links, runtime, lastHealthCheckMs, clock, now, lag, idle, healthAge>>
    BY DEF NoCommand, Channels, timers
  <1> QED
    BY <1>1 DEF DeviceInv, DeviceTypeOK, SensorTypeOK, StreamTimed, HealthTimed, Looping, Channels

(* The health service keeps the invariant. *)
LEMMA HealthInv == ASSUME DeviceInv, ServiceHealth PROVE DeviceInv'
  <1> USE DEF DeviceInv
  <1>0. /\ links \in [Devices -> LinkStates] /\ sensors \in SensorState /\ runtime \in RuntimeState
        /\ clock \in Clock /\ lastHealthCheckMs \in Clock /\ Elapsed(clock, clock) = 0
        /\ lag \in Nat /\ healthAge \in Nat /\ idle \in Nat
    BY ElapsedFacts, ConstantsType DEF ServiceHealth, DeviceTypeOK, SensorTypeOK
  <1>1. /\ pc = "health" /\ pc' = "telemetry" /\ now' = clock
        /\ UNCHANGED <<links, runtime, clock, lag, idle>>
    BY DEF ServiceHealth
  <1>2. \/ /\ Elapsed(clock, lastHealthCheckMs) < HealthInterval
           /\ UNCHANGED <<sensors, lastHealthCheckMs, healthAge>>
        \/ /\ sensors' \in HealthChecks(sensors)
           /\ lastHealthCheckMs' = clock /\ healthAge' = 0
    BY <1>1 DEF ServiceHealth
  <1>3. sensors' \in SensorState BY <1>0, <1>2, HealthChecksType
  <1>4. healthAge = Elapsed(clock, lastHealthCheckMs) /\ healthAge < HealthInterval + SetupLag + MaxLag + lag
    BY <1>1 DEF HealthTimed, Looping
  <1>5. DeviceTypeOK' BY <1>0, <1>1, <1>2, <1>3, ConstantsType DEF DeviceTypeOK, SensorTypeOK
  <1>6. StreamTimed' BY <1>0, <1>1 DEF StreamTimed, Looping
  <1>7. HealthTimed'
    <2>1. healthAge' = Elapsed(clock', lastHealthCheckMs') BY <1>0, <1>1, <1>2, <1>4
    <2>2. healthAge' < HealthInterval + SetupLag + MaxLag + lag /\ healthAge' < HealthInterval + lag
      BY <1>0, <1>2, <1>4, ConstantsType
    <2>3. Elapsed(clock', now') <= lag' BY <1>0, <1>1
    <2> QED BY <1>1, <2>1, <2>2, <2>3 DEF HealthTimed
  <1> QED BY <1>5, <1>6, <1>7

(* The two outcomes of loop()'s telemetry test.                             *)
LEMMA EmitInv == ASSUME DeviceInv, EmitTelemetry PROVE DeviceInv' /\ idle' <= MaxLag /\ runtime'.telemetryIntervalMs \in Nat \ {0}
  <1> USE DEF DeviceInv
  <1>0. /\ links \in [Devices -> LinkStates] /\ sensors \in SensorState /\ runtime \in RuntimeState
        /\ clock \in Clock /\ now \in Clock /\ runtime.sequenceNumber \in 0 .. SeqMod - 1
        /\ lag \in 0 .. MaxLag /\ healthAge \in Nat /\ pc = "telemetry"
    <2>1. pc = "telemetry" BY DEF EmitTelemetry
    <2>2. healthAge \in 0 .. MaxHealthAge /\ lag \in 0 .. MaxLag BY <2>1 DEF DeviceTypeOK
    <2> QED BY <2>1, <2>2, ConstantsType DEF DeviceTypeOK, SensorTypeOK, RuntimeState
  <1> DEFINE seq == (runtime.sequenceNumber + 1) % SeqMod
  <1>1. /\ pc' = "serial" /\ lag' = 0 /\ idle' = Elapsed(clock, now)
        /\ runtime' = [runtime EXCEPT !.lastTelemetryMs = now, !.sequenceNumber = seq]
        /\ UNCHANGED <<links, lastHealthCheckMs, clock, now, healthAge>>
    BY DEF EmitTelemetry
  <1>2. sensors' \in SensorState
    <2>1. PICK e \in EnvironmentReads(sensors) : \E m \in MotionReads(e.sensors) : sensors' = m.sensors
      BY DEF EmitTelemetry
    <2>2. e.sensors \in SensorState BY <1>0, <2>1, ReadsType
    <2>3. PICK m \in MotionReads(e.sensors) : sensors' = m.sensors BY <2>1
    <2> QED BY <1>0, <2>2, <2>3, ReadsType
  <1>3. /\ runtime' \in RuntimeState /\ runtime'.lastTelemetryMs = now
        /\ runtime'.telemetryIntervalMs \in Nat \ {0}
    <2>1. seq \in 0 .. SeqMod - 1 BY <1>0, SeqType
    <2> HIDE DEF seq
    <2> QED BY <1>0, <1>1, <2>1, ConstantsType DEF RuntimeState
  <1>4. Elapsed(clock, now) <= lag /\ healthAge < HealthInterval + lag
        /\ healthAge = Elapsed(clock, lastHealthCheckMs)
    BY <1>0 DEF HealthTimed, Looping
  <1>5. Elapsed(clock, now) \in Nat
    <2>1. Elapsed(clock, now) \in Clock BY <1>0, ElapsedFacts
    <2> QED BY <2>1 DEF Clock
  <1>6. idle' \in 0 .. MaxLag BY <1>0, <1>1, <1>4, <1>5, ConstantsType
  <1>7. DeviceTypeOK'
    <2>1. idle' \in 0 .. MaxIdle BY <1>6, ConstantsType
    <2> QED BY <1>1, <1>2, <1>3, <2>1, ConstantsType DEF DeviceTypeOK, SensorTypeOK
  <1>8. StreamTimed'
    <2>1. idle' < MaxInterval + MaxLag + lag' BY <1>1, <1>6, ConstantsType
    <2>2. idle' = Elapsed(clock', runtime'.lastTelemetryMs) BY <1>1, <1>3
    <2> QED BY <1>1, <2>1, <2>2 DEF StreamTimed
  <1>9. HealthTimed'
    <2>1. healthAge < HealthInterval + SetupLag + MaxLag + 0 BY <1>0, <1>4, ConstantsType
    <2> QED BY <1>1, <1>4, <2>1 DEF HealthTimed
  <1> QED BY <1>3, <1>6, <1>7, <1>8, <1>9, ConstantsType

(* A pass without a packet keeps the invariant. *)
LEMMA SkipInv ==
  ASSUME DeviceInv, SkipTelemetry
  PROVE  DeviceInv' /\ (runtime'.telemetryPaused = FALSE => idle' < runtime'.telemetryIntervalMs + MaxLag)
  <1> USE DEF DeviceInv
  <1>0. /\ runtime \in RuntimeState /\ runtime.lastTelemetryMs \in Clock
        /\ runtime.telemetryIntervalMs \in Intervals
        /\ clock \in Clock /\ now \in Clock
        /\ lag \in 0 .. MaxLag /\ healthAge \in Nat /\ idle \in Nat /\ pc = "telemetry"
    BY ConstantsType DEF SkipTelemetry, DeviceTypeOK, SensorTypeOK, RuntimeState
  <1>1. /\ pc' = "serial" /\ lag' = 0
        /\ UNCHANGED <<sensors, links, runtime, lastHealthCheckMs, clock, now, idle, healthAge>>
    BY DEF SkipTelemetry
  <1>2. ASSUME runtime.telemetryPaused = FALSE
        PROVE  idle < runtime.telemetryIntervalMs + MaxLag /\ idle = Elapsed(clock, runtime.lastTelemetryMs)
    <2>1. Elapsed(now, runtime.lastTelemetryMs) < runtime.telemetryIntervalMs
      <3>1. ~(Elapsed(now, runtime.lastTelemetryMs) >= runtime.telemetryIntervalMs)
        BY <1>2 DEF SkipTelemetry, TelemetryDue
      <3>2. Elapsed(now, runtime.lastTelemetryMs) \in Int
        <4>1. Elapsed(now, runtime.lastTelemetryMs) \in Clock BY <1>0, ElapsedFacts
        <4> QED BY <4>1 DEF Clock
      <3>3. runtime.telemetryIntervalMs \in Int BY <1>0, IntervalType
      <3> QED BY <3>1, <3>2, <3>3
    <2>2. /\ idle = Elapsed(clock, runtime.lastTelemetryMs) /\ Elapsed(clock, now) <= idle
          /\ Elapsed(clock, now) <= lag
      BY <1>0, <1>2 DEF StreamTimed, HealthTimed, Looping
    <2>3. Elapsed(now, runtime.lastTelemetryMs) = idle - Elapsed(clock, now)
      BY <1>0, <2>2, ElapsedSplit
    <2>4. Elapsed(clock, now) \in Nat
      <3>1. Elapsed(clock, now) \in Clock BY <1>0, ElapsedFacts
      <3> QED BY <3>1 DEF Clock
    <2>5. lag \in Nat /\ lag <= MaxLag BY <1>0, ConstantsType
    <2>6. runtime.telemetryIntervalMs \in Nat BY <1>0, IntervalType
    <2>7. idle < runtime.telemetryIntervalMs + MaxLag
      BY <1>0, <2>1, <2>2, <2>3, <2>4, <2>5, <2>6, ConstantsType
    <2> QED BY <2>2, <2>7
  <1>3. DeviceTypeOK' BY <1>1, ConstantsType DEF DeviceTypeOK, SensorTypeOK
  <1>4. StreamTimed'
    <2>1. ASSUME runtime.telemetryPaused = FALSE
          PROVE  idle < MaxInterval + MaxLag + 0 /\ idle = Elapsed(clock, runtime.lastTelemetryMs)
      <3>1. runtime.telemetryIntervalMs \in Nat /\ runtime.telemetryIntervalMs <= MaxInterval
        BY <1>0, IntervalType
      <3>2. idle < runtime.telemetryIntervalMs + MaxLag /\ idle = Elapsed(clock, runtime.lastTelemetryMs)
        BY <1>2, <2>1
      <3>3. idle \in Nat BY <1>0
      <3> QED BY <3>1, <3>2, <3>3, ConstantsType
    <2> QED BY <1>1, <2>1 DEF StreamTimed
  <1>5. HealthTimed'
    <2>1. healthAge < HealthInterval + lag /\ healthAge = Elapsed(clock, lastHealthCheckMs)
      BY <1>0 DEF HealthTimed, Looping
    <2>2. healthAge < HealthInterval + SetupLag + MaxLag + 0 BY <1>0, <2>1, ConstantsType
    <2> QED BY <1>1, <2>1, <2>2 DEF HealthTimed
  <1> QED BY <1>1, <1>2, <1>3, <1>4, <1>5

(* Every step keeps the invariant. *)
LEMMA DeviceInductive == DeviceInv /\ [DeviceNext]_deviceVars => DeviceInv'
  <1> SUFFICES ASSUME DeviceInv, [DeviceNext]_deviceVars PROVE DeviceInv'
    OBVIOUS
  <1>1. CASE LoopStep
    BY <1>1, StartInv, NoCommandInv, HealthInv, EmitInv, SkipInv DEF LoopStep
  <1>2. CASE \E ch \in Channels, line \in Lines : ProcessCommand(ch, line)
    BY <1>2, CommandInv
  <1>3. CASE Tick BY <1>3, TickInv
  <1>4. CASE DeviceLinkChange
    BY <1>4, UnstableAssumption
       DEF DeviceLinkChange, LinkChange, DeviceInv, DeviceTypeOK, SensorTypeOK, StreamTimed, HealthTimed,
           Looping, timers
  <1>5. CASE PowerCycle BY <1>5, RestartInv DEF PowerCycle, DeviceInv
  <1>6. CASE UNCHANGED deviceVars
    BY <1>6 DEF deviceVars, timers, DeviceInv, DeviceTypeOK, SensorTypeOK, StreamTimed, HealthTimed, Looping
  <1> QED BY <1>1, <1>2, <1>3, <1>4, <1>5, <1>6 DEF DeviceNext

(* The invariant holds always. *)
LEMMA DeviceInvariant == DeviceSpec => []DeviceInv
  BY InitInv, DeviceInductive, PTL DEF DeviceSpec

-----------------------------------------------------------------------------
(* The program's state keeps its type.                                      *)
THEOREM DeviceTypeCorrect == DeviceSpec => []DeviceTypeOK
  BY DeviceInvariant, PTL DEF DeviceInv

(* A running stream is never silent for MaxIdle, at any clock width above   *)
(* the longest silence and whatever commands arrive.                        *)
THEOREM StreamNeverSilent == DeviceSpec => []NeverSilent
  <1>1. DeviceInv => NeverSilent
    <2> SUFFICES ASSUME DeviceInv, Looping, ~runtime.telemetryPaused PROVE idle < MaxIdle
      BY DEF NeverSilent
    <2>1. runtime.telemetryPaused = FALSE BY DEF DeviceInv, DeviceTypeOK, RuntimeState
    <2>2. idle < MaxInterval + MaxLag + lag BY <2>1 DEF DeviceInv, StreamTimed
    <2>3. lag \in 0 .. MaxLag /\ idle \in 0 .. MaxIdle BY DEF DeviceInv, DeviceTypeOK, Looping
    <2> QED BY <2>2, <2>3, ConstantsType
  <1> QED BY <1>1, DeviceInvariant, PTL

(* The health in a packet is at most one health interval and one pass old.  *)
THEOREM HealthIsFresh == DeviceSpec => []HealthFresh
  <1>1. DeviceInv => HealthFresh
    <2> SUFFICES ASSUME DeviceInv, pc = "telemetry" PROVE healthAge < HealthInterval + MaxLag
      BY DEF HealthFresh
    <2>1. healthAge < HealthInterval + lag BY DEF DeviceInv, HealthTimed
    <2>2. lag \in 0 .. MaxLag /\ healthAge \in 0 .. MaxHealthAge BY DEF DeviceInv, DeviceTypeOK
    <2> QED BY <2>1, <2>2, ConstantsType
  <1> QED BY <1>1, DeviceInvariant, PTL

-----------------------------------------------------------------------------
(* Only EmitTelemetry sends a packet.                                       *)
LEMMA CommandIsNoEmission ==
  ASSUME NEW ch \in Channels, NEW line \in Lines, ProcessCommand(ch, line)
  PROVE  ~Emission
  <1>1. ASSUME NEW lines, output'.lines = lines,
               \/ lines = <<>>
               \/ \E a : lines = <<a>> /\ a.kind # "TEL"
               \/ \E a, b : lines = <<a, b>> /\ a.kind # "TEL" /\ b.kind # "TEL"
        PROVE  ~Emission
    BY <1>1 DEF Emission
  <1>2. \A s, r : StatusLine(s, r).kind # "TEL" BY DEF StatusLine
  <1>3. \A c, v : Ack(c).kind # "TEL" /\ AckValue(c, v).kind # "TEL" /\ AckRate(v).kind # "TEL" /\ Err(c).kind # "TEL"
    BY DEF Ack, AckValue, AckRate, Err
  <1>4. \A a : ~Answer(ch, line, a) \/ output'.lines = a BY DEF Answer
  <1>5. CASE Ignored(ch, line) BY <1>1, <1>4, <1>5 DEF Ignored
  <1>6. CASE Rejected(ch, line) BY <1>1, <1>3, <1>4, <1>6 DEF Rejected
  <1>7. CASE Status(ch, line) BY <1>1, <1>2, <1>3, <1>4, <1>7 DEF Status
  <1>8. CASE Pause(ch, line) BY <1>1, <1>2, <1>3, <1>4, <1>8 DEF Pause
  <1>9. CASE Resume(ch, line) BY <1>1, <1>2, <1>3, <1>4, <1>9 DEF Resume
  <1>10. CASE SetRate(ch, line) BY <1>1, <1>2, <1>3, <1>4, <1>10 DEF SetRate
  <1>11. CASE Inject(ch, line) BY <1>1, <1>2, <1>3, <1>4, <1>11 DEF Inject
  <1>12. CASE ClearFaults(ch, line) BY <1>1, <1>2, <1>3, <1>4, <1>12 DEF ClearFaults
  <1>13. CASE Reset(ch, line)
    <2>1. output'.lines = IF ch = "wifi" THEN <<>> ELSE <<Ack("RESET")>> BY <1>13 DEF Reset
    <2> QED BY <1>1, <1>3, <2>1
  <1> QED
    BY <1>5, <1>6, <1>7, <1>8, <1>9, <1>10, <1>11, <1>12, <1>13 DEF ProcessCommand

(* Packets come from EmitTelemetry alone. *)
LEMMA OnlyTelemetryEmits ==
  ASSUME [DeviceNext]_deviceVars, ~EmitTelemetry, ~(UNCHANGED deviceVars)
  PROVE  ~Emission
  <1>1. ASSUME output' = Silent PROVE ~Emission
    <2>1. output'.lines = <<>> BY <1>1 DEF Silent
    <2> QED BY <2>1 DEF Emission
  <1>2. CASE StartStream
    <2>1. output'.lines = <<StatusLine(sensors, runtime)>> BY <1>2 DEF StartStream
    <2>2. StatusLine(sensors, runtime).kind # "TEL" BY DEF StatusLine
    <2> QED BY <2>1, <2>2 DEF Emission
  <1>3. CASE LoopStep /\ ~StartStream
    BY <1>1, <1>3 DEF LoopStep, Begin, NoCommand, ServiceHealth, SkipTelemetry
  <1>4. CASE Tick \/ DeviceLinkChange \/ PowerCycle
    BY <1>1, <1>4 DEF Tick, DeviceLinkChange, PowerCycle
  <1> QED BY <1>2, <1>3, <1>4, CommandIsNoEmission DEF DeviceNext

(* No packet leaves before the true time since the last one, the last       *)
(* RESUME or the start has reached the rate in force.                       *)
THEOREM PacketsAreNotEarly == DeviceSpec => NoEarlyPacket
  <1>1. DeviceInv /\ [DeviceNext]_deviceVars => [NoEarlyPacketStep]_deviceVars
    <2> SUFFICES ASSUME DeviceInv, EmitTelemetry
                 PROVE  idle >= runtime.telemetryIntervalMs /\ ~runtime.telemetryPaused
      BY OnlyTelemetryEmits DEF NoEarlyPacketStep
    <2>1. pc = "telemetry" /\ ~runtime.telemetryPaused
          /\ Elapsed(now, runtime.lastTelemetryMs) >= runtime.telemetryIntervalMs
      BY DEF EmitTelemetry, TelemetryDue
    <2>2. /\ clock \in Clock /\ now \in Clock /\ runtime.lastTelemetryMs \in Clock
          /\ runtime.telemetryPaused = FALSE /\ runtime.telemetryIntervalMs \in Intervals
          /\ idle \in 0 .. MaxIdle
      BY <2>1 DEF DeviceInv, DeviceTypeOK, RuntimeState
    <2>3. idle = Elapsed(clock, runtime.lastTelemetryMs) /\ Elapsed(clock, now) <= idle
      BY <2>1, <2>2 DEF DeviceInv, StreamTimed, Looping
    <2>4. Elapsed(now, runtime.lastTelemetryMs) = idle - Elapsed(clock, now)
      BY <2>2, <2>3, ElapsedSplit
    <2>5. Elapsed(clock, now) \in Nat
      <3>1. Elapsed(clock, now) \in Clock BY <2>2, ElapsedFacts
      <3> QED BY <3>1 DEF Clock
    <2>6. runtime.telemetryIntervalMs \in Nat BY <2>2, IntervalType
    <2>7. idle \in Nat
      <3>1. MaxIdle \in Nat BY ConstantsType
      <3> QED BY <2>2, <3>1
    <2> QED BY <2>1, <2>4, <2>5, <2>6, <2>7
  <1> QED BY <1>1, DeviceInvariant, PTL DEF DeviceSpec, NoEarlyPacket

(* No packet is late by more than one pass of the loop.                     *)
THEOREM PacketsAreOnTime == DeviceSpec => OnTime
  <1>1. DeviceInv /\ [DeviceNext]_deviceVars => [OnTimeStep]_deviceVars
    <2> SUFFICES ASSUME DeviceInv, DeviceNext, pc = "telemetry", pc' = "serial", ~runtime'.telemetryPaused
                 PROVE  idle' < runtime'.telemetryIntervalMs + MaxLag
      BY DEF OnTimeStep
    <2>1. ~(\E ch \in Channels, line \in Lines : ProcessCommand(ch, line))
      BY CommandEffect DEF DeviceInv, Channels, Restart
    <2>2. ~(Tick \/ DeviceLinkChange \/ PowerCycle)
      BY DEF Tick, DeviceLinkChange, PowerCycle, Restart, timers
    <2>3. ~(Begin \/ StartStream \/ (\E ch \in Channels : NoCommand(ch)) \/ ServiceHealth)
      BY DEF Begin, StartStream, NoCommand, ServiceHealth, Channels
    <2>4. CASE EmitTelemetry
      <3>1. idle' <= MaxLag /\ runtime'.telemetryIntervalMs \in Nat \ {0} /\ DeviceInv'
        BY <2>4, EmitInv
      <3>2. idle' \in Nat
        <4>1. idle' \in 0 .. MaxIdle BY <3>1 DEF DeviceInv, DeviceTypeOK
        <4> QED BY <4>1, ConstantsType
      <3> QED BY <3>1, <3>2, ConstantsType
    <2>5. CASE SkipTelemetry
      <3>1. DeviceInv' BY <2>5, SkipInv
      <3>2. runtime'.telemetryPaused = FALSE BY <3>1 DEF DeviceInv, DeviceTypeOK, RuntimeState
      <3> QED BY <2>5, <3>2, SkipInv
    <2> QED BY <2>1, <2>2, <2>3, <2>4, <2>5 DEF DeviceNext, LoopStep
  <1> QED BY <1>1, DeviceInvariant, PTL DEF DeviceSpec, OnTime
=============================================================================
