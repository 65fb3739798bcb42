------------------------ MODULE SensorManagerProofs ------------------------
(* Theorems about SensorManager, for every counter width, every set of link *)
(* states and every set of unstable devices.                                *)
EXTENDS SensorManager, TLAPS

-----------------------------------------------------------------------------
(* Lemmas about the operators. *)

(* Counting stays within the counter's width. *)
LEMMA CountType == ASSUME NEW c \in Nat, NEW n \in Nat PROVE Count(c, n) \in Counter
  BY CounterModAssumption, SMT DEF Count, Counter

(* A link is in one of the three states the I2C operators distinguish. *)
LEMMA LinkValue ==
  ASSUME links \in [Devices -> LinkStates], NEW d \in Devices
  PROVE  links[d] \in {"ok", "flaky", "gone"}
  BY LinkStatesAssumption

(* Counters are natural numbers. *)
LEMMA CounterNat == Counter \subseteq Nat
  BY CounterModAssumption, SMT DEF Counter

(* What a device may answer, and what that says of its link. *)
LEMMA AcksFacts ==
  ASSUME links \in [Devices -> LinkStates], NEW d \in Devices, NEW a \in Acks(d)
  PROVE  /\ a \in BOOLEAN
         /\ links[d] = "ok" => a = TRUE
         /\ links[d] = "gone" => a = FALSE
  <1>1. CASE links[d] = "ok"    BY <1>1 DEF Acks
  <1>2. CASE links[d] = "flaky" BY <1>2 DEF Acks
  <1>3. CASE links[d] = "gone"  BY <1>3 DEF Acks
  <1> QED BY <1>1, <1>2, <1>3, LinkValue

(* The same for a register read. *)
LEMMA ReadsFacts ==
  ASSUME links \in [Devices -> LinkStates], NEW d \in Devices, NEW r \in RegisterReads(d)
  PROVE  /\ r \in {Match, Garbled, Nack}
         /\ r.errors \in {0, 1}
         /\ links[d] = "ok" => r = Match
         /\ links[d] = "gone" => r = Nack
  <1>1. /\ r \in {Match, Garbled, Nack}
        /\ links[d] = "ok" => r = Match
        /\ links[d] = "gone" => r = Nack
    <2>1. CASE links[d] = "ok"    BY <2>1 DEF RegisterReads
    <2>2. CASE links[d] = "flaky" BY <2>2 DEF RegisterReads
    <2>3. CASE links[d] = "gone"  BY <2>3 DEF RegisterReads
    <2> QED BY <2>1, <2>2, <2>3, LinkValue
  <1> QED BY <1>1 DEF Match, Garbled, Nack

(* Initialising a sensor succeeds on a good link and fails on a dead one. *)
LEMMA SetupsFacts ==
  ASSUME links \in [Devices -> LinkStates], NEW x \in Sensors, NEW u \in Setups(x)
  PROVE  /\ u \in [ok : BOOLEAN, errors : {0, 1}]
         /\ links[x] = "ok" => u.ok
         /\ links[x] = "gone" => ~u.ok
  <1>0. x \in Devices BY DEF Devices
  <1>1. CASE x = "BME"
    <2>1. PICK a \in Acks("BME") : u = [ok |-> a, errors |-> 0] BY <1>1 DEF Setups, BmeSetups
    <2> QED BY <1>0, <1>1, <2>1, AcksFacts
  <1>2. CASE x = "IMU"
    <2>1. u \in ImuSetups BY <1>2 DEF Setups
    <2>2. CASE \E r \in RegisterReads("IMU") \ {Match} : u = [ok |-> FALSE, errors |-> r.errors]
      BY <1>0, <1>2, <2>2, ReadsFacts
    <2>3. CASE /\ Match \in RegisterReads("IMU")
               /\ \E a \in Acks("IMU") : u = [ok |-> a, errors |-> IF a THEN 0 ELSE 1]
      <3>1. links["IMU"] # "gone" BY <1>0, <1>2, <2>3, ReadsFacts DEF Match, Nack
      <3>2. PICK a \in Acks("IMU") : u = [ok |-> a, errors |-> IF a THEN 0 ELSE 1] BY <2>3
      <3>3. a \in BOOLEAN /\ (links["IMU"] = "ok" => a = TRUE) BY <1>0, <1>2, <3>2, AcksFacts
      <3> QED BY <1>2, <3>1, <3>2, <3>3
    <2> QED BY <2>1, <2>2, <2>3 DEF ImuSetups
  <1> QED BY <1>1, <1>2 DEF Sensors

(* What healthCheck() finds out about one sensor: nothing under an injected *)
(* fault; otherwise the truth when the link is good or dead.                *)
Finding == [online : BOOLEAN, attempts : {0, 1}, recoveries : {0, 1}, errors : 0 .. 2]

(* The same for the check of one sensor. *)
LEMMA ChecksFacts ==
  ASSUME links \in [Devices -> LinkStates], NEW s \in SensorState, NEW x \in Sensors,
         NEW c \in Checks(s, x)
  PROVE  /\ c \in Finding
         /\ s.injected[x] => c.online = s.online[x]
         /\ ~s.injected[x] /\ links[x] = "ok" => c.online
         /\ ~s.injected[x] /\ links[x] = "gone" => ~c.online
  <1>0. x \in Devices /\ s.online[x] \in BOOLEAN /\ s.injected[x] \in BOOLEAN
    BY DEF Devices, SensorState
  <1>1. CASE s.injected[x]
    BY <1>0, <1>1 DEF Checks, Skipped, Finding
  <1>2. CASE ~s.injected[x]
    <2>1. PICK r \in RegisterReads(x) :
            c \in IF s.online[x] /\ r = Match THEN { Skipped(s, x) } ELSE Recoveries(r, x)
      BY <1>2 DEF Checks
    <2>2. r.errors \in {0, 1} /\ (links[x] = "gone" => r # Match)
      BY <1>0, <2>1, ReadsFacts DEF Match, Nack
    <2>3. CASE s.online[x] /\ r = Match
      <3>1. c = Skipped(s, x) BY <2>1, <2>3
      <3>2. c \in Finding /\ c.online = s.online[x] BY <1>0, <3>1 DEF Skipped, Finding
      <3> QED BY <1>2, <2>2, <2>3, <3>2
    <2>4. CASE ~(s.online[x] /\ r = Match)
      <3>1. PICK u \in Setups(x) :
              c = [online |-> u.ok, attempts |-> 1, recoveries |-> IF u.ok THEN 1 ELSE 0,
                   errors |-> r.errors + u.errors]
        BY <2>1, <2>4 DEF Recoveries
      <3> QED BY <1>2, <2>2, <3>1, SetupsFacts DEF Finding
    <2> QED BY <2>3, <2>4
  <1> QED BY <1>1, <1>2

(* The state healthCheck() leaves has the type of the object's state.       *)
LEMMA CheckedType ==
  ASSUME NEW s \in SensorState, NEW b \in Finding, NEW i \in Finding, NEW a \in BOOLEAN
  PROVE  Checked(s, b, i, a) \in SensorState
  <1> DEFINE found(x) == IF x = "BME" THEN b ELSE i
  <1>1. [x \in Sensors |-> found(x).online] \in [Sensors -> BOOLEAN]
    BY DEF Finding
  <1>2. [x \in Sensors |-> IF s.online[x] /\ ~found(x).online
                             THEN Count(s.failures[x], 1) ELSE s.failures[x]] \in [Sensors -> Counter]
    <2> SUFFICES ASSUME NEW x \in Sensors
                 PROVE  (IF s.online[x] /\ ~found(x).online
                         THEN Count(s.failures[x], 1) ELSE s.failures[x]) \in Counter
      OBVIOUS
    <2>1. s.failures[x] \in Counter BY DEF SensorState
    <2>2. Count(s.failures[x], 1) \in Counter BY <2>1, CounterNat, CountType
    <2> QED BY <2>1, <2>2
  <1>3. /\ Count(s.i2cErrors, b.errors + i.errors) \in Counter
        /\ Count(s.recoveryAttempts, b.attempts + i.attempts) \in Counter
        /\ Count(s.successfulRecoveries, b.recoveries + i.recoveries) \in Counter
    <2>1. /\ s.i2cErrors \in Nat /\ s.recoveryAttempts \in Nat /\ s.successfulRecoveries \in Nat
      BY DEF SensorState, Counter
    <2>2. /\ b.errors + i.errors \in Nat /\ b.attempts + i.attempts \in Nat
          /\ b.recoveries + i.recoveries \in Nat
      BY DEF Finding
    <2> QED BY <2>1, <2>2, CountType
  <1>4. s.injected \in [Sensors -> BOOLEAN] BY DEF SensorState
  <1> QED BY <1>1, <1>2, <1>3, <1>4 DEF Checked, SensorState

(* So do all of its outcomes. *)
LEMMA HealthChecksType ==
  ASSUME links \in [Devices -> LinkStates], NEW s \in SensorState, NEW t \in HealthChecks(s)
  PROVE  t \in SensorState
  <1>1. PICK b \in Checks(s, "BME"), i \in Checks(s, "IMU"), a \in Acks("AUX") : t = Checked(s, b, i, a)
    BY DEF HealthChecks
  <1>2. b \in Finding /\ i \in Finding /\ a \in BOOLEAN
    BY <1>1, ChecksFacts, AcksFacts DEF Sensors, Devices
  <1> QED BY <1>1, <1>2, CheckedType

(* A lost sample leaves a well-typed state. *)
LEMMA LostType ==
  ASSUME NEW s \in SensorState, NEW x \in Sensors, NEW errors \in Nat
  PROVE  Lost(s, x, errors) \in SensorState
  <1>1. s.failures[x] \in Nat /\ s.i2cErrors \in Nat BY CounterNat DEF SensorState
  <1>2. Count(s.failures[x], 1) \in Counter /\ Count(s.i2cErrors, errors) \in Counter
    BY <1>1, CountType
  <1>3. [s.online EXCEPT ![x] = FALSE] \in [Sensors -> BOOLEAN] BY DEF SensorState
  <1>4. [s.failures EXCEPT ![x] = Count(@, 1)] \in [Sensors -> Counter] BY <1>2 DEF SensorState
  <1> QED BY <1>2, <1>3, <1>4 DEF Lost, SensorState

(* What a lost sample changes. *)
LEMMA LostFacts ==
  ASSUME NEW s \in SensorState, NEW x \in Sensors, NEW errors \in Nat
  PROVE  /\ Lost(s, x, errors).injected = s.injected
         /\ Lost(s, x, errors).online = [s.online EXCEPT ![x] = FALSE]
         /\ Lost(s, x, errors).failures = [s.failures EXCEPT ![x] = Count(@, 1)]
         /\ Healthy(Lost(s, x, errors), x) = FALSE
  BY DEF Lost, SensorState, Healthy

(* The sample reads: the object's state keeps its type, and the sample is   *)
(* valid exactly when the sensor is healthy afterwards.                     *)
LEMMA ReadsType ==
  ASSUME links \in [Devices -> LinkStates], NEW s \in SensorState
  PROVE  /\ \A r \in EnvironmentReads(s) :
               /\ r.sensors \in SensorState
               /\ r.valid = Healthy(r.sensors, "BME")
               /\ r.sensors.online["IMU"] = s.online["IMU"] /\ r.sensors.injected = s.injected
         /\ \A r \in MotionReads(s) :
               /\ r.sensors \in SensorState
               /\ r.valid = Healthy(r.sensors, "IMU")
               /\ r.sensors.online["BME"] = s.online["BME"] /\ r.sensors.injected = s.injected
  <1>0. "BME" \in Sensors /\ "IMU" \in Sensors /\ "IMU" \in Devices BY DEF Sensors, Devices
  <1>1. /\ Lost(s, "BME", 0) \in SensorState /\ Lost(s, "IMU", 1) \in SensorState
        /\ Healthy(Lost(s, "BME", 0), "BME") = FALSE /\ Healthy(Lost(s, "IMU", 1), "IMU") = FALSE
        /\ Lost(s, "BME", 0).injected = s.injected /\ Lost(s, "IMU", 1).injected = s.injected
        /\ Lost(s, "BME", 0).online["IMU"] = s.online["IMU"]
        /\ Lost(s, "IMU", 1).online["BME"] = s.online["BME"]
    <2>1. s.online \in [Sensors -> BOOLEAN] BY DEF SensorState
    <2>0. 0 \in Nat /\ 1 \in Nat OBVIOUS
    <2>2. /\ Lost(s, "BME", 0) \in SensorState
          /\ Healthy(Lost(s, "BME", 0), "BME") = FALSE
          /\ Lost(s, "BME", 0).injected = s.injected
          /\ Lost(s, "BME", 0).online = [s.online EXCEPT !["BME"] = FALSE]
      BY <1>0, <2>0, LostType, LostFacts, Zenon
    <2>3. /\ Lost(s, "IMU", 1) \in SensorState
          /\ Healthy(Lost(s, "IMU", 1), "IMU") = FALSE
          /\ Lost(s, "IMU", 1).injected = s.injected
          /\ Lost(s, "IMU", 1).online = [s.online EXCEPT !["IMU"] = FALSE]
      BY <1>0, <2>0, LostType, LostFacts, Zenon
    <2> QED BY <1>0, <2>1, <2>2, <2>3
  <1>2. Healthy(s, "BME") \in BOOLEAN /\ Healthy(s, "IMU") \in BOOLEAN BY <1>0 DEF Healthy, SensorState
  <1>3. ASSUME NEW r \in EnvironmentReads(s)
        PROVE  \/ r = [valid |-> Healthy(s, "BME"), sensors |-> s]
               \/ r = [valid |-> FALSE, sensors |-> Lost(s, "BME", 0)]
    BY <1>2 DEF EnvironmentReads
  <1>4. ASSUME NEW r \in MotionReads(s)
        PROVE  \/ r = [valid |-> Healthy(s, "IMU"), sensors |-> s]
               \/ r = [valid |-> FALSE, sensors |-> Lost(s, "IMU", 1)]
    BY <1>0, <1>2, AcksFacts DEF MotionReads
  <1>5. ASSUME NEW r \in EnvironmentReads(s)
        PROVE  /\ r.sensors \in SensorState
               /\ r.valid = Healthy(r.sensors, "BME")
               /\ r.sensors.online["IMU"] = s.online["IMU"] /\ r.sensors.injected = s.injected
    <2>1. CASE r = [valid |-> Healthy(s, "BME"), sensors |-> s]
      <3>1. r.valid = Healthy(s, "BME") /\ r.sensors = s BY <2>1
      <3> QED BY <3>1, Zenon
    <2>2. CASE r = [valid |-> FALSE, sensors |-> Lost(s, "BME", 0)]
      <3>1. r.valid = FALSE /\ r.sensors = Lost(s, "BME", 0) BY <2>2
      <3> QED BY <1>1, <3>1, Zenon
    <2> QED BY <1>3, <2>1, <2>2
  <1>6. ASSUME NEW r \in MotionReads(s)
        PROVE  /\ r.sensors \in SensorState
               /\ r.valid = Healthy(r.sensors, "IMU")
               /\ r.sensors.online["BME"] = s.online["BME"] /\ r.sensors.injected = s.injected
    <2>1. CASE r = [valid |-> Healthy(s, "IMU"), sensors |-> s]
      <3>1. r.valid = Healthy(s, "IMU") /\ r.sensors = s BY <2>1
      <3> QED BY <3>1, Zenon
    <2>2. CASE r = [valid |-> FALSE, sensors |-> Lost(s, "IMU", 1)]
      <3>1. r.valid = FALSE /\ r.sensors = Lost(s, "IMU", 1) BY <2>2
      <3> QED BY <1>1, <3>1, Zenon
    <2> QED BY <1>4, <2>1, <2>2
  <1> QED BY <1>5, <1>6

(* begin() leaves a well-typed state. *)
LEMMA BeginsType ==
  ASSUME links \in [Devices -> LinkStates], NEW s \in Begins
  PROVE  s \in SensorState
  <1>1. PICK b \in BmeSetups, i \in ImuSetups, a \in Acks("AUX") :
          s = [online |-> [x \in Sensors |-> IF x = "BME" THEN b.ok ELSE i.ok],
               injected |-> [x \in Sensors |-> FALSE],
               auxPresent |-> a,
               failures |-> [x \in Sensors |-> 0],
               i2cErrors |-> Count(0, b.errors + i.errors),
               recoveryAttempts |-> 0,
               successfulRecoveries |-> 0]
    BY DEF Begins
  <1>2. b \in [ok : BOOLEAN, errors : {0, 1}] /\ i \in [ok : BOOLEAN, errors : {0, 1}]
    <2>1. b \in Setups("BME") /\ i \in Setups("IMU") BY DEF Setups
    <2> QED BY <2>1, SetupsFacts DEF Sensors
  <1>3. a \in BOOLEAN BY AcksFacts DEF Devices
  <1>4. 0 \in Counter BY CounterModAssumption, SMT DEF Counter
  <1>5. Count(0, b.errors + i.errors) \in Counter
    <2>1. b.errors + i.errors \in Nat BY <1>2
    <2> QED BY <2>1, CountType
  <1>6. [x \in Sensors |-> IF x = "BME" THEN b.ok ELSE i.ok] \in [Sensors -> BOOLEAN] BY <1>2
  <1> QED BY <1>1, <1>3, <1>4, <1>5, <1>6 DEF SensorState

-----------------------------------------------------------------------------
(* Type correctness is inductive: every call, and every change of a link,   *)
(* keeps it.                                                                *)
LEMMA SensorTypeInductive == SensorTypeOK /\ [SensorNext]_sensorVars => SensorTypeOK'
  <1> SUFFICES ASSUME SensorTypeOK, [SensorNext]_sensorVars PROVE SensorTypeOK'
    OBVIOUS
  <1> USE DEF SensorTypeOK
  <1>1. CASE LinkChange BY <1>1, UnstableAssumption DEF LinkChange
  <1>2. CASE HealthCheck BY <1>2, HealthChecksType DEF HealthCheck
  <1>3. CASE ReadEnvironment BY <1>3, ReadsType DEF ReadEnvironment
  <1>4. CASE ReadMotion BY <1>4, ReadsType DEF ReadMotion
  <1>5. ASSUME NEW x \in Sensors, InjectFault(x) PROVE SensorTypeOK'
    BY <1>5 DEF InjectFault, Injected, SensorState
  <1>6. CASE ClearInjectedFaults
    <2>1. Cleared(sensors) \in SensorState BY DEF Cleared, SensorState
    <2> QED BY <1>6, <2>1, HealthChecksType DEF ClearInjectedFaults
  <1>7. CASE UNCHANGED sensorVars BY <1>7 DEF sensorVars
  <1> QED BY <1>1, <1>2, <1>3, <1>4, <1>5, <1>6, <1>7 DEF SensorNext

(* The SensorManager's state keeps its type whatever the bus does and       *)
(* whoever calls it.                                                        *)
THEOREM SensorTypeCorrect == SensorSpec => []SensorTypeOK
  <1>1. SensorInit => SensorTypeOK
    <2> SUFFICES ASSUME SensorInit PROVE SensorTypeOK OBVIOUS
    <2>1. links \in [Devices -> LinkStates] BY DEF SensorInit, LinksInit
    <2> QED BY <2>1, BeginsType DEF SensorInit, SensorTypeOK
  <1> QED BY <1>1, SensorTypeInductive, PTL DEF SensorSpec

(* The effect of healthCheck() on each sensor.                              *)
LEMMA CheckEffect ==
  ASSUME links \in [Devices -> LinkStates], NEW s \in SensorState, NEW t \in HealthChecks(s),
         NEW x \in Sensors
  PROVE  /\ t.injected = s.injected
         /\ t.failures[x] = IF s.online[x] /\ ~t.online[x] THEN Count(s.failures[x], 1) ELSE s.failures[x]
         /\ s.injected[x] => t.online[x] = s.online[x]
         /\ ~s.injected[x] /\ links[x] = "ok" => t.online[x]
         /\ ~s.injected[x] /\ links[x] = "gone" => ~t.online[x]
  <1>1. PICK b \in Checks(s, "BME"), i \in Checks(s, "IMU"), a \in Acks("AUX") : t = Checked(s, b, i, a)
    BY DEF HealthChecks
  <1> DEFINE c == IF x = "BME" THEN b ELSE i
  <1>2. c \in Checks(s, x) BY <1>1 DEF Sensors
  <1>3. /\ t.injected = s.injected
        /\ t.online[x] = c.online
        /\ t.failures[x] = IF s.online[x] /\ ~c.online THEN Count(s.failures[x], 1) ELSE s.failures[x]
    BY <1>1 DEF Checked
  <1>4. /\ s.injected[x] => c.online = s.online[x]
        /\ ~s.injected[x] /\ links[x] = "ok" => c.online
        /\ ~s.injected[x] /\ links[x] = "gone" => ~c.online
    <2> HIDE DEF c
    <2> QED BY <1>2, ChecksFacts
  <1> QED BY <1>3, <1>4

(* What each call does to the failure count of a sensor. *)
LEMMA FailuresCounted ==
  ASSUME SensorTypeOK, SensorNext, NEW x \in Sensors
  PROVE  sensors'.failures[x] = IF sensors.online[x] /\ ~sensors'.online[x]
                                THEN Count(sensors.failures[x], 1) ELSE sensors.failures[x]
  <1> USE DEF SensorTypeOK
  <1>1. CASE LinkChange BY <1>1 DEF LinkChange
  <1>2. CASE HealthCheck BY <1>2, CheckEffect DEF HealthCheck
  <1>3. CASE ReadEnvironment
    <2>1. sensors' = sensors \/ (sensors.online["BME"] /\ sensors' = Lost(sensors, "BME", 0))
      BY <1>3 DEF ReadEnvironment, EnvironmentReads, Healthy
    <2>2. CASE sensors.online["BME"] /\ sensors' = Lost(sensors, "BME", 0)
      BY <2>2 DEF Lost, SensorState
    <2> QED BY <2>1, <2>2
  <1>4. CASE ReadMotion
    <2>1. sensors' = sensors \/ (sensors.online["IMU"] /\ sensors' = Lost(sensors, "IMU", 1))
      BY <1>4 DEF ReadMotion, MotionReads, Healthy
    <2>2. CASE sensors.online["IMU"] /\ sensors' = Lost(sensors, "IMU", 1)
      BY <2>2 DEF Lost, SensorState
    <2> QED BY <2>1, <2>2
  <1>5. CASE \E y \in Sensors : InjectFault(y) BY <1>5 DEF InjectFault, Injected, SensorState
  <1>6. CASE ClearInjectedFaults
    <2>1. /\ Cleared(sensors) \in SensorState
          /\ Cleared(sensors).online = sensors.online /\ Cleared(sensors).failures = sensors.failures
      BY DEF Cleared, SensorState
    <2> QED BY <1>6, <2>1, CheckEffect DEF ClearInjectedFaults
  <1> QED BY <1>1, <1>2, <1>3, <1>4, <1>5, <1>6 DEF SensorNext

(* A loss by which a sensor goes offline is counted, once, on whichever of  *)
(* the three paths it is noticed, and never again while it stays offline.   *)
THEOREM LossIsCountedOnce == SensorSpec => LossCountedOnce
  <1>1. SensorTypeOK /\ [SensorNext]_sensorVars => [LossCountedOnceStep]_sensorVars
    BY FailuresCounted DEF LossCountedOnceStep
  <1> QED BY <1>1, SensorTypeCorrect, PTL DEF SensorSpec, LossCountedOnce

(* A failed sample concerns a sensor that is healthy, hence not injected.   *)
LEMMA ReadEffect ==
  ASSUME SensorTypeOK, ReadEnvironment \/ ReadMotion, NEW x \in Sensors
  PROVE  /\ sensors'.injected = sensors.injected
         /\ sensors.injected[x] =>
              sensors'.online[x] = sensors.online[x] /\ sensors'.failures[x] = sensors.failures[x]
  <1>1. \/ sensors' = sensors
        \/ \E y \in Sensors, e \in {0, 1} : ~sensors.injected[y] /\ sensors' = Lost(sensors, y, e)
    <2>1. ReadEnvironment => sensors' = sensors \/ (~sensors.injected["BME"] /\ sensors' = Lost(sensors, "BME", 0))
      BY DEF ReadEnvironment, EnvironmentReads, Healthy
    <2>2. ReadMotion => sensors' = sensors \/ (~sensors.injected["IMU"] /\ sensors' = Lost(sensors, "IMU", 1))
      BY DEF ReadMotion, MotionReads, Healthy
    <2> QED BY <2>1, <2>2 DEF Sensors
  <1>2. ASSUME NEW y \in Sensors, NEW e \in {0, 1}, ~sensors.injected[y], sensors' = Lost(sensors, y, e)
        PROVE  /\ sensors'.injected = sensors.injected
               /\ sensors.injected[x] =>
                    sensors'.online[x] = sensors.online[x] /\ sensors'.failures[x] = sensors.failures[x]
    BY <1>2 DEF Lost, SensorTypeOK, SensorState
  <1> QED BY <1>1, <1>2

(* While a fault stays injected into a sensor, nothing touches what is      *)
(* known of the physical device.                                            *)
THEOREM InjectionIsInert == SensorSpec => InjectionKeepsPhysical
  <1>1. SensorTypeOK /\ [SensorNext]_sensorVars => [InjectionKeepsPhysicalStep]_sensorVars
    <2> SUFFICES ASSUME SensorTypeOK, SensorNext, NEW x \in Sensors,
                        sensors.injected[x], sensors'.injected[x]
                 PROVE  sensors'.online[x] = sensors.online[x] /\ sensors'.failures[x] = sensors.failures[x]
      BY DEF InjectionKeepsPhysicalStep
    <2>1. CASE LinkChange BY <2>1 DEF LinkChange
    <2>2. CASE HealthCheck BY <2>2, CheckEffect DEF HealthCheck, SensorTypeOK
    <2>3. CASE ReadEnvironment \/ ReadMotion BY <2>3, ReadEffect
    <2>4. CASE \E y \in Sensors : InjectFault(y)
      BY <2>4 DEF InjectFault, Injected, SensorTypeOK, SensorState
    <2>5. CASE ClearInjectedFaults
      <3>1. Cleared(sensors) \in SensorState /\ ~Cleared(sensors).injected[x]
        BY DEF Cleared, SensorTypeOK, SensorState
      <3>2. ~sensors'.injected[x] BY <2>5, <3>1, CheckEffect DEF ClearInjectedFaults, SensorTypeOK
      <3> QED BY <3>2
    <2> QED BY <2>1, <2>2, <2>3, <2>4, <2>5 DEF SensorNext
  <1> QED BY <1>1, SensorTypeCorrect, PTL DEF SensorSpec, InjectionKeepsPhysical

(* CLEAR_FAULTS leaves a sensor with a good link healthy and one with a     *)
(* dead link not healthy, whatever happened while the fault was injected.   *)
THEOREM ClearTellsTheTruth == SensorSpec => ClearReportsTruth
  <1>1. SensorTypeOK /\ [SensorNext]_sensorVars => [ClearReportsTruthStep]_sensorVars
    <2> SUFFICES ASSUME SensorTypeOK, SensorNext, NEW x \in Sensors,
                        sensors.injected[x], ~sensors'.injected[x]
                 PROVE  /\ links[x] = "ok" => Healthy(sensors', x)
                        /\ links[x] = "gone" => ~Healthy(sensors', x)
      BY DEF ClearReportsTruthStep
    <2>1. ~LinkChange BY DEF LinkChange
    <2>2. ~HealthCheck BY CheckEffect DEF HealthCheck, SensorTypeOK
    <2>3. ~(ReadEnvironment \/ ReadMotion) BY ReadEffect
    <2>4. ~(\E y \in Sensors : InjectFault(y)) BY DEF InjectFault, Injected, SensorTypeOK, SensorState
    <2>5. ClearInjectedFaults BY <2>1, <2>2, <2>3, <2>4 DEF SensorNext
    <2>6. Cleared(sensors) \in SensorState /\ ~Cleared(sensors).injected[x]
      BY DEF Cleared, SensorTypeOK, SensorState
    <2> QED BY <2>5, <2>6, CheckEffect DEF ClearInjectedFaults, SensorTypeOK, Healthy
  <1> QED BY <1>1, SensorTypeCorrect, PTL DEF SensorSpec, ClearReportsTruth

(* A counter that has counted n on, n below its width, shows an increase of n. *)
LEMMA IncreaseOfCount ==
  ASSUME CounterMod > 2, NEW c \in Counter, NEW n \in 0 .. 2
  PROVE  Increase(Count(c, n), c) = n
  <1>1. c \in Nat /\ c < CounterMod /\ CounterMod \in Nat BY CounterModAssumption, SMT DEF Counter
  <1>2. \A k, m \in Nat : k < m => k % m = k /\ (m + k) % m = k
    BY SMT
  <1>3. CASE c + n < CounterMod
    <2>1. Count(c, n) = c + n BY <1>1, <1>2, <1>3 DEF Count
    <2>2. c + n + CounterMod - c = CounterMod + n BY <1>1
    <2>3. (CounterMod + n) % CounterMod = n BY <1>1, <1>2
    <2> QED BY <2>1, <2>2, <2>3 DEF Increase
  <1>4. CASE c + n >= CounterMod
    <2>1. c + n - CounterMod \in Nat /\ c + n - CounterMod < CounterMod
          /\ CounterMod + (c + n - CounterMod) = c + n BY <1>1, <1>4
    <2>2. Count(c, n) = c + n - CounterMod BY <1>1, <1>2, <2>1 DEF Count
    <2>3. c + n - CounterMod + CounterMod - c = n BY <1>1
    <2>4. n % CounterMod = n BY <1>1, <1>2
    <2> QED BY <2>2, <2>3, <2>4 DEF Increase
  <1> QED BY <1>1, <1>3, <1>4

(* A recovery that succeeds is counted as an attempt and as a success, and  *)
(* is what brings a sensor back.                                            *)
LEMMA RecoveriesCounted ==
  ASSUME links \in [Devices -> LinkStates], NEW s \in SensorState, NEW x \in Sensors,
         NEW c \in Checks(s, x)
  PROVE  /\ c \in Finding /\ c.recoveries <= c.attempts
         /\ ~s.online[x] /\ c.online => c.recoveries = 1
  <1>0. c \in Finding BY ChecksFacts
  <1>1. \/ c = Skipped(s, x)
        \/ \E r \in RegisterReads(x) : c \in Recoveries(r, x)
    BY DEF Checks
  <1>2. CASE c = Skipped(s, x) BY <1>0, <1>2 DEF Skipped
  <1>3. ASSUME NEW r \in RegisterReads(x), c \in Recoveries(r, x)
        PROVE  /\ c.recoveries <= c.attempts
               /\ ~s.online[x] /\ c.online => c.recoveries = 1
    <2>1. PICK u \in Setups(x) :
             c = [online |-> u.ok, attempts |-> 1, recoveries |-> IF u.ok THEN 1 ELSE 0,
                  errors |-> r.errors + u.errors]
      BY <1>3 DEF Recoveries
    <2>2. /\ c.online = u.ok /\ c.attempts = 1
          /\ u.ok => c.recoveries = 1
          /\ ~u.ok => c.recoveries = 0
      BY <2>1
    <2> QED BY <2>2
  <1> QED BY <1>0, <1>1, <1>2, <1>3

(* What a health check counts of recoveries.                                *)
LEMMA CheckRecovers ==
  ASSUME CounterMod > 2, links \in [Devices -> LinkStates], NEW s \in SensorState, NEW t \in HealthChecks(s)
  PROVE  LET back == { x \in Sensors : ~s.online[x] /\ t.online[x] }
             successes == Increase(t.successfulRecoveries, s.successfulRecoveries)
         IN  /\ \A x \in back : successes >= (IF back = {x} THEN 1 ELSE 2)
             /\ successes <= Increase(t.recoveryAttempts, s.recoveryAttempts)
  <1> DEFINE back == { x \in Sensors : ~s.online[x] /\ t.online[x] }
             successes == Increase(t.successfulRecoveries, s.successfulRecoveries)
             attempts == Increase(t.recoveryAttempts, s.recoveryAttempts)
  <1>1. PICK b \in Checks(s, "BME"), i \in Checks(s, "IMU"), a \in Acks("AUX") : t = Checked(s, b, i, a)
    BY DEF HealthChecks
  <1>2. /\ b \in Finding /\ b.recoveries <= b.attempts
        /\ ~s.online["BME"] /\ b.online => b.recoveries = 1
        /\ i \in Finding /\ i.recoveries <= i.attempts
        /\ ~s.online["IMU"] /\ i.online => i.recoveries = 1
    BY RecoveriesCounted DEF Sensors
  <1>3. /\ t.online["BME"] = b.online /\ t.online["IMU"] = i.online
        /\ t.recoveryAttempts = Count(s.recoveryAttempts, b.attempts + i.attempts)
        /\ t.successfulRecoveries = Count(s.successfulRecoveries, b.recoveries + i.recoveries)
    BY <1>1 DEF Checked, Sensors
  <1>4. /\ b.recoveries + i.recoveries \in 0 .. 2 /\ b.attempts + i.attempts \in 0 .. 2
        /\ b.recoveries + i.recoveries <= b.attempts + i.attempts
        /\ b.recoveries \in {0, 1} /\ i.recoveries \in {0, 1}
    BY <1>2 DEF Finding
  <1>5. s.recoveryAttempts \in Counter /\ s.successfulRecoveries \in Counter BY DEF SensorState
  <1>6. successes = b.recoveries + i.recoveries /\ attempts = b.attempts + i.attempts
    BY <1>3, <1>4, <1>5, IncreaseOfCount
  <1>7. ASSUME NEW x \in back PROVE successes >= (IF back = {x} THEN 1 ELSE 2)
    <2>1. "BME" \in back => b.recoveries = 1 BY <1>2, <1>3
    <2>2. "IMU" \in back => i.recoveries = 1 BY <1>2, <1>3
    <2>3. x \in {"BME", "IMU"} /\ back \subseteq {"BME", "IMU"} BY DEF Sensors
    <2>4. back # {x} => "BME" \in back /\ "IMU" \in back BY <2>3
    <2> HIDE DEF back, successes
    <2>5. CASE back = {x} BY <1>4, <1>6, <1>7, <2>1, <2>2, <2>3, <2>5
    <2>6. CASE back # {x} BY <1>6, <2>1, <2>2, <2>4, <2>6
    <2> QED BY <2>5, <2>6
  <1>8. successes <= attempts BY <1>4, <1>6
  <1> QED BY <1>7, <1>8

(* Elsewhere no sensor comes back and no recovery is counted.               *)
LEMMA NothingRecovers ==
  ASSUME SensorTypeOK, sensors' \in SensorState,
         \A x \in Sensors : sensors'.online[x] => sensors.online[x],
         sensors'.recoveryAttempts = sensors.recoveryAttempts,
         sensors'.successfulRecoveries = sensors.successfulRecoveries
  PROVE  RecoveryCountedStep
  <1>1. \A c \in Counter : Increase(c, c) = 0
    <2>1. \A c, m \in Nat : m > 0 => (c + m - c) % m = 0 BY SMT
    <2> QED BY <2>1, CounterNat, CounterModAssumption DEF Increase
  <1>2. sensors.recoveryAttempts \in Counter /\ sensors.successfulRecoveries \in Counter
    BY DEF SensorTypeOK, SensorState
  <1> QED BY <1>1, <1>2 DEF RecoveryCountedStep

(* No sensor comes back online but by a recovery that is counted, and no    *)
(* more recoveries succeed than were attempted, for every counter that can  *)
(* tell two recoveries from none.                                           *)
THEOREM RecoveriesAreCounted == CounterMod > 2 /\ SensorSpec => RecoveryCounted
  <1> SUFFICES ASSUME CounterMod > 2 PROVE SensorSpec => RecoveryCounted
    OBVIOUS
  <1>1. SensorTypeOK /\ [SensorNext]_sensorVars => [RecoveryCountedStep]_sensorVars
    <2> SUFFICES ASSUME SensorTypeOK, SensorNext PROVE RecoveryCountedStep
      OBVIOUS
    <2>0. SensorTypeOK' BY SensorTypeInductive
    <2>1. CASE LinkChange BY <2>0, <2>1, NothingRecovers DEF LinkChange, SensorTypeOK
    <2>2. CASE HealthCheck
      <3>1. sensors \in SensorState /\ links \in [Devices -> LinkStates] BY DEF SensorTypeOK
      <3> QED BY <2>2, <3>1, CheckRecovers DEF HealthCheck, RecoveryCountedStep
    <2>3. CASE ReadEnvironment \/ ReadMotion
      <3>1. \/ sensors' = sensors
            \/ \E y \in Sensors, e \in {0, 1} : sensors' = Lost(sensors, y, e)
        BY <2>3 DEF ReadEnvironment, ReadMotion, EnvironmentReads, MotionReads, Sensors
      <3>2. ASSUME NEW y \in Sensors, NEW e \in {0, 1}, sensors' = Lost(sensors, y, e)
            PROVE  /\ \A x \in Sensors : sensors'.online[x] => sensors.online[x]
                   /\ sensors'.recoveryAttempts = sensors.recoveryAttempts
                   /\ sensors'.successfulRecoveries = sensors.successfulRecoveries
        BY <3>2 DEF Lost, SensorTypeOK, SensorState
      <3> QED BY <2>0, <3>1, <3>2, NothingRecovers DEF SensorTypeOK
    <2>4. CASE \E y \in Sensors : InjectFault(y)
      <3>1. /\ sensors'.online = sensors.online /\ sensors'.recoveryAttempts = sensors.recoveryAttempts
            /\ sensors'.successfulRecoveries = sensors.successfulRecoveries
        BY <2>4 DEF InjectFault, Injected, SensorTypeOK, SensorState
      <3> QED BY <2>0, <3>1, NothingRecovers DEF SensorTypeOK
    <2>5. CASE ClearInjectedFaults
      <3>1. /\ Cleared(sensors) \in SensorState /\ links \in [Devices -> LinkStates]
            /\ Cleared(sensors).online = sensors.online
            /\ Cleared(sensors).recoveryAttempts = sensors.recoveryAttempts
            /\ Cleared(sensors).successfulRecoveries = sensors.successfulRecoveries
        BY DEF Cleared, SensorTypeOK, SensorState
      <3>2. sensors' \in HealthChecks(Cleared(sensors)) BY <2>5 DEF ClearInjectedFaults
      <3> QED BY <3>1, <3>2, CheckRecovers DEF RecoveryCountedStep
    <2> QED BY <2>1, <2>2, <2>3, <2>4, <2>5 DEF SensorNext
  <1> QED BY <1>1, SensorTypeCorrect, PTL DEF SensorSpec, RecoveryCounted
=============================================================================
