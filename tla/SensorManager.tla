--------------------------- MODULE SensorManager ---------------------------
(***************************************************************************)
(* The firmware's SensorManager (src/sensors.cpp, include/sensors.h): the   *)
(* health of the two supported sensors on the I2C bus, the fault injection  *)
(* flags and the health counters.                                           *)
(*                                                                          *)
(* `sensors` is the object's state, as one record, so that a handler that   *)
(* makes several calls in a row can pass the state from one to the next.    *)
(* An operation whose result depends on I2C traffic is the SET of the       *)
(* states (or of the results) it can leave.  `links` is the environment:    *)
(* whether each device on the bus answers always, sometimes or never.       *)
(***************************************************************************)
EXTENDS Naturals

CONSTANTS
    CounterMod, \* the counters are unsigned long and wrap: 2^32 on the ESP8285
    LinkStates, \* the link states this instance distinguishes
    Unstable    \* the devices whose link may change; the others stay "ok"

Sensors == {"BME", "IMU"}
Devices == Sensors \cup {"AUX"}

ASSUME CounterModAssumption == CounterMod \in Nat \ {0}
ASSUME LinkStatesAssumption == {"ok"} \subseteq LinkStates /\ LinkStates \subseteq {"ok", "flaky", "gone"}
ASSUME UnstableAssumption == Unstable \subseteq Devices

VARIABLES sensors, links

Counter == 0 .. CounterMod - 1
(* Mutant of Count: a counter that does not wrap.                           *)
CountUnwrapped(c, n) == c + n

Count(c, n) == (c + n) % CounterMod

SensorState ==
    [online : [Sensors -> BOOLEAN], injected : [Sensors -> BOOLEAN], auxPresent : BOOLEAN,
     failures : [Sensors -> Counter], i2cErrors : Counter,
     recoveryAttempts : Counter, successfulRecoveries : Counter]

(* What bmeHealthy() and imuHealthy() report. *)
Healthy(s, x) == s.online[x] /\ ~s.injected[x]

-----------------------------------------------------------------------------
(* I2C transactions.  A flaky device may also answer with a wrong value.    *)

Acks(d) == CASE links[d] = "ok" -> {TRUE}
             [] links[d] = "flaky" -> BOOLEAN
             [] links[d] = "gone" -> {FALSE}

Match   == [match |-> TRUE, errors |-> 0]
Garbled == [match |-> FALSE, errors |-> 0]
Nack    == [match |-> FALSE, errors |-> 1]

(* readRegister() compared with the identity the caller expects. *)
RegisterReads(d) == CASE links[d] = "ok" -> {Match}
                      [] links[d] = "flaky" -> {Match, Garbled, Nack}
                      [] links[d] = "gone" -> {Nack}

(* setupBME() goes through the BME280 library, which counts no I2C error;   *)
(* setupIMU() reads WHO_AM_I and, only on a match, writes PWR_MGMT_1.       *)
BmeSetups == { [ok |-> a, errors |-> 0] : a \in Acks("BME") }
ImuSetups ==
    LET reads == RegisterReads("IMU")
    IN  { [ok |-> FALSE, errors |-> r.errors] : r \in reads \ {Match} }
        \cup { [ok |-> a, errors |-> IF a THEN 0 ELSE 1] :
                 a \in IF Match \in reads THEN Acks("IMU") ELSE {} }
Setups(x) == IF x = "BME" THEN BmeSetups ELSE ImuSetups

-----------------------------------------------------------------------------
(* begin(): the states the object can be in after power-up. *)
Begins ==
    { [online |-> [x \in Sensors |-> IF x = "BME" THEN b.ok ELSE i.ok],
       injected |-> [x \in Sensors |-> FALSE],
       auxPresent |-> a,
       failures |-> [x \in Sensors |-> 0],
       i2cErrors |-> Count(0, b.errors + i.errors),
       recoveryAttempts |-> 0,
       successfulRecoveries |-> 0] :
         b \in BmeSetups, i \in ImuSetups, a \in Acks("AUX") }

(* The part of healthCheck() about sensor x: an injected sensor is skipped, *)
(* an online sensor whose identity matches stays online, any other one is   *)
(* re-initialised (recoverBME(), recoverIMU()).                             *)
Skipped(s, x) == [online |-> s.online[x], attempts |-> 0, recoveries |-> 0, errors |-> 0]
(* Mutants of Recoveries: the attempt is counted after the return of a      *)
(* successful one; and the result of the set-up is not looked at.           *)
RecoveriesMiscounted(r, x) ==
    { [online |-> u.ok, attempts |-> IF u.ok THEN 0 ELSE 1, recoveries |-> IF u.ok THEN 1 ELSE 0,
       errors |-> r.errors + u.errors] : u \in Setups(x) }
RecoveriesAssumed(r, x) ==
    { [online |-> TRUE, attempts |-> 1, recoveries |-> 1, errors |-> r.errors + u.errors] : u \in Setups(x) }

Recoveries(r, x) ==
    { [online |-> u.ok, attempts |-> 1, recoveries |-> IF u.ok THEN 1 ELSE 0,
       errors |-> r.errors + u.errors] : u \in Setups(x) }
(* Mutants of Checks: the injected fault is not looked at; and a sensor     *)
(* that is offline is not tried again.                                      *)
ChecksInjected(s, x) ==
    UNION { IF s.online[x] /\ r = Match THEN { Skipped(s, x) } ELSE Recoveries(r, x) :
              r \in RegisterReads(x) }
ChecksOnlineOnly(s, x) ==
    IF s.injected[x] \/ ~s.online[x] THEN { Skipped(s, x) }
    ELSE UNION { IF r = Match THEN { Skipped(s, x) } ELSE Recoveries(r, x) : r \in RegisterReads(x) }

Checks(s, x) ==
    IF s.injected[x] THEN { Skipped(s, x) }
    ELSE UNION { IF s.online[x] /\ r = Match THEN { Skipped(s, x) } ELSE Recoveries(r, x) :
                   r \in RegisterReads(x) }

(* The state after healthCheck() found b for the BME280, i for the IMU and  *)
(* a for the auxiliary device.                                              *)
Checked(s, b, i, a) ==
    LET found(x) == IF x = "BME" THEN b ELSE i
    IN  [online |-> [x \in Sensors |-> found(x).online],
         injected |-> s.injected,
         auxPresent |-> a,
         failures |-> [x \in Sensors |->
             IF s.online[x] /\ ~found(x).online THEN Count(s.failures[x], 1) ELSE s.failures[x]],
         i2cErrors |-> Count(s.i2cErrors, b.errors + i.errors),
         recoveryAttempts |-> Count(s.recoveryAttempts, b.attempts + i.attempts),
         successfulRecoveries |-> Count(s.successfulRecoveries, b.recoveries + i.recoveries)]

HealthChecks(s) ==
    { Checked(s, b, i, a) : b \in Checks(s, "BME"), i \in Checks(s, "IMU"), a \in Acks("AUX") }

(* Mutant of Lost: the count is left to the check that follows.             *)
LostUncounted(s, x, errors) == [s EXCEPT !.online[x] = FALSE, !.i2cErrors = Count(@, errors)]

(* A failed sample: the sensor goes offline and the failure is counted. *)
Lost(s, x, errors) ==
    [s EXCEPT !.online[x] = FALSE, !.failures[x] = Count(@, 1), !.i2cErrors = Count(@, errors)]

(* readEnvironment().  NaN is the only failure the code sees, and for a     *)
(* device that does not answer the library may return NaN or a number.      *)
EnvironmentReads(s) ==
    IF ~Healthy(s, "BME") THEN { [valid |-> FALSE, sensors |-> s] }
    ELSE { [valid |-> TRUE, sensors |-> s] }
         \cup IF links["BME"] = "ok" THEN {} ELSE { [valid |-> FALSE, sensors |-> Lost(s, "BME", 0)] }

(* readMotion(): the first of the six register reads that fails counts one  *)
(* I2C error and ends the sample.                                           *)
MotionReads(s) ==
    IF ~Healthy(s, "IMU") THEN { [valid |-> FALSE, sensors |-> s] }
    ELSE { IF a THEN [valid |-> TRUE, sensors |-> s]
                ELSE [valid |-> FALSE, sensors |-> Lost(s, "IMU", 1)] : a \in Acks("IMU") }

Injected(s, x) == [s EXCEPT !.injected[x] = TRUE]
Cleared(s) == [s EXCEPT !.injected = [x \in Sensors |-> FALSE]]

-----------------------------------------------------------------------------
(* The object on its own: any caller may make any call at any time.  The    *)
(* environment's steps change a link.                                       *)

LinksInit == links \in { l \in [Devices -> LinkStates] : \A d \in Devices \ Unstable : l[d] = "ok" }
SensorInit == LinksInit /\ sensors \in Begins

LinkChange ==
    /\ \E d \in Unstable, l \in LinkStates : links' = [links EXCEPT ![d] = l]
    /\ UNCHANGED sensors

HealthCheck == sensors' \in HealthChecks(sensors) /\ UNCHANGED links
ReadEnvironment == (\E r \in EnvironmentReads(sensors) : sensors' = r.sensors) /\ UNCHANGED links
ReadMotion == (\E r \in MotionReads(sensors) : sensors' = r.sensors) /\ UNCHANGED links
InjectFault(x) == sensors' = Injected(sensors, x) /\ UNCHANGED links
(* Mutant of ClearInjectedFaults: no health check follows.                  *)
ClearUnchecked == sensors' = Cleared(sensors) /\ UNCHANGED links

ClearInjectedFaults == sensors' \in HealthChecks(Cleared(sensors)) /\ UNCHANGED links

SensorNext ==
    \/ LinkChange
    \/ HealthCheck
    \/ ReadEnvironment
    \/ ReadMotion
    \/ \E x \in Sensors : InjectFault(x)
    \/ ClearInjectedFaults

sensorVars == <<sensors, links>>
SensorSpec == SensorInit /\ [][SensorNext]_sensorVars

-----------------------------------------------------------------------------
(* Type invariant. *)
SensorTypeOK ==
    /\ sensors \in SensorState
    /\ links \in [Devices -> LinkStates]

(* A sensor goes offline on three paths (the periodic check and the two     *)
(* sample reads) and each of them counts that loss, once: the checks that   *)
(* find a sensor still offline and fail to revive it count nothing more.    *)
(* Of a loss that the check which finds it also repairs, this says only     *)
(* that it is not counted twice; see RepairedLossRecorded.                  *)
LossCountedOnceStep ==
    \A x \in Sensors :
        LET counted == Count(sensors.failures[x], 1)
        IN  /\ sensors'.failures[x] \in {sensors.failures[x], counted}
            /\ sensors.online[x] /\ ~sensors'.online[x] => sensors'.failures[x] = counted
            /\ ~sensors.online[x] => sensors'.failures[x] = sensors.failures[x]
LossCountedOnce == [][LossCountedOnceStep]_sensorVars

(* "1. detect identity/read failure  2. mark the sensor unavailable         *)
(* 3. record the failure  4. attempt device reinitialization"               *)
(* (docs/fault_management.md): when a sensor is re-initialised and none was *)
(* known to be unavailable before, a failure has been recorded.  The code   *)
(* does not do this: see the README.                                        *)
RepairedLossRecordedStep ==
    (\A x \in Sensors : sensors.online[x]) /\ sensors'.recoveryAttempts # sensors.recoveryAttempts =>
        \E x \in Sensors : sensors'.failures[x] # sensors.failures[x]
RepairedLossRecorded == [][RepairedLossRecordedStep]_sensorVars

(* "Injected faults affect externally reported health and sensor sampling   *)
(* while leaving the underlying physical-online state intact"               *)
(* (docs/fault_management.md): while a fault stays injected no check and no *)
(* sample touches what is known of that sensor.                             *)
InjectionKeepsPhysicalStep ==
    \A x \in Sensors :
        sensors.injected[x] /\ sensors'.injected[x] =>
            /\ sensors'.online[x] = sensors.online[x]
            /\ sensors'.failures[x] = sensors.failures[x]
InjectionKeepsPhysical == [][InjectionKeepsPhysicalStep]_sensorVars

(* CLEAR_FAULTS reports the truth at once: whatever happened to the device  *)
(* while its fault was injected, a device that answers is healthy after the *)
(* call and one that does not answer is not.                                *)
ClearReportsTruthStep ==
    \A x \in Sensors :
        sensors.injected[x] /\ ~sensors'.injected[x] =>
            /\ links[x] = "ok" => Healthy(sensors', x)
            /\ links[x] = "gone" => ~Healthy(sensors', x)
ClearReportsTruth == [][ClearReportsTruthStep]_sensorVars

(* A sensor comes back online only through a counted, successful recovery,  *)
(* and no more recoveries succeed than were attempted.                      *)
Increase(new, old) == (new + CounterMod - old) % CounterMod
RecoveryCountedStep ==
    LET back == { x \in Sensors : ~sensors.online[x] /\ sensors'.online[x] }
        successes == Increase(sensors'.successfulRecoveries, sensors.successfulRecoveries)
    IN  /\ \A x \in back : successes >= (IF back = {x} THEN 1 ELSE 2)
        /\ successes <= Increase(sensors'.recoveryAttempts, sensors.recoveryAttempts)
RecoveryCounted == [][RecoveryCountedStep]_sensorVars
=============================================================================
