# Embedded telemetry: a TLA+ verification project

TLA+ models of the ESP8285 firmware (`src/src`, `src/include`) and of the
Python ground station (`src/ground_station`), model-checked with TLC; every
safety property that a passing run checks is also proved with TLAPS. Paths
below are those of the repository, with its root at `src/`.

`PROJECT.json` lists the components, the runs, the mutants that show that each
property can fail, the source lines of each definition (`map`), the
disagreements between the code and its documents (`findings`), the hazards and
the theorems.

## 1. The system

```
   sensors.cpp --- main.cpp loop() --- telemetry.cpp ---+--- UART -----------+
      |                |                                |                    |
    I2C bus        command.cpp  <-- one pending slot -- wifi_transport.cpp   |
                                                        |  TCP :9000, MQTT   |
                                                        +--------------------+
                                                                             |
   app.py (GUI thread) <-- line_queue, event_queue -- serial/tcp/mqtt/demo manager (threads)
      |
   parser.py, protocol.py, stats.py, logger.py
```

| component | state | operations | talks to |
|---|---|---|---|
| `SensorManager` (`sensors.cpp`) | online and injected flags of BME and IMU, AUX presence, five counters, health timer | `begin`, `healthCheck`, `serviceHealth`, `readEnvironment`, `readMotion`, `injectFault`, `clearInjectedFaults` | the I2C bus; called by the loop, the packet builder and commands |
| main loop, commands, telemetry (`main.cpp`, `command.cpp`, `telemetry.cpp`, `system_state.cpp`) | `RuntimeState`: sequence, interval, last packet, paused | `setup`, `loop`, eight kinds of command line, `buildTelemetryPacket` | one thread; `millis()` |
| `WifiTransport` (`wifi_transport.cpp`) | `pendingCommand_`, the direct client, its line buffer, the MQTT client | `loop()` in four calls, `publishTelemetry` | the WiFi stack, a broker, TCP clients; calls `processCommand` |
| device configuration, provisioning | a record in EEPROM | `begin`, `save`, `reset`; the WiFiManager portal | before `loop()` only |
| `SerialManager` (`serial_manager.py`) | `serial`, `connected`, `running`, `auto_reconnect`, `port`, two queues | `connect`, `disconnect`, `reconnect`, `send`, `set_port` on the GUI thread; `_reader_loop` on its own | pyserial; the GUI by queues |
| `TcpManager` (`tcp_manager.py`) | the same attributes on a socket, and `_buffer`, which both threads write | the same interface | a TCP server; the GUI by queues |
| `MqttManager` (`mqtt_manager.py`) | `connected`, `auto_reconnect`, `_connect_event`, a paho client with a thread of its own | the same interface; `_on_connect`, `_on_disconnect`, `_on_message` | a broker; the GUI by queues |
| `DemoSerialManager` (`demo_serial.py`) | `connected`, `running`, `paused`, `rate_ms`, `sequence`, two faults | the same interface; a packet loop per `connect()` | the GUI by queues |
| main window (`app.py`) | last values and health, pause, rate, time of the last packet | a 100 ms timer that drains lines, then events; commands | a transport; statistics; log |
| statistics, parser (`stats.py`, `parser.py`, `protocol.py`) | packet, malformed and loss counters, last sequence | `update`, `reset`; `parse_telemetry`, `parse_response` | the GUI thread |
| logger (`logger.py`) | `logging_enabled`, the session's two files and their buffers | `start`, `log_telemetry`, `log_event`, `stop` | the disk; called by the handlers of the window |
| entry point (`ground_station.py`) | the manager chosen | one of four managers for the window | |
| attitude view (`attitude.py`) | two angles | draws them | |

What is hard here:

* **Time.** `millis()` wraps every 49 days; two timers compare with it, `now`
  is read before the calls that use it, provisioning may take minutes before
  the loop starts, and commands move the timers.
* **Partial failure.** A sensor may fail between two health checks, during a
  check that also repairs it, or in the sample of the very packet that reports
  it; a fault may be injected over any of these; RESET ends a handler half way.
* **One slot, one client.** Commands of two receivers go through one variable,
  lines arrive in pieces over connections that replace each other.
* **Two threads without a lock.** The reader thread and the GUI thread open,
  close and clear the same attributes; with the broker it is the network thread
  of a library that does, in callbacks, while it connects again by itself.
* **Two queues.** Lines and connection events reach the window separately.
* **Lossy lines.** Packets are lost, damaged, or cut by a read timeout, and the
  device may restart its numbering. TCP glues and splits them.
* **A disk that fills up.** A flush that raises ends a handler, and the timer
  callback it is in, with logging half on or half off.

## 2. The modules

| module | models | checked by | proved in |
|---|---|---|---|
| `SensorManager` | `sensors.cpp`, `sensors.h` | `MCSensorManager` | `SensorManagerProofs` |
| `Device` (extends it) | `main.cpp`, `command.cpp`, `telemetry.cpp`, `system_state.cpp` | `MCDevice` | `DeviceProofs` |
| `TelemetryContract` | the abstract specification: what a device promises the reader of its line stream | as `ImplementsContract` | `DeviceContractProofs` |
| `WifiTransport` | `wifi_transport.cpp` without provisioning | `MCWifiTransport` | `WifiTransportProofs` |
| `SerialManager` | `serial_manager.py` | `MCTransports` | `TransportsProofs` |
| `TcpManager` | `tcp_manager.py` | `MCTransports` | `TransportsProofs` |
| `MqttManager` | `mqtt_manager.py` | `MCTransports` | `TransportsProofs` |
| `DemoSerialManager` | `demo_serial.py` | `MCTransports` | `TransportsProofs` |
| `Transports` (extends the four) | the choice of a manager, and what the window relies on of each | `MCTransports` | `TransportsProofs` |
| `PacketStats` | loss accounting of `stats.py` behind `parser.py` | `MCPacketStats` | `PacketStatsProofs` |
| `Session` | `logger.py`, the counters and extremes of `stats.py`, the event handlers and buttons of `app.py` | `MCSession` | `SessionProofs` |
| `GroundStation` | what `app.py` shows of a device | `MCGroundStation` | `GroundStationProofs` |

`SensorManager` keeps the object's state in one record, and each operation is
the set of the states it can leave. That lets `Device` compose calls as the
code does: a packet is `readEnvironment()` followed by `readMotion()` followed
by a report of the state the two left; CLEAR_FAULTS is two assignments and a
health check. On its own, `SensorSpec` lets any caller make any call.

`Device` runs `loop()` as a cycle of four calls (`pc` = serial, wifi, health,
telemetry) with `Tick` between them. Each command is an action; rejection
follows the order of the code's tests. `output` is what the last step wrote and
to whom. `idle` and `healthAge` are history variables: the true times the
program estimates by unsigned subtraction.

`TelemetryContract` knows nothing of sensors, clocks or channels: packets are
numbered consecutively, flow only while not paused, carry the measurements of
exactly the sensors they report OK, commands are answered by an acknowledgement
and a status with the new values, a restart returns to the defaults. `Device`
implements it under the mapping sequence = `runtime.sequenceNumber`, and so on.

`WifiTransport` runs one pass of `WifiTransport::loop()` and the packet that
may follow it. A line arrives in two pieces, so that a connection may break
between them. `begun` and `total` are histories: how many commands each sender
has begun, and all of them. Radio, broker and stations are external and may do
anything.

`SerialManager` has one action per access to a shared attribute, hence every
interleaving Python allows. Serial objects are tracked: which port each is open
on, and that one nobody refers to is closed by its finaliser. `use` remembers
how the user has treated the link so far; the properties say what they need of
it.

`TcpManager` has the same threads on a byte stream. Lines come in two halves,
so that a connection may break between them; `whole` remembers whether a line
was ever put together of halves that do not belong together. A `None` that the
other thread has left in an attribute ends the reader thread, as the uncaught
`AttributeError` does. A peer may also fall mute: then `recv()` times out for
ever.

`MqttManager` has the GUI thread and the network thread of the paho client,
which is external: it calls back, connects again after a loss, redelivers a
command of QoS 1, and is joined by `loop_stop()`. The broker forgets the
subscriptions with the connection.

`DemoSerialManager` runs packet loops that read attribute by attribute what
`send()` writes. `stream` is the history of its queue; it ends when the user
has connected again before the last loop was through (`hasty`), since two loops
then count and emit, which the hazards name.

`Transports` starts with one manager, as `main()` does, and states for all four
together what the window takes for granted, although the four classes share no
base: a manager that says connected is served by a thread, a stopped one holds
nothing open, the last event is the truth, a lost link comes back. Its
conjuncts are the managers' own properties. It is the abstract interface and
the composition in one.

`PacketStats` keeps the truth (`open`, `missed`) beside the counters that
estimate it, and whether a fragment has passed for a packet (`cut`).

`Session` runs the two loops of `process_serial()` line by line and event by
event. Of the manager it has `connected`, the two queues and the two threads
that change them: each opens, closes or drops the link in steps, and the change
of `connected` and the event that tells of it are two of them (`doing`), so that
events of the two threads may cross, and a thread that had seen the link down
may reset without a word what the other one has just opened. `last` is the
history of that: how the last change was told. An exception ends the handler
and the call of `process_serial()` it is in (`PhaseAfter`); PySide6 prints it
and the program goes on, and a window that is closing still closes. `logger` and
`disk` are what the files hold and what still is in their buffers; `record` is
the history of what the button promised to record. `close()` may fail like any
flush, on a disk that the summary has filled: the file of telemetry is closed
then, its buffer lost, and logging still on (`HalfClosed`). Which manager it is
matters to the buttons too: `device_info()`, an argument of `stop()`, raises if
it is the one for TCP (`HasBaud`).

`GroundStation` has the two queues and the two loops as well, and a device
reduced to what its lines tell, on one of three transports (`medium`). A serial
port loses nothing while it is open. A TCP connection whose other end is gone
is mute, and the station need not notice. Over the broker the station is
connected to the broker, not to the device: lines are lost, and so is a command
that finds the device not subscribed; of two commands in one pass of the
device's loop the first is overwritten. After a restart the device prints its
STATUS on the serial port only. `unheard` is the history of what the device may
have changed since the connection was made without telling the window; a line
that tells the same empties it. Sensors fail and recover as they like: a line
reports any health that the injected faults allow.

Some modules hold definitions marked *Mutant of X*: a plausible bug in X, used
to show that a property notices it. Nothing else refers to them.

## 3. The runs

| run | instance | shows |
|---|---|---|
| `sensor_health` | both sensors ok/flaky/gone, counters modulo 3 | losses by which a sensor goes offline and recoveries counted once each; injected faults are inert; CLEAR_FAULTS tells the truth |
| `device_timing` | clock modulo 11, intervals 1..3, passes of 0..2 | no packet early, none late, no silence, fresh health, across wraps, commands and restarts |
| `device_contract` | every kind of command line on both channels, a flaky IMU (whose sample is the last before the report), injected faults on both sensors, under the fairness of the loop | the contract is implemented; restored sensors come back, lost ones stay FAULT |
| `transports` | each manager in turn: two ports that come and go, a device and a broker that do, a simulator with two rates; connect, disconnect, send at any moment | connected is served; after a stop all is closed and the threads end; the last event is the truth; the link comes back; lines are whole; a command reaches the device in the end; the simulator obeys, counts on and is never silent |
| `wifi_commands` | two connections, the broker, three commands in all | commands whole, once, in order; answers not to strangers; a vanished client makes room in the end |
| `packet_loss` | number modulo 9, ten packets, digits base 2, fragments | the loss counter is exact until a fragment passes for a packet; fragments hide no loss |
| `station_view` | a serial port, a TCP connection or a broker; one sensor that comes and goes, broken and mute connections, lost lines, restarts, pause, resume, injected faults | the window ends up showing the device, over WiFi as far as any line has told it since the last loss or restart; packets remove values of failed sensors |
| `session_log` | two seconds, the serial manager and the TCP manager, four inputs (lines, attempts to connect, losses, errors, commands, stops), a disk that fills and empties, any number of starts and resets | what was recorded is in the files, row by row, but for what a failing `close()` loses; the summary covers it; the buttons follow the link |

Runs that end in a violation, each a disagreement between the code and what the
repository says of it (`findings` quotes the words):

| run | what happens |
|---|---|
| `packet_fragments` | a truncated packet passes for one without CRC, and losses are invented |
| `station_resume_stale` | RESUME after a pause shows STALE |
| `sensor_loss_unrecorded` | a loss repaired within the check that finds it is recorded as a recovery and not as a failure |
| `session_stop_wifi` | over direct WiFi the button that stops logging raises before it stops anything |

More disagreements are among the behaviours of the models without a run of
their own:

* RESET over WiFi restarts the device while its acknowledgement is still in the
  response buffer (`command.cpp:157`, against `docs/protocol.md:77`; `Reset` in
  `Device`).
* Two lines read in one pass of the loop share one slot, and the first is
  neither processed nor answered (`wifi_transport.cpp:193`; `overwritten` in
  `WifiTransport`), against "The same telemetry packet and command protocol are
  used on every transport" (`docs/wifi_mqtt.md:21`).
* A restart is announced on the serial port only (`main.cpp:31`): a device that
  was paused restarts behind the broker and streams again, no line is lost, and
  the window goes on saying PAUSED, though state handling is to "stay
  transport-independent" (`docs/wifi_mqtt.md:21`; `unheard` in `GroundStation`).
* A STATUS line with FAULT leaves the sensor's values on the screen until the
  next packet (`app.py:504`, against `docs/fault_management.md:47`;
  `ReceiveStatus` and `NoValuesInFault` in `GroundStation`).
* Connect during an automatic reconnection changes the port of a live link
  (`serial_manager.py:216`; `SetPort` in `SerialManager`).

**Bounds.** `CounterMod`, `ClockMod` and `SeqMod` stand for 2^32; small values
make wraps frequent, and nothing in the code depends on more than their
exceeding the intervals (`ClockAssumption`). `MaxLag` is the longest pass of
the loop and `SetupLag` the longest provisioning, in the unit of the intervals.
`MaxCommands` (3, of all senders in `wifi_commands`) lets two commands of one
sender meet one of another in every place. `MaxEmitted`, `MaxLines`,
`MaxEvents` cap counters and queues. `MaxAge` caps the age of the last packet:
at 0 in `station_view`, whose properties do not look at it, above every timeout
in `station_resume_stale`. `Handles` (4) and `Sockets` (5) are one object per
possible reference plus one; an object nobody refers to is used again.
`LoopIds` (2) bounds the loops of the simulator alive at a time. In
`session_log`, `MaxInputs` (4) is enough for a connection, two packets and a
stop that fails, with the disk full anywhere between, or for both threads to
open the link and one to lose it, and `MaxSecond` (1) for two sessions in one
second and one in another; starting and resetting count as no input, nor do the
steps that finish what a thread has begun. The serial manager stands for the
broker's and the simulator's too: where those differ in these steps they make
fewer of them (`LinkRefused`), and the proofs are for all four. The largest runs
are `station_view` (9.0 million states, 80 s) and `session_log` (4.4 million,
40 s). In `station_view` there is one rate: the window learns rate and pause
from the same lines, and forgets the pause only; the theorem is for all rates.

**Deadlock** is checked everywhere but in `session_log` and `session_stop_wifi`,
where the program ends and inputs are bounded.

**Fairness.** `device_contract`: the CPU goes on running `loop()` and the UART
is not fed faster than it is read for ever (weak fairness of `LoopStep`), and
time passes (of `Tick`); commands and links have none. `transports`: all
threads are scheduled (weak fairness of each), which the GIL gives them, the
client's network thread goes on connecting, which paho does, and a broker that
is up acknowledges subscriptions and passes lines on; nobody has to press a
button, plug in a device or start a broker. `wifi_commands`: the loop runs, TCP
gives up on data that is not acknowledged, and the stream is not paused for
ever (strong fairness of `PublishTelemetry`): without packets or answers
nothing is ever written to a vanished client, and it does keep its place.

**Assumptions worth knowing.** In `transports`, `ConnectedIsServed`,
`StoppedIsSilent` and `LinkIsRestored` are, for port and socket, about a user
who lets the reader thread end before pressing Connect again and neither sends
nor reconnects meanwhile (`use`, `tcpUse`). Beyond that they fail, and the
hazards say how: the reader's failing read of the old object drops, or leaves
unread, the new connection; and a send that drops the connection between the
reader's test and its read ends the reader thread, so that nothing restores the
link. `EventsTellTruth` is, for port and socket, about a user who neither
disconnects nor sends: events of two threads may cross, and what the window
makes of that is in `ControlsFollowLink`. For the broker, `EventsTellTruth` and `LinkIsRestored` leave out a
`connect()` over a connection in the making (`retried`); for the simulator,
counting and obeying leave out a hasty reconnection. `Wake` assumes that the
2 s of `reconnect_delay` outlast the few statements that close a connection and
a write (whose timeout is 1 s). `session_log` says nothing of a session whose
own start failed (`spoiled`), nor of one whose files a later session of the
same second took over; of one whose `close()` failed (`lost`) it says that its
files begin with every row up to the last one logged without an exception.
`ControlsFollowLink` does not ask for the text of the button that connects when
the last two events have crossed, nor for the controls when the last change of
`connected` was told by nobody; in both cases the code is wrong until the next
event. `ShowsTheDevice` is without condition on a serial port (`unheard` stays
empty there); on the others it speaks of what the connection has told since the
last loss or restart; what it leaves out is among the disagreements above.

## 4. The proofs

TLC checks small instances; these hold for all values of the constants. A
proof of invariance has the same form everywhere: an invariant that is
inductive, the lemma that it holds initially, one lemma per action or group of
actions, and the theorems that follow from it. Where a property is not
inductive, the paragraphs say what had to be added.

*Sensor manager.* `SensorTypeCorrect`, then four action properties:
`LossIsCountedOnce`, `InjectionIsInert`, `ClearTellsTheTruth` and
`RecoveriesAreCounted`. They need the type invariant only; lemmas say what a
transaction, a check of one sensor, a health check and a sample read can do
(`AcksFacts` to `ReadEffect`, `CheckRecovers`, `NothingRecovers`). The last
theorem is for `CounterMod > 2`: a health check may recover two sensors, and a
counter modulo 1 or 2 cannot tell two from none; the code's counts modulo 2^32.

*Device.* The timing properties are not inductive: that a stream is not silent
says nothing about how long it has waited at the present point of the pass.
`DeviceInv` adds `StreamTimed` and `HealthTimed`: the history variables equal
the unsigned differences the program computes, `now` is at most `lag` behind
the clock, and at each `pc` the waiting time is below the interval, or the
longest interval, plus what the passes so far can have added. The wrap enters
through `ElapsedFacts` and `ElapsedSplit` only: a difference advances with the
clock as long as it is below the modulus, which `MaxIdle < ClockMod` and
`MaxHealthAge < ClockMod` guarantee. From `DeviceInductive`, one lemma per
group of actions, follow `DeviceTypeCorrect`, `StreamNeverSilent`,
`HealthIsFresh`, `PacketsAreNotEarly` and `PacketsAreOnTime`.

*Contract.* `DeviceImplementsContract`: each command refines an action of the
contract (`CommandRefines`), a packet refines `Emit` (`EmitRefines`, which
rests on a sample being valid exactly when its sensor is healthy afterwards),
everything else is a quiet step or a restart.

*Loss accounting.* `StatsInv` relates the open gap to the two sequence numbers
for every modulus: `OpenCoversGap` and `OpenIsGap` as long as no fragment has
passed for a packet, `UncountedInGap` also after that. `CountInv` serves whole
and truncated packets alike. From it: `StatsTypeCorrect`,
`LossIsNeverInvented`, `LossIsNeverMissed`, `LossIsNeverHidden`. That `~cut` is
needed for the first two is what `packet_fragments` shows.

*Session.* `RecordStaysComplete` proves `RecordIsComplete` for every set of
managers and packets, any number of sessions and any length of run. The property
speaks of files only where the invariant `RecordInv` has to speak of buffers:
those of the open session complete its files, those of a session that has ended
are empty and nothing is left to wait for, and an enabled log either shows "Stop
Logging" or was spoiled at its start; after a `close()` that failed its files
hold what they held, which is a beginning of what was promised and no shorter
than what was kept. `RowKeeps`, `NoteKeeps`, `StartKeeps` and `StopKeeps` follow
the methods of the logger through success and failure, `Written` lemmas say that
one file changes at a time, and every handler is one of them (`NextKeeps`).
`ControlsEndUpRight` proves `ControlsFollowLink` from `ControlsInv`: a thread
that owes an event owes a true one, once nobody owes one the last event in the
queue that is not an error tells the state of the link (`Tells`), and if there
is none the buttons do, each unless `last` says otherwise. `TellsAppended` and
`TellsTaken` say so of a queue that grows and shrinks, `GuiStaysFree` that the
window's thread is at nothing else while it handles them. `SummariesCover`
proves `SummaryCoversRecord` from `SummaryInv`: as long as logging is on, the
statistics cover what is in the files together with what still waits in the
buffers, and `stop()` writes exactly those statistics over exactly those rows,
or fewer (`PrefixCovered`). `Covers` must also say that a temperature among the
rows means that a least one is known, or the next sample could raise the
minimum. `SessionTypeCorrect` adds the bounds of the queues (`LinkBounds`) and
that a log that is on has its files open, both of them unless a `close()` has
failed (`FilesOpen`).

*Wireless transport.* A property of the slot has to be known of a command from
the moment its first piece is sent. `Stream(c)` is all of a connection's text
still ahead of the slot, in the line buffer or not read yet. `WifiInv` says
that a stream begins where a line begins, that its lines are whole but for the
last, and that its commands are numbered upwards and are younger than all that
have been in the slot (`StreamsWhole`, `InboxRising`, `SlotRising`). A lost
client's buffer is part of no stream because the buffer is cleared as the next
client is taken (`wifi_transport.cpp:283`). `SlotOwner` adds whose command the
slot may hold at each point of a pass: the reply goes to the client of that
moment. From it `WifiTypeCorrect`, `CommandsStayWhole`, `AnswersGoHome` and
`CommandsInOrder`, for any number of connections and of commands.

*Window.* `ShowsTheDevice` speaks of empty queues, the invariant of full ones.
A connection is `Informed` when, of the settings, the last STATUS line in its
queue agrees with the device as it is (or the window does, if there is none),
and of the health the last line of any kind does, each as far as it is not
`unheard`; and it is, or else an event, the question of `on_connect()` or a
command is still to come, each of which ends in a STATUS line or in something
unheard (`InformedInTheEnd`; `StatusInforms`, `PacketInforms`, `LineInforms`
follow the lines). `EventsHonest`, that the last event of a live connection is
its own, keeps the handler of an old one from having the last word. From
`StationInv`: `StationTypeCorrect`, `WindowShowsTheDevice`, `FaultsRemoveValues`,
for every set of transports, sensors and rates.

*Managers.* Each of the four has an invariant of its own. For the port,
`SerialHeld` says that what is open is referred to, and a thread holds an
object exactly between opening or loading it and being through with it;
`SerialServed` where the two threads can be at the same time (`connect()` runs
alone, `disconnect()` never meets a reader that restores the link, the reader
ends only after `disconnect()`) and what they have then made of the attributes;
`SerialTruth` how `connected` and the last event may differ while they are at
it. `TcpShape`, `TcpHeld`, `TcpServed` and `TcpTruth` say the same of the
socket. `TcpLines` is about the bytes: of the buffer and the piece in the
reader's hand it says how many halves they hold (never more than three), that
these are the first halves of one connection without a gap (`Flows`), and which
half its peer sends next (`Due`), at each of the steps that take a piece apart.
A new connection starts with an empty buffer: `_open()` clears it only after
setting `connected` (`tcp_manager.py:45`), but nobody reads the new socket
until then, since the reader itself is in `_open()` or not yet started.
`OneOwner` holds even for the user of whom `TcpLines` says nothing.
`MqttServed` ties the callbacks to the life of the network thread, `MqttTruth`
`connected`, the client's own connection and the last event to each other.
`DemoServed` says that a session has one loop; `DemoNumbered` which number the
loop holds at each of its steps; `DemoPrompt` that after a packet which did not
fit the last command the one being built does; `DemoPaced` that the time since
the last packet and the time until the next together never exceed the longest
interval, which is what remains of punctuality when a command shortens or
lengthens the interval in between. `ManagersInductive` puts the four together:
a step of the program is a step of the chosen manager. From it, with the names
of the properties in brackets: `TransportsTypeCorrect`, `ConnectedMeansServed`
(`ConnectedIsServed`), `StoppedMeansSilent` (`StoppedIsSilent`),
`EventsAreTrue` (`EventsTellTruth`), `LinesStayWhole` (`LinesAreWhole`),
`SimulatorObeys` (`DemoObeys`), `SimulatorFlows` (`DemoFlows`),
`SimulatorCounts` (`DemoCountsOn`), under the conditions on the user that the
properties name (`use`, `tcpUse`, `retried`, `hasty`; section 3).

Assumptions are the named ASSUMEs of the modules: positive intervals, a default
within range, a clock wider than the longest waits, a positive modulus, at
least one port, names that differ. `RatesAssumption` and `DemoRatesAssumption`
ask that there is a longest interval, by which `Slowest` and `Longest` are
defined: the window's field and `send()` of the simulator allow 100 to 10000 ms
only (`app.py:334`, `demo_serial.py:100`).

Only model-checked: the liveness properties, since fairness and ENABLED are
beyond the prover. These are `RecoversWhenBack` and `LossIsReported` of the
device, `LinkIsRestored`, `ReadersStop` and `CommandsArrive` of the managers and
`NobodyWaitsForAGhost` of the wireless transport.

## 5. Not modelled

* The CRC computation, number formatting and field names: a packet is damaged
  or it is not. Line framing on the device (50 ms of `readStringUntil`, 255
  characters of the direct client) is left out; see the hazards.
* Device configuration and provisioning (`device_config.cpp`, the portal in
  `wifi_transport.cpp`): before the loop, by a library. Their duration is
  `SetupLag`.
* `MqttManager.reconnect()`, which nothing calls; `available_ports()` and
  `set_baud()` of the serial manager.
* Values of the simulated measurements, columns and time stamps of the files,
  topics, credentials and hosts: data that no step depends on.
* Plots, the attitude view (trigonometry on real numbers), styles and argument
  parsing: output without decisions that feed back.
* Packet rates and averages of the statistics: real time and real numbers.

## 6. Plan

The first four blocks are done.

1. Sensor manager, device, contract, and their proofs; the serial link; the
   wireless transport; loss accounting and its proofs; the window.
2. The TCP link, the broker link and the simulator; what all four managers
   promise.
3. Recorded sessions: logger, statistics, buttons, and their proofs.
4. Proofs of every safety property that the runs check.
5. Framing: `readStringUntil` and the 255-character buffer, as one module with
   an abstract channel of whole lines.
6. `DeviceConfig`: EEPROM record, magic number, a power failure during a commit.
7. Composition: `WifiTransport` with `Device`'s commands and `GroundStation`'s
   requests: a command is answered or the link is seen to fail.
8. Their proofs: that framing implements the channel of whole lines, and that a
   reply belongs to the request it follows.
