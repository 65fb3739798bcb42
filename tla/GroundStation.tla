--------------------------- MODULE GroundStation ---------------------------
(***************************************************************************)
(* The ground station's view of the device: GroundStationWindow of          *)
(* ground_station/app.py, on the GUI thread, with the lines and events its  *)
(* transport puts into two queues for it.  process_serial() empties the     *)
(* queue of lines first, the queue of events then, each line and event at a *)
(* time, while the transport goes on filling both; `phase` says which of    *)
(* the two loops the GUI thread is in.                                      *)
(*                                                                          *)
(* The transport is one of three.  A serial port is an ordered line, and    *)
(* lossless while it is open.  A TCP connection is one as well until the    *)
(* device's end is gone, restarted or off the network, which the station    *)
(* need not notice: then it is mute.  Over MQTT the station is connected to *)
(* the broker, not to the device: what the device publishes (QoS 0) may be  *)
(* lost, and a command finds a device that is not subscribed.               *)
(* `unheard` keeps what the device may have changed since the connection    *)
(* was made without the window having been told.                            *)
(*                                                                          *)
(* The device (main.cpp, command.cpp, telemetry.cpp; module Device has it   *)
(* in full) is reduced to what its lines tell: it emits a packet when one   *)
(* interval has passed since the last one or RESUME, answers a command with *)
(* STATUS, and after a restart prints STATUS on its serial port.  Sensors   *)
(* fail and recover as they like: a line reports any health that the        *)
(* injected faults allow.                                                   *)
(*                                                                          *)
(* A unit of time is long against the GUI timer (100 ms), the delay before  *)
(* the first STATUS command (250 ms) and the travel of a line: time passes  *)
(* when all lines and events are handled and no packet is due.              *)
(***************************************************************************)
EXTENDS Integers, Sequences, SequencesExt

CONSTANTS
    Media,        \* the transports this instance distinguishes
    Sensors,      \* the sensors with measurements in a packet
    Rates,        \* intervals between packets, in units of time
    DefaultRate,  \* of the device and of the GUI before it knows better
    StaleTimeout, \* DEFAULT_STALE_TIMEOUT_SECONDS
    MaxAge,       \* bound: greater ages of the last packet are not told apart
    Requests,     \* the kinds of commands the user sends
    Unplugs       \* whether the connection may break and the device lose its power

Kinds == {"STATUS", "PAUSE", "RESUME", "SET_RATE", "INJECT_FAULT", "CLEAR_FAULTS", "RESET"}

ASSUME MediaAssumption == Media \subseteq {"serial", "tcp", "mqtt"}
ASSUME RatesAssumption ==
    /\ Rates \subseteq Nat \ {0} /\ DefaultRate \in Rates
    /\ \E r \in Rates : \A q \in Rates : q <= r
ASSUME StaleAssumption == StaleTimeout \in Nat \ {0} /\ MaxAge \in Nat
ASSUME RequestsAssumption == Requests \subseteq Kinds /\ Unplugs \in BOOLEAN

VARIABLES
    medium, \* the transport
    device, \* up, paused, rate, injected, and the healthy sensors of its last line
    idle,   \* time since the device's last packet, RESUME or start
    up, down, \* the lines on their way to the device, and to the GUI with line_queue at the end
    unheard, \* of "settings" and "health": what the connection may not have told the window
    connected, \* the transport is connected
    events, \* event_queue
    phase,  \* of process_serial(): "lines", "events", or "idle" between two calls
    asks,   \* a STATUS command of on_connect() is due
    gui,    \* the window's fields
    age     \* time since last_packet_wall_time, or NoPacket

link == <<connected, events>>
vars == <<medium, unheard, device, idle, up, down, link, phase, asks, gui, age>>

MaxOf(a, b) == IF a >= b THEN a ELSE b
Slowest == CHOOSE r \in Rates : \A q \in Rates : q <= r
NoPacket == -1
MaxLines == 2 \* bound: lines on their way, in each direction
MaxEvents == 2 \* bound: events in the queue

Everything == {"settings", "health"}

(* Any sensor may answer or not, unless its fault is injected. *)
Reports(d) == { [d EXCEPT !.healthy = h] : h \in SUBSET (Sensors \ d.injected) }
Booted == [up |-> TRUE, paused |-> FALSE, rate |-> DefaultRate, injected |-> {}, healthy |-> Sensors]

Init ==
    /\ medium \in Media /\ unheard = {}
    /\ device = Booted /\ idle = 0
    /\ up = <<>> /\ down = <<>> /\ connected = FALSE /\ events = <<>>
    /\ phase = "idle" /\ asks = FALSE
    /\ gui = [paused |-> FALSE, rate |-> DefaultRate,
              health |-> [x \in Sensors |-> "UNKNOWN"], values |-> {}]
    /\ age = NoPacket

-----------------------------------------------------------------------------
(* The device. *)

(* printStatus() and buildTelemetryPacket() *)
StatusLine(d) == [kind |-> "STATUS", paused |-> d.paused, rate |-> d.rate, healthy |-> d.healthy]
Packet(d) == [kind |-> "TEL", healthy |-> d.healthy]
Told(line) == IF line.kind = "STATUS" THEN Everything ELSE {"health"}

Mute == medium = "tcp" /\ unheard # {}

(* The device writes a line to the transport: it arrives, nobody listens,   *)
(* or it is lost on the way.                                                *)
Writes(line) ==
    \/ /\ connected /\ ~Mute /\ Len(down) < MaxLines
       /\ down' = Append(down, line) /\ unheard' = unheard \ Told(line)
    \/ ~connected /\ UNCHANGED <<down, unheard>>
    \/ connected /\ (Mute \/ medium = "mqtt") /\ unheard' = unheard \cup Told(line) /\ UNCHANGED down

(* loop() *)
Due == device.up /\ ~device.paused /\ idle >= device.rate
EmitPacket ==
    /\ Due /\ device' \in Reports(device) /\ Writes(Packet(device')) /\ idle' = 0
    /\ UNCHANGED <<medium, up, link, phase, asks, gui, age>>

(* processCommand() *)
Executed(d, c) ==
    CASE c.kind = "STATUS" -> d
      [] c.kind = "PAUSE" -> [d EXCEPT !.paused = TRUE]
      [] c.kind = "RESUME" -> [d EXCEPT !.paused = FALSE]
      [] c.kind = "SET_RATE" -> [d EXCEPT !.rate = c.rate]
      [] c.kind = "INJECT_FAULT" -> [d EXCEPT !.injected = @ \cup {c.sensor}]
      [] c.kind = "CLEAR_FAULTS" -> [d EXCEPT !.injected = {}]
      [] c.kind = "RESET" -> [d EXCEPT !.up = FALSE]

HandleCommand ==
    /\ device.up /\ ~Mute /\ up # <<>> /\ up' = Tail(up)
    /\ device' \in Reports(Executed(device, Head(up)))
    /\ idle' = IF Head(up).kind = "RESUME" THEN 0 ELSE idle
    /\ IF device'.up THEN Writes(StatusLine(device')) ELSE UNCHANGED <<down, unheard>>
    /\ UNCHANGED <<medium, link, phase, asks, gui, age>>

(* A command that nobody executes: the device is not up, its end of the     *)
(* connection is gone, or it is not subscribed.                             *)
LoseCommand ==
    /\ ~device.up \/ Mute \/ medium = "mqtt"
    /\ up # <<>> /\ up' = Tail(up)
    /\ unheard' = IF medium = "serial" THEN unheard ELSE Everything
    /\ UNCHANGED <<medium, device, idle, down, link, phase, asks, gui, age>>

(* queueCommand(): a command that arrives in the same pass as the next one  *)
(* is overwritten.                                                          *)
OverwriteCommand ==
    /\ medium # "serial" /\ device.up /\ ~Mute /\ Len(up) >= 2 /\ up' = Tail(up)
    /\ UNCHANGED <<medium, unheard, device, idle, down, link, phase, asks, gui, age>>

PowerFails ==
    /\ Unplugs /\ device.up /\ device' = [device EXCEPT !.up = FALSE]
    /\ UNCHANGED <<medium, unheard, idle, up, down, link, phase, asks, gui, age>>

(* setup() ends with printStatus(..., Serial): no other transport carries   *)
(* that line.  A TCP connection to the device as it was is mute from now on.*)
Boots ==
    /\ ~device.up /\ device' \in Reports(Booted) /\ idle' = 0
    /\ IF medium = "serial" THEN Writes(StatusLine(device'))
       ELSE UNCHANGED down /\ unheard' = IF connected THEN Everything ELSE unheard
    /\ UNCHANGED <<medium, up, link, phase, asks, gui, age>>

Handled == up = <<>> /\ down = <<>> /\ events = <<>> /\ phase = "idle" /\ ~asks

Tick ==
    /\ Handled /\ ~Due
    /\ idle' = IF idle = Slowest THEN idle ELSE idle + 1
    /\ age' = IF age \in {NoPacket, MaxAge} THEN age ELSE age + 1
    /\ UNCHANGED <<medium, unheard, device, up, down, link, phase, asks, gui>>

-----------------------------------------------------------------------------
(* The transport. *)

(* on_connect() will ask, whatever happened while nobody listened.  A       *)
(* device that is not up accepts no TCP connection.                         *)
Connects ==
    /\ ~connected /\ connected' = TRUE /\ unheard' = {}
    /\ medium = "tcp" => device.up
    /\ Len(events) < MaxEvents /\ events' = Append(events, "CONNECTED")
    /\ UNCHANGED <<medium, device, idle, up, down, phase, asks, gui, age>>

(* What was not yet on the wire, or not yet in line_queue, is lost. *)
Disconnects ==
    /\ Unplugs /\ connected /\ connected' = FALSE /\ unheard' = {}
    /\ Len(events) < MaxEvents /\ events' = Append(events, "DISCONNECTED")
    /\ up' \in { SubSeq(up, 1, n) : n \in 0 .. Len(up) }
    /\ down' \in { SubSeq(down, 1, n) : n \in 0 .. Len(down) }
    /\ UNCHANGED <<medium, device, idle, phase, asks, gui, age>>

(* The device's end of a TCP connection is gone and the station's is not    *)
(* told (the device leaves the network, or serves another client).          *)
FallsMute ==
    /\ Unplugs /\ connected /\ medium = "tcp" /\ unheard' = Everything
    /\ UNCHANGED <<medium, device, idle, up, down, link, phase, asks, gui, age>>

-----------------------------------------------------------------------------
(* The GUI. *)

(* process_serial() *)
ProcessSerial ==
    /\ phase = "idle" /\ phase' = "lines" /\ (down # <<>> \/ events # <<>>)
    /\ UNCHANGED <<medium, unheard, device, idle, up, down, link, asks, gui, age>>

NoMoreLines ==
    /\ phase = "lines" /\ down = <<>> /\ phase' = "events"
    /\ UNCHANGED <<medium, unheard, device, idle, up, down, link, asks, gui, age>>

NoMoreEvents ==
    /\ phase = "events" /\ events = <<>> /\ phase' = "idle"
    /\ UNCHANGED <<medium, unheard, device, idle, up, down, link, asks, gui, age>>

(* Mutant of Remaining: what a failed sensor last measured stays.           *)
RemainingAll(values, healthy) == values

(* on_serial_line() for a packet, which holds the values of its healthy     *)
(* sensors: _remove_stale_sensor_values(), then latest_data.update().       *)
Remaining(values, healthy) == values \cap healthy
ReceivePacket ==
    /\ phase = "lines" /\ down # <<>> /\ Head(down).kind = "TEL" /\ down' = Tail(down)
    /\ LET healthy == Head(down).healthy
       IN  gui' = [gui EXCEPT !.health = [x \in Sensors |-> IF x \in healthy THEN "OK" ELSE "FAULT"],
                              !.values = Remaining(@, healthy) \cup healthy]
    /\ age' = 0
    /\ UNCHANGED <<medium, unheard, device, idle, up, link, phase, asks>>

(* on_serial_line() for a STATUS line: _apply_status_response(). *)
ReceiveStatus ==
    /\ phase = "lines" /\ down # <<>> /\ Head(down).kind = "STATUS" /\ down' = Tail(down)
    /\ LET line == Head(down)
       IN  gui' = [gui EXCEPT !.paused = line.paused, !.rate = line.rate,
                              !.health = [x \in Sensors |-> IF x \in line.healthy THEN "OK" ELSE "FAULT"]]
    /\ UNCHANGED <<medium, unheard, device, idle, up, link, phase, asks, age>>

(* Mutant of OnConnect: the device is not asked.                            *)
OnConnectSilently ==
    /\ phase = "events" /\ events # <<>> /\ Head(events) = "CONNECTED" /\ events' = Tail(events)
    /\ UNCHANGED <<medium, unheard, device, idle, up, down, connected, phase, asks, gui, age>>

OnConnect ==
    /\ phase = "events" /\ events # <<>> /\ Head(events) = "CONNECTED" /\ events' = Tail(events)
    /\ asks' = TRUE
    /\ UNCHANGED <<medium, unheard, device, idle, up, down, connected, phase, gui, age>>

(* Mutant of OnDisconnect: the rate is forgotten.                           *)
OnDisconnectUnset ==
    /\ phase = "events" /\ events # <<>> /\ Head(events) = "DISCONNECTED" /\ events' = Tail(events)
    /\ gui' = [gui EXCEPT !.paused = FALSE, !.rate = 0]
    /\ UNCHANGED <<medium, unheard, device, idle, up, down, connected, phase, asks, age>>

OnDisconnect ==
    /\ phase = "events" /\ events # <<>> /\ Head(events) = "DISCONNECTED" /\ events' = Tail(events)
    /\ gui' = [gui EXCEPT !.paused = FALSE]
    /\ UNCHANGED <<medium, unheard, device, idle, up, down, connected, phase, asks, age>>

(* send_command(): send() of a transport that is not connected does nothing.*)
Sends(c) ==
    IF connected THEN Len(up) < MaxLines /\ up' = Append(up, c) ELSE UNCHANGED up

Command(kind) == [kind |-> kind]
UserCommands ==
    { Command(k) : k \in Requests \ {"SET_RATE", "INJECT_FAULT"} }
    \cup { [kind |-> "SET_RATE", rate |-> r] : r \in IF "SET_RATE" \in Requests THEN Rates ELSE {} }
    \cup { [kind |-> "INJECT_FAULT", sensor |-> x] :
             x \in IF "INJECT_FAULT" \in Requests THEN Sensors ELSE {} }

(* The single-shot timer of on_connect(); two that are due are one here. *)
AskStatus ==
    /\ phase = "idle" /\ asks /\ asks' = FALSE /\ Sends(Command("STATUS"))
    /\ UNCHANGED <<medium, unheard, device, idle, down, link, phase, gui, age>>

SendCommand ==
    /\ phase = "idle" /\ \E c \in UserCommands : Sends(c)
    /\ UNCHANGED <<medium, unheard, device, idle, down, link, phase, asks, gui, age>>

(* refresh_telemetry_state() *)
Timeout == MaxOf(StaleTimeout, 3 * gui.rate)
TelemetryState ==
    CASE ~connected -> "NO DATA"
      [] connected /\ gui.paused -> "PAUSED"
      [] connected /\ ~gui.paused /\ age = NoPacket -> "WAITING"
      [] connected /\ ~gui.paused /\ age > Timeout -> "STALE"
      [] connected /\ ~gui.paused /\ age \in 0 .. Timeout -> "LIVE"

-----------------------------------------------------------------------------
Next ==
    \/ EmitPacket \/ HandleCommand \/ LoseCommand \/ OverwriteCommand
    \/ PowerFails \/ Boots \/ Tick
    \/ Connects \/ Disconnects \/ FallsMute
    \/ ProcessSerial \/ NoMoreLines \/ NoMoreEvents
    \/ ReceivePacket \/ ReceiveStatus \/ OnConnect \/ OnDisconnect
    \/ AskStatus \/ SendCommand

Spec == Init /\ [][Next]_vars

-----------------------------------------------------------------------------
(* Type invariant. *)
StationTypeOK ==
    /\ medium \in Media /\ unheard \subseteq Everything /\ (medium = "serial" => unheard = {})
    /\ device \in [up : BOOLEAN, paused : BOOLEAN, rate : Rates,
                   injected : SUBSET Sensors, healthy : SUBSET Sensors]
    /\ idle \in 0 .. Slowest /\ Len(up) <= MaxLines /\ Len(down) <= MaxLines
    /\ connected \in BOOLEAN /\ Len(events) <= MaxEvents
    /\ phase \in {"idle", "lines", "events"} /\ asks \in BOOLEAN
    /\ gui \in [paused : BOOLEAN, rate : Rates, values : SUBSET Sensors,
                health : [Sensors -> {"UNKNOWN", "OK", "FAULT"}]]
    /\ age \in {NoPacket} \cup 0 .. MaxAge

(* All is said: nothing is on its way and nothing is due. *)
Quiet == connected /\ device.up /\ Handled /\ ~Due

(* Whatever was connected, pulled out, sent or restarted in whatever order, *)
(* once all lines are handled the window shows the device's pause and rate  *)
(* and the health of its last line (on_connect() asks, setup() announces on *)
(* the serial port, every command is answered), also when a line of the     *)
(* last connection is handled after the event that ended it.  Of a wireless *)
(* connection this holds until the device restarts or a line is lost, and   *)
(* again once a line that tells the same arrives (docs/wifi_mqtt.md has     *)
(* state handling stay transport-independent: see the README); a serial one *)
(* loses none.                                                              *)
ShowsTheDevice ==
    Quiet =>
        /\ "settings" \notin unheard => gui.paused = device.paused /\ gui.rate = device.rate
        /\ "health" \notin unheard =>
             \A x \in Sensors : gui.health[x] = (IF x \in device.healthy THEN "OK" ELSE "FAULT")

(* "The stale threshold scales with the commanded telemetry period so       *)
(* intentionally slow telemetry is not incorrectly classified as a          *)
(* transport fault" (docs/fault_management.md).                             *)
NoFalseStale == Quiet => TelemetryState # "STALE"

(* "removes stale sensor values when that sensor enters FAULT"              *)
(* (docs/fault_management.md): a packet that reports a sensor FAULT leaves  *)
(* none of its values on the screen.  A STATUS line that does removes        *)
(* nothing, so that this is no invariant: see the README.                   *)
NoValuesInFault == \A x \in Sensors : gui.health[x] = "FAULT" => x \notin gui.values
PacketRemovesValuesStep ==
    LET handled == down # <<>> /\ down' = Tail(down) /\ UNCHANGED connected
    IN  handled /\ Head(down).kind = "TEL" => NoValuesInFault'
PacketRemovesValues == [][PacketRemovesValuesStep]_vars
=============================================================================
