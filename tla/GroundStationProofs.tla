------------------------- MODULE GroundStationProofs -------------------------
(***************************************************************************)
(* Proofs about the ground station's view of the device: type correctness,  *)
(* that the window shows the device once all lines are handled, and that a  *)
(* packet leaves no values of a failed sensor, for every set of sensors and *)
(* rates and every order of connections, commands and restarts.             *)
(*                                                                          *)
(* A connection is informed when what the window shows, or will show after  *)
(* the lines in its queue, is the device as it is: of the settings by the   *)
(* last STATUS line, of the health by the last line.  It is not yet         *)
(* informed as long as an event of the connection, the question of          *)
(* on_connect() or a command is still to come, each of which ends in a      *)
(* STATUS line; and not of what is unheard.                                 *)
(***************************************************************************)
EXTENDS GroundStation, TLAPS, SequenceTheorems

Devices == [up : BOOLEAN, paused : BOOLEAN, rate : Rates,
            injected : SUBSET Sensors, healthy : SUBSET Sensors]
Lines == { StatusLine(d) : d \in Devices } \cup { Packet(d) : d \in Devices }
Commands == UserCommands \cup {Command("STATUS")}

(* What is on its way. *)
QueuesTyped ==
    /\ up \in Seq(Commands) /\ down \in Seq(Lines)
    /\ events \in Seq({"CONNECTED", "DISCONNECTED"})

(* The last event of a connection that is up is its own. *)
EventsHonest == connected /\ events # <<>> => events[Len(events)] = "CONNECTED"

SettingsShown == gui.paused = device.paused /\ gui.rate = device.rate
HealthShown == gui.health = [x \in Sensors |-> IF x \in device.healthy THEN "OK" ELSE "FAULT"]
SettingsKnown ==
    \/ \E i \in DOMAIN down :
          /\ down[i].kind = "STATUS" /\ down[i].paused = device.paused /\ down[i].rate = device.rate
          /\ \A j \in DOMAIN down : j > i => down[j].kind # "STATUS"
    \/ SettingsShown /\ \A j \in DOMAIN down : down[j].kind # "STATUS"
HealthKnown ==
    \/ down # <<>> /\ down[Len(down)].healthy = device.healthy
    \/ down = <<>> /\ HealthShown
Informed ==
    /\ "settings" \notin unheard => SettingsKnown
    /\ "health" \notin unheard => HealthKnown
NothingToCome == connected /\ device.up /\ events = <<>> /\ ~asks /\ up = <<>>
InformedInTheEnd == NothingToCome => Informed

StationInv == StationTypeOK /\ QueuesTyped /\ EventsHonest /\ InformedInTheEnd

-----------------------------------------------------------------------------
(* Operators. *)

LEMMA SlowestFacts == Slowest \in Nat \ {0} /\ \A r \in Rates : r <= Slowest
  BY RatesAssumption DEF Slowest

(* A command leaves the device one the model knows. *)
LEMMA ExecutedType ==
    ASSUME NEW d \in Devices, NEW c \in Commands
    PROVE  Executed(d, c) \in Devices
  <1>1. CASE c \in { Command(k) : k \in Requests \ {"SET_RATE", "INJECT_FAULT"} } \cup {Command("STATUS")}
    <2>1. PICK k \in Kinds \ {"SET_RATE", "INJECT_FAULT"} : c = [kind |-> k]
      BY <1>1, RequestsAssumption DEF Command, Kinds
    <2> QED BY <2>1 DEF Executed, Devices, Kinds
  <1>2. CASE c \in { [kind |-> "SET_RATE", rate |-> r] : r \in Rates }
    BY <1>2 DEF Executed, Devices
  <1>3. CASE c \in { [kind |-> "INJECT_FAULT", sensor |-> x] : x \in Sensors }
    BY <1>3 DEF Executed, Devices
  <1> QED BY <1>1, <1>2, <1>3 DEF Commands, UserCommands

(* What its sensors report leaves the rest of the device alone.             *)
LEMMA ReportsType ==
    ASSUME NEW d \in Devices, NEW e \in Reports(d)
    PROVE  e \in Devices /\ e.up = d.up /\ e.paused = d.paused /\ e.rate = d.rate
  BY DEF Reports, Devices

LEMMA BootedType == Booted \in Devices /\ Booted.up
  BY RatesAssumption DEF Booted, Devices

LEMMA LineFacts ==
    ASSUME NEW line \in Lines
    PROVE  /\ line.kind \in {"STATUS", "TEL"} /\ line.healthy \subseteq Sensors
           /\ line.kind = "STATUS" => line.paused \in BOOLEAN /\ line.rate \in Rates
  BY DEF Lines, StatusLine, Packet, Devices

LEMMA DeviceLines ==
    ASSUME NEW d \in Devices
    PROVE  StatusLine(d) \in Lines /\ Packet(d) \in Lines
  BY DEF Lines

LEMMA TypedHead ==
    ASSUME NEW S, NEW q \in Seq(S), q # <<>>
    PROVE  /\ Head(q) \in S /\ Tail(q) \in Seq(S) /\ Head(q) = q[1]
           /\ Len(q) \in Nat \ {0} /\ Len(Tail(q)) \in Nat /\ Len(Tail(q)) = Len(q) - 1
           /\ Len(Tail(q)) <= Len(q) /\ Tail(q) # q
           /\ DOMAIN q = 1 .. Len(q) /\ DOMAIN Tail(q) = 1 .. Len(Tail(q))
           /\ \A i \in 1 .. Len(Tail(q)) : Tail(q)[i] = q[i + 1]
  <1>1. Len(q) \in Nat /\ Len(q) # 0 /\ DOMAIN q = 1 .. Len(q) BY EmptySeq, LenProperties
  <1>2. /\ Head(q) \in S /\ Tail(q) \in Seq(S) /\ Head(q) = q[1]
        /\ Len(Tail(q)) = Len(q) - 1 /\ \A i \in 1 .. Len(Tail(q)) : Tail(q)[i] = q[i + 1]
    BY HeadTailProperties
  <1>3. Len(Tail(q)) \in Nat /\ DOMAIN Tail(q) = 1 .. Len(Tail(q)) BY <1>2, LenProperties
  <1>4. \A m, n \in Nat : n = m - 1 => n <= m /\ n # m OBVIOUS
  <1>5. Len(Tail(q)) <= Len(q) /\ Len(Tail(q)) # Len(q) BY <1>1, <1>2, <1>3, <1>4, Zenon
  <1>6. Tail(q) # q BY <1>5
  <1>7. Len(q) \in Nat \ {0} BY <1>1
  <1> QED BY <1>1, <1>2, <1>3, <1>5, <1>6, <1>7, Zenon

LEMMA TypedAppend ==
    ASSUME NEW S, NEW q \in Seq(S), NEW e \in S
    PROVE  /\ Append(q, e) \in Seq(S) /\ Len(q) \in Nat /\ Len(Append(q, e)) = Len(q) + 1
           /\ DOMAIN q = 1 .. Len(q) /\ DOMAIN Append(q, e) = 1 .. Len(q) + 1
           /\ Append(q, e)[Len(q) + 1] = e /\ \A i \in 1 .. Len(q) : Append(q, e)[i] = q[i]
           /\ Append(q, e) # <<>> /\ Append(q, e) # Tail(q)
  <1>1. /\ Append(q, e) \in Seq(S) /\ Len(Append(q, e)) = Len(q) + 1
        /\ Append(q, e)[Len(q) + 1] = e /\ \A i \in 1 .. Len(q) : Append(q, e)[i] = q[i]
    BY AppendProperties
  <1>2. Len(q) \in Nat /\ DOMAIN q = 1 .. Len(q) /\ DOMAIN Append(q, e) = 1 .. Len(Append(q, e))
    BY <1>1, LenProperties
  <1>3. Append(q, e) # <<>>
    <2>1. Append(q, e) = q \o <<e>> /\ Append(q, e) \in Seq(S) BY <1>1, AppendIsConcat
    <2>2. \A n \in Nat : n + 1 # 0 OBVIOUS
    <2> QED BY <1>1, <1>2, <2>2, EmptySeq, Zenon
  <1>4. Append(q, e) # Tail(q)
    <2>1. CASE q = <<>>
      <3>1. Tail(q) = <<>> BY <2>1
      <3> QED BY <1>3, <3>1
    <2>2. CASE q # <<>>
      <3>1. Len(Tail(q)) \in Nat /\ Len(Tail(q)) <= Len(q) BY <2>2, TypedHead
      <3>2. \A m, n \in Nat : n <= m => n # m + 1 OBVIOUS
      <3> QED BY <1>1, <1>2, <3>1, <3>2, Zenon
    <2> QED BY <2>1, <2>2
  <1> QED BY <1>1, <1>2, <1>3, <1>4, Zenon

(* What the transport may lose is the end of a queue. *)
LEMMA TypedStart ==
    ASSUME NEW S, NEW q \in Seq(S), NEW n \in 0 .. Len(q)
    PROVE  SubSeq(q, 1, n) \in Seq(S) /\ Len(SubSeq(q, 1, n)) <= Len(q)
  <1>1. Len(q) \in Nat BY LenProperties
  <1>2. n \in Nat /\ n <= Len(q) BY <1>1
  <1>3. \A i \in 1 .. n : q[i] \in S
    <2>1. \A i \in 1 .. n : i \in 1 .. Len(q) BY <1>1
    <2> QED BY <2>1, ElementOfSeq
  <1>4. SubSeq(q, 1, n) \in Seq(S) /\ Len(SubSeq(q, 1, n)) = IF 1 <= n THEN (n - 1) + 1 ELSE 0
    BY <1>1, <1>2, <1>3, SubSeqProperties
  <1>5. (IF 1 <= n THEN (n - 1) + 1 ELSE 0) = n BY <1>2
  <1> QED BY <1>2, <1>4, <1>5

-----------------------------------------------------------------------------
(* Types. *)

Typed == StationTypeOK /\ QueuesTyped

LEMMA TypedInitial == Init => Typed
  <1> SUFFICES ASSUME Init PROVE Typed
    OBVIOUS
  <1>1. DefaultRate \in Rates /\ Slowest \in Nat BY RatesAssumption, SlowestFacts
  <1>2. /\ up \in Seq(Commands) /\ down \in Seq(Lines) /\ events \in Seq({"CONNECTED", "DISCONNECTED"})
        /\ Len(up) = 0 /\ Len(down) = 0 /\ Len(events) = 0
    BY EmptySeq DEF Init
  <1>3. device \in Devices /\ idle \in 0 .. Slowest BY <1>1, BootedType DEF Init
  <1>4. gui \in [paused : BOOLEAN, rate : Rates, values : SUBSET Sensors,
                 health : [Sensors -> {"UNKNOWN", "OK", "FAULT"}]]
    BY <1>1 DEF Init
  <1>5. 0 <= MaxLines /\ 0 <= MaxEvents BY DEF MaxLines, MaxEvents
  <1>6. Len(up) <= MaxLines /\ Len(down) <= MaxLines /\ Len(events) <= MaxEvents BY <1>2, <1>5, Zenon
  <1>7. /\ connected \in BOOLEAN /\ phase \in {"idle", "lines", "events"} /\ asks \in BOOLEAN
        /\ age \in {NoPacket} \cup 0 .. MaxAge
        /\ medium \in Media /\ unheard \subseteq Everything /\ (medium = "serial" => unheard = {})
    BY DEF Init
  <1> QED BY <1>2, <1>3, <1>4, <1>6, <1>7, Zenon DEF Typed, StationTypeOK, QueuesTyped, Devices

(* What writing a line and sending a command do to the queues. *)
LEMMA WriteTyped ==
    ASSUME Typed, NEW line \in Lines, Writes(line), medium' = medium
    PROVE  /\ down' \in Seq(Lines) /\ Len(down') <= MaxLines
           /\ unheard' \subseteq Everything /\ (medium' = "serial" => unheard' = {})
  <1>1. /\ down \in Seq(Lines) /\ Len(down) \in Nat /\ Len(down) <= MaxLines
        /\ unheard \subseteq Everything /\ (medium = "serial" => unheard = {})
    BY LenProperties DEF Typed, QueuesTyped, StationTypeOK
  <1>2. CASE Len(down) < MaxLines /\ down' = Append(down, line) /\ unheard' = unheard \ Told(line)
    <2>1. Append(down, line) \in Seq(Lines) /\ Len(Append(down, line)) = Len(down) + 1 BY <1>1, TypedAppend
    <2>2. \A n \in Nat : n < MaxLines => n + 1 <= MaxLines BY DEF MaxLines
    <2> QED BY <1>1, <1>2, <2>1, <2>2
  <1>3. CASE UNCHANGED <<down, unheard>> BY <1>1, <1>3
  <1>4. CASE (Mute \/ medium = "mqtt") /\ unheard' = unheard \cup Told(line) /\ UNCHANGED down
    <2>1. medium # "serial" BY <1>4 DEF Mute
    <2>2. Told(line) \subseteq Everything BY DEF Told, Everything
    <2> QED BY <1>1, <1>4, <2>1, <2>2
  <1> QED BY <1>2, <1>3, <1>4 DEF Writes

LEMMA SendTyped ==
    ASSUME Typed, NEW c \in Commands, Sends(c)
    PROVE  up' \in Seq(Commands) /\ Len(up') <= MaxLines
  <1>1. up \in Seq(Commands) /\ Len(up) \in Nat /\ Len(up) <= MaxLines
    BY LenProperties DEF Typed, QueuesTyped, StationTypeOK
  <1>2. Append(up, c) \in Seq(Commands) /\ Len(Append(up, c)) = Len(up) + 1 BY <1>1, TypedAppend
  <1>3. \A n \in Nat : n < MaxLines => n + 1 <= MaxLines BY DEF MaxLines
  <1> QED BY <1>1, <1>2, <1>3 DEF Sends

LEMMA EventTyped ==
    ASSUME Typed, NEW e \in {"CONNECTED", "DISCONNECTED"}, Len(events) < MaxEvents, events' = Append(events, e)
    PROVE  events' \in Seq({"CONNECTED", "DISCONNECTED"}) /\ Len(events') <= MaxEvents
  <1>1. events \in Seq({"CONNECTED", "DISCONNECTED"}) /\ Len(events) \in Nat
    BY LenProperties DEF Typed, QueuesTyped
  <1>2. events' \in Seq({"CONNECTED", "DISCONNECTED"}) /\ Len(events') = Len(events) + 1 BY <1>1, TypedAppend
  <1>3. \A n \in Nat : n < MaxEvents => n + 1 <= MaxEvents BY DEF MaxEvents
  <1> QED BY <1>1, <1>2, <1>3

LEMMA TypedInductive == Typed /\ [Next]_vars => Typed'
  <1> SUFFICES ASSUME Typed, [Next]_vars PROVE Typed'
    OBVIOUS
  <1> USE DEF link
  <1> DEFINE Guis == [paused : BOOLEAN, rate : Rates, values : SUBSET Sensors,
                      health : [Sensors -> {"UNKNOWN", "OK", "FAULT"}]]
             Events == {"CONNECTED", "DISCONNECTED"}
  <1>0. /\ device \in Devices /\ idle \in 0 .. Slowest /\ Len(up) <= MaxLines /\ Len(down) <= MaxLines
        /\ connected \in BOOLEAN /\ Len(events) <= MaxEvents
        /\ phase \in {"idle", "lines", "events"} /\ asks \in BOOLEAN /\ gui \in Guis
        /\ age \in {NoPacket} \cup 0 .. MaxAge
        /\ medium \in Media /\ unheard \subseteq Everything /\ (medium = "serial" => unheard = {})
        /\ up \in Seq(Commands) /\ down \in Seq(Lines) /\ events \in Seq(Events)
        /\ Slowest \in Nat /\ MaxAge \in Nat
        /\ Len(up) \in Nat /\ Len(down) \in Nat /\ Len(events) \in Nat
    BY SlowestFacts, StaleAssumption, LenProperties DEF Typed, StationTypeOK, QueuesTyped, Devices
  <1>a. ASSUME device' \in Devices, idle' \in 0 .. Slowest, Len(up') <= MaxLines, Len(down') <= MaxLines,
               connected' \in BOOLEAN, Len(events') <= MaxEvents,
               phase' \in {"idle", "lines", "events"}, asks' \in BOOLEAN, gui' \in Guis,
               age' \in {NoPacket} \cup 0 .. MaxAge,
               medium' \in Media, unheard' \subseteq Everything, medium' = "serial" => unheard' = {},
               up' \in Seq(Commands), down' \in Seq(Lines), events' \in Seq(Events)
        PROVE  Typed'
    BY <1>a DEF Typed, StationTypeOK, QueuesTyped, Devices
  <1> HIDE DEF Guis, Events
  <1>t. \A n \in Nat : 0 \in 0 .. n OBVIOUS
  <1>z. 0 \in 0 .. Slowest /\ 0 \in 0 .. MaxAge BY <1>0, <1>t
  <1>w. ASSUME NEW line \in Lines, Writes(line), medium' = medium
        PROVE  /\ down' \in Seq(Lines) /\ Len(down') <= MaxLines
               /\ unheard' \subseteq Everything /\ (medium' = "serial" => unheard' = {})
    BY <1>w, WriteTyped
  <1>u. ASSUME up # <<>>, up' = Tail(up) PROVE Head(up) \in Commands /\ up' \in Seq(Commands) /\ Len(up') <= MaxLines
    <2>1. Head(up) \in Commands /\ up' \in Seq(Commands) /\ Len(up') \in Nat /\ Len(up') <= Len(up)
      BY <1>0, <1>u, TypedHead
    <2>2. \A m, n \in Nat : m <= n /\ n <= MaxLines => m <= MaxLines BY DEF MaxLines
    <2> QED BY <1>0, <2>1, <2>2
  <1>1. CASE EmitPacket
    <2>1. device' \in Devices BY <1>0, <1>1, ReportsType DEF EmitPacket
    <2>2. Packet(device') \in Lines BY <2>1, DeviceLines
    <2>3. /\ down' \in Seq(Lines) /\ Len(down') <= MaxLines
          /\ unheard' \subseteq Everything /\ (medium' = "serial" => unheard' = {})
      BY <1>1, <1>w, <2>2 DEF EmitPacket
    <2> QED BY <1>0, <1>1, <1>a, <1>z, <2>1, <2>3, Zenon DEF EmitPacket
  <1>2. CASE HandleCommand
    <2>1. Head(up) \in Commands /\ up' \in Seq(Commands) /\ Len(up') <= MaxLines BY <1>2, <1>u DEF HandleCommand
    <2>2. device' \in Devices
      <3>1. Executed(device, Head(up)) \in Devices BY <1>0, <2>1, ExecutedType
      <3> QED BY <1>2, <3>1, ReportsType DEF HandleCommand
    <2>3. /\ down' \in Seq(Lines) /\ Len(down') <= MaxLines
          /\ unheard' \subseteq Everything /\ (medium' = "serial" => unheard' = {})
      <3>0. medium' = medium BY <1>2 DEF HandleCommand
      <3>1. CASE UNCHANGED <<down, unheard>> BY <1>0, <3>0, <3>1
      <3>2. CASE Writes(StatusLine(device')) BY <1>w, <2>2, <3>0, <3>2, DeviceLines
      <3> QED BY <1>2, <3>1, <3>2 DEF HandleCommand
    <2>4. idle' \in 0 .. Slowest BY <1>0, <1>2, <1>z DEF HandleCommand
    <2> QED BY <1>0, <1>2, <1>a, <2>1, <2>2, <2>3, <2>4, Zenon DEF HandleCommand
  <1>l. CASE LoseCommand
    <2>1. up' \in Seq(Commands) /\ Len(up') <= MaxLines BY <1>l, <1>u DEF LoseCommand
    <2>2. unheard' \subseteq Everything /\ (medium' = "serial" => unheard' = {}) BY <1>0, <1>l DEF LoseCommand
    <2> QED BY <1>0, <1>l, <1>a, <2>1, <2>2, Zenon DEF LoseCommand
  <1>o. CASE OverwriteCommand
    <2>1. up # <<>> BY <1>o DEF OverwriteCommand
    <2>2. up' \in Seq(Commands) /\ Len(up') <= MaxLines BY <1>o, <1>u, <2>1 DEF OverwriteCommand
    <2> QED BY <1>0, <1>o, <1>a, <2>2, Zenon DEF OverwriteCommand
  <1>3. CASE PowerFails
    <2>1. device' \in Devices BY <1>0, <1>3 DEF PowerFails, Devices
    <2> QED BY <1>0, <1>3, <1>a, <2>1, Zenon DEF PowerFails
  <1>4. CASE Boots
    <2>1. device' \in Devices BY <1>4, BootedType, ReportsType DEF Boots
    <2>2. /\ down' \in Seq(Lines) /\ Len(down') <= MaxLines
          /\ unheard' \subseteq Everything /\ (medium' = "serial" => unheard' = {})
      <3>1. medium' = medium BY <1>4 DEF Boots
      <3>2. CASE Writes(StatusLine(device')) BY <1>w, <2>1, <3>1, <3>2, DeviceLines
      <3>3. CASE medium # "serial" /\ UNCHANGED down /\ unheard' = IF connected THEN Everything ELSE unheard
        BY <1>0, <3>1, <3>3
      <3> QED BY <1>4, <3>2, <3>3 DEF Boots
    <2> QED BY <1>0, <1>4, <1>a, <1>z, <2>1, <2>2, Zenon DEF Boots
  <1>5. CASE Tick
    <2>1. idle' \in 0 .. Slowest BY <1>0, <1>5 DEF Tick
    <2>2. age' \in {NoPacket} \cup 0 .. MaxAge BY <1>0, <1>5 DEF Tick, NoPacket
    <2> QED BY <1>0, <1>5, <1>a, <2>1, <2>2, Zenon DEF Tick
  <1>6. CASE Connects
    <2>1. events' \in Seq(Events) /\ Len(events') <= MaxEvents BY <1>6, EventTyped DEF Connects, Events
    <2>2. unheard' \subseteq Everything /\ (medium' = "serial" => unheard' = {}) BY <1>6 DEF Connects
    <2> QED BY <1>0, <1>6, <1>a, <2>1, <2>2, Zenon DEF Connects
  <1>7. CASE Disconnects
    <2>1. events' \in Seq(Events) /\ Len(events') <= MaxEvents BY <1>7, EventTyped DEF Disconnects, Events
    <2>2. \A k, m, n \in Nat : k <= m /\ m <= n => k <= n OBVIOUS
    <2>3. up' \in Seq(Commands) /\ Len(up') <= MaxLines
      <3>1. PICK n \in 0 .. Len(up) : up' = SubSeq(up, 1, n) BY <1>7 DEF Disconnects
      <3>2. up' \in Seq(Commands) /\ Len(up') <= Len(up) BY <1>0, <3>1, TypedStart
      <3>3. Len(up') \in Nat BY <3>2, LenProperties
      <3> QED BY <1>0, <2>2, <3>2, <3>3 DEF MaxLines
    <2>4. down' \in Seq(Lines) /\ Len(down') <= MaxLines
      <3>1. PICK n \in 0 .. Len(down) : down' = SubSeq(down, 1, n) BY <1>7 DEF Disconnects
      <3>2. down' \in Seq(Lines) /\ Len(down') <= Len(down) BY <1>0, <3>1, TypedStart
      <3>3. Len(down') \in Nat BY <3>2, LenProperties
      <3> QED BY <1>0, <2>2, <3>2, <3>3 DEF MaxLines
    <2>5. unheard' \subseteq Everything /\ (medium' = "serial" => unheard' = {}) BY <1>7 DEF Disconnects
    <2> QED BY <1>0, <1>7, <1>a, <2>1, <2>3, <2>4, <2>5, Zenon DEF Disconnects
  <1>m. CASE FallsMute
    <2>1. unheard' \subseteq Everything /\ (medium' = "serial" => unheard' = {}) BY <1>m DEF FallsMute
    <2> QED BY <1>0, <1>m, <1>a, <2>1, Zenon DEF FallsMute
  <1>8. CASE ProcessSerial \/ NoMoreLines \/ NoMoreEvents
    <2>1. UNCHANGED <<medium, unheard, device, idle, up, down, connected, events, asks, gui, age>> /\ phase' \in {"idle", "lines", "events"}
      BY <1>8 DEF ProcessSerial, NoMoreLines, NoMoreEvents
    <2> QED BY <1>0, <1>a, <2>1
  <1>9. ASSUME down # <<>>, down' = Tail(down) PROVE down' \in Seq(Lines) /\ Len(down') <= MaxLines /\ Head(down) \in Lines
    <2>1. Head(down) \in Lines /\ down' \in Seq(Lines) /\ Len(down') \in Nat /\ Len(down') <= Len(down)
      BY <1>0, <1>9, TypedHead
    <2>2. \A m, n \in Nat : m <= n /\ n <= MaxLines => m <= MaxLines BY DEF MaxLines
    <2> QED BY <1>0, <2>1, <2>2
  <1>10. CASE ReceivePacket
    <2>1. down' \in Seq(Lines) /\ Len(down') <= MaxLines /\ Head(down) \in Lines BY <1>9, <1>10 DEF ReceivePacket
    <2>2. gui' \in Guis BY <1>0, <1>10, <2>1, LineFacts DEF ReceivePacket, Remaining, Guis
    <2>3. age' = 0 BY <1>10 DEF ReceivePacket
    <2> QED BY <1>0, <1>10, <1>a, <1>z, <2>1, <2>2, <2>3 DEF ReceivePacket
  <1>11. CASE ReceiveStatus
    <2>1. down' \in Seq(Lines) /\ Len(down') <= MaxLines /\ Head(down) \in Lines BY <1>9, <1>11 DEF ReceiveStatus
    <2>2. gui' \in Guis
      <3>1. Head(down).paused \in BOOLEAN /\ Head(down).rate \in Rates /\ Head(down).healthy \subseteq Sensors
        BY <1>11, <2>1, LineFacts DEF ReceiveStatus
      <3> QED BY <1>0, <1>11, <3>1 DEF ReceiveStatus, Guis
    <2> QED BY <1>0, <1>11, <1>a, <2>1, <2>2 DEF ReceiveStatus
  <1>12. ASSUME events # <<>>, events' = Tail(events) PROVE events' \in Seq(Events) /\ Len(events') <= MaxEvents
    <2>1. events' \in Seq(Events) /\ Len(events') \in Nat /\ Len(events') <= Len(events) BY <1>0, <1>12, TypedHead
    <2>2. \A m, n \in Nat : m <= n /\ n <= MaxEvents => m <= MaxEvents BY DEF MaxEvents
    <2> QED BY <1>0, <2>1, <2>2
  <1>13. CASE OnConnect BY <1>0, <1>12, <1>13, <1>a DEF OnConnect
  <1>14. CASE OnDisconnect
    <2>1. gui' \in Guis BY <1>0, <1>14 DEF OnDisconnect, Guis
    <2> QED BY <1>0, <1>12, <1>14, <1>a, <2>1 DEF OnDisconnect
  <1>15. CASE AskStatus
    <2>1. up' \in Seq(Commands) /\ Len(up') <= MaxLines BY <1>15, SendTyped DEF AskStatus, Commands
    <2> QED BY <1>0, <1>15, <1>a, <2>1, Zenon DEF AskStatus
  <1>16. CASE SendCommand
    <2>1. up' \in Seq(Commands) /\ Len(up') <= MaxLines BY <1>16, SendTyped DEF SendCommand, Commands
    <2> QED BY <1>0, <1>16, <1>a, <2>1, Zenon DEF SendCommand
  <1>17. CASE UNCHANGED vars BY <1>0, <1>17, <1>a DEF vars
  <1> QED
    BY <1>1, <1>2, <1>l, <1>o, <1>3, <1>4, <1>5, <1>6, <1>7, <1>m, <1>8, <1>10, <1>11, <1>13, <1>14, <1>15,
       <1>16, <1>17
       DEF Next

-----------------------------------------------------------------------------
(* The connection is informed. *)

LEMMA HonestInductive == Typed /\ EventsHonest /\ [Next]_vars => EventsHonest'
  <1> SUFFICES ASSUME Typed, EventsHonest, [Next]_vars PROVE EventsHonest'
    OBVIOUS
  <1> DEFINE Events == {"CONNECTED", "DISCONNECTED"}
  <1>0. events \in Seq(Events) BY DEF Typed, QueuesTyped
  <1>1. ASSUME UNCHANGED <<connected, events>> PROVE EventsHonest' BY <1>1 DEF EventsHonest
  <1>2. CASE Connects
    <2>1. events' = Append(events, "CONNECTED") BY <1>2 DEF Connects
    <2>2. events'[Len(events')] = "CONNECTED" BY <1>0, <2>1, TypedAppend
    <2> QED BY <2>2 DEF EventsHonest
  <1>3. CASE Disconnects BY <1>3 DEF Disconnects, EventsHonest
  <1>4. CASE OnConnect \/ OnDisconnect
    <2>1. events # <<>> /\ events' = Tail(events) /\ connected' = connected
      BY <1>4 DEF OnConnect, OnDisconnect
    <2>2. /\ Len(events) \in Nat /\ Len(events') \in Nat /\ Len(events') = Len(events) - 1
          /\ \A i \in 1 .. Len(events') : events'[i] = events[i + 1] /\ events' \in Seq(Events)
      BY <1>0, <2>1, TypedHead
    <2>3. ASSUME events' # <<>> PROVE events'[Len(events')] = events[Len(events)]
      <3>1. Len(events') # 0 BY <2>1, <2>3, <1>0, EmptySeq, TypedHead
      <3>2. \A m, n \in Nat : n = m - 1 /\ n # 0 => n \in 1 .. n /\ n + 1 = m OBVIOUS
      <3>3. Len(events') \in 1 .. Len(events') /\ Len(events') + 1 = Len(events) BY <2>2, <3>1, <3>2, Zenon
      <3> QED BY <2>2, <3>3
    <2> QED BY <2>1, <2>3 DEF EventsHonest
  <1>5. CASE ~Connects /\ ~Disconnects /\ ~OnConnect /\ ~OnDisconnect
    BY <1>1, <1>5
       DEF Next, EmitPacket, HandleCommand, LoseCommand, OverwriteCommand, PowerFails, Boots, Tick,
           FallsMute, ProcessSerial, NoMoreLines, NoMoreEvents,
           ReceivePacket, ReceiveStatus, AskStatus, SendCommand, link, vars
  <1> QED BY <1>2, <1>3, <1>4, <1>5

(* A STATUS line informs, whatever is in front of it, or leaves everything  *)
(* unheard.                                                                 *)
LEMMA StatusInforms ==
    ASSUME Typed, device' \in Devices, connected, Writes(StatusLine(device'))
    PROVE  Informed'
  <1> DEFINE n == Len(down)
             line == StatusLine(device')
  <1>1. /\ line.kind = "STATUS" /\ line.paused = device'.paused /\ line.rate = device'.rate
        /\ line.healthy = device'.healthy
    BY DEF StatusLine
  <1>2. CASE down' = Append(down, line)
    <2>1. down \in Seq(Lines) /\ line \in Lines BY DeviceLines DEF Typed, QueuesTyped
    <2>2. /\ n \in Nat /\ DOMAIN down' = 1 .. n + 1 /\ down'[n + 1] = line /\ Len(down') = n + 1 /\ down' # <<>>
      BY <1>2, <2>1, TypedAppend
    <2> HIDE DEF n, line
    <2>3. n + 1 \in DOMAIN down' /\ \A j \in DOMAIN down' : ~(j > n + 1)
      <3>1. \A m \in Nat : m + 1 \in 1 .. m + 1 /\ \A j \in 1 .. m + 1 : ~(j > m + 1) OBVIOUS
      <3> QED BY <2>2, <3>1, Zenon
    <2>4. SettingsKnown' BY <1>1, <2>2, <2>3 DEF SettingsKnown
    <2>5. HealthKnown' BY <1>1, <2>2 DEF HealthKnown
    <2> QED BY <2>4, <2>5 DEF Informed
  <1>3. CASE unheard' = unheard \cup Told(line)
    <2>1. "settings" \in unheard' /\ "health" \in unheard' BY <1>1, <1>3 DEF Told, Everything
    <2> QED BY <2>1 DEF Informed
  <1> QED BY <1>2, <1>3 DEF Writes

(* What is known of the settings survives a packet at the end of the queue. *)
LEMMA PacketKeepsSettings ==
    ASSUME SettingsKnown, NEW line \in Lines, line.kind # "STATUS", down \in Seq(Lines),
           down' = Append(down, line), gui' = gui, device'.paused = device.paused, device'.rate = device.rate
    PROVE  SettingsKnown'
  <1> DEFINE n == Len(down)
  <1>1. /\ n \in Nat /\ DOMAIN down = 1 .. n /\ DOMAIN down' = 1 .. n + 1 /\ down'[n + 1] = line
        /\ \A i \in 1 .. n : down'[i] = down[i]
    BY TypedAppend
  <1> HIDE DEF n
  <1>2. \A m \in Nat : \A j \in 1 .. m + 1 : j \in 1 .. m \/ j = m + 1 OBVIOUS
  <1>3. \A m \in Nat : \A j \in 1 .. m : j \in 1 .. m + 1 OBVIOUS
  <1>4. \A j \in DOMAIN down' : down'[j].kind # "STATUS" \/ (j \in DOMAIN down /\ down'[j] = down[j])
    BY <1>1, <1>2
  <1>5. CASE SettingsShown /\ \A j \in DOMAIN down : down[j].kind # "STATUS"
    BY <1>4, <1>5 DEF SettingsKnown, SettingsShown
  <1>6. ASSUME NEW i \in DOMAIN down,
               down[i].kind = "STATUS" /\ down[i].paused = device.paused /\ down[i].rate = device.rate,
               \A j \in DOMAIN down : j > i => down[j].kind # "STATUS"
        PROVE  SettingsKnown'
    <2>1. i \in DOMAIN down' /\ down'[i] = down[i] BY <1>1, <1>3, <1>6
    <2>2. \A j \in DOMAIN down' : j > i => down'[j].kind # "STATUS" BY <1>4, <1>6
    <2> QED BY <1>6, <2>1, <2>2 DEF SettingsKnown
  <1> QED BY <1>5, <1>6 DEF SettingsKnown

(* A packet at the end of the queue tells the health and nothing else.      *)
LEMMA PacketInforms ==
    ASSUME Typed, Informed, connected, device' \in Reports(device), gui' = gui, Writes(Packet(device'))
    PROVE  Informed'
  <1> DEFINE line == Packet(device')
  <1>1. down \in Seq(Lines) /\ device \in Devices BY DEF Typed, QueuesTyped, StationTypeOK, Devices
  <1>2. device' \in Devices /\ device'.paused = device.paused /\ device'.rate = device.rate BY <1>1, ReportsType
  <1>3. line \in Lines /\ line.kind # "STATUS" /\ line.healthy = device'.healthy /\ Told(line) = {"health"}
    BY <1>2, DeviceLines DEF Packet, Told
  <1>4. CASE down' = Append(down, line) /\ unheard' = unheard \ Told(line)
    <2>1. Len(down') = Len(down) + 1 /\ down' # <<>> /\ down'[Len(down')] = line BY <1>1, <1>3, <1>4, TypedAppend
    <2>2. HealthKnown' BY <1>3, <2>1 DEF HealthKnown
    <2>3. "settings" \notin unheard' => "settings" \notin unheard BY <1>3, <1>4
    <2> HIDE DEF line
    <2>4. SettingsKnown => SettingsKnown' BY <1>1, <1>2, <1>3, <1>4, PacketKeepsSettings
    <2> QED BY <2>2, <2>3, <2>4 DEF Informed
  <1>5. CASE UNCHANGED down /\ unheard' = unheard \cup Told(line)
    <2>1. "health" \in unheard' /\ ("settings" \notin unheard' => "settings" \notin unheard) BY <1>3, <1>5
    <2>2. SettingsKnown => SettingsKnown' BY <1>2, <1>5 DEF SettingsKnown, SettingsShown
    <2> QED BY <2>1, <2>2 DEF Informed
  <1> QED BY <1>4, <1>5 DEF Writes

(* What the window takes from the first line of the queue.                  *)
LEMMA LineInforms ==
    ASSUME Typed, Informed, ReceivePacket \/ ReceiveStatus
    PROVE  Informed'
  <1> DEFINE first == Head(down)
  <1>1. down \in Seq(Lines) /\ down # <<>> /\ down' = Tail(down) /\ device' = device /\ unheard' = unheard
    BY DEF Typed, QueuesTyped, ReceivePacket, ReceiveStatus
  <1>2. /\ Len(down) \in Nat \ {0} /\ Len(down') \in Nat /\ Len(down') = Len(down) - 1
        /\ DOMAIN down = 1 .. Len(down) /\ DOMAIN down' = 1 .. Len(down')
        /\ \A i \in 1 .. Len(down') : down'[i] = down[i + 1] /\ first = down[1]
    BY <1>1, TypedHead
  <1>3. first = down[1] /\ first \in Lines /\ down' \in Seq(Lines) BY <1>1, TypedHead
  <1>4. 1 \in DOMAIN down /\ \A i \in DOMAIN down' : i + 1 \in DOMAIN down /\ down'[i] = down[i + 1]
    <2>1. \A m, n \in Nat : m # 0 /\ n = m - 1 => 1 \in 1 .. m /\ \A i \in 1 .. n : i + 1 \in 1 .. m OBVIOUS
    <2>2. Len(down) \in Nat /\ Len(down) # 0 BY <1>2
    <2>3. 1 \in 1 .. Len(down) /\ \A i \in 1 .. Len(down') : i + 1 \in 1 .. Len(down)
      BY <1>2, <2>1, <2>2, Zenon
    <2> QED BY <1>2, <2>3, Zenon
  <1>g. gui \in [paused : BOOLEAN, rate : Rates, values : SUBSET Sensors,
                 health : [Sensors -> {"UNKNOWN", "OK", "FAULT"}]]
    BY DEF Typed, StationTypeOK
  <1>5. gui'.health = [x \in Sensors |-> IF x \in first.healthy THEN "OK" ELSE "FAULT"]
    BY <1>g DEF ReceivePacket, ReceiveStatus
  <1>6. first.kind = "STATUS" => gui'.paused = first.paused /\ gui'.rate = first.rate
    BY <1>g DEF ReceivePacket, ReceiveStatus
  <1>7. first.kind # "STATUS" => gui'.paused = gui.paused /\ gui'.rate = gui.rate
    BY <1>g DEF ReceivePacket, ReceiveStatus
  <1> HIDE DEF first
  <1>8. SettingsKnown => SettingsKnown'
    <2>1. CASE SettingsShown /\ \A j \in DOMAIN down : down[j].kind # "STATUS"
      <3>1. SettingsShown' BY <1>1, <1>3, <1>4, <1>7, <2>1 DEF SettingsShown
      <3>2. \A j \in DOMAIN down' : down'[j].kind # "STATUS" BY <1>4, <2>1
      <3> QED BY <3>1, <3>2 DEF SettingsKnown
    <2>2. ASSUME NEW i \in DOMAIN down,
                 down[i].kind = "STATUS" /\ down[i].paused = device.paused /\ down[i].rate = device.rate,
                 \A j \in DOMAIN down : j > i => down[j].kind # "STATUS"
          PROVE  SettingsKnown'
      <3>1. CASE i = 1
        <4>1. SettingsShown' BY <1>1, <1>3, <1>6, <2>2, <3>1 DEF SettingsShown
        <4>2. \A m \in Nat : \A j \in 1 .. m : j + 1 > 1 OBVIOUS
        <4>3. \A j \in DOMAIN down' : j + 1 > 1 BY <1>2, <4>2, Zenon
        <4>4. \A j \in DOMAIN down' : down'[j].kind # "STATUS" BY <1>4, <2>2, <3>1, <4>3
        <4> QED BY <4>1, <4>4 DEF SettingsKnown
      <3>2. CASE i # 1
        <4>1. i - 1 \in DOMAIN down' /\ (i - 1) + 1 = i
          <5>1. \A m, n \in Nat : n = m - 1 => \A k \in 1 .. m : k # 1 => k - 1 \in 1 .. n /\ (k - 1) + 1 = k OBVIOUS
          <5>2. Len(down) \in Nat BY <1>2
          <5> QED BY <1>2, <3>2, <5>1, <5>2, Zenon
        <4>2. down'[i - 1] = down[i] BY <1>4, <4>1
        <4>3. \A j \in DOMAIN down' : j > i - 1 => j + 1 > i
          <5>1. \A m, n \in Nat : \A k \in 1 .. m : \A j \in 1 .. n : j > k - 1 => j + 1 > k OBVIOUS
          <5>2. Len(down) \in Nat BY <1>2
          <5> QED BY <1>2, <5>1, <5>2, Zenon
        <4>4. \A j \in DOMAIN down' : j > i - 1 => down'[j].kind # "STATUS" BY <1>4, <2>2, <4>3
        <4> QED BY <1>1, <2>2, <4>1, <4>2, <4>4 DEF SettingsKnown
      <3> QED BY <3>1, <3>2
    <2> QED BY <2>1, <2>2 DEF SettingsKnown
  <1>9. HealthKnown => HealthKnown'
    <2>0. SUFFICES ASSUME HealthKnown PROVE HealthKnown' OBVIOUS
    <2>1. down[Len(down)].healthy = device.healthy BY <1>1, <2>0 DEF HealthKnown
    <2>2. CASE down' = <<>>
      <3>1. Len(down) = 1
        <4>1. Len(down') = 0 BY <2>2
        <4>2. \A m \in Nat : 0 = m - 1 => m = 1 OBVIOUS
        <4> QED BY <1>2, <4>1, <4>2
      <3>2. first.healthy = device.healthy BY <1>3, <2>1, <3>1
      <3> QED BY <1>1, <1>5, <2>2, <3>2 DEF HealthKnown, HealthShown
    <2>3. CASE down' # <<>>
      <3>1. Len(down') # 0 BY <1>3, <2>3, EmptySeq
      <3>2. \A m, n \in Nat : n = m - 1 /\ n # 0 => n \in 1 .. n /\ n + 1 = m OBVIOUS
      <3>3. Len(down') \in 1 .. Len(down') /\ Len(down') + 1 = Len(down) BY <1>2, <3>1, <3>2, Zenon
      <3>4. down'[Len(down')] = down[Len(down)] BY <1>2, <3>3
      <3> QED BY <1>1, <2>1, <2>3, <3>4 DEF HealthKnown
    <2> QED BY <2>2, <2>3
  <1> QED BY <1>1, <1>8, <1>9 DEF Informed

LEMMA InformedInductive ==
    ASSUME StationInv, [Next]_vars
    PROVE  InformedInTheEnd'
  <1> SUFFICES ASSUME NothingToCome' PROVE Informed'
    BY DEF InformedInTheEnd
  <1>0. /\ Typed /\ EventsHonest /\ InformedInTheEnd /\ Typed'
        /\ connected' /\ device'.up /\ events' = <<>> /\ ~asks' /\ up' = <<>>
        /\ up \in Seq(Commands) /\ events \in Seq({"CONNECTED", "DISCONNECTED"})
        /\ device' \in Devices
    BY TypedInductive DEF StationInv, Typed, NothingToCome, QueuesTyped, StationTypeOK, Devices
  <1>t. device \in Devices BY <1>0 DEF Typed, StationTypeOK, Devices
  <1>e. unheard' = Everything => Informed' BY DEF Everything, Informed
  <1>1. CASE EmitPacket
    <2>0. device' \in Reports(device) /\ device'.up = device.up BY <1>1, <1>t, ReportsType DEF EmitPacket
    <2>1. NothingToCome /\ Writes(Packet(device')) /\ gui' = gui
      BY <1>0, <1>1, <2>0 DEF EmitPacket, NothingToCome, link
    <2>2. Informed /\ connected BY <1>0, <2>1 DEF InformedInTheEnd, NothingToCome
    <2> QED BY <1>0, <2>0, <2>1, <2>2, PacketInforms
  <1>2. CASE HandleCommand
    <2>1. Writes(StatusLine(device')) /\ connected BY <1>0, <1>2 DEF HandleCommand, link
    <2> QED BY <1>0, <2>1, StatusInforms
  <1>l. CASE LoseCommand
    <2>1. medium # "serial"
      <3>1. device'.up = device.up BY <1>l DEF LoseCommand
      <3> QED BY <1>0, <1>l, <3>1 DEF LoseCommand, Mute
    <2> QED BY <1>e, <1>l, <2>1 DEF LoseCommand
  <1>o. CASE OverwriteCommand
    \* The command after it is still to come.
    <2>1. up' = Tail(up) /\ up # <<>> /\ Len(up) >= 2 BY <1>o DEF OverwriteCommand
    <2>2. Len(up) \in Nat /\ Len(up') = Len(up) - 1 BY <1>0, <2>1, TypedHead
    <2>3. Len(up') = 0 BY <1>0
    <2>4. \A m \in Nat : m >= 2 => m - 1 # 0 OBVIOUS
    <2> QED BY <2>1, <2>2, <2>3, <2>4
  <1>3. CASE Boots
    <2>1. connected BY <1>0, <1>3 DEF Boots, link
    <2>2. CASE medium = "serial" BY <1>0, <1>3, <2>1, <2>2, StatusInforms DEF Boots
    <2>3. CASE medium # "serial" BY <1>3, <1>e, <2>1, <2>3 DEF Boots
    <2> QED BY <2>2, <2>3
  <1>m. CASE FallsMute BY <1>e, <1>m DEF FallsMute
  <1>4. CASE ReceivePacket \/ ReceiveStatus
    <2>a. UNCHANGED <<device, connected, events, asks, up>> BY <1>4 DEF ReceivePacket, ReceiveStatus, link
    <2>1. NothingToCome BY <1>0, <2>a DEF NothingToCome
    <2> QED BY <1>0, <1>4, <2>1, LineInforms DEF InformedInTheEnd
  <1>5. CASE PowerFails
    <2>1. ~device'.up BY <1>0, <1>5 DEF PowerFails, Devices, Typed, StationTypeOK
    <2> QED BY <1>0, <2>1
  <1>6. CASE Connects
    <2>1. events' = Append(events, "CONNECTED") BY <1>6 DEF Connects
    <2>2. "CONNECTED" \in {"CONNECTED", "DISCONNECTED"} OBVIOUS
    <2>3. Append(events, "CONNECTED") # <<>> BY <1>0, <2>2, TypedAppend
    <2> QED BY <1>0, <2>1, <2>3
  <1>7. CASE Disconnects BY <1>0, <1>7 DEF Disconnects
  <1>8. CASE OnConnect BY <1>0, <1>8 DEF OnConnect
  <1>9. CASE OnDisconnect
    \* Then a connection that is up had no event of its own.
    <2>1. /\ events # <<>> /\ Head(events) = "DISCONNECTED" /\ Tail(events) = <<>> /\ connected
      BY <1>0, <1>9 DEF OnDisconnect
    <2>2. Len(events) = 1 /\ Head(events) = events[1]
      <3>1. Len(events) \in Nat /\ Len(Tail(events)) = Len(events) - 1 /\ Head(events) = events[1]
        BY <1>0, <2>1, TypedHead
      <3>2. Len(<<>>) = 0 /\ \A n \in Nat : 0 = n - 1 => n = 1 OBVIOUS
      <3> QED BY <2>1, <3>1, <3>2, Zenon
    <2> QED BY <1>0, <2>1, <2>2 DEF EventsHonest
  <1>10. CASE AskStatus \/ SendCommand
    <2>1. PICK c \in Commands : Sends(c) /\ connected
      BY <1>0, <1>10 DEF AskStatus, SendCommand, Commands, link
    <2>2. up' = Append(up, c) BY <2>1 DEF Sends
    <2> QED BY <1>0, <2>1, <2>2, TypedAppend
  <1>11. CASE Tick \/ ProcessSerial \/ NoMoreLines \/ NoMoreEvents \/ UNCHANGED vars
    <2>1. UNCHANGED <<unheard, device, up, down, connected, events, asks, gui>>
      BY <1>11 DEF Tick, ProcessSerial, NoMoreLines, NoMoreEvents, vars, link
    <2>2. Informed BY <1>0, <2>1 DEF InformedInTheEnd, NothingToCome
    <2>3. SettingsKnown' = SettingsKnown /\ HealthKnown' = HealthKnown
      BY <2>1 DEF SettingsKnown, SettingsShown, HealthKnown, HealthShown
    <2> QED BY <2>1, <2>2, <2>3 DEF Informed
  <1> QED
    BY <1>1, <1>2, <1>l, <1>o, <1>3, <1>m, <1>4, <1>5, <1>6, <1>7, <1>8, <1>9, <1>10, <1>11 DEF Next

-----------------------------------------------------------------------------
LEMMA StationInitial == Init => StationInv
  <1> SUFFICES ASSUME Init PROVE StationInv
    OBVIOUS
  <1>1. Typed BY TypedInitial
  <1>2. EventsHonest /\ InformedInTheEnd BY DEF Init, EventsHonest, InformedInTheEnd, NothingToCome
  <1> QED BY <1>1, <1>2 DEF StationInv, Typed

LEMMA StationInductive == StationInv /\ [Next]_vars => StationInv'
  <1>1. StationInv /\ [Next]_vars => Typed' /\ EventsHonest' BY TypedInductive, HonestInductive DEF StationInv, Typed
  <1>2. StationInv /\ [Next]_vars => InformedInTheEnd' BY InformedInductive
  <1> QED BY <1>1, <1>2 DEF StationInv, Typed

THEOREM StationInvariant == Spec => []StationInv
  BY StationInitial, StationInductive, PTL DEF Spec

(* The window's fields, the queues' lengths and the device keep their types.*)
THEOREM StationTypeCorrect == Spec => []StationTypeOK
  <1>1. StationInv => StationTypeOK BY DEF StationInv
  <1> QED BY <1>1, StationInvariant, PTL

(* Once all lines and events are handled the window shows the pause and the *)
(* rate of the device and the health it last reported, whatever was         *)
(* connected, sent and restarted before: on_connect() asks, setup()         *)
(* announces on the serial port, every command is answered.  Over WiFi this *)
(* ends with a restart or a lost line and begins again with the next line   *)
(* that tells the same.                                                     *)
THEOREM WindowShowsTheDevice == Spec => []ShowsTheDevice
  <1>1. StationInv => ShowsTheDevice
    <2> SUFFICES ASSUME StationInv, Quiet
                 PROVE  /\ "settings" \notin unheard => gui.paused = device.paused /\ gui.rate = device.rate
                        /\ "health" \notin unheard =>
                             \A x \in Sensors : gui.health[x] = (IF x \in device.healthy THEN "OK" ELSE "FAULT")
      BY DEF ShowsTheDevice
    <2>1. down = <<>> /\ NothingToCome BY DEF Quiet, Handled, NothingToCome
    <2>2. DOMAIN down = {} BY <2>1
    <2>3. Informed BY <2>1 DEF StationInv, InformedInTheEnd
    <2>4. "settings" \notin unheard => SettingsShown BY <2>2, <2>3 DEF Informed, SettingsKnown
    <2>5. "health" \notin unheard => HealthShown BY <2>1, <2>3 DEF Informed, HealthKnown
    <2> QED BY <2>4, <2>5 DEF SettingsShown, HealthShown
  <1> QED BY <1>1, StationInvariant, PTL

(* The packet that reports a sensor FAULT leaves none of its values in      *)
(* latest_data.                                                             *)
THEOREM FaultsRemoveValues == Spec => PacketRemovesValues
  <1>1. StationInv /\ [Next]_vars => [PacketRemovesValuesStep]_vars
    <2> SUFFICES ASSUME StationInv, Next, down # <<>>, down' = Tail(down), UNCHANGED connected,
                        Head(down).kind = "TEL"
                 PROVE  NoValuesInFault'
      BY DEF PacketRemovesValuesStep
    <2>1. down \in Seq(Lines) /\ device' \in Devices /\ device \in Devices
      BY TypedInductive DEF StationInv, Typed, QueuesTyped, StationTypeOK, Devices
    <2>2. ReceivePacket
      <3>1. down' # down BY <2>1, TypedHead
      <3>2. ASSUME NEW line \in Lines PROVE ~Writes(line)
        <4>1. down' # Append(down, line) BY <2>1, TypedAppend
        <4> QED BY <3>1, <4>1 DEF Writes
      <3>3. ~EmitPacket /\ ~HandleCommand /\ ~Boots
        <4>1. ~Writes(StatusLine(device')) /\ ~Writes(Packet(device')) BY <2>1, <3>2, DeviceLines
        <4> QED BY <3>1, <4>1 DEF EmitPacket, HandleCommand, Boots
      <3>6. ~LoseCommand /\ ~OverwriteCommand /\ ~FallsMute
        BY <3>1 DEF LoseCommand, OverwriteCommand, FallsMute
      <3>4. ~Connects /\ ~Disconnects BY DEF Connects, Disconnects
      <3>5. ~ReceiveStatus BY DEF ReceiveStatus
      <3> QED
        BY <3>1, <3>3, <3>4, <3>5, <3>6
           DEF Next, PowerFails, Tick, ProcessSerial, NoMoreLines, NoMoreEvents, OnConnect, OnDisconnect,
               AskStatus, SendCommand
    <2>3. gui \in [paused : BOOLEAN, rate : Rates, values : SUBSET Sensors,
                   health : [Sensors -> {"UNKNOWN", "OK", "FAULT"}]]
      BY DEF StationInv, StationTypeOK
    <2>4. /\ gui'.health = [x \in Sensors |-> IF x \in Head(down).healthy THEN "OK" ELSE "FAULT"]
          /\ gui'.values = (gui.values \cap Head(down).healthy) \cup Head(down).healthy
      BY <2>2, <2>3 DEF ReceivePacket, Remaining
    <2> QED BY <2>4 DEF NoValuesInFault
  <1> QED BY <1>1, StationInvariant, PTL DEF Spec, PacketRemovesValues
=============================================================================
