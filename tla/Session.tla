------------------------------ MODULE Session ------------------------------
(***************************************************************************)
(* A recorded session of the ground station: the TelemetryLogger            *)
(* (ground_station/logger.py) and the TelemetryStats (ground_station/       *)
(* stats.py) that the window (ground_station/app.py) feeds with the lines   *)
(* and events of its link, and stops, starts and resets on buttons.         *)
(*                                                                          *)
(* Everything but the reader runs on the GUI thread, so that a handler is an *)
(* action; an exception ends a handler, and the call of process_serial() it *)
(* is in, where it is raised, and the program goes on.  Exceptions come     *)
(* from the disk, which fills up and is emptied: a row is in the buffer of  *)
(* its file before flush() fails, and a later flush() writes it; or from    *)
(* the window, which asks its manager for an attribute that one of the four *)
(* lacks.                                                                   *)
(*                                                                          *)
(* Of the managers, which modules SerialManager to DemoSerialManager have   *)
(* in full, there is what the window reads, connected, and the queues, with *)
(* the two threads that change them: the window's own, and the reader's (or *)
(* that of the library the broker's manager uses).                          *)
(*                                                                          *)
(* Files carry the second of their session's start and are opened with "w". *)
(* Packets are reduced to one environmental and one motion value; sequence  *)
(* numbers are in module PacketStats, what is shown in GroundStation.       *)
(***************************************************************************)
EXTENDS Integers, Sequences, SequencesExt

CONSTANTS
    Managers,  \* the managers the window may be given
    Packets,   \* intact packets: records of temp and motion, NoValue where absent
    MaxInputs, \* bound: lines, link events and commands
    MaxSecond, \* bound: seconds
    DiskFills  \* whether the disk may be full

ASSUME ManagersAssumption == Managers \subseteq {"serial", "tcp", "mqtt", "demo"}

NoValue == 0 \* None; values are positive
ASSUME PacketsAssumption == Packets \subseteq [temp : Nat, motion : Nat]
ASSUME BoundsAssumption == MaxInputs \in Nat /\ MaxSecond \in Nat /\ DiskFills \in BOOLEAN

VARIABLES
    link,   \* connected, what each thread is doing to it, the two queues; history: `last`, how
            \* the last change of it was told
    stats,  \* the TelemetryStats
    logger, \* the TelemetryLogger: logging_enabled, session_id, the files open and their buffers
    disk,   \* of each second, the files that carry it
    world,  \* the second, whether the disk is full, the inputs so far, the manager
    window, \* what the widgets show and allow; the loop process_serial() is in, "ended" at last
    record  \* history: of each second, what its files should hold

vars == <<link, stats, logger, disk, world, window, record>>

Seconds == 0 .. MaxSecond
Threads == {"gui", "reader"}
MaxQueue == 2 \* bound: lines, and events, in the queues
Damaged == [temp |-> -1, motion |-> -1] \* a line "TEL,..." that parse_telemetry() rejects
NoSummary == [total |-> -1]
NoFile == [rows |-> <<>>, notes |-> <<>>, summary |-> NoSummary]
NewRecord == [rows |-> <<>>, notes |-> <<>>, failed |-> {}, ended |-> FALSE,
              reset |-> FALSE, spoiled |-> FALSE, lost |-> FALSE, kept |-> 0]

NewStats == [total |-> 0, malformed |-> 0, connections |-> 0,
             least |-> NoValue, most |-> NoValue, peak |-> 0]

Init ==
    /\ link = [connected |-> FALSE, doing |-> [t \in Threads |-> ""], lines |-> <<>>,
               events |-> <<>>, last |-> "told"]
    /\ stats = NewStats
    /\ logger = [enabled |-> FALSE, id |-> 0, open |-> {}, rows |-> <<>>, notes |-> <<>>]
    /\ disk = [s \in Seconds |-> NoFile]
    /\ \E manager \in Managers :
          world = [second |-> 0, full |-> FALSE, inputs |-> 0, manager |-> manager]
    /\ window = [phase |-> "idle", controls |-> FALSE, canLog |-> FALSE,
                 connect |-> "Connect", logging |-> "Start Logging"]
    /\ record = [s \in Seconds |-> NewRecord]

-----------------------------------------------------------------------------
(* TelemetryLogger: each operator gives the logger and the disk after a     *)
(* method, and whether it raised.                                           *)

Now == [log |-> logger, disk |-> disk, raised |-> FALSE]

(* Buffers are written by flush(), and by close(). *)
Flushed(s) ==
    LET id == s.log.id
    IN  [s EXCEPT !.disk[id].rows = @ \o s.log.rows, !.disk[id].notes = @ \o s.log.notes,
                  !.log.rows = <<>>, !.log.notes = <<>>]
FlushedRows(s) == [s EXCEPT !.disk[s.log.id].rows = @ \o s.log.rows, !.log.rows = <<>>]
FlushedNotes(s) == [s EXCEPT !.disk[s.log.id].notes = @ \o s.log.notes, !.log.notes = <<>>]

(* Mutant of LogTelemetry: no flush() after a row. *)
LogTelemetryBuffered(s, packet) ==
    IF s.log.enabled THEN [s EXCEPT !.log.rows = Append(@, packet)] ELSE s

LogTelemetry(s, packet) ==
    LET written == [s EXCEPT !.log.rows = Append(@, packet)]
    IN  IF ~s.log.enabled THEN s
        ELSE IF "telemetry" \notin s.log.open THEN [s EXCEPT !.raised = TRUE]
        ELSE IF world.full THEN [written EXCEPT !.raised = TRUE] ELSE FlushedRows(written)

LogEvent(s, note) ==
    LET written == [s EXCEPT !.log.notes = Append(@, note)]
    IN  IF ~s.log.enabled THEN s
        ELSE IF world.full THEN [written EXCEPT !.raised = TRUE] ELSE FlushedNotes(written)

(* start(): open() of either file may fail on a full disk; where both       *)
(* succeed it is the note that fails, with logging enabled.                 *)
Opened(files) ==
    [log |-> [enabled |-> files = {"telemetry", "events"}, id |-> world.second,
              open |-> logger.open \cup files, rows |-> <<>>, notes |-> <<>>],
     disk |-> IF files = {} THEN disk
              ELSE [disk EXCEPT ![world.second].rows = <<>>,
                                ![world.second].notes = IF "events" \in files THEN <<>>
                                                          ELSE disk[world.second].notes],
     raised |-> files # {"telemetry", "events"}]
Starts ==
    { LogEvent(Opened({"telemetry", "events"}), "SESSION_START") }
    \cup { Opened(files) : files \in IF world.full THEN {{}, {"telemetry"}} ELSE {} }

Summary == [total |-> stats.total, malformed |-> stats.malformed, connections |-> stats.connections,
            least |-> stats.least, most |-> stats.most, peak |-> stats.peak]

(* Mutant of Closed: logging_enabled is not reset. *)
ClosedEnabled(s) == [Flushed(s) EXCEPT !.disk[logger.id].summary = Summary, !.log.open = {}]

(* stop(): the note, the summary, the files.  The note may take the last    *)
(* room there is, and leave the summary none.                               *)
Closed(s) == [Flushed(s) EXCEPT !.disk[logger.id].summary = Summary,
                                !.log.enabled = FALSE, !.log.open = {}]
Unsummed(s) == [s EXCEPT !.disk[logger.id].summary = NoSummary, !.raised = TRUE]

(* Or the summary, and leave none to close(), which closes the file of      *)
(* telemetry all the same: what was in its buffer, rows or the header, is   *)
(* lost, and logging stays on.  The buffer of the notes has been flushed.   *)
Buffered(s) == "telemetry" \in s.log.open /\ (s.log.rows # <<>> \/ s.disk[s.log.id].rows = <<>>)
HalfClosed(s) == [s EXCEPT !.disk[logger.id].summary = Summary, !.raised = TRUE,
                           !.log.rows = <<>>, !.log.open = {"events"}]
Stops ==
    LET noted == LogEvent(Now, "SESSION_END")
    IN  IF noted.raised THEN {noted}
        ELSE { Closed(noted) }
             \cup (IF DiskFills THEN { Unsummed(noted) } ELSE {})
             \cup (IF DiskFills /\ Buffered(noted) THEN { HalfClosed(noted) } ELSE {})

-----------------------------------------------------------------------------
(* History: what the user has a right to find, in the files of the last     *)
(* session of each second: the packets and notes handled while the button   *)
(* says "Stop Logging".  `failed` names the files whose last write failed;  *)
(* `kept` counts the packets up to the last one that was logged without an  *)
(* exception.  A session is spoiled when its start fails, and has lost rows *)
(* when close() fails within its stop().                                    *)

Recording == window.logging = "Stop Logging"
Fails(file, s) == IF s.raised THEN {file} ELSE {}
RecordedRow(packet, s) ==
    LET told == record[logger.id]
        rows == Append(told.rows, packet)
        next == [told EXCEPT !.rows = rows, !.failed = (@ \ {"rows"}) \cup Fails("rows", s),
                             !.kept = IF s.raised THEN @ ELSE Len(rows)]
    IN  IF Recording THEN [record EXCEPT ![logger.id] = next] ELSE record
RecordedNote(note, s) ==
    LET told == record[logger.id]
        next == [told EXCEPT !.notes = Append(@, note), !.failed = (@ \ {"notes"}) \cup Fails("notes", s)]
    IN  IF Recording THEN [record EXCEPT ![logger.id] = next] ELSE record
RecordedStart(s) ==
    [record EXCEPT ![world.second] = [NewRecord EXCEPT !.notes = <<"SESSION_START">>, !.spoiled = s.raised]]
StillFailed(s) ==
    IF ~s.raised THEN {}
    ELSE IF world.full THEN record[logger.id].failed \cup {"notes"}
    ELSE record[logger.id].failed \ {"notes"}
RecordedStop(s) ==
    LET told == record[logger.id]
        next == [told EXCEPT !.notes = Append(@, "SESSION_END"), !.failed = StillFailed(s),
                             !.ended = ~s.raised,
                             !.lost = @ \/ (s.log.enabled /\ "telemetry" \notin s.log.open)]
    IN  [record EXCEPT ![logger.id] = next]

Keeps(s) == logger' = s.log /\ disk' = s.disk

(* The loop that process_serial() goes on in, after a line or an event.     *)
PhaseAfter(s) == IF s.raised THEN "idle" ELSE window.phase

-----------------------------------------------------------------------------
(* The link.  Each thread opens and loses it in steps, and connected and    *)
(* the event that tells of its change are two of them: a thread of doing    *)
(* "CONNECTED" or "DISCONNECTED" has changed connected and owes that event. *)

Inputs == world.inputs < MaxInputs /\ world' = [world EXCEPT !.inputs = @ + 1]

Free(thread) == link.doing[thread] = "" /\ (thread = "gui" => window.phase = "idle")

(* How a change of connected will be told: by this thread's event; by two   *)
(* that say different things, in either order; by none.                     *)
Telling(thread, event) ==
    IF \E other \in Threads \ {thread} : link.doing[other] \in {"CONNECTED", "DISCONNECTED"} \ {event}
    THEN "crossed" ELSE "told"
Untold == IF link.connected THEN "silent" ELSE link.last

(* connect() and the reader's loop look at connected before they open;      *)
(* meanwhile the other thread may have opened.                              *)
LinkTries(thread) ==
    /\ Inputs /\ Free(thread) /\ ~link.connected
    /\ link' = [link EXCEPT !.doing[thread] = "opening"]
    /\ UNCHANGED <<stats, logger, disk, window, record>>

LinkOpens(thread) ==
    /\ link.doing[thread] = "opening"
    /\ link' = [link EXCEPT !.connected = TRUE, !.doing[thread] = "CONNECTED",
                            !.last = Telling(thread, "CONNECTED")]
    /\ UNCHANGED <<stats, logger, disk, world, window, record>>

(* A port that does not open: connected is reset, whoever had set it; not   *)
(* so by the broker's manager, whose reader is not the one that opens.      *)
LinkRefused(thread) ==
    /\ link.doing[thread] = "opening"
    /\ link' = IF world.manager = "mqtt" THEN [link EXCEPT !.doing[thread] = "ERROR"]
               ELSE [link EXCEPT !.connected = FALSE, !.doing[thread] = "ERROR", !.last = Untold]
    /\ UNCHANGED <<stats, logger, disk, world, window, record>>

(* _connection_lost() and disconnect(): whether it was connected, then that *)
(* it is not.                                                               *)
LinkFails(thread) ==
    /\ Inputs /\ Free(thread)
    /\ link' = [link EXCEPT !.doing[thread] = IF link.connected THEN "was up" ELSE "was down"]
    /\ UNCHANGED <<stats, logger, disk, window, record>>

LinkCloses(thread) ==
    /\ \/ /\ link.doing[thread] = "was up"
          /\ link' = [link EXCEPT !.connected = FALSE, !.doing[thread] = "DISCONNECTED",
                                  !.last = Telling(thread, "DISCONNECTED")]
       \/ /\ link.doing[thread] = "was down"
          /\ link' = [link EXCEPT !.connected = FALSE, !.doing[thread] = "", !.last = Untold]
    /\ UNCHANGED <<stats, logger, disk, world, window, record>>

LinkTells(thread) ==
    /\ link.doing[thread] \in {"CONNECTED", "DISCONNECTED", "ERROR"} /\ Len(link.events) < MaxQueue
    /\ link' = [link EXCEPT !.doing[thread] = "", !.events = Append(@, link.doing[thread])]
    /\ UNCHANGED <<stats, logger, disk, world, window, record>>

(* A read or a write that fails puts its error first.                       *)
LinkErrs ==
    /\ Inputs /\ Len(link.events) < MaxQueue /\ link' = [link EXCEPT !.events = Append(@, "ERROR")]
    /\ UNCHANGED <<stats, logger, disk, window, record>>

LineArrives ==
    /\ Inputs /\ link.connected /\ Len(link.lines) < MaxQueue
    /\ \E line \in Packets \cup {Damaged} : link' = [link EXCEPT !.lines = Append(@, line)]
    /\ UNCHANGED <<stats, logger, disk, window, record>>

SecondPasses ==
    /\ world.second < MaxSecond /\ world' = [world EXCEPT !.second = @ + 1]
    /\ UNCHANGED <<link, stats, logger, disk, window, record>>

DiskChanges ==
    /\ DiskFills /\ world' = [world EXCEPT !.full = ~@]
    /\ UNCHANGED <<link, stats, logger, disk, window, record>>

-----------------------------------------------------------------------------
(* process_serial(), the lines first, the events then. *)

ProcessSerial ==
    /\ Free("gui") /\ (link.lines # <<>> \/ link.events # <<>>)
    /\ window' = [window EXCEPT !.phase = "lines"]
    /\ UNCHANGED <<link, stats, logger, disk, world, record>>

NoMoreLines ==
    /\ window.phase = "lines" /\ link.lines = <<>> /\ window' = [window EXCEPT !.phase = "events"]
    /\ UNCHANGED <<link, stats, logger, disk, world, record>>

NoMoreEvents ==
    /\ window.phase = "events" /\ link.events = <<>> /\ window' = [window EXCEPT !.phase = "idle"]
    /\ UNCHANGED <<link, stats, logger, disk, world, record>>

(* update() *)
Least(value) == IF stats.least = NoValue \/ value < stats.least THEN value ELSE stats.least

(* Mutant of Most: "elif", so that the first value is not the largest too. *)
MostOtherwise(value) ==
    IF stats.least # NoValue /\ value > stats.most THEN value ELSE stats.most

Most(value) == IF stats.most = NoValue \/ value > stats.most THEN value ELSE stats.most
UpdatedStats(packet) ==
    [stats EXCEPT !.total = @ + 1,
                  !.least = IF packet.temp = NoValue THEN @ ELSE Least(packet.temp),
                  !.most = IF packet.temp = NoValue THEN @ ELSE Most(packet.temp),
                  !.peak = IF packet.motion > @ THEN packet.motion ELSE @]

TakesLine == window.phase = "lines" /\ link.lines # <<>> /\ link' = [link EXCEPT !.lines = Tail(@)]

OnTelemetry ==
    /\ TakesLine /\ Head(link.lines) # Damaged
    /\ stats' = UpdatedStats(Head(link.lines))
    /\ LET logged == LogTelemetry(Now, Head(link.lines))
       IN  /\ Keeps(logged) /\ record' = RecordedRow(Head(link.lines), logged)
           /\ window' = [window EXCEPT !.phase = PhaseAfter(logged)]
    /\ UNCHANGED world

OnMalformed ==
    /\ TakesLine /\ Head(link.lines) = Damaged
    /\ stats' = [stats EXCEPT !.malformed = @ + 1]
    /\ UNCHANGED <<logger, disk, world, window, record>>

TakesEvent(event) ==
    /\ window.phase = "events" /\ link.events # <<>> /\ Head(link.events) = event
    /\ link' = [link EXCEPT !.events = Tail(@)]

(* Handles an event: update_control_state() for a change of the link, then  *)
(* the note.                                                                *)
Notes(note, before) ==
    LET logged == LogEvent(Now, note)
    IN  /\ Keeps(logged) /\ record' = RecordedNote(note, logged)
        /\ window' = [before EXCEPT !.phase = PhaseAfter(logged)]

(* Mutant of Controlled: an open log does not keep its button. *)
ControlledByLink(text) ==
    [window EXCEPT !.connect = text, !.controls = link.connected, !.canLog = link.connected]

Controlled(text) ==
    [window EXCEPT !.connect = text, !.controls = link.connected,
                   !.canLog = link.connected \/ logger.enabled]

OnConnect ==
    /\ TakesEvent("CONNECTED") /\ stats' = [stats EXCEPT !.connections = @ + 1]
    /\ Notes("SERIAL_CONNECT", Controlled("Disconnect"))
    /\ UNCHANGED world

OnDisconnect ==
    /\ TakesEvent("DISCONNECTED") /\ Notes("SERIAL_DISCONNECT", Controlled("Connect"))
    /\ UNCHANGED <<stats, world>>

OnSerialError ==
    /\ TakesEvent("ERROR") /\ Notes("SERIAL_ERROR", window)
    /\ UNCHANGED <<stats, world>>

-----------------------------------------------------------------------------
(* Buttons. *)

Pressed == Free("gui")

(* device_info(), evaluated before stop(), reads serial_manager.baud.       *)
HasBaud == world.manager # "tcp"

StartLogging ==
    /\ Pressed /\ window.canLog /\ ~logger.enabled
    /\ \E s \in Starts :
          /\ Keeps(s)
          /\ window' = IF s.raised THEN window ELSE [window EXCEPT !.logging = "Stop Logging"]
          /\ record' = RecordedStart(s)
    /\ UNCHANGED <<link, stats, world>>

StopLogging ==
    /\ Pressed /\ window.canLog /\ logger.enabled
    /\ Inputs
    /\ IF HasBaud
       THEN \E s \in Stops :
                /\ Keeps(s) /\ record' = RecordedStop(s)
                /\ window' = IF s.raised THEN window ELSE [window EXCEPT !.logging = "Start Logging"]
       ELSE UNCHANGED <<logger, disk, window, record>>
    /\ UNCHANGED <<link, stats>>

ResetStatistics ==
    /\ Pressed /\ stats' = [NewStats EXCEPT !.connections = stats.connections]
    /\ record' = [record EXCEPT ![logger.id].reset = @ \/ logger.enabled]
    /\ UNCHANGED <<link, logger, disk, world, window>>

(* send_command(), whose send() may fail. *)
SendCommand ==
    /\ Pressed /\ window.controls /\ Inputs
    /\ \/ link.connected /\ Notes("COMMAND_SENT", window)
       \/ UNCHANGED <<logger, disk, window, record>>
    /\ UNCHANGED <<link, stats>>

(* closeEvent(); or the program is killed, and its buffers with it.         *)
CloseWindow ==
    /\ Pressed /\ window' = [window EXCEPT !.phase = "ended"]
    /\ IF logger.enabled /\ HasBaud
       THEN \E s \in Stops : Keeps(s) /\ record' = RecordedStop(s)
       ELSE UNCHANGED <<logger, disk, record>>
    /\ UNCHANGED <<link, stats, world>>

Killed ==
    /\ window.phase # "ended" /\ window' = [window EXCEPT !.phase = "ended"]
    /\ UNCHANGED <<link, stats, logger, disk, world, record>>

Next ==
    \/ /\ window.phase # "ended"
       /\ \/ \E t \in Threads :
                 LinkTries(t) \/ LinkOpens(t) \/ LinkRefused(t) \/ LinkFails(t) \/ LinkCloses(t) \/ LinkTells(t)
          \/ LinkErrs \/ LineArrives \/ SecondPasses \/ DiskChanges
    \/ ProcessSerial \/ NoMoreLines \/ NoMoreEvents
    \/ OnTelemetry \/ OnMalformed \/ OnConnect \/ OnDisconnect \/ OnSerialError
    \/ StartLogging \/ StopLogging \/ ResetStatistics \/ SendCommand \/ CloseWindow \/ Killed

Spec == Init /\ [][Next]_vars

-----------------------------------------------------------------------------
Notable == {"SESSION_START", "SESSION_END", "SERIAL_CONNECT", "SERIAL_DISCONNECT", "SERIAL_ERROR",
            "COMMAND_SENT"}
Statistics == [total : Nat, malformed : Nat, connections : Nat, least : Nat, most : Nat, peak : Nat]

(* Type invariant. *)
SessionTypeOK ==
    /\ link.connected \in BOOLEAN /\ link.last \in {"told", "crossed", "silent"}
    /\ link.doing \in [Threads -> {"", "opening", "was up", "was down", "CONNECTED", "DISCONNECTED", "ERROR"}]
    /\ window.phase \notin {"idle", "ended"} => link.doing["gui"] = ""
    /\ link.lines \in Seq(Packets \cup {Damaged}) /\ Len(link.lines) <= MaxQueue
    /\ link.events \in Seq({"CONNECTED", "DISCONNECTED", "ERROR"}) /\ Len(link.events) <= MaxQueue
    /\ stats \in Statistics
    /\ logger.id \in Seconds /\ logger.open \subseteq {"telemetry", "events"}
    /\ logger.enabled \in BOOLEAN
    /\ logger.enabled => "events" \in logger.open /\ ("telemetry" \in logger.open \/ record[logger.id].lost)
    /\ logger.rows \in Seq(Packets) /\ logger.notes \in Seq(Notable)
    /\ \A s \in Seconds :
          /\ disk[s].rows \in Seq(Packets) /\ disk[s].notes \in Seq(Notable)
          /\ disk[s].summary \in Statistics \cup {NoSummary}
    /\ world \in [second : Seconds, full : BOOLEAN, inputs : 0 .. MaxInputs, manager : Managers]
    /\ window \in [phase : {"idle", "lines", "events", "ended"}, controls : BOOLEAN, canLog : BOOLEAN,
                   connect : {"Connect", "Disconnect"}, logging : {"Start Logging", "Stop Logging"}]

(* What the user was told is recorded is on the disk, row by row and note   *)
(* by note, when the program is killed too; what a full disk refused is     *)
(* written with the next row that it takes, and only a stop() whose close() *)
(* fails loses it: the files then still begin with every row up to the last *)
(* one that was logged without an exception, in order and without a gap.    *)
(* Files of a session that began in the same second as the next are that    *)
(* one's.                                                                   *)
RowsOnDisk(s) ==
    IF record[s].lost
    THEN record[s].kept <= Len(disk[s].rows) /\ IsPrefix(disk[s].rows, record[s].rows)
    ELSE disk[s].rows \o (IF "rows" \in record[s].failed THEN logger.rows ELSE <<>>) = record[s].rows
NotesOnDisk(s) ==
    disk[s].notes \o (IF "notes" \in record[s].failed THEN logger.notes ELSE <<>>) = record[s].notes
RecordIsComplete == \A s \in Seconds : ~record[s].spoiled => RowsOnDisk(s) /\ NotesOnDisk(s)

Connects(notes) == Cardinality({ i \in DOMAIN notes : notes[i] = "SERIAL_CONNECT" })

(* The numbers of a summary against the rows of a file. *)
Spans(numbers, rows) ==
    /\ numbers.total >= Len(rows)
    /\ \A row \in ToSet(rows) :
          /\ row.temp # NoValue => row.temp \in numbers.least .. numbers.most
          /\ row.motion <= numbers.peak

(* The summary of a session covers its files, whatever failed before: it    *)
(* counts at least their packets and connections, and no row lies outside   *)
(* its extremes, unless the statistics were reset meanwhile.                *)
SummaryCoversRecord ==
    \A s \in Seconds :
        record[s].ended =>
            /\ disk[s].summary.connections >= Connects(disk[s].notes)
            /\ ~record[s].reset => Spans(disk[s].summary, disk[s].rows)

(* Once both threads have told and the events are handled the buttons agree *)
(* with the link, whatever the handlers did when the disk was full and in   *)
(* whatever order the threads came: the controls unless the last change is  *)
(* a drop that nobody tells (a thread that had seen the link down, or fails *)
(* to open it, resets what the other one has opened), the text of the       *)
(* button that connects unless the last change is told by events that cross *)
(* each other.  Open logs keep the button that stops them enabled.          *)
Settled == window.phase = "idle" /\ link.events = <<>> /\ \A t \in Threads : link.doing[t] = ""
ControlsFollowLink ==
    /\ logger.enabled => window.canLog
    /\ Settled /\ link.last # "silent" =>
          window.controls = link.connected /\ (link.connected => window.canLog)
    /\ Settled /\ link.last = "told" =>
          window.connect = (IF link.connected THEN "Disconnect" ELSE "Connect")

(* The button that stops a session ends it (where the disk has room):       *)
(* docs/wifi_mqtt.md says of the direct WiFi transport that logging works   *)
(* over it.                                                                 *)
StopEndsSessionStep == StopLogging => ~logger'.enabled
StopEndsSession == [][StopEndsSessionStep]_vars
=============================================================================
