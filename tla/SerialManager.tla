--------------------------- MODULE SerialManager ---------------------------
(***************************************************************************)
(* The ground station's serial link (ground_station/serial_manager.py): a   *)
(* SerialManager shared, without a lock around its attributes, by the Qt    *)
(* GUI thread, which connects, disconnects and sends, and by one reader     *)
(* thread, which reads lines and reconnects by itself.                      *)
(*                                                                          *)
(* An action is one access to a shared attribute, so that every             *)
(* interleaving of the two threads that Python allows is a behaviour.       *)
(* pyserial is external: `at` says what each Serial object is open on.  An  *)
(* object nobody refers to any more is closed by its finaliser.             *)
(***************************************************************************)
EXTENDS Naturals, FiniteSets

CONSTANTS
    Ports,    \* names of serial ports
    Exclusive \* TRUE where a port can be opened only once (Windows)

Operations == {"connect", "disconnect", "send", "reconnect"}

ASSUME PortsAssumption == Ports # {} /\ Ports \cap {"closed", "broken"} = {}
ASSUME ExclusiveAssumption == Exclusive \in BOOLEAN

VARIABLES
    mgr,      \* the attributes serial, connected, running, auto_reconnect, port
    at,       \* of each Serial object: the port it is open on, "broken" or "closed"
    plugged,  \* the ports that exist now
    pc,       \* of each thread, its next access; "none": the thread is not alive
    held,     \* of each thread, the Serial object in a local variable or a running call
    was,      \* of each thread, the local variable was_connected
    op,       \* the method the GUI thread is in, where two share their steps
    events,   \* the last CONNECTED or DISCONNECTED put into event_queue
    use       \* history: how the user has used the link so far, see Uses

vars == <<mgr, at, plugged, pc, held, was, op, events, use>>
locals == <<held, was, op>>

Threads == {"gui", "reader"}
Handles == 1 .. 4 \* one in mgr, one held by each thread, one to open
None == 0

Opening == {"open", "assign", "publish", "announce", "uncon", "unserial"}
Dropping == {"was", "unpublish", "test", "close", "clear", "tell"}
GuiPcs == Opening \cup Dropping \cup {"idle", "setport", "connect", "run", "thread", "stop", "restart", "write"}
ReaderPcs == Opening \cup Dropping \cup {"none", "check", "branch", "auto", "sleep", "recheck", "load", "read"}

Init ==
    /\ \E p \in Ports : mgr = [serial |-> None, connected |-> FALSE, running |-> FALSE,
                               autoReconnect |-> TRUE, port |-> p]
    /\ at = [h \in Handles |-> "closed"]
    /\ plugged \in SUBSET Ports
    /\ pc = [t \in Threads |-> IF t = "gui" THEN "idle" ELSE "none"]
    /\ held = [t \in Threads |-> None] /\ was = [t \in Threads |-> FALSE] /\ op = "connect"
    /\ events = "DISCONNECTED" /\ use = "connects"

Goto(t, label) == pc' = [pc EXCEPT ![t] = label]
Referenced == {mgr.serial} \cup { held[t] : t \in Threads }
(* Objects the next state does not refer to are closed. *)
Collect == at' = [h \in Handles |-> IF h \in Referenced' THEN at[h] ELSE "closed"]

-----------------------------------------------------------------------------
(* _open_port(), called by connect() and by the reader. *)

Opens(t) ==
    /\ pc[t] = "open"
    /\ mgr.port \in plugged
    /\ Exclusive => \A h \in Handles : at[h] # mgr.port
    /\ \E h \in Handles \ Referenced :
          /\ \A g \in Handles \ Referenced : h <= g
          /\ held' = [held EXCEPT ![t] = h] /\ at' = [at EXCEPT ![h] = mgr.port]
    /\ Goto(t, "assign")
    /\ UNCHANGED <<mgr, plugged, was, op, events, use>>

(* connect() and the reader undo a failed _open_port() in different orders. *)
OpenFails(t) ==
    /\ pc[t] = "open"
    /\ \/ mgr.port \notin plugged
       \/ Exclusive /\ \E h \in Handles : at[h] = mgr.port
    /\ Goto(t, IF t = "gui" THEN "uncon" ELSE "unserial")
    /\ UNCHANGED <<mgr, at, plugged, locals, events, use>>

Assign(t) ==
    /\ pc[t] = "assign" /\ Goto(t, "publish")
    /\ mgr' = [mgr EXCEPT !.serial = held[t]]
    /\ held' = [held EXCEPT ![t] = None]
    /\ UNCHANGED <<plugged, was, op, events, use>>
    /\ Collect

Publish(t) ==
    /\ pc[t] = "publish" /\ Goto(t, "announce")
    /\ mgr' = [mgr EXCEPT !.connected = TRUE]
    /\ UNCHANGED <<at, plugged, locals, events, use>>

Announce(t) ==
    /\ pc[t] = "announce" /\ Goto(t, IF t = "gui" THEN "run" ELSE "check")
    /\ events' = "CONNECTED"
    /\ UNCHANGED <<mgr, at, plugged, locals, use>>

ForgetConnected(t) ==
    /\ pc[t] = "uncon" /\ Goto(t, IF t = "gui" THEN "unserial" ELSE "check")
    /\ mgr' = [mgr EXCEPT !.connected = FALSE]
    /\ UNCHANGED <<at, plugged, locals, events, use>>

ForgetSerial(t) ==
    /\ pc[t] = "unserial" /\ Goto(t, IF t = "gui" THEN "idle" ELSE "uncon")
    /\ mgr' = [mgr EXCEPT !.serial = None]
    /\ UNCHANGED <<plugged, locals, events, use>>
    /\ Collect

-----------------------------------------------------------------------------
(* _connection_lost(), and disconnect() once its two flags are written.     *)

AfterDrop(t) ==
    CASE t = "reader" -> "check"
      [] t = "gui" /\ op = "reconnect" -> "restart"
      [] t = "gui" /\ op # "reconnect" -> "idle"

ReadConnected(t) ==
    /\ pc[t] = "was" /\ Goto(t, "unpublish")
    /\ was' = [was EXCEPT ![t] = mgr.connected]
    /\ UNCHANGED <<mgr, at, plugged, held, op, events, use>>

Unpublish(t) ==
    /\ pc[t] = "unpublish" /\ Goto(t, "test")
    /\ mgr' = [mgr EXCEPT !.connected = FALSE]
    /\ UNCHANGED <<at, plugged, locals, events, use>>

TestSerial(t) ==
    /\ pc[t] = "test" /\ Goto(t, IF mgr.serial # None THEN "close" ELSE "clear")
    /\ UNCHANGED <<mgr, at, plugged, locals, events, use>>

CloseSerial(t) ==
    /\ pc[t] = "close" /\ mgr.serial # None /\ Goto(t, "clear")
    /\ at' = [at EXCEPT ![mgr.serial] = "closed"]
    /\ UNCHANGED <<mgr, plugged, locals, events, use>>

(* The other thread cleared the attribute after the test: close() of None   *)
(* raises AttributeError, which _connection_lost() swallows and             *)
(* disconnect() does not: the rest of it is skipped.                        *)
CloseNone(t) ==
    /\ pc[t] = "close" /\ mgr.serial = None
    /\ Goto(t, IF t = "gui" /\ op # "send" THEN "idle" ELSE "clear")
    /\ UNCHANGED <<mgr, at, plugged, locals, events, use>>

(* Mutant of ClearSerial: the closed object stays.                          *)
KeepSerial(t) ==
    /\ pc[t] = "clear" /\ Goto(t, "tell")
    /\ UNCHANGED <<mgr, at, plugged, locals, events, use>>

ClearSerial(t) ==
    /\ pc[t] = "clear" /\ Goto(t, "tell")
    /\ mgr' = [mgr EXCEPT !.serial = None]
    /\ UNCHANGED <<plugged, locals, events, use>>
    /\ Collect

Tell(t) ==
    /\ pc[t] = "tell" /\ Goto(t, AfterDrop(t))
    /\ events' = IF was[t] THEN "DISCONNECTED" ELSE events
    /\ was' = [was EXCEPT ![t] = FALSE]
    /\ UNCHANGED <<mgr, at, plugged, held, op, use>>

-----------------------------------------------------------------------------
(* The GUI thread: toggle_connection(), send_command(), reconnect().  `use` *)
(* remembers the most the user did so far: connected when no reader thread  *)
(* was alive; disconnected as well; anything else, that is connected while  *)
(* the reader was alive, reconnected, or sent what could not be written.   *)

Uses == {"connects", "sessions", "any"}

UserConnects ==
    /\ pc["gui"] = "idle" /\ ~mgr.connected
    /\ op' = "connect" /\ Goto("gui", "setport")
    /\ use' = IF pc["reader"] = "none" THEN use ELSE "any"
    /\ UNCHANGED <<mgr, at, plugged, held, was, events>>

(* Mutant of SetPort: an empty list of ports yields an empty name.          *)
SetAnyPort ==
    /\ pc["gui"] = "setport"
    /\ IF mgr.connected
       THEN Goto("gui", "idle") /\ UNCHANGED mgr
       ELSE /\ \E p \in Ports \cup {""} : mgr' = [mgr EXCEPT !.port = p, !.autoReconnect = TRUE]
            /\ Goto("gui", "connect")
    /\ UNCHANGED <<at, plugged, locals, events, use>>

(* set_port() refuses to change the port of a live connection. *)
SetPort ==
    /\ pc["gui"] = "setport"
    /\ IF mgr.connected
       THEN Goto("gui", "idle") /\ UNCHANGED mgr
       ELSE /\ \E p \in Ports : mgr' = [mgr EXCEPT !.port = p, !.autoReconnect = TRUE]
            /\ Goto("gui", "connect")
    /\ UNCHANGED <<at, plugged, locals, events, use>>

Connect ==
    /\ pc["gui"] = "connect"
    /\ Goto("gui", IF mgr.connected THEN "idle" ELSE "open")
    /\ UNCHANGED <<mgr, at, plugged, locals, events, use>>

Run ==
    /\ pc["gui"] = "run" /\ Goto("gui", "thread")
    /\ mgr' = [mgr EXCEPT !.running = TRUE]
    /\ UNCHANGED <<at, plugged, locals, events, use>>

StartReader ==
    /\ pc["gui"] = "thread"
    /\ pc' = [pc EXCEPT !["gui"] = "idle", !["reader"] = IF @ = "none" THEN "check" ELSE @]
    /\ UNCHANGED <<mgr, at, plugged, locals, events, use>>

UserDisconnects ==
    /\ pc["gui"] = "idle" /\ mgr.connected
    /\ op' = "disconnect" /\ Goto("gui", "stop")
    /\ use' = IF use = "connects" THEN "sessions" ELSE use
    /\ UNCHANGED <<mgr, at, plugged, held, was, events>>

Reconnect ==
    /\ pc["gui"] = "idle"
    /\ op' = "reconnect" /\ Goto("gui", "stop") /\ use' = "any"
    /\ UNCHANGED <<mgr, at, plugged, held, was, events>>

Stop ==
    /\ pc["gui"] = "stop" /\ Goto("gui", "was")
    /\ mgr' = [mgr EXCEPT !.autoReconnect = FALSE, !.running = FALSE]
    /\ UNCHANGED <<at, plugged, locals, events, use>>

RestartLink ==
    /\ pc["gui"] = "restart" /\ Goto("gui", "connect")
    /\ mgr' = [mgr EXCEPT !.autoReconnect = TRUE, !.running = TRUE]
    /\ op' = "connect"
    /\ UNCHANGED <<at, plugged, held, was, events, use>>

Send ==
    /\ pc["gui"] = "idle" /\ mgr.connected /\ mgr.serial # None
    /\ op' = "send" /\ Goto("gui", "write")
    /\ UNCHANGED <<mgr, at, plugged, held, was, events, use>>

(* write() and flush(): done, refused by pyserial (also by its write        *)
(* timeout), or called on None, which leaves send() by an AttributeError.   *)
Write ==
    /\ pc["gui"] = "write"
    /\ \/ /\ mgr.serial # None => at[mgr.serial] \in Ports
          /\ Goto("gui", "idle") /\ UNCHANGED use
       \/ mgr.serial # None /\ Goto("gui", "was") /\ use' = "any"
    /\ UNCHANGED <<mgr, at, plugged, locals, events>>

-----------------------------------------------------------------------------
(* The reader thread: _reader_loop(). *)

(* Mutant of CheckRunning: the loop runs for ever.                          *)
RunForever ==
    /\ pc["reader"] = "check" /\ Goto("reader", "branch")
    /\ UNCHANGED <<mgr, at, plugged, locals, events, use>>

CheckRunning ==
    /\ pc["reader"] = "check" /\ Goto("reader", IF mgr.running THEN "branch" ELSE "none")
    /\ UNCHANGED <<mgr, at, plugged, locals, events, use>>

CheckConnected ==
    /\ pc["reader"] = "branch" /\ Goto("reader", IF mgr.connected THEN "load" ELSE "auto")
    /\ UNCHANGED <<mgr, at, plugged, locals, events, use>>

CheckAuto ==
    /\ pc["reader"] = "auto" /\ Goto("reader", IF mgr.autoReconnect THEN "sleep" ELSE "check")
    /\ UNCHANGED <<mgr, at, plugged, locals, events, use>>

(* The sleep of reconnect_delay, 2 s, outlasts a write (write_timeout, 1 s) *)
(* and the few statements that close a connection; not an open.             *)
Wake ==
    /\ pc["reader"] = "sleep" /\ pc["gui"] \notin Dropping \cup {"write", "stop"}
    /\ Goto("reader", "recheck")
    /\ UNCHANGED <<mgr, at, plugged, locals, events, use>>

Recheck ==
    /\ pc["reader"] = "recheck"
    /\ Goto("reader", IF ~mgr.running \/ mgr.connected THEN "check" ELSE "open")
    /\ UNCHANGED <<mgr, at, plugged, locals, events, use>>

(* self.serial.readline(): the attribute is read first, and None there ends *)
(* the thread by an AttributeError.                                         *)
LoadSerial ==
    /\ pc["reader"] = "load"
    /\ held' = [held EXCEPT !["reader"] = mgr.serial]
    /\ Goto("reader", IF mgr.serial = None THEN "none" ELSE "read")
    /\ UNCHANGED <<mgr, at, plugged, was, op, events, use>>

(* readline() returns with a line, with what came of one before the timeout *)
(* of 0.1 s, or with nothing (PacketStats has what the parser makes of it). *)
ReadLine ==
    /\ pc["reader"] = "read" /\ at[held["reader"]] \in Ports
    /\ held' = [held EXCEPT !["reader"] = None]
    /\ Goto("reader", "check")
    /\ UNCHANGED <<mgr, plugged, was, op, events, use>>
    /\ Collect

(* The device is gone or the object was closed: an error that is caught, or *)
(* for an object closed during the call one that is not (TypeError).        *)
ReadFails ==
    /\ pc["reader"] = "read" /\ at[held["reader"]] \notin Ports
    /\ held' = [held EXCEPT !["reader"] = None]
    /\ \/ Goto("reader", "was")
       \/ at[held["reader"]] = "closed" /\ Goto("reader", "none")
    /\ UNCHANGED <<mgr, plugged, was, op, events, use>>
    /\ Collect

-----------------------------------------------------------------------------
(* The environment: a device is pulled out or put back. *)
Unplug ==
    /\ \E p \in plugged :
          /\ plugged' = plugged \ {p}
          /\ at' = [h \in Handles |-> IF at[h] = p THEN "broken" ELSE at[h]]
    /\ UNCHANGED <<mgr, pc, locals, events, use>>

Plug ==
    /\ \E p \in Ports \ plugged : plugged' = plugged \cup {p}
    /\ UNCHANGED <<mgr, at, pc, locals, events, use>>

OpenStep(t) ==
    Opens(t) \/ OpenFails(t) \/ Assign(t) \/ Publish(t) \/ Announce(t) \/ ForgetConnected(t) \/ ForgetSerial(t)
DropStep(t) ==
    \/ ReadConnected(t) \/ Unpublish(t) \/ TestSerial(t)
    \/ CloseSerial(t) \/ CloseNone(t) \/ ClearSerial(t) \/ Tell(t)

User == UserConnects \/ UserDisconnects \/ Reconnect \/ Send
Gui ==
    \/ OpenStep("gui") \/ DropStep("gui")
    \/ SetPort \/ Connect \/ Run \/ StartReader \/ Stop \/ RestartLink \/ Write
Reader ==
    \/ OpenStep("reader") \/ DropStep("reader")
    \/ CheckRunning \/ CheckConnected \/ CheckAuto \/ Wake \/ Recheck \/ LoadSerial \/ ReadLine \/ ReadFails

Next == User \/ Gui \/ Reader \/ Unplug \/ Plug

Spec == Init /\ [][Next]_vars

(* Both threads are scheduled; nobody has to press a button. *)
FairSpec == Spec /\ WF_vars(Gui) /\ WF_vars(Reader)

-----------------------------------------------------------------------------
(* Type invariant. *)
SerialTypeOK ==
    /\ mgr \in [serial : Handles \cup {None}, connected : BOOLEAN, running : BOOLEAN,
                autoReconnect : BOOLEAN, port : Ports]
    /\ at \in [Handles -> Ports \cup {"broken", "closed"}]
    /\ plugged \subseteq Ports
    /\ pc["gui"] \in GuiPcs /\ pc["reader"] \in ReaderPcs /\ DOMAIN pc = Threads
    /\ held \in [Threads -> Handles \cup {None}] /\ was \in [Threads -> BOOLEAN]
    /\ op \in Operations
    /\ events \in {"CONNECTED", "DISCONNECTED"}
    /\ use \in Uses

(* A connection is read: when connect() has returned and the manager says   *)
(* connected, a reader thread is alive (connect() starts none when it takes *)
(* a dying one for alive), if the user lets the reader end first.           *)
ConnectedIsRead ==
    use # "any" => (pc["gui"] = "idle" /\ mgr.connected => pc["reader"] # "none")

(* Once the user's disconnect and the reader are through, the port is free  *)
(* and stays so: no late reconnection survives.                             *)
StoppedIsClosed ==
    use # "any" /\ pc["gui"] = "idle" /\ pc["reader"] = "none" =>
        ~mgr.connected /\ mgr.serial = None /\ \A h \in Handles : at[h] = "closed"

(* With both threads at rest, the last event the GUI gets is the truth, if  *)
(* the reader alone loses and restores the link.                            *)
AtRest == pc["gui"] = "idle" /\ pc["reader"] \notin Opening \cup Dropping
EventsAgree == use = "connects" /\ AtRest => (events = "CONNECTED" <=> mgr.connected)

(* The link comes back by itself: if the user leaves it running and the     *)
(* port is there for good, it is in the end connected for good.             *)
Attached == mgr.connected /\ mgr.serial # None /\ at[mgr.serial] = mgr.port
LeftRunning == use # "any" /\ pc["gui"] = "idle" /\ mgr.running /\ mgr.port \in plugged
RestoresLink == <>[]LeftRunning => <>[]Attached

(* disconnect() ends the reader thread for good, whatever it is doing and   *)
(* whatever else the user does.                                             *)
ReaderStops == <>[](~mgr.running) => <>[](pc["reader"] = "none")
=============================================================================
