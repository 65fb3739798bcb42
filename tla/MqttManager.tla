---------------------------- MODULE MqttManager ----------------------------
(***************************************************************************)
(* The ground station's link through an MQTT broker                         *)
(* (ground_station/mqtt_manager.py): an MqttManager whose attributes are    *)
(* written by the Qt GUI thread, which connects, disconnects and sends, and *)
(* by the callbacks that the network thread of its client runs.             *)
(*                                                                          *)
(* The client (paho) is external.  connect() opens a connection, in place   *)
(* of one there is, and sends CONNECT; loop_start() starts the network      *)
(* thread, unless it runs; the thread calls back, connects again after a    *)
(* loss, and ends when loop_stop() has waited for it.  A message published  *)
(* with QoS 1 is sent again on every new connection until the broker        *)
(* acknowledges it.  The broker forgets a client with its connection        *)
(* (clean_session).                                                         *)
(***************************************************************************)

VARIABLES
    mqtt,    \* the attributes connected, auto_reconnect, _connect_event
    client,  \* of paho: its connection, whether its thread runs and whether it leaves
    broker,  \* "down", "refuses" (its CONNACK is not 0) or "up"
    subs,    \* the broker's subscriptions of this connection
    guiAt,   \* the GUI thread's next access, and its was_connected
    callAt,  \* the network thread's, in a callback, and its was_connected
    command, \* of the last command sent: where it is
    mqttEvents, \* the last CONNECTED or DISCONNECTED put into event_queue
    wanted,  \* history: what the user asked for last, TRUE for a connection
    retried, \* history: the user connected while the client was at it already
    heard    \* history: this connection has put a line into line_queue

mqttHistory == <<mqttEvents, wanted, retried, heard>>
mqttVars == <<mqtt, client, broker, subs, guiAt, callAt, command, mqttHistory>>

Topics == {"telemetry", "response", "availability"}
(* A connection of the client: none, CONNECT sent, accepted by the broker,  *)
(* or lost without the client's noticing.                                   *)
Nets == {"none", "asked", "accepted", "broken"}
MqttGuiPcs ==
    {"idle", "setport", "connect", "clear", "client", "loop", "wait",
     "was", "auto", "leave", "join", "unset", "tell", "end"}
CallPcs == {"idle", "connected", "auto", "subscribe", "announce", "signal", "was", "unset", "tell"}

MqttInit ==
    /\ mqtt = [connected |-> FALSE, autoReconnect |-> TRUE, signal |-> FALSE]
    /\ client = [net |-> "none", thread |-> FALSE, leaving |-> FALSE]
    /\ broker \in {"down", "refuses", "up"} /\ subs = {}
    /\ guiAt = [pc |-> "idle", was |-> FALSE, ends |-> FALSE]
    /\ callAt = [pc |-> "idle", was |-> FALSE]
    /\ command = "none" /\ mqttEvents = "DISCONNECTED"
    /\ wanted = FALSE /\ retried = FALSE /\ heard = FALSE

(* Mutant of KeptOnLoss: a command with QoS 0.                              *)
LostOnLoss == IF command = "sent" THEN "none" ELSE command

(* A command with QoS 1 that a lost connection did not acknowledge is sent  *)
(* again on the next.                                                       *)
KeptOnLoss == IF command = "sent" THEN "kept" ELSE command
SentOnConnect == IF command = "kept" THEN "sent" ELSE command

Calls(from, to) == guiAt.pc = from /\ guiAt' = [guiAt EXCEPT !.pc = to]
CallsBack(from, to) == callAt.pc = from /\ callAt' = [callAt EXCEPT !.pc = to]

-----------------------------------------------------------------------------
(* connect(), from toggle_connection(). *)

MqttUserConnects ==
    /\ ~mqtt.connected /\ Calls("idle", "setport")
    /\ wanted' = TRUE /\ retried' = (retried \/ client.thread)
    /\ UNCHANGED <<mqtt, client, broker, subs, callAt, command, mqttEvents, heard>>

(* set_port() raises when a late CONNACK has connected meanwhile. *)
MqttSetPort ==
    /\ IF mqtt.connected
       THEN Calls("setport", "idle") /\ UNCHANGED mqtt
       ELSE Calls("setport", "connect") /\ mqtt' = [mqtt EXCEPT !.autoReconnect = TRUE]
    /\ UNCHANGED <<client, broker, subs, callAt, command, mqttHistory>>

MqttConnect ==
    /\ Calls("connect", IF mqtt.connected THEN "idle" ELSE "clear")
    /\ UNCHANGED <<mqtt, client, broker, subs, callAt, command, mqttHistory>>

ClearSignal ==
    /\ Calls("clear", "client")
    /\ mqtt' = [mqtt EXCEPT !.signal = FALSE]
    /\ UNCHANGED <<client, broker, subs, callAt, command, mqttHistory>>

(* The client opens a connection and sends CONNECT, or raises. *)
ClientConnect ==
    /\ Calls("client", IF broker = "down" THEN "idle" ELSE "loop")
    /\ client' = [client EXCEPT !.net = IF broker = "down" THEN "none" ELSE "asked", !.leaving = FALSE]
    /\ subs' = {} /\ heard' = FALSE /\ command' = KeptOnLoss
    /\ UNCHANGED <<mqtt, broker, callAt, mqttEvents, wanted, retried>>

LoopStart ==
    /\ Calls("loop", "wait")
    /\ client' = [client EXCEPT !.thread = TRUE]
    /\ UNCHANGED <<mqtt, broker, subs, callAt, command, mqttHistory>>

(* wait() returns with the event or after 3 s, and connect() with what      *)
(* connected then is; a connection may still be made later.                 *)
WaitForConnect ==
    /\ Calls("wait", "idle")
    /\ UNCHANGED <<mqtt, client, broker, subs, callAt, command, mqttHistory>>

-----------------------------------------------------------------------------
(* disconnect(), from toggle_connection(), or from closeEvent() which ends  *)
(* the program.                                                             *)

MqttUserDisconnects ==
    /\ guiAt.pc = "idle"
    /\ \E ends \in BOOLEAN :
          /\ ends \/ mqtt.connected
          /\ guiAt' = [guiAt EXCEPT !.pc = "was", !.ends = ends]
    /\ wanted' = FALSE
    /\ UNCHANGED <<mqtt, client, broker, subs, callAt, command, mqttEvents, retried, heard>>

MqttReadConnected ==
    /\ guiAt.pc = "was" /\ guiAt' = [guiAt EXCEPT !.pc = "auto", !.was = mqtt.connected]
    /\ UNCHANGED <<mqtt, client, broker, subs, callAt, command, mqttHistory>>

ForgetAuto ==
    /\ Calls("auto", "leave")
    /\ mqtt' = [mqtt EXCEPT !.autoReconnect = FALSE]
    /\ UNCHANGED <<client, broker, subs, callAt, command, mqttHistory>>

(* The client's disconnect() asks the network thread to say goodbye. *)
Leave ==
    /\ Calls("leave", "join")
    /\ client' = [client EXCEPT !.leaving = TRUE]
    /\ UNCHANGED <<mqtt, broker, subs, callAt, command, mqttHistory>>

(* loop_stop() waits for the network thread, which ends when it has said    *)
(* goodbye, called back and lost its connection.                            *)
LoopStop ==
    /\ client.thread => client.net = "none" /\ callAt.pc = "idle"
    /\ Calls("join", "unset")
    /\ client' = [client EXCEPT !.thread = FALSE] /\ UNCHANGED subs
    /\ UNCHANGED <<mqtt, broker, callAt, command, mqttHistory>>

Unset ==
    /\ Calls("unset", "tell")
    /\ mqtt' = [mqtt EXCEPT !.connected = FALSE]
    /\ UNCHANGED <<client, broker, subs, callAt, command, mqttHistory>>

TellGone ==
    /\ Calls("tell", IF guiAt.ends THEN "end" ELSE "idle")
    /\ mqttEvents' = IF guiAt.was THEN "DISCONNECTED" ELSE mqttEvents
    /\ UNCHANGED <<mqtt, client, broker, subs, callAt, command, wanted, retried, heard>>

-----------------------------------------------------------------------------
(* send(): publish() keeps the message also when its connection is gone,    *)
(* and then says so.  One command at a time.                                *)
MqttSend ==
    /\ guiAt.pc = "idle" /\ mqtt.connected /\ command \in {"none", "done"}
    /\ command' = IF client.net \in {"accepted", "broken"} THEN "sent" ELSE "kept"
    /\ UNCHANGED <<mqtt, client, broker, subs, guiAt, callAt, mqttHistory>>

(* The broker takes and acknowledges what was sent. *)
Acknowledge ==
    /\ command = "sent" /\ client.net = "accepted" /\ client.thread /\ command' = "done"
    /\ UNCHANGED <<mqtt, client, broker, subs, guiAt, callAt, mqttHistory>>

-----------------------------------------------------------------------------
(* The network thread, when it is in no callback. *)

Listening == client.thread /\ callAt.pc = "idle"

(* CONNACK: on_connect() begins, and kept messages are sent. *)
Accepted ==
    /\ Listening /\ client.net = "asked" /\ broker = "up"
    /\ client' = [client EXCEPT !.net = "accepted"] /\ command' = SentOnConnect
    /\ callAt' = [callAt EXCEPT !.pc = "connected"]
    /\ UNCHANGED <<mqtt, broker, subs, guiAt, mqttHistory>>

(* on_connect() with a code that is not 0, which the client has followed by *)
(* on_disconnect().                                                         *)
Refused ==
    /\ Listening /\ client.net = "asked" /\ broker = "refuses"
    /\ client' = [client EXCEPT !.net = "none"]
    /\ mqtt' = [mqtt EXCEPT !.signal = TRUE]
    /\ callAt' = [callAt EXCEPT !.pc = "was"]
    /\ UNCHANGED <<broker, subs, guiAt, command, mqttHistory>>

(* The connection is found broken, or the client says goodbye. *)
Ends ==
    /\ Listening
    /\ client.net = "broken" \/ (client.leaving /\ client.net \in {"asked", "accepted"})
    /\ client' = [client EXCEPT !.net = "none"] /\ subs' = {} /\ heard' = FALSE
    /\ command' = KeptOnLoss
    /\ callAt' = [callAt EXCEPT !.pc = "was"]
    /\ UNCHANGED <<mqtt, broker, guiAt, mqttEvents, wanted, retried>>

(* The client connects again by itself, whatever auto_reconnect says. *)
Retry ==
    /\ Listening /\ client.net = "none" /\ ~client.leaving /\ broker # "down"
    /\ client' = [client EXCEPT !.net = "asked"]
    /\ UNCHANGED <<mqtt, broker, subs, guiAt, callAt, command, mqttHistory>>

(* on_message(): availability becomes an event that the window ignores. *)
OnMessage ==
    /\ Listening /\ client.net = "accepted"
    /\ \E topic \in subs : heard' = (heard \/ topic # "availability")
    /\ UNCHANGED <<mqtt, client, broker, subs, guiAt, callAt, command, mqttEvents, wanted, retried>>

-----------------------------------------------------------------------------
(* on_connect() *)

SetConnected ==
    /\ CallsBack("connected", "auto")
    /\ mqtt' = [mqtt EXCEPT !.connected = TRUE]
    /\ UNCHANGED <<client, broker, subs, guiAt, command, mqttHistory>>

SetAuto ==
    /\ CallsBack("auto", "subscribe")
    /\ mqtt' = [mqtt EXCEPT !.autoReconnect = TRUE]
    /\ UNCHANGED <<client, broker, subs, guiAt, command, mqttHistory>>

(* Mutant of Subscribe: topics are subscribed by connect() alone.           *)
SubscribeWhileWaiting ==
    /\ CallsBack("subscribe", "announce")
    /\ subs' = IF client.net = "accepted" /\ guiAt.pc = "wait" THEN Topics ELSE subs
    /\ UNCHANGED <<mqtt, client, broker, guiAt, command, mqttHistory>>

Subscribe ==
    /\ CallsBack("subscribe", "announce")
    /\ subs' = IF client.net = "accepted" THEN Topics ELSE subs
    /\ UNCHANGED <<mqtt, client, broker, guiAt, command, mqttHistory>>

AnnounceBroker ==
    /\ CallsBack("announce", "signal") /\ mqttEvents' = "CONNECTED"
    /\ UNCHANGED <<mqtt, client, broker, subs, guiAt, command, wanted, retried, heard>>

Signal ==
    /\ CallsBack("signal", "idle")
    /\ mqtt' = [mqtt EXCEPT !.signal = TRUE]
    /\ UNCHANGED <<client, broker, subs, guiAt, command, mqttHistory>>

(* on_disconnect() *)
ReadWas ==
    /\ callAt.pc = "was" /\ callAt' = [pc |-> "unset", was |-> mqtt.connected]
    /\ UNCHANGED <<mqtt, client, broker, subs, guiAt, command, mqttHistory>>

UnsetConnected ==
    /\ CallsBack("unset", "tell")
    /\ mqtt' = [mqtt EXCEPT !.connected = FALSE]
    /\ UNCHANGED <<client, broker, subs, guiAt, command, mqttHistory>>

TellLost ==
    /\ callAt.pc = "tell" /\ callAt' = [pc |-> "idle", was |-> FALSE]
    /\ mqttEvents' = IF callAt.was THEN "DISCONNECTED" ELSE mqttEvents
    /\ UNCHANGED <<mqtt, client, broker, subs, guiAt, command, wanted, retried, heard>>

-----------------------------------------------------------------------------
(* The broker changes what it does; connections break when it goes down.    *)
BrokerChanges ==
    /\ \E b \in {"down", "refuses", "up"} \ {broker} : broker' = b
    /\ client' = [client EXCEPT !.net = IF broker' = "down" /\ @ # "none" THEN "broken" ELSE @]
    /\ subs' = IF broker' = "down" THEN {} ELSE subs
    /\ UNCHANGED <<mqtt, guiAt, callAt, command, mqttHistory>>

MqttUser == MqttUserConnects \/ MqttUserDisconnects \/ MqttSend
MqttGui ==
    \/ MqttSetPort \/ MqttConnect \/ ClearSignal \/ ClientConnect \/ LoopStart \/ WaitForConnect
    \/ MqttReadConnected \/ ForgetAuto \/ Leave \/ LoopStop \/ Unset \/ TellGone
Callback ==
    \/ SetConnected \/ SetAuto \/ Subscribe \/ AnnounceBroker \/ Signal
    \/ ReadWas \/ UnsetConnected \/ TellLost
Network == Accepted \/ Refused \/ Ends \/ Retry

MqttNext == MqttUser \/ MqttGui \/ Callback \/ Network \/ OnMessage \/ Acknowledge \/ BrokerChanges

MqttSpec == MqttInit /\ [][MqttNext]_mqttVars

(* Both threads are scheduled, the client works, the broker acknowledges    *)
(* what it gets and the device goes on publishing.                          *)
MqttFairness ==
    /\ WF_mqttVars(MqttGui) /\ WF_mqttVars(Callback) /\ WF_mqttVars(Network)
    /\ WF_mqttVars(Acknowledge) /\ WF_mqttVars(OnMessage)
MqttFairSpec == MqttSpec /\ MqttFairness

-----------------------------------------------------------------------------
(* Type invariant. *)
MqttTypeOK ==
    /\ mqtt \in [connected : BOOLEAN, autoReconnect : BOOLEAN, signal : BOOLEAN]
    /\ client \in [net : Nets, thread : BOOLEAN, leaving : BOOLEAN]
    /\ broker \in {"down", "refuses", "up"} /\ subs \subseteq Topics
    /\ guiAt \in [pc : MqttGuiPcs, was : BOOLEAN, ends : BOOLEAN]
    /\ callAt \in [pc : CallPcs, was : BOOLEAN]
    /\ command \in {"none", "sent", "kept", "done"}
    /\ mqttEvents \in {"CONNECTED", "DISCONNECTED"} 
    /\ wanted \in BOOLEAN /\ retried \in BOOLEAN /\ heard \in BOOLEAN

MqttGuiAtRest == guiAt.pc \in {"idle", "end"}

(* What the broker accepts is served: a network thread runs while the       *)
(* manager says connected, and every connection, the client's own           *)
(* reconnections too, has its subscriptions once on_connect() is through.   *)
MqttConnectedIsRead ==
    /\ MqttGuiAtRest /\ mqtt.connected => client.thread
    /\ client.net = "accepted" /\ Listening => subs = Topics

(* After disconnect() no callback is left that could connect or announce    *)
(* anything: a CONNACK that was on its way is dealt with before it returns. *)
MqttStoppedIsClosed ==
    MqttGuiAtRest /\ ~wanted =>
        ~mqtt.connected /\ ~client.thread /\ client.net = "none" /\ callAt.pc = "idle"

(* With both threads at rest, the last event the GUI gets is the truth, if  *)
(* no connect() has replaced a connection that the client was making.       *)
MqttEventsAgree ==
    ~retried /\ MqttGuiAtRest /\ callAt.pc = "idle" => (mqttEvents = "CONNECTED" <=> mqtt.connected)

(* Once the broker is up for good and the client is started, it connects,   *)
(* however often it failed or connect() gave up waiting, and lines reach    *)
(* line_queue again.                                                        *)
MqttAttached == mqtt.connected /\ client.net = "accepted" /\ heard
MqttLeftRunning == wanted /\ guiAt.pc = "idle" /\ client.thread /\ broker = "up"
MqttRestoresLink == <>[]MqttLeftRunning => <>[]MqttAttached

(* A command that send() handed to the client reaches the broker in the     *)
(* end, also when its connection broke before the acknowledgement.          *)
CommandsArrive == <>[]MqttLeftRunning => [](command \in {"sent", "kept"} => <>(command = "done"))
=============================================================================
