----------------------------- MODULE Transports -----------------------------
(***************************************************************************)
(* The entry point of the ground station (ground_station/ground_station.py) *)
(* gives the window one of four managers: the serial port's, the TCP        *)
(* link's, the broker's, or the simulator.  They share no base class; the   *)
(* window calls the same methods and attributes of each, and relies on the  *)
(* promises stated here for all four.                                       *)
(***************************************************************************)
EXTENDS SerialManager, TcpManager, MqttManager, DemoSerialManager

VARIABLE kind \* the option on the command line

transportVars == <<kind, vars, tcpVars, mqttVars, demoVars>>

Kinds == {"serial", "wifi", "mqtt", "demo"}

(* main(): one manager is created.  The others stay as they are here, with  *)
(* one state each.                                                          *)
TransportsInit ==
    /\ kind \in Kinds
    /\ Init /\ TcpInit /\ MqttInit /\ DemoInit
    /\ kind # "serial" => plugged = {} /\ mgr.port = CHOOSE p \in Ports : TRUE
    /\ kind # "wifi" => ~listening
    /\ kind # "mqtt" => broker = "down"

SerialStep == kind = "serial" /\ Next /\ UNCHANGED <<kind, tcpVars, mqttVars, demoVars>>
TcpStep == kind = "wifi" /\ TcpNext /\ UNCHANGED <<kind, vars, mqttVars, demoVars>>
MqttStep == kind = "mqtt" /\ MqttNext /\ UNCHANGED <<kind, vars, tcpVars, demoVars>>
DemoStep == kind = "demo" /\ DemoNext /\ UNCHANGED <<kind, vars, tcpVars, mqttVars>>

(* closeEvent() has ended the program. *)
ProgramEnded == guiAt.pc = "end" /\ UNCHANGED transportVars

TransportsNext == SerialStep \/ TcpStep \/ MqttStep \/ DemoStep \/ ProgramEnded

TransportsSpec == TransportsInit /\ [][TransportsNext]_transportVars

(* Every thread is scheduled; a manager that was not chosen has none.       *)
Scheduled == WF_vars(Gui) /\ WF_vars(Reader) /\ TcpFairness /\ MqttFairness /\ DemoFairness
TransportsFairSpec == TransportsSpec /\ Scheduled

-----------------------------------------------------------------------------
(* Type invariant of the four managers. *)
TransportsTypeOK == kind \in Kinds /\ SerialTypeOK /\ TcpTypeOK /\ MqttTypeOK /\ DemoTypeOK

(* A manager that says connected is served: a thread of its own is alive    *)
(* that reads the link, or for the broker holds the subscriptions, if the   *)
(* user lets the last reader end before connecting again.                   *)
ConnectedIsServed ==
    /\ ConnectedIsRead /\ TcpConnectedIsRead /\ MqttConnectedIsRead
    /\ demo.connected => demo.running /\ Alive # {}

(* After the user's disconnect, and once the threads are through, nothing   *)
(* is left open: no port, no place at the device, no client at the broker.  *)
StoppedIsSilent == StoppedIsClosed /\ TcpStoppedIsClosed /\ MqttStoppedIsClosed

(* With all threads at rest, the last event the window gets is the truth:   *)
(* for port and device if the reader alone loses and restores the link, for *)
(* the broker unless connect() replaced a connection in the making.         *)
EventsTellTruth == EventsAgree /\ TcpEventsAgree /\ MqttEventsAgree

(* A link that is left running and can be restored for good is, in the end, *)
(* connected for good: to the port, to the device's server, and to the      *)
(* broker with lines arriving.                                              *)
LinkIsRestored == RestoresLink /\ TcpRestoresLink /\ MqttRestoresLink

(* disconnect() ends the threads of each manager that polls `running`.      *)
ReadersStop == ReaderStops /\ TcpReaderStops /\ DemoLoopEnds
=============================================================================
