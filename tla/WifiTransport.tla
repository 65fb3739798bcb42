--------------------------- MODULE WifiTransport ---------------------------
(***************************************************************************)
(* The firmware's wireless transport (src/wifi_transport.cpp).  A pass of   *)
(* WifiTransport::loop() is                                                 *)
(*     serviceWifi -> serviceMqtt -> serviceDirectClient ->                 *)
(*     processPendingCommand                                                *)
(* and the rest of the firmware's loop follows, which may publish a         *)
(* telemetry packet.  One slot, pendingCommand_, lies between the two       *)
(* receivers and the command processor; one direct TCP client is served at  *)
(* a time; an answer goes to the broker and to the direct client of that    *)
(* moment.                                                                  *)
(*                                                                          *)
(* The WiFi stack, the broker and the ground stations are external.  A      *)
(* client is one TCP connection.  A command is named by its sender and its  *)
(* number; what processCommand() does with it is in module Device.  Blank   *)
(* lines and lines beyond 255 characters are not sent.                      *)
(***************************************************************************)
EXTENDS Naturals, Sequences, SequencesExt

CONSTANTS
    Clients,    \* direct connections, each dialled at most once
    MaxCommands \* bound: commands that all senders send together

Broker == "broker"
Nobody == "nobody"
Senders == Clients \cup {Broker}
Commands == [from : Senders, number : 1 .. MaxCommands]

ASSUME ClientsAssumption == Clients \cap {Broker, Nobody} = {} /\ MaxCommands \in Nat

VARIABLES
    pc,           \* the next call of a pass
    wifi,         \* WiFi.status() == WL_CONNECTED
    mqtt,         \* mqttClient.connected()
    directClient, \* the connection in directClient, or Nobody
    link,         \* of each connection, what the firmware's TCP stack knows of it
    ghosts,       \* connections whose peer is gone without a word
    written,      \* ghosts the firmware has written to
    waiting,      \* connections that directServer.available() has yet to hand out
    unread,       \* of each connection, the pieces of lines received and not read
    inbox,        \* MQTT messages received and not handled
    buffer,       \* directInputBuffer_
    pending,      \* pendingCommand_
    begun,        \* of each sender, how many commands it has begun to send
    total,        \* and how many all of them have
    typing,       \* connections whose last command is sent in part
    processed, overwritten, \* history: commands taken from, or replaced in, the slot
    answer        \* history: the last command processed and whom its answer reached

conns == <<directClient, link, waiting, unread, buffer>>
peers == <<ghosts, written, begun, total, typing>>
history == <<processed, overwritten, answer>>
vars == <<pc, wifi, mqtt, conns, peers, inbox, pending, history>>

(* A line arrives in two pieces, the second with its newline. *)
Piece(c, last) == [of |-> c, last |-> last]
Text(c) == <<Piece(c, FALSE), Piece(c, TRUE)>>
Empty == <<>>

Init ==
    /\ pc = "wifi" /\ wifi = FALSE /\ mqtt = FALSE
    /\ directClient = Nobody /\ link = [c \in Clients |-> "unused"]
    /\ ghosts = {} /\ written = {} /\ waiting = <<>>
    /\ unread = [c \in Clients |-> <<>>] /\ inbox = <<>> /\ buffer = Empty /\ pending = Empty
    /\ begun = [s \in Senders |-> 0] /\ total = 0 /\ typing = {}
    /\ processed = {} /\ overwritten = {} /\ answer = [of |-> Empty, to |-> {}]

(* WiFiClient::connected(): established, or closed with data left to read. *)
Connected(c) == c # Nobody /\ (link[c] = "open" \/ unread[c] # <<>>)

(* queueCommand() *)
QueueCommand(text) ==
    /\ pending' = text
    /\ overwritten' = IF pending = Empty THEN overwritten ELSE overwritten \cup {pending}

-----------------------------------------------------------------------------
(* serviceWifi() asks the stack to reconnect; the outcome is WifiUp. *)
ServiceWifi ==
    /\ pc = "wifi" /\ pc' = "mqtt"
    /\ UNCHANGED <<wifi, mqtt, conns, peers, inbox, pending, history>>

(* serviceMqtt(): mqttClient.loop() handles at most one message; without a  *)
(* connection, an attempt is due and succeeds, or not.                      *)
HandleMessage ==
    /\ pc = "mqtt" /\ wifi /\ mqtt /\ inbox # <<>> /\ pc' = "direct"
    /\ QueueCommand(Text(Head(inbox))) /\ inbox' = Tail(inbox)
    /\ UNCHANGED <<wifi, mqtt, conns, peers, processed, answer>>

ConnectMqtt ==
    /\ pc = "mqtt" /\ wifi /\ ~mqtt /\ pc' = "direct"
    /\ mqtt' = TRUE
    /\ UNCHANGED <<wifi, conns, peers, inbox, pending, history>>

NoMessage ==
    /\ pc = "mqtt" /\ ~(wifi /\ mqtt /\ inbox # <<>>) /\ pc' = "direct"
    /\ UNCHANGED <<wifi, mqtt, conns, peers, inbox, pending, history>>

(* serviceDirectClient(), without WiFi: the client is stopped. *)
Hung(c) == IF c = Nobody THEN link ELSE [link EXCEPT ![c] = "closed"]
Flushed(c) == IF c = Nobody THEN unread ELSE [unread EXCEPT ![c] = <<>>]

StopClient ==
    /\ pc = "direct" /\ ~wifi /\ pc' = "process"
    /\ link' = Hung(directClient) /\ unread' = Flushed(directClient)
    /\ directClient' = Nobody
    /\ UNCHANGED <<wifi, mqtt, waiting, buffer, peers, inbox, pending, history>>

(* Mutant of AcceptClient: what the last client began to type stays.        *)
AcceptWithBuffer ==
    /\ pc = "direct" /\ wifi /\ ~Connected(directClient) /\ pc' = "process"
    /\ waiting # <<>> /\ waiting' = Tail(waiting)
    /\ IF Connected(Head(waiting))
       THEN directClient' = Head(waiting) /\ link' = Hung(directClient)
       ELSE UNCHANGED <<directClient, link>>
    /\ UNCHANGED <<wifi, mqtt, unread, buffer, peers, inbox, pending, history>>

(* Only without a connected client does it look for the next one. *)
AcceptClient ==
    /\ pc = "direct" /\ wifi /\ ~Connected(directClient) /\ pc' = "process"
    /\ waiting # <<>> /\ waiting' = Tail(waiting)
    /\ IF Connected(Head(waiting))
       THEN /\ directClient' = Head(waiting) /\ buffer' = Empty
            /\ link' = Hung(directClient)
       ELSE UNCHANGED <<directClient, buffer, link>>
    /\ UNCHANGED <<wifi, mqtt, unread, peers, inbox, pending, history>>

NoClient ==
    /\ pc = "direct" /\ wifi /\ ~Connected(directClient) /\ waiting = <<>> /\ pc' = "process"
    /\ UNCHANGED <<wifi, mqtt, conns, peers, inbox, pending, history>>

ServeClient ==
    /\ pc = "direct" /\ wifi /\ Connected(directClient) /\ pc' = "reading"
    /\ UNCHANGED <<wifi, mqtt, conns, peers, inbox, pending, history>>

(* Mutant of ReadPiece: the buffer is not cleared at the end of a line.     *)
ReadAndKeep ==
    /\ pc = "reading" /\ unread[directClient] # <<>>
    /\ LET text == Append(buffer, Head(unread[directClient]))
       IN  /\ buffer' = text
           /\ IF Last(text).last THEN QueueCommand(text) ELSE UNCHANGED <<pending, overwritten>>
    /\ unread' = [unread EXCEPT ![directClient] = Tail(@)]
    /\ UNCHANGED <<pc, wifi, mqtt, directClient, link, waiting, peers, inbox, processed, answer>>

(* The loop over available(), a piece at a time. *)
ReadPiece ==
    /\ pc = "reading" /\ unread[directClient] # <<>>
    /\ LET text == Append(buffer, Head(unread[directClient]))
       IN  IF Last(text).last
           THEN QueueCommand(text) /\ buffer' = Empty
           ELSE buffer' = text /\ UNCHANGED <<pending, overwritten>>
    /\ unread' = [unread EXCEPT ![directClient] = Tail(@)]
    /\ UNCHANGED <<pc, wifi, mqtt, directClient, link, waiting, peers, inbox, processed, answer>>

(* Mutant of NothingToRead: the command waits for a later pass.             *)
LeavePending ==
    /\ pc = "reading" /\ unread[directClient] = <<>> /\ pc' = "rest"
    /\ UNCHANGED <<wifi, mqtt, conns, peers, inbox, pending, history>>

NothingToRead ==
    /\ pc = "reading" /\ unread[directClient] = <<>> /\ pc' = "process"
    /\ UNCHANGED <<wifi, mqtt, conns, peers, inbox, pending, history>>

(* Whom publishResponseLines() and publishTelemetry() write to. *)
Receivers ==
    (IF mqtt THEN {Broker} ELSE {}) \cup (IF Connected(directClient) THEN {directClient} ELSE {})

(* Mutant of ProcessPending: the slot is not emptied.                       *)
ProcessAndKeep ==
    /\ pc = "process" /\ pending # Empty /\ pc' = "rest"
    /\ processed' = processed \cup {pending}
    /\ answer' = [of |-> pending, to |-> Receivers]
    /\ written' = written \cup (Receivers \cap ghosts)
    /\ UNCHANGED <<wifi, mqtt, conns, ghosts, begun, total, typing, inbox, pending, overwritten>>

(* processPendingCommand() *)
ProcessPending ==
    /\ pc = "process" /\ pending # Empty /\ pc' = "rest"
    /\ pending' = Empty
    /\ processed' = processed \cup {pending}
    /\ answer' = [of |-> pending, to |-> Receivers]
    /\ written' = written \cup (Receivers \cap ghosts)
    /\ UNCHANGED <<wifi, mqtt, conns, ghosts, begun, total, typing, inbox, overwritten>>

NothingPending ==
    /\ pc = "process" /\ pending = Empty /\ pc' = "rest"
    /\ UNCHANGED <<wifi, mqtt, conns, peers, inbox, pending, history>>

(* Mutant of PublishTelemetry: packets go to the broker only.               *)
PublishToBroker ==
    /\ pc = "rest" /\ pc' = "wifi"
    /\ UNCHANGED <<wifi, mqtt, conns, peers, inbox, pending, history>>

(* publishTelemetry(), when a packet is due; and when none is. *)
PublishTelemetry ==
    /\ pc = "rest" /\ pc' = "wifi"
    /\ written' = written \cup (Receivers \cap ghosts)
    /\ UNCHANGED <<wifi, mqtt, conns, ghosts, begun, total, typing, inbox, pending, history>>

NoTelemetry ==
    /\ pc = "rest" /\ pc' = "wifi"
    /\ UNCHANGED <<wifi, mqtt, conns, peers, inbox, pending, history>>

-----------------------------------------------------------------------------
(* External: the WiFi stack, the broker and the ground stations. *)

WifiUp ==
    /\ ~wifi /\ wifi' = TRUE
    /\ UNCHANGED <<pc, mqtt, conns, peers, inbox, pending, history>>

(* TCP connections and what has been received outlive the radio link. *)
WifiDown ==
    /\ wifi /\ wifi' = FALSE
    /\ UNCHANGED <<pc, mqtt, conns, peers, inbox, pending, history>>

MqttDrops ==
    /\ mqtt /\ mqtt' = FALSE /\ inbox' = <<>>
    /\ UNCHANGED <<pc, wifi, conns, peers, pending, history>>

Dial(c) ==
    /\ wifi /\ link[c] = "unused"
    /\ link' = [link EXCEPT ![c] = "open"] /\ waiting' = Append(waiting, c)
    /\ UNCHANGED <<pc, wifi, mqtt, directClient, unread, buffer, peers, inbox, pending, history>>

(* The peer closes the connection; what it sent before stays readable. *)
Hangup(c) ==
    /\ link[c] = "open" /\ c \notin ghosts
    /\ link' = [link EXCEPT ![c] = "closed"]
    /\ UNCHANGED <<pc, wifi, mqtt, directClient, waiting, unread, buffer, peers, inbox, pending, history>>

(* The peer loses power or leaves the network. *)
Vanish(c) ==
    /\ link[c] = "open" /\ c \notin ghosts
    /\ ghosts' = ghosts \cup {c}
    /\ UNCHANGED <<pc, wifi, mqtt, conns, written, begun, total, typing, inbox, pending, history>>

(* TCP gives up on data nobody acknowledges. *)
GiveUp ==
    /\ \E c \in written :
          /\ link[c] = "open"
          /\ link' = [link EXCEPT ![c] = "closed"] /\ unread' = [unread EXCEPT ![c] = <<>>]
    /\ UNCHANGED <<pc, wifi, mqtt, directClient, waiting, buffer, peers, inbox, pending, history>>

BeginsCommand(s) ==
    /\ total < MaxCommands /\ total' = total + 1
    /\ begun' = [begun EXCEPT ![s] = @ + 1]

SendPiece(c) ==
    /\ wifi /\ link[c] = "open" /\ c \notin ghosts
    /\ IF c \in typing
       THEN /\ unread' = [unread EXCEPT ![c] = Append(@, Piece([from |-> c, number |-> begun[c]], TRUE))]
            /\ typing' = typing \ {c} /\ UNCHANGED <<begun, total>>
       ELSE /\ BeginsCommand(c) /\ typing' = typing \cup {c}
            /\ unread' = [unread EXCEPT ![c] = Append(@, Piece([from |-> c, number |-> begun[c] + 1], FALSE))]
    /\ UNCHANGED <<pc, wifi, mqtt, directClient, link, waiting, buffer, ghosts, written, inbox,
                   pending, history>>

PublishCommand ==
    /\ wifi /\ mqtt /\ BeginsCommand(Broker)
    /\ inbox' = Append(inbox, [from |-> Broker, number |-> begun[Broker] + 1])
    /\ UNCHANGED <<pc, wifi, mqtt, conns, ghosts, written, typing, pending, history>>

-----------------------------------------------------------------------------
Pass ==
    \/ ServiceWifi
    \/ HandleMessage \/ ConnectMqtt \/ NoMessage
    \/ StopClient \/ AcceptClient \/ NoClient \/ ServeClient \/ ReadPiece \/ NothingToRead
    \/ ProcessPending \/ NothingPending
    \/ PublishTelemetry \/ NoTelemetry

External ==
    \/ WifiUp \/ WifiDown \/ MqttDrops \/ GiveUp \/ PublishCommand
    \/ \E c \in Clients : Dial(c) \/ Hangup(c) \/ Vanish(c) \/ SendPiece(c)

Next == Pass \/ External
Spec == Init /\ [][Next]_vars

(* loop() runs for ever, the stream is not paused for ever, and TCP's       *)
(* retransmissions run out.                                                 *)
FairSpec == Spec /\ WF_vars(Pass) /\ SF_vars(PublishTelemetry) /\ WF_vars(GiveUp)

-----------------------------------------------------------------------------
(* Type invariant. *)
Texts == { Text(c) : c \in Commands }
Pieces == [of : Commands, last : BOOLEAN]
WifiTypeOK ==
    /\ pc \in {"wifi", "mqtt", "direct", "reading", "process", "rest"}
    /\ wifi \in BOOLEAN /\ mqtt \in BOOLEAN
    /\ directClient \in Clients \cup {Nobody}
    /\ link \in [Clients -> {"unused", "open", "closed"}]
    /\ written \subseteq ghosts /\ ghosts \subseteq Clients
    /\ waiting \in Seq(Clients) /\ inbox \in Seq(Commands)
    /\ unread \in [Clients -> Seq(Pieces)]
    /\ buffer \in Seq(Pieces) /\ Len(buffer) <= 1 \* the begin of one line
    /\ begun \in [Senders -> Nat] /\ (\A s \in Senders : begun[s] <= total) /\ total \in 0 .. MaxCommands
    /\ typing \subseteq Clients

(* No command is spliced: what comes into the slot, and so to the command   *)
(* processor, is one line of one sender, although a connection may break    *)
(* in the middle of a line and another take its place.                      *)
WholeCommands == ({pending} \ {Empty}) \cup processed \cup overwritten \subseteq Texts

(* No command is processed twice, none is processed that was overwritten,   *)
(* and a sender's commands are processed in the order it sent them.         *)
InOrderStep ==
    pc = "process" /\ pc' = "rest" /\ pending # Empty =>
        /\ pending \notin overwritten
        /\ \A done \in processed :
              done[1].of.from = pending[1].of.from => done[1].of.number < pending[1].of.number
InOrder == [][InOrderStep]_vars

(* The sender of a command gets its answer: the direct client an answer is  *)
(* written to is the connection the command came from, not a successor.     *)
AnswerReachesSender ==
    answer.of # Empty =>
        LET sender == answer.of[1].of.from
        IN  sender \in Clients => answer.to \cap Clients \subseteq {sender}

(* A ghost does not keep the place of the direct client for ever while a    *)
(* live station waits.                                                      *)
NobodyWaitsForAGhost ==
    \A c \in Clients :
        ~<>[](/\ wifi /\ c \in ToSet(waiting) /\ link[c] = "open"
              /\ \A d \in Clients \ {c} : link[d] = "open" => d \in ghosts)
=============================================================================
