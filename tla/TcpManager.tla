----------------------------- MODULE TcpManager -----------------------------
(***************************************************************************)
(* The ground station's direct WiFi link (ground_station/tcp_manager.py).   *)
(* It shares its attributes between the GUI thread and a reader thread as   *)
(* SerialManager does, and differs in what TCP asks for: recv() returns any *)
(* piece of the byte stream, so that lines are put together in _buffer,     *)
(* which both threads write, and an attribute that the other thread cleared *)
(* raises an AttributeError that nothing here catches.                      *)
(*                                                                          *)
(* An action is one access to a shared attribute.  The device sends lines   *)
(* in two halves, the second of which ends the line; a piece is a half with *)
(* the socket it came from.                                                 *)
(***************************************************************************)
EXTENDS Naturals, Sequences

VARIABLES
    tcp,       \* the attributes socket, connected, running, auto_reconnect, _buffer
    peers,     \* of each socket, its connection and the half of a line that comes next
    listening, \* the device accepts connections
    tcpRun,    \* of each thread: its next access, its local socket, was_connected
    data,      \* the reader's local variable data, or the buffer it is about to store
    tcpOp,     \* the method the GUI thread is in, where two share their steps
    tcpEvents, \* the last CONNECTED or DISCONNECTED put into event_queue
    tcpUse,    \* history: how the user has used the link so far, see SerialManager
    whole      \* history: every line put into line_queue is a line the device sent

tcpVars == <<tcp, peers, listening, tcpRun, data, tcpOp, tcpEvents, tcpUse, whole>>
tcpHistory == <<tcpEvents, tcpUse, whole>>

TcpThreads == {"gui", "reader"}
Sockets == 1 .. 5
NoSocket == 0
Closed == [state |-> "closed", half |-> 1]

Junk == <<NoSocket, 1>> \* halves that belong to no line of one connection
Pieces == (Sockets \cup {NoSocket}) \X {1, 2}
EndsLine(piece) == piece[2] = 2
OwnersOf(pieces) == { pieces[i][1] : i \in DOMAIN pieces }

(* The bytes of `more` behind the bytes of `kept`, which hold no newline.   *)
Joined(kept, more) ==
    IF kept = <<>> \/ (kept[1][1] = more[1][1] /\ EndsLine(more[1]))
    THEN kept \o more
    ELSE <<Junk>> \o (IF EndsLine(more[1]) THEN more ELSE Tail(more))

TcpOpening == {"open", "assign", "publish", "reset", "announce", "uncon", "unsocket"}
TcpDropping == {"was", "unpublish", "test", "close", "clear", "tell"}
TcpGuiPcs ==
    TcpOpening \cup TcpDropping \cup {"idle", "sethost", "connect", "run", "thread", "stop", "restart", "write"}
TcpReaderPcs ==
    TcpOpening \cup TcpDropping
    \cup {"none", "check", "branch", "auto", "sleep", "recheck", "load", "recv", "append", "store",
          "newline", "split", "rest"}

TcpInit ==
    /\ tcp = [socket |-> NoSocket, connected |-> FALSE, running |-> FALSE,
              autoReconnect |-> TRUE, buffer |-> <<>>]
    /\ peers = [s \in Sockets |-> Closed] /\ listening \in BOOLEAN
    /\ tcpRun = [t \in TcpThreads |->
                    [pc |-> IF t = "gui" THEN "idle" ELSE "none", sock |-> NoSocket, was |-> FALSE]]
    /\ data = <<>> /\ tcpOp = "connect"
    /\ tcpEvents = "DISCONNECTED" /\ tcpUse = "connects" /\ whole = TRUE

(* No history is kept of a user who is of no interest any more. *)
UsedAs(use) ==
    /\ tcpUse' = use
    /\ tcpEvents' = IF use = "any" THEN "DISCONNECTED" ELSE tcpEvents
    /\ whole' = (use = "any" \/ whole)
Puts(event) == tcpEvents' = IF tcpUse = "any" THEN tcpEvents ELSE event

TcpAt(t, label) == tcpRun[t].pc = label
TcpGoto(t, label) == tcpRun' = [tcpRun EXCEPT ![t].pc = label]

Held == {tcp.socket} \cup { tcpRun[t].sock : t \in TcpThreads }
Free == Sockets \ (Held \cup OwnersOf(tcp.buffer) \cup OwnersOf(data))
(* Sockets the next state does not refer to are closed by their finaliser. *)
TcpCollect == peers' = [s \in Sockets |-> IF s \in Held' THEN peers[s] ELSE Closed]

-----------------------------------------------------------------------------
(* _open(), called by connect() and by the reader. *)

TcpOpens(t) ==
    /\ TcpAt(t, "open") /\ listening
    /\ \E s \in Free :
          /\ \A f \in Free : s <= f
          /\ tcpRun' = [tcpRun EXCEPT ![t].pc = "assign", ![t].sock = s]
          /\ peers' = [peers EXCEPT ![s] = [state |-> "open", half |-> 1]]
    /\ UNCHANGED <<tcp, listening, data, tcpOp, tcpHistory>>

TcpOpenFails(t) ==
    /\ TcpAt(t, "open") /\ ~listening
    /\ TcpGoto(t, IF t = "gui" THEN "uncon" ELSE "unsocket")
    /\ UNCHANGED <<tcp, peers, listening, data, tcpOp, tcpHistory>>

TcpAssign(t) ==
    /\ TcpAt(t, "assign")
    /\ tcp' = [tcp EXCEPT !.socket = tcpRun[t].sock]
    /\ tcpRun' = [tcpRun EXCEPT ![t].pc = "publish", ![t].sock = NoSocket]
    /\ TcpCollect
    /\ UNCHANGED <<listening, data, tcpOp, tcpHistory>>

TcpPublish(t) ==
    /\ TcpAt(t, "publish") /\ TcpGoto(t, "reset")
    /\ tcp' = [tcp EXCEPT !.connected = TRUE]
    /\ UNCHANGED <<peers, listening, data, tcpOp, tcpHistory>>

(* Mutant of ResetBuffer: the rest of the last connection stays.            *)
KeepBuffer(t) ==
    /\ TcpAt(t, "reset") /\ TcpGoto(t, "announce")
    /\ UNCHANGED <<tcp, peers, listening, data, tcpOp, tcpHistory>>

(* The buffer is emptied when the reader may already fill it. *)
ResetBuffer(t) ==
    /\ TcpAt(t, "reset") /\ TcpGoto(t, "announce")
    /\ tcp' = [tcp EXCEPT !.buffer = <<>>]
    /\ UNCHANGED <<peers, listening, data, tcpOp, tcpHistory>>

TcpAnnounce(t) ==
    /\ TcpAt(t, "announce") /\ TcpGoto(t, IF t = "gui" THEN "run" ELSE "check")
    /\ Puts("CONNECTED")
    /\ UNCHANGED <<tcp, peers, listening, data, tcpOp, tcpUse, whole>>

(* connect() and the reader undo a failed _open() in different orders. *)
TcpForgetConnected(t) ==
    /\ TcpAt(t, "uncon") /\ TcpGoto(t, IF t = "gui" THEN "unsocket" ELSE "check")
    /\ tcp' = [tcp EXCEPT !.connected = FALSE]
    /\ UNCHANGED <<peers, listening, data, tcpOp, tcpHistory>>

ForgetSocket(t) ==
    /\ TcpAt(t, "unsocket") /\ TcpGoto(t, IF t = "gui" THEN "idle" ELSE "uncon")
    /\ tcp' = [tcp EXCEPT !.socket = NoSocket]
    /\ TcpCollect
    /\ UNCHANGED <<listening, data, tcpOp, tcpHistory>>

-----------------------------------------------------------------------------
(* _connection_lost(), and disconnect() once its two flags are written.     *)

TcpReadConnected(t) ==
    /\ TcpAt(t, "was")
    /\ tcpRun' = [tcpRun EXCEPT ![t].pc = "unpublish", ![t].was = tcp.connected]
    /\ UNCHANGED <<tcp, peers, listening, data, tcpOp, tcpHistory>>

(* Mutant of TcpUnpublish: was_connected is read after the flag is cleared. *)
TcpUnpublishFirst(t) ==
    /\ TcpAt(t, "unpublish")
    /\ tcpRun' = [tcpRun EXCEPT ![t].pc = "test", ![t].was = FALSE]
    /\ tcp' = [tcp EXCEPT !.connected = FALSE]
    /\ UNCHANGED <<peers, listening, data, tcpOp, tcpHistory>>

TcpUnpublish(t) ==
    /\ TcpAt(t, "unpublish") /\ TcpGoto(t, "test")
    /\ tcp' = [tcp EXCEPT !.connected = FALSE]
    /\ UNCHANGED <<peers, listening, data, tcpOp, tcpHistory>>

TestSocket(t) ==
    /\ TcpAt(t, "test") /\ TcpGoto(t, IF tcp.socket # NoSocket THEN "close" ELSE "clear")
    /\ UNCHANGED <<tcp, peers, listening, data, tcpOp, tcpHistory>>

CloseSocket(t) ==
    /\ TcpAt(t, "close") /\ tcp.socket # NoSocket /\ TcpGoto(t, "clear")
    /\ peers' = [peers EXCEPT ![tcp.socket] = Closed]
    /\ UNCHANGED <<tcp, listening, data, tcpOp, tcpHistory>>

(* close() of an attribute the other thread cleared after the test: the     *)
(* AttributeError ends the reader, or the GUI's call where it is.           *)
CloseNoSocket(t) ==
    /\ TcpAt(t, "close") /\ tcp.socket = NoSocket
    /\ TcpGoto(t, IF t = "gui" THEN "idle" ELSE "none")
    /\ UNCHANGED <<tcp, peers, listening, data, tcpOp, tcpHistory>>

ClearSocket(t) ==
    /\ TcpAt(t, "clear") /\ TcpGoto(t, "tell")
    /\ tcp' = [tcp EXCEPT !.socket = NoSocket]
    /\ TcpCollect
    /\ UNCHANGED <<listening, data, tcpOp, tcpHistory>>

TcpAfterDrop(t) ==
    CASE t = "reader" -> "check"
      [] t = "gui" /\ tcpOp = "reconnect" -> "restart"
      [] t = "gui" /\ tcpOp # "reconnect" -> "idle"

TcpTell(t) ==
    /\ TcpAt(t, "tell")
    /\ IF tcpRun[t].was THEN Puts("DISCONNECTED") ELSE UNCHANGED tcpEvents
    /\ tcpRun' = [tcpRun EXCEPT ![t].pc = TcpAfterDrop(t), ![t].was = FALSE]
    /\ UNCHANGED <<tcp, peers, listening, data, tcpOp, tcpUse, whole>>

-----------------------------------------------------------------------------
(* The GUI thread: toggle_connection(), send_command(), reconnect().  A     *)
(* click, and the sleep of 0.25 s in reconnect(), outlast the statements    *)
(* that take a received piece apart.                                        *)

SplittingPcs == {"append", "store", "newline", "split", "rest"}
Clicks == TcpAt("gui", "idle") /\ tcpRun["reader"].pc \notin SplittingPcs

TcpUserConnects ==
    /\ Clicks /\ ~tcp.connected
    /\ tcpOp' = "connect" /\ TcpGoto("gui", "sethost")
    /\ UsedAs(IF TcpAt("reader", "none") THEN tcpUse ELSE "any")
    /\ UNCHANGED <<tcp, peers, listening, data>>

(* set_port(), which keeps the only host there is, and auto_reconnect. *)
SetHost ==
    /\ TcpAt("gui", "sethost")
    /\ IF tcp.connected
       THEN TcpGoto("gui", "idle") /\ UNCHANGED tcp
       ELSE TcpGoto("gui", "connect") /\ tcp' = [tcp EXCEPT !.autoReconnect = TRUE]
    /\ UNCHANGED <<peers, listening, data, tcpOp, tcpHistory>>

TcpConnect ==
    /\ TcpAt("gui", "connect") /\ TcpGoto("gui", IF tcp.connected THEN "idle" ELSE "open")
    /\ UNCHANGED <<tcp, peers, listening, data, tcpOp, tcpHistory>>

TcpStart ==
    /\ TcpAt("gui", "run") /\ TcpGoto("gui", "thread")
    /\ tcp' = [tcp EXCEPT !.running = TRUE]
    /\ UNCHANGED <<peers, listening, data, tcpOp, tcpHistory>>

TcpStartReader ==
    /\ TcpAt("gui", "thread")
    /\ tcpRun' = [tcpRun EXCEPT !["gui"].pc = "idle", !["reader"].pc = IF @ = "none" THEN "check" ELSE @]
    /\ UNCHANGED <<tcp, peers, listening, data, tcpOp, tcpHistory>>

TcpUserDisconnects ==
    /\ Clicks /\ tcp.connected
    /\ tcpOp' = "disconnect" /\ TcpGoto("gui", "stop")
    /\ UsedAs(IF tcpUse = "connects" THEN "sessions" ELSE tcpUse)
    /\ UNCHANGED <<tcp, peers, listening, data>>

TcpReconnect ==
    /\ Clicks
    /\ tcpOp' = "reconnect" /\ TcpGoto("gui", "stop") /\ UsedAs("any")
    /\ UNCHANGED <<tcp, peers, listening, data>>

TcpStop ==
    /\ TcpAt("gui", "stop") /\ TcpGoto("gui", "was")
    /\ tcp' = [tcp EXCEPT !.autoReconnect = FALSE, !.running = FALSE]
    /\ UNCHANGED <<peers, listening, data, tcpOp, tcpHistory>>

TcpRestart ==
    /\ TcpAt("gui", "restart") /\ TcpGoto("gui", "connect")
    /\ tcpRun["reader"].pc \notin SplittingPcs
    /\ tcp' = [tcp EXCEPT !.autoReconnect = TRUE, !.running = TRUE] /\ tcpOp' = "connect"
    /\ UNCHANGED <<peers, listening, data, tcpHistory>>

TcpSend ==
    /\ Clicks /\ tcp.connected /\ tcp.socket # NoSocket
    /\ tcpOp' = "send" /\ TcpGoto("gui", "write")
    /\ UNCHANGED <<tcp, peers, listening, data, tcpHistory>>

(* sendall(): taken by the kernel, refused (by its timeout too), or called  *)
(* on None.                                                                 *)
TcpWrite ==
    /\ TcpAt("gui", "write")
    /\ \/ /\ tcp.socket # NoSocket => peers[tcp.socket].state # "closed"
          /\ TcpGoto("gui", "idle") /\ UsedAs(tcpUse)
       \/ tcp.socket # NoSocket /\ TcpGoto("gui", "was") /\ UsedAs("any")
    /\ UNCHANGED <<tcp, peers, listening, data, tcpOp>>

-----------------------------------------------------------------------------
(* The reader thread: _reader_loop(). *)

TcpCheckRunning ==
    /\ TcpAt("reader", "check") /\ TcpGoto("reader", IF tcp.running THEN "branch" ELSE "none")
    /\ UNCHANGED <<tcp, peers, listening, data, tcpOp, tcpHistory>>

TcpCheckConnected ==
    /\ TcpAt("reader", "branch") /\ TcpGoto("reader", IF tcp.connected THEN "load" ELSE "auto")
    /\ UNCHANGED <<tcp, peers, listening, data, tcpOp, tcpHistory>>

TcpCheckAuto ==
    /\ TcpAt("reader", "auto") /\ TcpGoto("reader", IF tcp.autoReconnect THEN "sleep" ELSE "check")
    /\ UNCHANGED <<tcp, peers, listening, data, tcpOp, tcpHistory>>

(* The sleep of 2 s outlasts a sendall() (0.25 s) and the few statements    *)
(* that close a connection; not an open (3 s).                              *)
TcpWake ==
    /\ TcpAt("reader", "sleep") /\ tcpRun["gui"].pc \notin TcpDropping \cup {"write", "stop"}
    /\ TcpGoto("reader", "recheck")
    /\ UNCHANGED <<tcp, peers, listening, data, tcpOp, tcpHistory>>

TcpRecheck ==
    /\ TcpAt("reader", "recheck")
    /\ TcpGoto("reader", IF ~tcp.running \/ tcp.connected THEN "check" ELSE "open")
    /\ UNCHANGED <<tcp, peers, listening, data, tcpOp, tcpHistory>>

(* self.socket.recv(): None there ends the thread by an AttributeError. *)
LoadSocket ==
    /\ TcpAt("reader", "load")
    /\ tcpRun' = [tcpRun EXCEPT !["reader"].sock = tcp.socket,
                                !["reader"].pc = IF tcp.socket = NoSocket THEN "none" ELSE "recv"]
    /\ UNCHANGED <<tcp, peers, listening, data, tcpOp, tcpHistory>>

Receives(label) == tcpRun' = [tcpRun EXCEPT !["reader"].sock = NoSocket, !["reader"].pc = label]

(* One half of a line or the next two. *)
Recv ==
    /\ TcpAt("reader", "recv") /\ Receives("append")
    /\ UNCHANGED <<tcp, listening, tcpOp, tcpHistory>>
    /\ LET s == tcpRun["reader"].sock
           first == peers[s].half
           from == IF tcpUse = "any" THEN NoSocket ELSE s
           left(n) == [r \in Sockets |-> CASE r \notin Held' -> Closed
                                           [] r \in Held' /\ r # s -> peers[r]
                                           [] r \in Held' /\ r = s -> [peers[s] EXCEPT !.half = n]]
       IN  /\ peers[s].state = "open"
           /\ \/ data' = <<<<from, first>>>> /\ peers' = left(3 - first)
              \/ data' = <<<<from, first>>, <<from, 3 - first>>>> /\ peers' = left(first)

RecvTimesOut ==
    /\ TcpAt("reader", "recv") /\ peers[tcpRun["reader"].sock].state # "ended"
    /\ Receives("check")
    /\ UNCHANGED <<tcp, listening, data, tcpOp, tcpHistory>>
    /\ TcpCollect

(* Mutant of RecvFails: no data is taken for a timeout.                     *)
RecvNothing ==
    /\ TcpAt("reader", "recv") /\ peers[tcpRun["reader"].sock].state \in {"ended", "closed"}
    /\ Receives("check")
    /\ UNCHANGED <<tcp, listening, data, tcpOp, tcpHistory>>
    /\ TcpCollect

(* No data (the device closed the connection), or an OSError. *)
RecvFails ==
    /\ TcpAt("reader", "recv") /\ peers[tcpRun["reader"].sock].state \in {"ended", "closed"}
    /\ Receives("was")
    /\ UNCHANGED <<tcp, listening, data, tcpOp, tcpHistory>>
    /\ TcpCollect

(* self._buffer += data: the buffer is read here and stored in the next step.*)
AppendData ==
    /\ TcpAt("reader", "append") /\ TcpGoto("reader", "store")
    /\ data' = Joined(tcp.buffer, data)
    /\ UNCHANGED <<tcp, peers, listening, tcpOp, tcpHistory>>

StoreBuffer ==
    /\ TcpAt("reader", "store") /\ TcpGoto("reader", "newline")
    /\ tcp' = [tcp EXCEPT !.buffer = data] /\ data' = <<>>
    /\ UNCHANGED <<peers, listening, tcpOp, tcpHistory>>

LineEnds(pieces) == { i \in DOMAIN pieces : EndsLine(pieces[i]) }

TestNewline ==
    /\ TcpAt("reader", "newline")
    /\ TcpGoto("reader", IF LineEnds(tcp.buffer) # {} THEN "split" ELSE "check")
    /\ UNCHANGED <<tcp, peers, listening, data, tcpOp, tcpHistory>>

(* A line that the device sent: both halves, from one connection. *)
SentLine(pieces) ==
    Len(pieces) = 2 /\ ~EndsLine(pieces[1]) /\ EndsLine(pieces[2]) /\ pieces[1][1] = pieces[2][1]

(* Unpacking the split of a buffer that was emptied after the test raises a *)
(* ValueError, which ends the thread.                                       *)
SplitLine ==
    /\ TcpAt("reader", "split")
    /\ IF LineEnds(tcp.buffer) = {}
       THEN TcpGoto("reader", "none") /\ UNCHANGED <<data, whole>>
       ELSE \E n \in LineEnds(tcp.buffer) :
               /\ \A m \in LineEnds(tcp.buffer) : n <= m
               /\ data' = SubSeq(tcp.buffer, n + 1, Len(tcp.buffer))
               /\ whole' = (tcpUse = "any" \/ (whole /\ SentLine(SubSeq(tcp.buffer, 1, n))))
               /\ TcpGoto("reader", "rest")
    /\ UNCHANGED <<tcp, peers, listening, tcpOp, tcpEvents, tcpUse>>

KeepRest ==
    /\ TcpAt("reader", "rest") /\ TcpGoto("reader", "newline")
    /\ tcp' = [tcp EXCEPT !.buffer = data] /\ data' = <<>>
    /\ UNCHANGED <<peers, listening, tcpOp, tcpHistory>>

-----------------------------------------------------------------------------
(* The device: it restarts or closes its server, which ends connections, or *)
(* vanishes from the network without a word, which leaves them mute.        *)
StopsListening ==
    /\ listening /\ listening' = FALSE
    /\ \E end \in {"ended", "mute"} :
          peers' = [s \in Sockets |-> IF peers[s].state = "open" THEN [peers[s] EXCEPT !.state = end] ELSE peers[s]]
    /\ UNCHANGED <<tcp, tcpRun, data, tcpOp, tcpHistory>>

Listens ==
    /\ ~listening /\ listening' = TRUE
    /\ UNCHANGED <<tcp, peers, tcpRun, data, tcpOp, tcpHistory>>

TcpOpenStep(t) ==
    \/ TcpOpens(t) \/ TcpOpenFails(t) \/ TcpAssign(t) \/ TcpPublish(t) \/ ResetBuffer(t) \/ TcpAnnounce(t)
    \/ TcpForgetConnected(t) \/ ForgetSocket(t)
TcpDropStep(t) ==
    \/ TcpReadConnected(t) \/ TcpUnpublish(t) \/ TestSocket(t)
    \/ CloseSocket(t) \/ CloseNoSocket(t) \/ ClearSocket(t) \/ TcpTell(t)

TcpUser == TcpUserConnects \/ TcpUserDisconnects \/ TcpReconnect \/ TcpSend
TcpGui ==
    \/ TcpOpenStep("gui") \/ TcpDropStep("gui")
    \/ SetHost \/ TcpConnect \/ TcpStart \/ TcpStartReader \/ TcpStop \/ TcpRestart \/ TcpWrite
TcpReader ==
    \/ TcpOpenStep("reader") \/ TcpDropStep("reader")
    \/ TcpCheckRunning \/ TcpCheckConnected \/ TcpCheckAuto \/ TcpWake \/ TcpRecheck
    \/ LoadSocket \/ Recv \/ RecvTimesOut \/ RecvFails
    \/ AppendData \/ StoreBuffer \/ TestNewline \/ SplitLine \/ KeepRest

TcpNext == TcpUser \/ TcpGui \/ TcpReader \/ StopsListening \/ Listens

TcpSpec == TcpInit /\ [][TcpNext]_tcpVars

(* Both threads are scheduled; nobody has to press a button. *)
TcpFairness == WF_tcpVars(TcpGui) /\ WF_tcpVars(TcpReader)
TcpFairSpec == TcpSpec /\ TcpFairness

-----------------------------------------------------------------------------
(* Type invariant; a free socket is always left to open. *)
TcpTypeOK ==
    /\ tcp.socket \in Sockets \cup {NoSocket} /\ tcp.buffer \in Seq(Pieces)
    /\ tcp.connected \in BOOLEAN /\ tcp.running \in BOOLEAN /\ tcp.autoReconnect \in BOOLEAN
    /\ peers \in [Sockets -> [state : {"open", "ended", "mute", "closed"}, half : {1, 2}]]
    /\ listening \in BOOLEAN /\ data \in Seq(Pieces) /\ Free # {}
    /\ DOMAIN tcpRun = TcpThreads
    /\ tcpRun["gui"].pc \in TcpGuiPcs /\ tcpRun["reader"].pc \in TcpReaderPcs
    /\ \A t \in TcpThreads : tcpRun[t].sock \in Sockets \cup {NoSocket} /\ tcpRun[t].was \in BOOLEAN
    /\ tcpOp \in {"connect", "disconnect", "send", "reconnect"}
    /\ tcpEvents \in {"CONNECTED", "DISCONNECTED"}
    /\ tcpUse \in {"connects", "sessions", "any"} /\ whole \in BOOLEAN

(* However the stream is cut into pieces and wherever connections end,      *)
(* every line that reaches the GUI is one the device sent: no half of a     *)
(* line survives in _buffer into the next connection.                       *)
LinesAreWhole == tcpUse # "any" => whole

(* A connection is read: when connect() has returned and the manager says   *)
(* connected, a reader thread is alive (none of the errors that nothing     *)
(* catches ends it), if the user lets the reader end before connecting.     *)
TcpConnectedIsRead ==
    tcpUse # "any" => (TcpAt("gui", "idle") /\ tcp.connected => ~TcpAt("reader", "none"))

(* Once the user's disconnect and the reader are through, no connection     *)
(* keeps the device's only place for a station.                             *)
TcpStoppedIsClosed ==
    tcpUse # "any" /\ TcpAt("gui", "idle") /\ TcpAt("reader", "none") =>
        ~tcp.connected /\ tcp.socket = NoSocket /\ \A s \in Sockets : peers[s].state = "closed"

(* The link comes back by itself: if the user leaves it running and the     *)
(* device listens for good, it is in the end connected for good; unless the *)
(* device vanished without a word, which recv() never notices.              *)
TcpAttached == tcp.connected /\ tcp.socket # NoSocket /\ peers[tcp.socket].state = "open"
TcpLeftRunning ==
    /\ tcpUse # "any" /\ TcpAt("gui", "idle") /\ tcp.running /\ listening
    /\ \A s \in Sockets : peers[s].state # "mute"
TcpRestoresLink == <>[]TcpLeftRunning => <>[]TcpAttached

(* With both threads at rest, the last event the GUI gets is the truth, if  *)
(* the reader alone loses and restores the link.                            *)
TcpEventsAgree ==
    (/\ tcpUse = "connects" /\ TcpAt("gui", "idle")
     /\ tcpRun["reader"].pc \notin TcpOpening \cup TcpDropping)
    => (tcpEvents = "CONNECTED" <=> tcp.connected)

(* disconnect() ends the reader thread for good. *)
TcpReaderStops == <>[](~tcp.running) => <>[](TcpAt("reader", "none"))
=============================================================================
