-------------------------- MODULE TransportsProofs --------------------------
(* What the window relies on holds of each of its four managers, whatever   *)
(* the order of the accesses of the two threads.  Each manager has an       *)
(* inductive invariant of its own; the last part puts them together, since  *)
(* a step of the program is a step of the manager that main() chose.        *)
EXTENDS Transports, SequenceTheorems, TLAPS

-----------------------------------------------------------------------------
(* The serial port's manager. *)

Starting == {"setport", "connect", "run", "thread"} \cup Opening \* in connect()
Restoring == {"open", "assign", "publish", "uncon", "unserial"}  \* and not yet connected
Dropped == {"test", "close", "clear", "tell"}                    \* and connected no more

(* What is open is in use, and a thread holds an object only while it opens *)
(* or reads it.                                                             *)
SerialHeld ==
    /\ \A h \in Handles : at[h] # "closed" => h \in Referenced
    /\ held["gui"] # None <=> pc["gui"] = "assign"
    /\ held["reader"] # None <=> pc["reader"] \in {"assign", "read"}

IsOpen(h) == h # None /\ at[h] # "closed"

(* Where the two threads can be, unless the user connects, reconnects or    *)
(* loses a connection in send() while the reader is alive: connect() runs   *)
(* alone; disconnect() never meets a reader that restores the link, since   *)
(* that one sleeps longer or finds `running` cleared; the reader ends only  *)
(* after disconnect().                                                      *)
SerialServed ==
    use # "any" =>
        /\ pc["gui"] \in Starting => pc["reader"] = "none"
        /\ pc["gui"] \in {"stop"} \cup Dropping =>
               op = "disconnect" /\ pc["reader"] \notin Restoring \cup {"recheck"}
        /\ pc["gui"] # "restart"
        /\ pc["gui"] \in Dropping => ~mgr.running
        /\ pc["gui"] = "thread" => mgr.running
        /\ pc["gui"] \in Restoring \cup Dropped \cup {"setport", "connect"} => ~mgr.connected
        /\ pc["reader"] \in Restoring \cup Dropped \cup {"auto", "sleep", "recheck"} => ~mgr.connected
        /\ pc["reader"] \in Restoring => mgr.running
        /\ mgr.connected \/ pc["gui"] = "publish" \/ pc["reader"] = "publish" => IsOpen(mgr.serial)
        /\ \A t \in Threads : pc[t] = "assign" => at[held[t]] # "closed"
        /\ pc["reader"] = "load" => IsOpen(mgr.serial) \/ ~mgr.running
        /\ pc["reader"] = "read" => at[held["reader"]] # "closed" \/ ~mgr.running
        /\ pc["reader"] = "none" => ~mgr.running \/ pc["gui"] = "thread"
        /\ pc["gui"] \in {"idle", "write"} /\ ~mgr.running => mgr.serial = None /\ ~mgr.connected
        /\ pc["gui"] = "tell" => mgr.serial = None

(* If the user only connects, `connected` and the last event agree but for  *)
(* the steps that lie between them.                                         *)
SerialTruth ==
    use = "connects" =>
        /\ pc["gui"] \in Starting \cup {"idle", "write"}
        /\ pc["gui"] \in Restoring \cup {"setport", "connect", "announce"} => events = "DISCONNECTED"
        /\ pc["gui"] \in {"announce", "run", "thread"} => mgr.connected
        /\ pc["gui"] \in {"run", "thread"} => events = "CONNECTED"
        /\ pc["gui"] \in {"idle", "write"} =>
              /\ pc["reader"] \notin Dropped \cup {"announce"} => (events = "CONNECTED" <=> mgr.connected)
              /\ pc["reader"] = "announce" => events = "DISCONNECTED"
              /\ pc["reader"] \in {"announce", "load", "read", "was", "unpublish"} => mgr.connected
              /\ pc["reader"] \in Dropped => events = "CONNECTED"
              /\ pc["reader"] \in Dropped \cup {"unpublish"} => was["reader"]

SerialInv == SerialTypeOK /\ SerialHeld /\ SerialServed /\ SerialTruth

Attributes ==
    [serial : Handles \cup {None}, connected : BOOLEAN, running : BOOLEAN, autoReconnect : BOOLEAN, port : Ports]

(* It holds at the start ...                                                *)
LEMMA SerialInitial == Init => SerialInv
  <1> SUFFICES ASSUME Init PROVE SerialInv
    OBVIOUS
  <1>1. /\ mgr \in Attributes /\ mgr.serial = None /\ ~mgr.connected /\ ~mgr.running
    BY PortsAssumption DEF Init, Attributes
  <1>2. pc["gui"] = "idle" /\ pc["reader"] = "none" /\ DOMAIN pc = Threads BY DEF Init, Threads
  <1>3. \A h \in Handles : at[h] = "closed" BY DEF Init
  <1>4. held["gui"] = None /\ held["reader"] = None BY DEF Init, Threads
  <1>5. SerialTypeOK
    BY <1>1, <1>2 DEF SerialTypeOK, Init, Attributes, GuiPcs, ReaderPcs, Operations, Uses, Threads
  <1>6. SerialHeld BY <1>2, <1>3, <1>4 DEF SerialHeld
  <1>7. SerialServed
    BY <1>1, <1>2 DEF SerialServed, Starting, Restoring, Dropped, Opening, Dropping, Threads
  <1>8. SerialTruth BY <1>1, <1>2 DEF SerialTruth, Init, Starting, Restoring, Dropped, Opening
  <1> QED BY <1>5, <1>6, <1>7, <1>8 DEF SerialInv

(* ... and is enough for what the window relies on.                         *)
LEMMA SerialPromises == SerialInv => SerialTypeOK /\ ConnectedIsRead /\ StoppedIsClosed /\ EventsAgree
  <1> SUFFICES ASSUME SerialInv PROVE ConnectedIsRead /\ StoppedIsClosed /\ EventsAgree
    BY DEF SerialInv
  <1>1. ConnectedIsRead BY DEF SerialInv, SerialServed, ConnectedIsRead
  <1>2. StoppedIsClosed
    <2> SUFFICES ASSUME use # "any", pc["gui"] = "idle", pc["reader"] = "none"
                 PROVE  ~mgr.connected /\ mgr.serial = None /\ \A h \in Handles : at[h] = "closed"
      BY DEF StoppedIsClosed
    <2>1. ~mgr.connected /\ mgr.serial = None BY DEF SerialInv, SerialServed
    <2>2. Referenced = {None} BY <2>1 DEF SerialInv, SerialHeld, Referenced, Threads
    <2> QED BY <2>1, <2>2 DEF SerialInv, SerialHeld, Handles, None
  <1>3. EventsAgree BY DEF SerialInv, SerialTruth, EventsAgree, AtRest, Opening, Dropping, Dropped
  <1> QED BY <1>1, <1>2, <1>3

(* The steps of the user, the GUI thread, the reader and the ports keep it. *)
LEMMA SerialUserStep == SerialInv /\ User => SerialInv'
  <1> SUFFICES ASSUME SerialInv, User PROVE SerialInv'
    OBVIOUS
  <1> USE DEF SerialInv, SerialTypeOK, SerialHeld, SerialServed, SerialTruth, Starting, Restoring, Dropped,
              Opening, Dropping, Threads, Goto, Referenced, GuiPcs, ReaderPcs, IsOpen, Operations, Uses
  <1>1. CASE UserConnects BY <1>1 DEF UserConnects
  <1>2. CASE UserDisconnects BY <1>2 DEF UserDisconnects
  <1>3. CASE Reconnect BY <1>3 DEF Reconnect
  <1>4. CASE Send BY <1>4 DEF Send
  <1> QED BY <1>1, <1>2, <1>3, <1>4 DEF User
(* What an assignment to one or two attributes makes of the manager.        *)
LEMMA PublishedSet ==
    ASSUME SerialTypeOK, NEW b \in BOOLEAN, mgr' = [mgr EXCEPT !.connected = b]
    PROVE  mgr' \in Attributes /\ mgr'.connected = b /\ mgr'.serial = mgr.serial /\ mgr'.running = mgr.running
  BY DEF SerialTypeOK, Attributes

(* The same of `running` ...                                                *)
LEMMA RunningSet ==
    ASSUME SerialTypeOK, NEW b \in BOOLEAN,
           \/ mgr' = [mgr EXCEPT !.running = b]
           \/ mgr' = [mgr EXCEPT !.autoReconnect = b, !.running = b]
    PROVE  mgr' \in Attributes /\ mgr'.running = b /\ mgr'.serial = mgr.serial /\ mgr'.connected = mgr.connected
  BY DEF SerialTypeOK, Attributes

(* ... and of the port.                                                     *)
LEMMA PortSet ==
    ASSUME SerialTypeOK, NEW p \in Ports, mgr' = [mgr EXCEPT !.port = p, !.autoReconnect = TRUE]
    PROVE  /\ mgr' \in Attributes /\ mgr'.running = mgr.running
           /\ mgr'.serial = mgr.serial /\ mgr'.connected = mgr.connected
  BY DEF SerialTypeOK, Attributes

(* Those of the GUI thread.                                                 *)
LEMMA SerialGuiStep == SerialInv /\ Gui => SerialInv'
  <1> SUFFICES ASSUME SerialInv, Gui PROVE SerialInv'
    OBVIOUS
  <1> USE DEF SerialInv, SerialTypeOK, SerialHeld, SerialServed, SerialTruth, Starting, Restoring, Dropped,
              Opening, Dropping, Threads, Goto, Referenced, GuiPcs, ReaderPcs, IsOpen, Operations, Uses, locals, None,
              Collect
  <1>1. CASE Opens("gui")
    <2>1. PICK h \in Handles \ Referenced :
             held' = [held EXCEPT !["gui"] = h] /\ at' = [at EXCEPT ![h] = mgr.port]
      BY <1>1 DEF Opens
    <2>2. /\ at' \in [Handles -> Ports \cup {"broken", "closed"}] /\ at'[h] \in Ports
          /\ \A g \in Handles \ {h} : at'[g] = at[g]
      BY <2>1
    <2>3. held' \in [Threads -> Handles \cup {None}] /\ held'["gui"] = h
          /\ \A u \in Threads \ {"gui"} : held'[u] = held[u]
      BY <2>1
    <2>4. pc["gui"] = "open" /\ pc' = [pc EXCEPT !["gui"] = "assign"]
          /\ UNCHANGED <<mgr, plugged, was, op, events, use>>
      BY <1>1 DEF Opens
    <2>5. at'[h] # "closed" /\ \A g \in Handles : g # None BY <2>2, PortsAssumption DEF Handles
    <2>6. held["gui"] = None BY <2>4
    <2>7. SerialTypeOK' BY <2>2, <2>3, <2>4
    <2>8. SerialHeld'
      <3>1. \A g \in Handles : g \in Referenced => g \in Referenced' BY <2>3, <2>4, <2>5, <2>6
      <3>2. h \in Referenced' BY <2>3
      <3>3. \A g \in Handles : at'[g] # "closed" => g \in Referenced' BY <2>2, <3>1, <3>2
      <3>4. held'["gui"] # None /\ pc'["gui"] = "assign" BY <2>3, <2>4, <2>5
      <3> QED BY <2>3, <2>4, <3>3, <3>4
    <2>9. SerialServed' BY <2>2, <2>3, <2>4, <2>5
    <2>10. SerialTruth' BY <2>4
    <2> QED BY <2>7, <2>8, <2>9, <2>10
  <1>2. CASE OpenFails("gui") BY <1>2 DEF OpenFails
  <1>3. CASE Assign("gui") BY <1>3 DEF Assign
  <1>4. CASE Publish("gui")
    <2>1. mgr' \in Attributes /\ mgr'.connected = TRUE /\ mgr'.serial = mgr.serial /\ mgr'.running = mgr.running
      BY <1>4, PublishedSet DEF Publish
    <2>2. /\ pc["gui"] = "publish" /\ pc' = [pc EXCEPT !["gui"] = "announce"]
          /\ UNCHANGED <<at, plugged, held, was, op, events, use>>
      BY <1>4 DEF Publish
    <2> QED BY <2>1, <2>2 DEF Attributes
  <1>5. CASE Announce("gui") BY <1>5 DEF Announce
  <1>6. CASE ForgetConnected("gui")
    <2>1. mgr' \in Attributes /\ mgr'.connected = FALSE /\ mgr'.serial = mgr.serial /\ mgr'.running = mgr.running
      BY <1>6, PublishedSet DEF ForgetConnected
    <2>2. /\ pc["gui"] = "uncon" /\ pc' = [pc EXCEPT !["gui"] = "unserial"]
          /\ UNCHANGED <<at, plugged, held, was, op, events, use>>
      BY <1>6 DEF ForgetConnected
    <2> QED BY <2>1, <2>2 DEF Attributes
  <1>7. CASE ForgetSerial("gui") BY <1>7 DEF ForgetSerial
  <1>8. CASE ReadConnected("gui") BY <1>8 DEF ReadConnected
  <1>9. CASE Unpublish("gui")
    <2>1. mgr' \in Attributes /\ mgr'.connected = FALSE /\ mgr'.serial = mgr.serial /\ mgr'.running = mgr.running
      BY <1>9, PublishedSet DEF Unpublish
    <2>2. /\ pc["gui"] = "unpublish" /\ pc' = [pc EXCEPT !["gui"] = "test"]
          /\ UNCHANGED <<at, plugged, held, was, op, events, use>>
      BY <1>9 DEF Unpublish
    <2> QED BY <2>1, <2>2 DEF Attributes
  <1>10. CASE TestSerial("gui") BY <1>10 DEF TestSerial
  <1>11. CASE CloseSerial("gui") BY <1>11 DEF CloseSerial
  <1>12. CASE CloseNone("gui") BY <1>12 DEF CloseNone
  <1>13. CASE ClearSerial("gui") BY <1>13 DEF ClearSerial
  <1>14. CASE Tell("gui") BY <1>14 DEF Tell, AfterDrop
  <1>15. CASE SetPort
    <2>1. /\ mgr' \in Attributes /\ mgr'.running = mgr.running
          /\ mgr'.serial = mgr.serial /\ mgr'.connected = mgr.connected
      BY <1>15, PortSet DEF SetPort, Attributes
    <2>2. /\ pc["gui"] = "setport"
          /\ pc' = [pc EXCEPT !["gui"] = IF mgr.connected THEN "idle" ELSE "connect"]
          /\ UNCHANGED <<at, plugged, held, was, op, events, use>>
      BY <1>15 DEF SetPort
    <2> QED BY <2>1, <2>2 DEF Attributes
  <1>16. CASE Connect BY <1>16 DEF Connect
  <1>17. CASE Run
    <2>1. mgr' \in Attributes /\ mgr'.running = TRUE /\ mgr'.serial = mgr.serial /\ mgr'.connected = mgr.connected
      BY <1>17, RunningSet DEF Run
    <2>2. /\ pc["gui"] = "run" /\ pc' = [pc EXCEPT !["gui"] = "thread"]
          /\ UNCHANGED <<at, plugged, held, was, op, events, use>>
      BY <1>17 DEF Run
    <2> QED BY <2>1, <2>2 DEF Attributes
  <1>18. CASE StartReader BY <1>18 DEF StartReader
  <1>19. CASE Stop
    <2>1. mgr' \in Attributes /\ mgr'.running = FALSE /\ mgr'.serial = mgr.serial /\ mgr'.connected = mgr.connected
      BY <1>19, RunningSet DEF Stop
    <2>2. /\ pc["gui"] = "stop" /\ pc' = [pc EXCEPT !["gui"] = "was"]
          /\ UNCHANGED <<at, plugged, held, was, op, events, use>>
      BY <1>19 DEF Stop
    <2> QED BY <2>1, <2>2 DEF Attributes
  <1>20. CASE RestartLink
    <2>1. mgr' \in Attributes /\ mgr'.running = TRUE /\ mgr'.serial = mgr.serial /\ mgr'.connected = mgr.connected
      BY <1>20, RunningSet DEF RestartLink
    <2>2. /\ pc["gui"] = "restart" /\ pc' = [pc EXCEPT !["gui"] = "connect"] /\ op' = "connect"
          /\ UNCHANGED <<at, plugged, held, was, events, use>>
      BY <1>20 DEF RestartLink
    <2> QED BY <2>1, <2>2 DEF Attributes
  <1>21. CASE Write BY <1>21 DEF Write
  <1> QED
    BY <1>1, <1>2, <1>3, <1>4, <1>5, <1>6, <1>7, <1>8, <1>9, <1>10, <1>11, <1>12, <1>13, <1>14, <1>15,
       <1>16, <1>17, <1>18, <1>19, <1>20, <1>21 DEF Gui, OpenStep, DropStep

(* Those of the reader thread.                                              *)
LEMMA SerialReaderStep == SerialInv /\ Reader => SerialInv'
  <1> SUFFICES ASSUME SerialInv, Reader PROVE SerialInv'
    OBVIOUS
  <1> USE DEF SerialInv, SerialTypeOK, SerialHeld, SerialServed, SerialTruth, Starting, Restoring, Dropped,
              Opening, Dropping, Threads, Goto, Referenced, GuiPcs, ReaderPcs, IsOpen, Operations, Uses, locals, None,
              Collect
  <1>1. CASE Opens("reader")
    <2>1. PICK h \in Handles \ Referenced :
             held' = [held EXCEPT !["reader"] = h] /\ at' = [at EXCEPT ![h] = mgr.port]
      BY <1>1 DEF Opens
    <2>2. /\ at' \in [Handles -> Ports \cup {"broken", "closed"}] /\ at'[h] \in Ports
          /\ \A g \in Handles \ {h} : at'[g] = at[g]
      BY <2>1
    <2>3. held' \in [Threads -> Handles \cup {None}] /\ held'["reader"] = h
          /\ \A u \in Threads \ {"reader"} : held'[u] = held[u]
      BY <2>1
    <2>4. pc["reader"] = "open" /\ pc' = [pc EXCEPT !["reader"] = "assign"]
          /\ UNCHANGED <<mgr, plugged, was, op, events, use>>
      BY <1>1 DEF Opens
    <2>5. at'[h] # "closed" /\ \A g \in Handles : g # None BY <2>2, PortsAssumption DEF Handles
    <2>6. held["reader"] = None BY <2>4
    <2>7. SerialTypeOK' BY <2>2, <2>3, <2>4
    <2>8. SerialHeld'
      <3>1. \A g \in Handles : g \in Referenced => g \in Referenced' BY <2>3, <2>4, <2>5, <2>6
      <3>2. h \in Referenced' BY <2>3
      <3>3. \A g \in Handles : at'[g] # "closed" => g \in Referenced' BY <2>2, <3>1, <3>2
      <3>4. held'["reader"] # None /\ pc'["reader"] = "assign" BY <2>3, <2>4, <2>5
      <3> QED BY <2>3, <2>4, <3>3, <3>4
    <2>9. SerialServed' BY <2>2, <2>3, <2>4, <2>5
    <2>10. SerialTruth' BY <2>4
    <2> QED BY <2>7, <2>8, <2>9, <2>10
  <1>2. CASE OpenFails("reader") BY <1>2 DEF OpenFails
  <1>3. CASE Assign("reader") BY <1>3 DEF Assign
  <1>4. CASE Publish("reader")
    <2>1. mgr' \in Attributes /\ mgr'.connected = TRUE /\ mgr'.serial = mgr.serial /\ mgr'.running = mgr.running
      BY <1>4, PublishedSet DEF Publish
    <2>2. /\ pc["reader"] = "publish" /\ pc' = [pc EXCEPT !["reader"] = "announce"]
          /\ UNCHANGED <<at, plugged, held, was, op, events, use>>
      BY <1>4 DEF Publish
    <2> QED BY <2>1, <2>2 DEF Attributes
  <1>5. CASE Announce("reader") BY <1>5 DEF Announce
  <1>6. CASE ForgetConnected("reader")
    <2>1. mgr' \in Attributes /\ mgr'.connected = FALSE /\ mgr'.serial = mgr.serial /\ mgr'.running = mgr.running
      BY <1>6, PublishedSet DEF ForgetConnected
    <2>2. /\ pc["reader"] = "uncon" /\ pc' = [pc EXCEPT !["reader"] = "check"]
          /\ UNCHANGED <<at, plugged, held, was, op, events, use>>
      BY <1>6 DEF ForgetConnected
    <2> QED BY <2>1, <2>2 DEF Attributes
  <1>7. CASE ForgetSerial("reader") BY <1>7 DEF ForgetSerial
  <1>8. CASE ReadConnected("reader") BY <1>8 DEF ReadConnected
  <1>9. CASE Unpublish("reader")
    <2>1. mgr' \in Attributes /\ mgr'.connected = FALSE /\ mgr'.serial = mgr.serial /\ mgr'.running = mgr.running
      BY <1>9, PublishedSet DEF Unpublish
    <2>2. /\ pc["reader"] = "unpublish" /\ pc' = [pc EXCEPT !["reader"] = "test"]
          /\ UNCHANGED <<at, plugged, held, was, op, events, use>>
      BY <1>9 DEF Unpublish
    <2> QED BY <2>1, <2>2 DEF Attributes
  <1>10. CASE TestSerial("reader") BY <1>10 DEF TestSerial
  <1>11. CASE CloseSerial("reader") BY <1>11 DEF CloseSerial
  <1>12. CASE CloseNone("reader") BY <1>12 DEF CloseNone
  <1>13. CASE ClearSerial("reader") BY <1>13 DEF ClearSerial
  <1>14. CASE Tell("reader") BY <1>14 DEF Tell, AfterDrop
  <1>15. CASE CheckRunning BY <1>15 DEF CheckRunning
  <1>16. CASE CheckConnected BY <1>16 DEF CheckConnected
  <1>17. CASE CheckAuto BY <1>17 DEF CheckAuto
  <1>18. CASE Wake BY <1>18 DEF Wake
  <1>19. CASE Recheck BY <1>19 DEF Recheck
  <1>20. CASE LoadSerial
    <2>1. /\ pc["reader"] = "load"
          /\ pc' = [pc EXCEPT !["reader"] = IF mgr.serial = None THEN "none" ELSE "read"]
          /\ UNCHANGED <<mgr, at, plugged, was, op, events, use>>
      BY <1>20 DEF LoadSerial
    <2>2. held' \in [Threads -> Handles \cup {None}] /\ held'["reader"] = mgr.serial /\ held'["gui"] = held["gui"]
      BY <1>20 DEF LoadSerial
    <2>3. held["reader"] = None BY <2>1
    <2>4. SerialTypeOK' BY <2>1, <2>2
    <2>5. SerialHeld'
      <3>1. \A h \in Handles : h # None
        BY DEF Handles
      <3>3. \A h \in Handles : h \in Referenced => h \in Referenced' BY <2>1, <2>2, <2>3, <3>1
      <3>2. held'["reader"] # None <=> pc'["reader"] \in {"assign", "read"} BY <2>1, <2>2
      <3> QED BY <2>1, <2>2, <3>3, <3>2
    <2>6. SerialServed' BY <2>1, <2>2
    <2>7. SerialTruth' BY <2>1, <2>2
    <2> QED BY <2>4, <2>5, <2>6, <2>7
  <1>21. CASE ReadLine BY <1>21, PortsAssumption DEF ReadLine
  <1>22. CASE ReadFails BY <1>22 DEF ReadFails
  <1> QED
    BY <1>1, <1>2, <1>3, <1>4, <1>5, <1>6, <1>7, <1>8, <1>9, <1>10, <1>11, <1>12, <1>13, <1>14, <1>15,
       <1>16, <1>17, <1>18, <1>19, <1>20, <1>21, <1>22 DEF Reader, OpenStep, DropStep

(* A port that comes or goes.                                               *)
LEMMA SerialPlugStep == SerialInv /\ (Unplug \/ Plug) => SerialInv'
  BY PortsAssumption DEF SerialInv, SerialTypeOK, SerialHeld, SerialServed, SerialTruth, Referenced, IsOpen, Unplug, Plug, locals, Threads

(* Every step keeps the invariant.                                          *)
LEMMA SerialInductive == SerialInv /\ [Next]_vars => SerialInv'
  <1>1. SerialInv /\ Next => SerialInv'
    BY SerialUserStep, SerialGuiStep, SerialReaderStep, SerialPlugStep DEF Next
  <1>2. SerialInv /\ UNCHANGED vars => SerialInv'
    BY DEF vars, locals, SerialInv, SerialTypeOK, SerialHeld, SerialServed, SerialTruth, Referenced, IsOpen
  <1> QED BY <1>1, <1>2

-----------------------------------------------------------------------------
(* The TCP link. *)

TcpStarting == {"sethost", "connect", "run", "thread"} \cup TcpOpening
TcpRestoring == {"open", "assign", "publish", "uncon", "unsocket"}

Links ==
    [socket : Sockets \cup {NoSocket}, connected : BOOLEAN, running : BOOLEAN, autoReconnect : BOOLEAN,
     buffer : Seq(Pieces)]
Peers == [state : {"open", "ended", "mute", "closed"}, half : {1, 2}]
Rows == [pc : TcpGuiPcs \cup TcpReaderPcs, sock : Sockets \cup {NoSocket}, was : BOOLEAN]

(* The types once more, as sets of records.                                 *)
TcpShape ==
    /\ tcp \in Links /\ peers \in [Sockets -> Peers] /\ tcpRun \in [TcpThreads -> Rows]
    /\ tcpRun["gui"].pc \in TcpGuiPcs /\ tcpRun["reader"].pc \in TcpReaderPcs
    /\ listening \in BOOLEAN /\ data \in Seq(Pieces)
    /\ tcpOp \in {"connect", "disconnect", "send", "reconnect"}
    /\ tcpEvents \in {"CONNECTED", "DISCONNECTED"}
    /\ tcpUse \in {"connects", "sessions", "any"} /\ whole \in BOOLEAN

(* What is open is in use, and a thread holds a socket only while it opens  *)
(* or reads it; what is buffered came from one connection.                  *)
TcpHeld ==
    /\ \A s \in Sockets : peers[s].state # "closed" => s \in Held
    /\ tcpRun["gui"].sock # NoSocket <=> TcpAt("gui", "assign")
    /\ tcpRun["reader"].sock # NoSocket <=> tcpRun["reader"].pc \in {"assign", "recv"}

OneOwner ==
    /\ \E s \in Sockets : OwnersOf(tcp.buffer) \cup OwnersOf(data) \subseteq {s, NoSocket}
    /\ TcpAt("reader", "append") => data # <<>>

OpenAt(s) == s # NoSocket /\ peers[s].state # "closed"

(* As SerialServed. *)
TcpServed ==
    tcpUse # "any" =>
        /\ tcpRun["gui"].pc \in TcpStarting => TcpAt("reader", "none")
        /\ tcpRun["gui"].pc \in {"stop"} \cup TcpDropping =>
               tcpOp = "disconnect" /\ tcpRun["reader"].pc \notin TcpRestoring \cup {"recheck"}
        /\ tcpRun["gui"].pc # "restart"
        /\ tcpRun["gui"].pc \in TcpDropping => ~tcp.running
        /\ tcpRun["gui"].pc = "thread" => tcp.running
        /\ tcpRun["gui"].pc \in TcpRestoring \cup Dropped \cup {"sethost", "connect"} => ~tcp.connected
        /\ tcpRun["reader"].pc \in TcpRestoring \cup Dropped \cup {"auto", "sleep", "recheck"} => ~tcp.connected
        /\ tcpRun["reader"].pc \in TcpRestoring => tcp.running
        /\ tcp.connected \/ TcpAt("gui", "publish") \/ TcpAt("reader", "publish") => OpenAt(tcp.socket)
        /\ \A t \in TcpThreads : TcpAt(t, "assign") => OpenAt(tcpRun[t].sock)
        /\ TcpAt("reader", "load") => OpenAt(tcp.socket) \/ ~tcp.running
        /\ TcpAt("reader", "close") => tcp.socket # NoSocket \/ ~tcp.running
        /\ TcpAt("reader", "none") => ~tcp.running \/ TcpAt("gui", "thread")
        /\ tcpRun["gui"].pc \in {"idle", "write"} /\ ~tcp.running => tcp.socket = NoSocket /\ ~tcp.connected
        /\ TcpAt("gui", "tell") => tcp.socket = NoSocket

(* As SerialTruth. *)
TcpTruth ==
    tcpUse = "connects" =>
        /\ tcpRun["gui"].pc \in TcpStarting \cup {"idle", "write"}
        /\ tcpRun["gui"].pc \in TcpRestoring \cup {"sethost", "connect", "reset", "announce"} =>
               tcpEvents = "DISCONNECTED"
        /\ tcpRun["gui"].pc \in {"reset", "announce", "run", "thread"} => tcp.connected
        /\ tcpRun["gui"].pc \in {"run", "thread"} => tcpEvents = "CONNECTED"
        /\ tcpRun["gui"].pc \in {"idle", "write"} =>
              /\ tcpRun["reader"].pc \notin Dropped \cup {"reset", "announce"} =>
                     (tcpEvents = "CONNECTED" <=> tcp.connected)
              /\ tcpRun["reader"].pc \in {"reset", "announce"} => tcpEvents = "DISCONNECTED"
              /\ tcpRun["reader"].pc \in {"reset", "announce", "load", "recv", "was", "unpublish"} \cup SplittingPcs =>
                     tcp.connected
              /\ tcpRun["reader"].pc \in Dropped => tcpEvents = "CONNECTED"
              /\ TcpAt("reader", "close") => tcp.socket # NoSocket
              /\ tcpRun["reader"].pc \in Dropped \cup {"unpublish"} => tcpRun["reader"].was

(* The steps that take apart what was received.                             *)
TcpReceives == Recv \/ AppendData \/ StoreBuffer \/ TestNewline \/ SplitLine \/ KeepRest

TcpBase == TcpShape /\ TcpHeld /\ TcpServed /\ TcpTruth

(* What a thread's going on makes of the table of threads ...               *)
LEMMA RunGoes ==
    ASSUME TcpShape, NEW t \in TcpThreads, NEW to \in TcpGuiPcs \cup TcpReaderPcs, TcpGoto(t, to)
    PROVE  /\ tcpRun' \in [TcpThreads -> Rows] /\ tcpRun'[t].pc = to
           /\ tcpRun'[t].sock = tcpRun[t].sock /\ tcpRun'[t].was = tcpRun[t].was
           /\ \A u \in TcpThreads \ {t} : tcpRun'[u] = tcpRun[u]
  BY DEF TcpShape, Rows, TcpGoto

(* ... and of one that notes was_connected ...                              *)
LEMMA RunNotes ==
    ASSUME TcpShape, NEW t \in TcpThreads, NEW to \in TcpGuiPcs \cup TcpReaderPcs, NEW b \in BOOLEAN,
           tcpRun' = [tcpRun EXCEPT ![t].pc = to, ![t].was = b]
    PROVE  /\ tcpRun' \in [TcpThreads -> Rows] /\ tcpRun'[t].pc = to
           /\ tcpRun'[t].sock = tcpRun[t].sock /\ tcpRun'[t].was = b
           /\ \A u \in TcpThreads \ {t} : tcpRun'[u] = tcpRun[u]
  BY DEF TcpShape, Rows

(* ... or takes a socket.                                                   *)
LEMMA RunHolds ==
    ASSUME TcpShape, NEW t \in TcpThreads, NEW to \in TcpGuiPcs \cup TcpReaderPcs,
           NEW s \in Sockets \cup {NoSocket}, tcpRun' = [tcpRun EXCEPT ![t].pc = to, ![t].sock = s]
    PROVE  /\ tcpRun' \in [TcpThreads -> Rows] /\ tcpRun'[t].pc = to
           /\ tcpRun'[t].sock = s /\ tcpRun'[t].was = tcpRun[t].was
           /\ \A u \in TcpThreads \ {t} : tcpRun'[u] = tcpRun[u]
  BY DEF TcpShape, Rows

(* ... and an assignment of the manager.                                    *)
LEMMA LinkConnected ==
    ASSUME TcpShape, NEW b \in BOOLEAN, tcp' = [tcp EXCEPT !.connected = b]
    PROVE  /\ tcp' \in Links /\ tcp'.connected = b /\ tcp'.socket = tcp.socket
           /\ tcp'.running = tcp.running /\ tcp'.buffer = tcp.buffer
  BY DEF TcpShape, Links

(* The same of `running` ...                                                *)
LEMMA LinkRunning ==
    ASSUME TcpShape, NEW b \in BOOLEAN,
           \/ tcp' = [tcp EXCEPT !.running = b]
           \/ tcp' = [tcp EXCEPT !.autoReconnect = b, !.running = b]
    PROVE  /\ tcp' \in Links /\ tcp'.running = b /\ tcp'.socket = tcp.socket
           /\ tcp'.connected = tcp.connected /\ tcp'.buffer = tcp.buffer
  BY DEF TcpShape, Links

(* ... of auto_reconnect ...                                                *)
LEMMA LinkAuto ==
    ASSUME TcpShape, tcp' = [tcp EXCEPT !.autoReconnect = TRUE]
    PROVE  /\ tcp' \in Links /\ tcp'.running = tcp.running /\ tcp'.socket = tcp.socket
           /\ tcp'.connected = tcp.connected /\ tcp'.buffer = tcp.buffer
  BY DEF TcpShape, Links

(* ... of the buffer ...                                                    *)
LEMMA LinkBuffer ==
    ASSUME TcpShape, NEW q \in Seq(Pieces), tcp' = [tcp EXCEPT !.buffer = q]
    PROVE  /\ tcp' \in Links /\ tcp'.running = tcp.running /\ tcp'.socket = tcp.socket
           /\ tcp'.connected = tcp.connected /\ tcp'.buffer = q
  BY DEF TcpShape, Links

(* ... and of the socket.                                                   *)
LEMMA LinkSocket ==
    ASSUME TcpShape, NEW s \in Sockets \cup {NoSocket}, tcp' = [tcp EXCEPT !.socket = s]
    PROVE  /\ tcp' \in Links /\ tcp'.running = tcp.running /\ tcp'.socket = s
           /\ tcp'.connected = tcp.connected /\ tcp'.buffer = tcp.buffer
  BY DEF TcpShape, Links

(* An empty buffer holds halves of lines.                                   *)
LEMMA EmptyPieces == <<>> \in Seq(Pieces)
  OBVIOUS

(* The type of `connected`, for the steps that note it.                     *)
LEMMA ConnectedBoolean == TcpShape => tcp.connected \in BOOLEAN
  BY DEF TcpShape, Links

(* The steps of the user keep the base of the invariant.                    *)
LEMMA TcpUserStep == TcpBase /\ TcpUser => TcpBase'
  <1> SUFFICES ASSUME TcpBase, TcpUser PROVE TcpBase'
    OBVIOUS
  <1> USE DEF TcpBase, TcpShape, TcpHeld, TcpServed, TcpTruth, TcpStarting, TcpRestoring, Dropped, TcpOpening,
              TcpDropping, TcpThreads, TcpGoto, TcpAt, Held, TcpGuiPcs, TcpReaderPcs, OpenAt, Links, Rows,
              SplittingPcs, Puts, UsedAs, Clicks, tcpHistory, TcpCollect, Peers, Closed
  <1>1. CASE TcpUserConnects BY <1>1 DEF TcpUserConnects
  <1>2. CASE TcpUserDisconnects BY <1>2 DEF TcpUserDisconnects
  <1>3. CASE TcpReconnect BY <1>3 DEF TcpReconnect
  <1>4. CASE TcpSend BY <1>4 DEF TcpSend
  <1> QED
    BY <1>1, <1>2, <1>3, <1>4
    DEF TcpUser

(* So do those of the GUI thread ...                                        *)
LEMMA TcpGuiStep == TcpBase /\ TcpGui => TcpBase'
  <1> SUFFICES ASSUME TcpBase, TcpGui PROVE TcpBase'
    OBVIOUS
  <1> USE DEF TcpBase, TcpShape, TcpHeld, TcpServed, TcpTruth, TcpStarting, TcpRestoring, Dropped, TcpOpening,
              TcpDropping, TcpThreads, TcpGoto, TcpAt, Held, TcpGuiPcs, TcpReaderPcs, OpenAt, Links, Rows,
              SplittingPcs, Puts, UsedAs, Clicks, tcpHistory, TcpCollect, Peers, Closed
  <1>1. CASE TcpOpens("gui")
    <2>1. PICK s \in Free :
             /\ tcpRun' = [tcpRun EXCEPT !["gui"].pc = "assign", !["gui"].sock = s]
             /\ peers' = [peers EXCEPT ![s] = [state |-> "open", half |-> 1]]
      BY <1>1 DEF TcpOpens
    <2>2. s \in Sockets /\ s \notin Held /\ s # NoSocket /\ \A r \in Sockets : r # NoSocket
      BY DEF Free, Sockets, NoSocket
    <2>3. /\ tcpRun' \in [TcpThreads -> Rows] /\ tcpRun'["gui"].pc = "assign"
          /\ tcpRun'["gui"].sock = s /\ tcpRun'["gui"].was = tcpRun["gui"].was
          /\ tcpRun'["reader"] = tcpRun["reader"]
      <3> HIDE DEF TcpShape, Held, Rows, TcpHeld, TcpServed, TcpTruth, TcpBase
      <3>1. TcpShape /\ "gui" \in TcpThreads /\ "assign" \in TcpGuiPcs \cup TcpReaderPcs
        BY DEF TcpBase
      <3>2. s \in Sockets \cup {NoSocket} BY <2>2
      <3>3. /\ tcpRun' \in [TcpThreads -> Rows] /\ tcpRun'["gui"].pc = "assign"
            /\ tcpRun'["gui"].sock = s /\ tcpRun'["gui"].was = tcpRun["gui"].was
            /\ \A u \in TcpThreads \ {"gui"} : tcpRun'[u] = tcpRun[u]
        BY <2>1, <3>1, <3>2, RunHolds
      <3> QED BY <3>3
    <2>4. peers' \in [Sockets -> Peers] /\ peers'[s].state = "open"
          /\ \A r \in Sockets \ {s} : peers'[r] = peers[r]
      BY <2>1, <2>2
    <2>5. TcpAt("gui", "open") /\ UNCHANGED <<tcp, listening, data, tcpOp, tcpEvents, tcpUse, whole>>
      BY <1>1 DEF TcpOpens
    <2>6. TcpShape' BY <2>3, <2>4, <2>5
    <2>7. TcpHeld'
      <3>1. tcpRun["gui"].sock = NoSocket BY <2>5
      <3>2. \A r \in Sockets : r \in Held => r \in Held' BY <2>2, <2>3, <2>5, <3>1
      <3>3. s \in Held' BY <2>3
      <3>4. \A r \in Sockets : peers'[r].state # "closed" => r \in Held' BY <2>4, <3>2, <3>3
      <3> QED BY <2>2, <2>3, <2>5, <3>4
    <2>8. TcpServed' BY <2>2, <2>3, <2>4, <2>5
    <2>9. TcpTruth' BY <2>3, <2>5
    <2> QED BY <2>1, <2>2, <2>3, <2>4, <2>5, <2>6, <2>7, <2>8, <2>9
  <1>2. CASE TcpOpenFails("gui") BY <1>2 DEF TcpOpenFails
  <1>3. CASE TcpAssign("gui") BY <1>3 DEF TcpAssign
  <1>4. CASE TcpPublish("gui")
    <2>1. /\ tcp' \in Links /\ tcp'.connected = TRUE /\ tcp'.running = tcp.running /\ tcp'.socket = tcp.socket
      BY <1>4, LinkConnected DEF TcpPublish
    <2>2. /\ tcpRun' \in [TcpThreads -> Rows] /\ tcpRun'["gui"].pc = "reset"
          /\ tcpRun'["gui"].sock = tcpRun["gui"].sock /\ tcpRun'["gui"].was = tcpRun["gui"].was
          /\ tcpRun'["reader"] = tcpRun["reader"]
      BY <1>4, RunGoes DEF TcpPublish
    <2>3. TcpAt("gui", "publish") /\ UNCHANGED <<peers, listening, data, tcpOp, tcpEvents, tcpUse, whole>>
      BY <1>4 DEF TcpPublish
    <2> QED BY <2>1, <2>2, <2>3
  <1>5. CASE ResetBuffer("gui")
    <2>1. /\ tcp' \in Links /\ tcp'.connected = tcp.connected /\ tcp'.running = tcp.running /\ tcp'.socket = tcp.socket
      BY <1>5, LinkBuffer, EmptyPieces DEF ResetBuffer
    <2>2. /\ tcpRun' \in [TcpThreads -> Rows] /\ tcpRun'["gui"].pc = "announce"
          /\ tcpRun'["gui"].sock = tcpRun["gui"].sock /\ tcpRun'["gui"].was = tcpRun["gui"].was
          /\ tcpRun'["reader"] = tcpRun["reader"]
      BY <1>5, RunGoes DEF ResetBuffer
    <2>3. TcpAt("gui", "reset") /\ UNCHANGED <<peers, listening, data, tcpOp, tcpEvents, tcpUse, whole>>
      BY <1>5 DEF ResetBuffer
    <2> QED BY <2>1, <2>2, <2>3
  <1>6. CASE TcpAnnounce("gui") BY <1>6 DEF TcpAnnounce
  <1>7. CASE TcpForgetConnected("gui")
    <2>1. /\ tcp' \in Links /\ tcp'.connected = FALSE /\ tcp'.running = tcp.running /\ tcp'.socket = tcp.socket
      BY <1>7, LinkConnected DEF TcpForgetConnected
    <2>2. /\ tcpRun' \in [TcpThreads -> Rows] /\ tcpRun'["gui"].pc = "unsocket"
          /\ tcpRun'["gui"].sock = tcpRun["gui"].sock /\ tcpRun'["gui"].was = tcpRun["gui"].was
          /\ tcpRun'["reader"] = tcpRun["reader"]
      BY <1>7, RunGoes DEF TcpForgetConnected
    <2>3. TcpAt("gui", "uncon") /\ UNCHANGED <<peers, listening, data, tcpOp, tcpEvents, tcpUse, whole>>
      BY <1>7 DEF TcpForgetConnected
    <2> QED BY <2>1, <2>2, <2>3
  <1>8. CASE ForgetSocket("gui")
    <2>1. /\ tcp' \in Links /\ tcp'.connected = tcp.connected /\ tcp'.running = tcp.running /\ tcp'.socket = NoSocket
      BY <1>8, LinkSocket DEF ForgetSocket
    <2>2. /\ tcpRun' \in [TcpThreads -> Rows] /\ tcpRun'["gui"].pc = "idle"
          /\ tcpRun'["gui"].sock = tcpRun["gui"].sock /\ tcpRun'["gui"].was = tcpRun["gui"].was
          /\ tcpRun'["reader"] = tcpRun["reader"]
      BY <1>8, RunGoes DEF ForgetSocket
    <2>3. TcpAt("gui", "unsocket") /\ UNCHANGED <<listening, data, tcpOp, tcpEvents, tcpUse, whole>>
      BY <1>8 DEF ForgetSocket
    <2>4. peers' = [s \in Sockets |-> IF s \in Held' THEN peers[s] ELSE Closed]
      BY <1>8 DEF ForgetSocket
    <2>5. TcpShape' BY <2>1, <2>2, <2>3, <2>4
    <2>6. TcpHeld' BY <2>1, <2>2, <2>3, <2>4
    <2>7. TcpServed' BY <2>1, <2>2, <2>3
    <2>8. TcpTruth' BY <2>1, <2>2, <2>3
    <2> QED BY <2>1, <2>2, <2>3, <2>4, <2>5, <2>6, <2>7, <2>8
  <1>9. CASE TcpReadConnected("gui")
    <2>1. /\ tcpRun' \in [TcpThreads -> Rows] /\ tcpRun'["gui"].pc = "unpublish"
          /\ tcpRun'["gui"].sock = tcpRun["gui"].sock /\ tcpRun'["gui"].was = tcp.connected
          /\ tcpRun'["reader"] = tcpRun["reader"]
      BY <1>9, RunNotes, ConnectedBoolean DEF TcpReadConnected
    <2>2. TcpAt("gui", "was") /\ UNCHANGED <<tcp, peers, listening, data, tcpOp, tcpEvents, tcpUse, whole>>
      BY <1>9 DEF TcpReadConnected
    <2> QED BY <2>1, <2>2
  <1>10. CASE TcpUnpublish("gui")
    <2>1. /\ tcp' \in Links /\ tcp'.connected = FALSE /\ tcp'.running = tcp.running /\ tcp'.socket = tcp.socket
      BY <1>10, LinkConnected DEF TcpUnpublish
    <2>2. /\ tcpRun' \in [TcpThreads -> Rows] /\ tcpRun'["gui"].pc = "test"
          /\ tcpRun'["gui"].sock = tcpRun["gui"].sock /\ tcpRun'["gui"].was = tcpRun["gui"].was
          /\ tcpRun'["reader"] = tcpRun["reader"]
      BY <1>10, RunGoes DEF TcpUnpublish
    <2>3. TcpAt("gui", "unpublish") /\ UNCHANGED <<peers, listening, data, tcpOp, tcpEvents, tcpUse, whole>>
      BY <1>10 DEF TcpUnpublish
    <2> QED BY <2>1, <2>2, <2>3
  <1>11. CASE TestSocket("gui") BY <1>11 DEF TestSocket
  <1>12. CASE CloseSocket("gui")
    <2>1. /\ tcpRun' \in [TcpThreads -> Rows] /\ tcpRun'["gui"].pc = "clear"
          /\ tcpRun'["gui"].sock = tcpRun["gui"].sock /\ tcpRun'["gui"].was = tcpRun["gui"].was
          /\ tcpRun'["reader"] = tcpRun["reader"]
      BY <1>12, RunGoes DEF CloseSocket
    <2>2. peers' \in [Sockets -> Peers] /\ \A s \in Sockets : peers'[s] = IF s = tcp.socket THEN Closed ELSE peers[s]
      BY <1>12 DEF CloseSocket
    <2>3. TcpAt("gui", "close") /\ UNCHANGED <<tcp, listening, data, tcpOp, tcpEvents, tcpUse, whole>>
      BY <1>12 DEF CloseSocket
    <2> QED BY <2>1, <2>2, <2>3
  <1>13. CASE CloseNoSocket("gui")
    <2>1. /\ tcpRun' \in [TcpThreads -> Rows] /\ tcpRun'["gui"].pc = "idle"
          /\ tcpRun'["gui"].sock = tcpRun["gui"].sock /\ tcpRun'["gui"].was = tcpRun["gui"].was
          /\ tcpRun'["reader"] = tcpRun["reader"]
      BY <1>13, RunGoes DEF CloseNoSocket
    <2>2. TcpAt("gui", "close") /\ UNCHANGED <<tcp, peers, listening, data, tcpOp, tcpEvents, tcpUse, whole>> /\ tcp.socket = NoSocket
      BY <1>13 DEF CloseNoSocket
    <2> QED BY <2>1, <2>2
  <1>14. CASE ClearSocket("gui") BY <1>14 DEF ClearSocket
  <1>15. CASE TcpTell("gui")
    <2>1. PICK to \in {"restart", "idle"} :
             /\ tcpRun' = [tcpRun EXCEPT !["gui"].pc = to, !["gui"].was = FALSE]
             /\ to = "restart" <=> tcpOp = "reconnect"
      BY <1>15 DEF TcpTell, TcpAfterDrop
    <2>2. /\ tcpRun' \in [TcpThreads -> Rows] /\ tcpRun'["gui"].pc = to
          /\ tcpRun'["gui"].sock = tcpRun["gui"].sock /\ tcpRun'["gui"].was = FALSE
          /\ tcpRun'["reader"] = tcpRun["reader"]
      BY <2>1, RunNotes
    <2>3. TcpAt("gui", "tell") /\ UNCHANGED <<tcp, peers, listening, data, tcpOp, tcpUse, whole>>
      BY <1>15 DEF TcpTell
    <2>4. tcpEvents' = IF tcpRun["gui"].was /\ tcpUse # "any" THEN "DISCONNECTED" ELSE tcpEvents
      BY <1>15 DEF TcpTell
    <2> QED BY <2>1, <2>2, <2>3, <2>4
  <1>16. CASE SetHost
    <2>1. /\ tcp' \in Links /\ tcp'.connected = tcp.connected /\ tcp'.running = tcp.running
          /\ tcp'.socket = tcp.socket
      BY <1>16, LinkAuto DEF SetHost
    <2>2. /\ tcpRun' \in [TcpThreads -> Rows] /\ tcpRun'["gui"].pc = (IF tcp.connected THEN "idle" ELSE "connect")
          /\ tcpRun'["gui"].sock = tcpRun["gui"].sock /\ tcpRun'["gui"].was = tcpRun["gui"].was
          /\ tcpRun'["reader"] = tcpRun["reader"]
      BY <1>16, RunGoes DEF SetHost
    <2>3. TcpAt("gui", "sethost") /\ UNCHANGED <<peers, listening, data, tcpOp, tcpEvents, tcpUse, whole>>
      BY <1>16 DEF SetHost
    <2> QED BY <2>1, <2>2, <2>3
  <1>17. CASE TcpConnect BY <1>17 DEF TcpConnect
  <1>18. CASE TcpStart
    <2>1. /\ tcp' \in Links /\ tcp'.connected = tcp.connected /\ tcp'.running = TRUE /\ tcp'.socket = tcp.socket
      BY <1>18, LinkRunning DEF TcpStart
    <2>2. /\ tcpRun' \in [TcpThreads -> Rows] /\ tcpRun'["gui"].pc = "thread"
          /\ tcpRun'["gui"].sock = tcpRun["gui"].sock /\ tcpRun'["gui"].was = tcpRun["gui"].was
          /\ tcpRun'["reader"] = tcpRun["reader"]
      BY <1>18, RunGoes DEF TcpStart
    <2>3. TcpAt("gui", "run") /\ UNCHANGED <<peers, listening, data, tcpOp, tcpEvents, tcpUse, whole>>
      BY <1>18 DEF TcpStart
    <2> QED BY <2>1, <2>2, <2>3
  <1>19. CASE TcpStartReader BY <1>19 DEF TcpStartReader
  <1>20. CASE TcpStop
    <2>1. /\ tcp' \in Links /\ tcp'.connected = tcp.connected /\ tcp'.running = FALSE /\ tcp'.socket = tcp.socket
      BY <1>20, LinkRunning DEF TcpStop
    <2>2. /\ tcpRun' \in [TcpThreads -> Rows] /\ tcpRun'["gui"].pc = "was"
          /\ tcpRun'["gui"].sock = tcpRun["gui"].sock /\ tcpRun'["gui"].was = tcpRun["gui"].was
          /\ tcpRun'["reader"] = tcpRun["reader"]
      BY <1>20, RunGoes DEF TcpStop
    <2>3. TcpAt("gui", "stop") /\ UNCHANGED <<peers, listening, data, tcpOp, tcpEvents, tcpUse, whole>>
      BY <1>20 DEF TcpStop
    <2> QED BY <2>1, <2>2, <2>3
  <1>21. CASE TcpRestart
    <2>1. /\ tcp' \in Links /\ tcp'.connected = tcp.connected /\ tcp'.running = TRUE /\ tcp'.socket = tcp.socket
      BY <1>21, LinkRunning DEF TcpRestart
    <2>2. /\ tcpRun' \in [TcpThreads -> Rows] /\ tcpRun'["gui"].pc = "connect"
          /\ tcpRun'["gui"].sock = tcpRun["gui"].sock /\ tcpRun'["gui"].was = tcpRun["gui"].was
          /\ tcpRun'["reader"] = tcpRun["reader"]
      BY <1>21, RunGoes DEF TcpRestart
    <2>3. TcpAt("gui", "restart") /\ UNCHANGED <<peers, listening, data, tcpEvents, tcpUse, whole>> /\ tcpOp' = "connect"
      BY <1>21 DEF TcpRestart
    <2> QED BY <2>1, <2>2, <2>3
  <1>22. CASE TcpWrite
    <2>1. PICK to \in {"idle", "was"} : TcpGoto("gui", to) /\ (to = "was" => UsedAs("any")) /\ (to = "idle" => UsedAs(tcpUse))
      BY <1>22 DEF TcpWrite
    <2>2. /\ tcpRun' \in [TcpThreads -> Rows] /\ tcpRun'["gui"].pc = to
          /\ tcpRun'["gui"].sock = tcpRun["gui"].sock /\ tcpRun'["gui"].was = tcpRun["gui"].was
          /\ tcpRun'["reader"] = tcpRun["reader"]
      BY <2>1, RunGoes
    <2>3. TcpAt("gui", "write") /\ UNCHANGED <<tcp, peers, listening, data, tcpOp>>
      BY <1>22 DEF TcpWrite
    <2>4. /\ tcpUse' = IF to = "was" THEN "any" ELSE tcpUse
          /\ tcpEvents' = IF tcpUse' = "any" THEN "DISCONNECTED" ELSE tcpEvents
          /\ whole' = (tcpUse' = "any" \/ whole) /\ whole' \in BOOLEAN
      BY <2>1
    <2> QED BY <2>1, <2>2, <2>3, <2>4
  <1> QED
    BY <1>1, <1>2, <1>3, <1>4, <1>5, <1>6, <1>7, <1>8, <1>9, <1>10, <1>11, <1>12, <1>13, <1>14, <1>15, <1>16, <1>17, <1>18, <1>19, <1>20, <1>21, <1>22
    DEF TcpGui, TcpOpenStep, TcpDropStep

(* ... and those of the reader, but for what it makes of received pieces.   *)
LEMMA TcpReaderStep == TcpBase /\ TcpReader => TcpBase' \/ TcpReceives
  <1> SUFFICES ASSUME TcpBase, TcpReader, ~TcpReceives PROVE TcpBase'
    OBVIOUS
  <1> USE DEF TcpBase, TcpShape, TcpHeld, TcpServed, TcpTruth, TcpStarting, TcpRestoring, Dropped, TcpOpening,
              TcpDropping, TcpThreads, TcpGoto, TcpAt, Held, TcpGuiPcs, TcpReaderPcs, OpenAt, Links, Rows,
              SplittingPcs, Puts, UsedAs, Clicks, tcpHistory, TcpCollect, Peers, Closed
  <1>1. CASE TcpOpens("reader")
    <2>1. PICK s \in Free :
             /\ tcpRun' = [tcpRun EXCEPT !["reader"].pc = "assign", !["reader"].sock = s]
             /\ peers' = [peers EXCEPT ![s] = [state |-> "open", half |-> 1]]
      BY <1>1 DEF TcpOpens
    <2>2. s \in Sockets /\ s \notin Held /\ s # NoSocket /\ \A r \in Sockets : r # NoSocket
      BY DEF Free, Sockets, NoSocket
    <2>3. /\ tcpRun' \in [TcpThreads -> Rows] /\ tcpRun'["reader"].pc = "assign"
          /\ tcpRun'["reader"].sock = s /\ tcpRun'["reader"].was = tcpRun["reader"].was
          /\ tcpRun'["gui"] = tcpRun["gui"]
      <3> HIDE DEF TcpShape, Held, Rows, TcpHeld, TcpServed, TcpTruth, TcpBase
      <3>1. TcpShape /\ "reader" \in TcpThreads /\ "assign" \in TcpGuiPcs \cup TcpReaderPcs
        BY DEF TcpBase
      <3>2. s \in Sockets \cup {NoSocket} BY <2>2
      <3>3. /\ tcpRun' \in [TcpThreads -> Rows] /\ tcpRun'["reader"].pc = "assign"
            /\ tcpRun'["reader"].sock = s /\ tcpRun'["reader"].was = tcpRun["reader"].was
            /\ \A u \in TcpThreads \ {"reader"} : tcpRun'[u] = tcpRun[u]
        BY <2>1, <3>1, <3>2, RunHolds
      <3> QED BY <3>3
    <2>4. peers' \in [Sockets -> Peers] /\ peers'[s].state = "open"
          /\ \A r \in Sockets \ {s} : peers'[r] = peers[r]
      BY <2>1, <2>2
    <2>5. TcpAt("reader", "open") /\ UNCHANGED <<tcp, listening, data, tcpOp, tcpEvents, tcpUse, whole>>
      BY <1>1 DEF TcpOpens
    <2>6. TcpShape' BY <2>3, <2>4, <2>5
    <2>7. TcpHeld'
      <3>1. tcpRun["reader"].sock = NoSocket BY <2>5
      <3>2. \A r \in Sockets : r \in Held => r \in Held' BY <2>2, <2>3, <2>5, <3>1
      <3>3. s \in Held' BY <2>3
      <3>4. \A r \in Sockets : peers'[r].state # "closed" => r \in Held' BY <2>4, <3>2, <3>3
      <3> QED BY <2>2, <2>3, <2>5, <3>4
    <2>8. TcpServed' BY <2>2, <2>3, <2>4, <2>5
    <2>9. TcpTruth' BY <2>3, <2>5
    <2> QED BY <2>1, <2>2, <2>3, <2>4, <2>5, <2>6, <2>7, <2>8, <2>9
  <1>2. CASE TcpOpenFails("reader") BY <1>2 DEF TcpOpenFails
  <1>3. CASE TcpAssign("reader") BY <1>3 DEF TcpAssign
  <1>4. CASE TcpPublish("reader")
    <2>1. /\ tcp' \in Links /\ tcp'.connected = TRUE /\ tcp'.running = tcp.running /\ tcp'.socket = tcp.socket
      BY <1>4, LinkConnected DEF TcpPublish
    <2>2. /\ tcpRun' \in [TcpThreads -> Rows] /\ tcpRun'["reader"].pc = "reset"
          /\ tcpRun'["reader"].sock = tcpRun["reader"].sock /\ tcpRun'["reader"].was = tcpRun["reader"].was
          /\ tcpRun'["gui"] = tcpRun["gui"]
      BY <1>4, RunGoes DEF TcpPublish
    <2>3. TcpAt("reader", "publish") /\ UNCHANGED <<peers, listening, data, tcpOp, tcpEvents, tcpUse, whole>>
      BY <1>4 DEF TcpPublish
    <2> QED BY <2>1, <2>2, <2>3
  <1>5. CASE ResetBuffer("reader")
    <2>1. /\ tcp' \in Links /\ tcp'.connected = tcp.connected /\ tcp'.running = tcp.running /\ tcp'.socket = tcp.socket
      BY <1>5, LinkBuffer, EmptyPieces DEF ResetBuffer
    <2>2. /\ tcpRun' \in [TcpThreads -> Rows] /\ tcpRun'["reader"].pc = "announce"
          /\ tcpRun'["reader"].sock = tcpRun["reader"].sock /\ tcpRun'["reader"].was = tcpRun["reader"].was
          /\ tcpRun'["gui"] = tcpRun["gui"]
      BY <1>5, RunGoes DEF ResetBuffer
    <2>3. TcpAt("reader", "reset") /\ UNCHANGED <<peers, listening, data, tcpOp, tcpEvents, tcpUse, whole>>
      BY <1>5 DEF ResetBuffer
    <2> QED BY <2>1, <2>2, <2>3
  <1>6. CASE TcpAnnounce("reader") BY <1>6 DEF TcpAnnounce
  <1>7. CASE TcpForgetConnected("reader")
    <2>1. /\ tcp' \in Links /\ tcp'.connected = FALSE /\ tcp'.running = tcp.running /\ tcp'.socket = tcp.socket
      BY <1>7, LinkConnected DEF TcpForgetConnected
    <2>2. /\ tcpRun' \in [TcpThreads -> Rows] /\ tcpRun'["reader"].pc = "check"
          /\ tcpRun'["reader"].sock = tcpRun["reader"].sock /\ tcpRun'["reader"].was = tcpRun["reader"].was
          /\ tcpRun'["gui"] = tcpRun["gui"]
      BY <1>7, RunGoes DEF TcpForgetConnected
    <2>3. TcpAt("reader", "uncon") /\ UNCHANGED <<peers, listening, data, tcpOp, tcpEvents, tcpUse, whole>>
      BY <1>7 DEF TcpForgetConnected
    <2> QED BY <2>1, <2>2, <2>3
  <1>8. CASE ForgetSocket("reader") BY <1>8 DEF ForgetSocket
  <1>9. CASE TcpReadConnected("reader")
    <2>1. /\ tcpRun' \in [TcpThreads -> Rows] /\ tcpRun'["reader"].pc = "unpublish"
          /\ tcpRun'["reader"].sock = tcpRun["reader"].sock /\ tcpRun'["reader"].was = tcp.connected
          /\ tcpRun'["gui"] = tcpRun["gui"]
      BY <1>9, RunNotes, ConnectedBoolean DEF TcpReadConnected
    <2>2. TcpAt("reader", "was") /\ UNCHANGED <<tcp, peers, listening, data, tcpOp, tcpEvents, tcpUse, whole>>
      BY <1>9 DEF TcpReadConnected
    <2> QED BY <2>1, <2>2
  <1>10. CASE TcpUnpublish("reader")
    <2>1. /\ tcp' \in Links /\ tcp'.connected = FALSE /\ tcp'.running = tcp.running /\ tcp'.socket = tcp.socket
      BY <1>10, LinkConnected DEF TcpUnpublish
    <2>2. /\ tcpRun' \in [TcpThreads -> Rows] /\ tcpRun'["reader"].pc = "test"
          /\ tcpRun'["reader"].sock = tcpRun["reader"].sock /\ tcpRun'["reader"].was = tcpRun["reader"].was
          /\ tcpRun'["gui"] = tcpRun["gui"]
      BY <1>10, RunGoes DEF TcpUnpublish
    <2>3. TcpAt("reader", "unpublish") /\ UNCHANGED <<peers, listening, data, tcpOp, tcpEvents, tcpUse, whole>>
      BY <1>10 DEF TcpUnpublish
    <2> QED BY <2>1, <2>2, <2>3
  <1>11. CASE TestSocket("reader") BY <1>11 DEF TestSocket
  <1>12. CASE CloseSocket("reader")
    <2>1. /\ tcpRun' \in [TcpThreads -> Rows] /\ tcpRun'["reader"].pc = "clear"
          /\ tcpRun'["reader"].sock = tcpRun["reader"].sock /\ tcpRun'["reader"].was = tcpRun["reader"].was
          /\ tcpRun'["gui"] = tcpRun["gui"]
      BY <1>12, RunGoes DEF CloseSocket
    <2>2. peers' \in [Sockets -> Peers] /\ \A s \in Sockets : peers'[s] = IF s = tcp.socket THEN Closed ELSE peers[s]
      BY <1>12 DEF CloseSocket
    <2>3. TcpAt("reader", "close") /\ UNCHANGED <<tcp, listening, data, tcpOp, tcpEvents, tcpUse, whole>>
      BY <1>12 DEF CloseSocket
    <2> QED BY <2>1, <2>2, <2>3
  <1>13. CASE CloseNoSocket("reader")
    <2>1. /\ tcpRun' \in [TcpThreads -> Rows] /\ tcpRun'["reader"].pc = "none"
          /\ tcpRun'["reader"].sock = tcpRun["reader"].sock /\ tcpRun'["reader"].was = tcpRun["reader"].was
          /\ tcpRun'["gui"] = tcpRun["gui"]
      BY <1>13, RunGoes DEF CloseNoSocket
    <2>2. TcpAt("reader", "close") /\ UNCHANGED <<tcp, peers, listening, data, tcpOp, tcpEvents, tcpUse, whole>> /\ tcp.socket = NoSocket
      BY <1>13 DEF CloseNoSocket
    <2> QED BY <2>1, <2>2
  <1>14. CASE ClearSocket("reader") BY <1>14 DEF ClearSocket
  <1>15. CASE TcpTell("reader")
    <2>1. /\ tcpRun' \in [TcpThreads -> Rows] /\ tcpRun'["reader"].pc = "check"
          /\ tcpRun'["reader"].sock = tcpRun["reader"].sock /\ tcpRun'["reader"].was = FALSE
          /\ tcpRun'["gui"] = tcpRun["gui"]
      BY <1>15, RunNotes DEF TcpTell, TcpAfterDrop
    <2>2. TcpAt("reader", "tell") /\ UNCHANGED <<tcp, peers, listening, data, tcpOp, tcpUse, whole>>
      BY <1>15 DEF TcpTell
    <2>3. tcpEvents' = IF tcpRun["reader"].was /\ tcpUse # "any" THEN "DISCONNECTED" ELSE tcpEvents
      BY <1>15 DEF TcpTell
    <2> QED BY <2>1, <2>2, <2>3
  <1>16. CASE TcpCheckRunning
    <2>1. PICK to \in {"branch", "none"} :
             /\ TcpGoto("reader", to)
             /\ to = "none" => ~tcp.running
      BY <1>16 DEF TcpCheckRunning
    <2>2. /\ tcpRun' \in [TcpThreads -> Rows] /\ tcpRun'["reader"].pc = to
          /\ tcpRun'["reader"].sock = tcpRun["reader"].sock /\ tcpRun'["reader"].was = tcpRun["reader"].was
          /\ tcpRun'["gui"] = tcpRun["gui"]
      BY <2>1, RunGoes
    <2>3. TcpAt("reader", "check") /\ UNCHANGED <<tcp, peers, listening, data, tcpOp, tcpEvents, tcpUse, whole>>
      BY <1>16 DEF TcpCheckRunning
    <2> QED BY <2>1, <2>2, <2>3
  <1>17. CASE TcpCheckConnected BY <1>17 DEF TcpCheckConnected
  <1>18. CASE TcpCheckAuto BY <1>18 DEF TcpCheckAuto
  <1>19. CASE TcpWake BY <1>19 DEF TcpWake
  <1>20. CASE TcpRecheck BY <1>20 DEF TcpRecheck
  <1>21. CASE LoadSocket BY <1>21 DEF LoadSocket
  <1>22. CASE RecvTimesOut BY <1>22 DEF RecvTimesOut, Receives
  <1>23. CASE RecvFails BY <1>23 DEF RecvFails, Receives
  <1> QED
    BY <1>1, <1>2, <1>3, <1>4, <1>5, <1>6, <1>7, <1>8, <1>9, <1>10, <1>11, <1>12, <1>13, <1>14, <1>15, <1>16, <1>17, <1>18, <1>19, <1>20, <1>21, <1>22, <1>23
    DEF TcpReader, TcpOpenStep, TcpDropStep, TcpReceives

(* The owners of pieces that are put together or taken apart.               *)
LEMMA OwnersOfAll ==
    ASSUME NEW q \in Seq(Pieces)
    PROVE  OwnersOf(q) = { q[i][1] : i \in 1 .. Len(q) }
  BY LenProperties DEF OwnersOf

(* ... pieces one after the other ...                                       *)
LEMMA OwnersChained ==
    ASSUME NEW q \in Seq(Pieces), NEW r \in Seq(Pieces)
    PROVE  q \o r \in Seq(Pieces) /\ OwnersOf(q \o r) \subseteq OwnersOf(q) \cup OwnersOf(r)
  <1>1. /\ q \o r \in Seq(Pieces) /\ Len(q \o r) = Len(q) + Len(r)
        /\ \A i \in 1 .. Len(q) + Len(r) : (q \o r)[i] = IF i <= Len(q) THEN q[i] ELSE r[i - Len(q)]
    BY ConcatProperties
  <1>2. Len(q) \in Nat /\ Len(r) \in Nat BY LenProperties
  <1>3. \A m, n \in Nat : \A i \in 1 .. m + n : i <= m \/ i - m \in 1 .. n
    OBVIOUS
  <1>4. \A m, n \in Nat : \A i \in 1 .. m + n : i <= m => i \in 1 .. m
    OBVIOUS
  <1>5. ASSUME NEW i \in 1 .. Len(q) + Len(r) PROVE (q \o r)[i][1] \in OwnersOf(q) \cup OwnersOf(r)
    <2>1. CASE i <= Len(q)
      <3>1. i \in 1 .. Len(q) BY <1>2, <1>4, <2>1, Zenon
      <3>2. (q \o r)[i] = q[i] BY <1>1, <2>1, Zenon
      <3> QED BY <3>1, <3>2, OwnersOfAll, Zenon
    <2>2. CASE ~(i <= Len(q))
      <3>1. i - Len(q) \in 1 .. Len(r) BY <1>2, <1>3, <2>2, Zenon
      <3>2. (q \o r)[i] = r[i - Len(q)] BY <1>1, <2>2, Zenon
      <3> QED BY <3>1, <3>2, OwnersOfAll, Zenon
    <2> QED BY <2>1, <2>2
  <1>6. OwnersOf(q \o r) = { (q \o r)[i][1] : i \in 1 .. Len(q) + Len(r) } BY <1>1, OwnersOfAll, Zenon
  <1> QED BY <1>1, <1>5, <1>6, Zenon

(* ... all but the first ...                                                *)
LEMMA OwnersOfTail ==
    ASSUME NEW q \in Seq(Pieces), q # <<>>
    PROVE  Tail(q) \in Seq(Pieces) /\ OwnersOf(Tail(q)) \subseteq OwnersOf(q)
  <1>1. /\ Tail(q) \in Seq(Pieces) /\ Len(Tail(q)) = Len(q) - 1
        /\ \A i \in 1 .. Len(Tail(q)) : Tail(q)[i] = q[i + 1]
    BY HeadTailProperties
  <1>2. Len(q) \in Nat BY LenProperties
  <1>3. \A n \in Nat : \A i \in 1 .. n - 1 : i + 1 \in 1 .. n
    OBVIOUS
  <1>4. \A i \in 1 .. Len(Tail(q)) : i + 1 \in 1 .. Len(q) BY <1>1, <1>2, <1>3, Zenon
  <1>5. \A i \in 1 .. Len(Tail(q)) : Tail(q)[i][1] \in OwnersOf(q) BY <1>1, <1>4, OwnersOfAll, Zenon
  <1>6. OwnersOf(Tail(q)) = { Tail(q)[i][1] : i \in 1 .. Len(Tail(q)) } BY <1>1, OwnersOfAll, Zenon
  <1> QED BY <1>1, <1>5, <1>6, Zenon

(* ... what is behind one of them ...                                       *)
LEMMA OwnersOfRest ==
    ASSUME NEW q \in Seq(Pieces), NEW n \in 1 .. Len(q)
    PROVE  /\ SubSeq(q, n + 1, Len(q)) \in Seq(Pieces)
           /\ OwnersOf(SubSeq(q, n + 1, Len(q))) \subseteq OwnersOf(q)
  <1> DEFINE r == SubSeq(q, n + 1, Len(q))
  <1>1. Len(q) \in Nat BY LenProperties
  <1>2. \A i \in 1 .. Len(q) : q[i] \in Pieces BY ElementOfSeq
  <1>3. \A k \in Nat : \A m \in 1 .. k : m + 1 \in Int /\ k \in Int /\ \A i \in m + 1 .. k : i \in 1 .. k
    OBVIOUS
  <1>4. n + 1 \in Int /\ Len(q) \in Int /\ \A i \in n + 1 .. Len(q) : q[i] \in Pieces
    BY <1>1, <1>2, <1>3, Zenon
  <1>5. /\ r \in Seq(Pieces) /\ Len(r) = (IF n + 1 <= Len(q) THEN Len(q) - (n + 1) + 1 ELSE 0)
        /\ \A i \in 1 .. Len(q) - (n + 1) + 1 : r[i] = q[n + 1 + i - 1]
    BY <1>4, SubSeqProperties
  <1>6. \A k \in Nat : \A m \in 1 .. k :
            \A i \in 1 .. (IF m + 1 <= k THEN k - (m + 1) + 1 ELSE 0) :
                i \in 1 .. k - (m + 1) + 1 /\ m + 1 + i - 1 \in 1 .. k
    OBVIOUS
  <1>7. \A i \in 1 .. Len(r) : i \in 1 .. Len(q) - (n + 1) + 1 /\ n + 1 + i - 1 \in 1 .. Len(q)
    BY <1>1, <1>5, <1>6, Zenon
  <1>8. \A i \in 1 .. Len(r) : r[i][1] \in OwnersOf(q) BY <1>5, <1>7, OwnersOfAll, Zenon
  <1>9. OwnersOf(r) = { r[i][1] : i \in 1 .. Len(r) } BY <1>5, OwnersOfAll, Zenon
  <1> QED BY <1>5, <1>8, <1>9, Zenon

(* ... and what `+=` makes of the buffer.                                   *)
LEMMA OwnersJoined ==
    ASSUME NEW kept \in Seq(Pieces), NEW more \in Seq(Pieces), more # <<>>
    PROVE  /\ Joined(kept, more) \in Seq(Pieces)
           /\ OwnersOf(Joined(kept, more)) \subseteq OwnersOf(kept) \cup OwnersOf(more) \cup {NoSocket}
  <1>1. CASE kept = <<>> \/ (kept[1][1] = more[1][1] /\ EndsLine(more[1]))
    <2>1. Joined(kept, more) = kept \o more BY <1>1 DEF Joined
    <2> QED BY <2>1, OwnersChained, Zenon
  <1>2. CASE ~(kept = <<>> \/ (kept[1][1] = more[1][1] /\ EndsLine(more[1])))
    <2>1. PICK q \in Seq(Pieces) : Joined(kept, more) = <<Junk>> \o q /\ OwnersOf(q) \subseteq OwnersOf(more)
      <3>1. Joined(kept, more) = <<Junk>> \o (IF EndsLine(more[1]) THEN more ELSE Tail(more))
        BY <1>2 DEF Joined
      <3>2. CASE EndsLine(more[1]) BY <3>1, <3>2
      <3>3. CASE ~EndsLine(more[1])
        <4>1. Joined(kept, more) = <<Junk>> \o Tail(more) BY <3>1, <3>3
        <4> QED BY <4>1, OwnersOfTail, Zenon
      <3> QED BY <3>2, <3>3
    <2>2. <<Junk>> \in Seq(Pieces) /\ OwnersOf(<<Junk>>) = {NoSocket}
      BY DEF Junk, Pieces, OwnersOf
    <2> QED BY <2>1, <2>2, OwnersChained, Zenon
  <1> QED BY <1>1, <1>2

(* The halves of one connection in their order: q holds the first n.        *)
HalfAt(i) == IF i \in {2, 4} THEN 2 ELSE 1
Flows(q, s, n) == Len(q) = n /\ \A i \in 1 .. n : q[i] = <<s, HalfAt(i)>>
(* The device sends on after n halves. *)
Due(s, n) == peers[s].state = "open" => peers[s].half = HalfAt(n + 1)
Begun(q, s, n) == n \in 0 .. 3 /\ Flows(q, s, n) /\ Due(s, n)

Fresh(s) == peers[s].state = "open" => peers[s].half = 1
Suits(s) == peers[s].state = "open" => \E n \in 0 .. 1 : Begun(tcp.buffer, s, n)

(* Of the halves of s the buffer holds m and data those from there to n.    *)
Continues(s, m, n) ==
    /\ m \in 0 .. 1 /\ n \in m + 1 .. m + 2
    /\ Flows(tcp.buffer, s, m) /\ Due(s, n)
    /\ Len(data) = n - m /\ \A i \in 1 .. n - m : data[i] = <<s, HalfAt(m + i)>>

Splits(s) ==
    /\ TcpAt("reader", "append") => \E m \in 0 .. 1 : \E n \in m + 1 .. m + 2 : Continues(s, m, n)
    /\ TcpAt("reader", "store") => \E n \in 1 .. 3 : Begun(data, s, n)
    /\ TcpAt("reader", "newline") => \E n \in 0 .. 3 : Begun(tcp.buffer, s, n)
    /\ TcpAt("reader", "split") => \E n \in 2 .. 3 : Begun(tcp.buffer, s, n)
    /\ TcpAt("reader", "rest") => \E n \in 0 .. 1 : Begun(data, s, n)

(* What is buffered continues on the connection that is read: a new one     *)
(* starts with an empty buffer.                                             *)
TcpLines ==
    tcpUse # "any" =>
        /\ whole
        /\ \A t \in TcpThreads : TcpAt(t, "assign") => Fresh(tcpRun[t].sock)
        /\ \A t \in TcpThreads :
               tcpRun[t].pc \in {"publish", "reset"} /\ tcp.socket # NoSocket => Fresh(tcp.socket)
        /\ (/\ \A t \in TcpThreads : tcpRun[t].pc \notin {"publish", "reset"}
            /\ tcpRun["reader"].pc \notin SplittingPcs /\ tcp.socket # NoSocket) => Suits(tcp.socket)
        /\ TcpAt("reader", "recv") =>
               Suits(tcpRun["reader"].sock) /\ tcp.socket \in {NoSocket, tcpRun["reader"].sock}
        /\ tcpRun["reader"].pc \in SplittingPcs =>
               \E s \in Sockets : tcp.socket \in {NoSocket, s} /\ Splits(s)

(* A socket is always free to open: two threads, the attribute and the      *)
(* pieces use four at most.                                                 *)
LEMMA FreeLeft == TcpShape /\ OneOwner => Free # {}
  <1> SUFFICES ASSUME TcpShape, OneOwner, Free = {} PROVE FALSE
    OBVIOUS
  <1>1. PICK o \in Sockets : OwnersOf(tcp.buffer) \cup OwnersOf(data) \subseteq {o, NoSocket} BY DEF OneOwner
  <1>2. Held = {tcp.socket, tcpRun["gui"].sock, tcpRun["reader"].sock} BY DEF Held, TcpThreads
  <1>3. \A s \in Sockets : s \in {tcp.socket, tcpRun["gui"].sock, tcpRun["reader"].sock, o}
    BY <1>1, <1>2 DEF Free, Sockets, NoSocket
  <1> QED BY <1>3 DEF Sockets

(* A line ends with the second half.                                        *)
LEMMA EndsInFlow ==
    ASSUME NEW q \in Seq(Pieces), NEW s \in Sockets, NEW n \in 0 .. 3, Flows(q, s, n)
    PROVE  LineEnds(q) = IF n >= 2 THEN {2} ELSE {}
  <1>1. DOMAIN q = 1 .. n BY LenProperties DEF Flows
  <1>2. \A i \in 1 .. n : q[i][2] = HalfAt(i) BY DEF Flows
  <1>3. \A i \in 1 .. n : HalfAt(i) = 2 <=> i = 2 BY DEF HalfAt
  <1> QED BY <1>1, <1>2, <1>3 DEF LineEnds, EndsLine

(* Nothing is the first no halves of any connection.                        *)
LEMMA EmptyFlow == \A s : Flows(<<>>, s, 0)
  BY DEF Flows

(* What is received continues what is buffered ...                          *)
LEMMA FlowJoined ==
    ASSUME NEW s \in Sockets, NEW m \in 0 .. 1, NEW n \in m + 1 .. m + 2, Continues(s, m, n),
           tcp.buffer \in Seq(Pieces), data \in Seq(Pieces)
    PROVE  Begun(Joined(tcp.buffer, data), s, n)
  <1> DEFINE q == tcp.buffer \o data
  <1>1. q \in Seq(Pieces) /\ Len(q) = Len(tcp.buffer) + Len(data)
        /\ \A i \in 1 .. Len(tcp.buffer) + Len(data) :
              q[i] = IF i <= Len(tcp.buffer) THEN tcp.buffer[i] ELSE data[i - Len(tcp.buffer)]
    BY ConcatProperties
  <1>2. Len(tcp.buffer) = m /\ Len(data) = n - m BY DEF Continues, Flows
  <1>3. Len(q) = n /\ \A i \in 1 .. n : q[i] = IF i <= m THEN tcp.buffer[i] ELSE data[i - m]
    <2>1. m + (n - m) = n
      OBVIOUS
    <2>2. Len(tcp.buffer) + Len(data) = n BY <1>2, <2>1, Zenon
    <2> QED BY <1>1, <1>2, <2>2, Zenon
  <1> HIDE DEF q
  <1>4. \A i \in 1 .. m : tcp.buffer[i] = <<s, HalfAt(i)>> BY DEF Continues, Flows
  <1>5. \A i \in 1 .. n - m : data[i] = <<s, HalfAt(m + i)>> BY DEF Continues
  <1>6. Flows(q, s, n)
    <2>1. \A i \in 1 .. n : i <= m => i \in 1 .. m
      OBVIOUS
    <2>2. \A i \in 1 .. n : ~(i <= m) => i - m \in 1 .. n - m /\ m + (i - m) = i
      OBVIOUS
    <2>3. \A i \in 1 .. n : q[i] = <<s, HalfAt(i)>> BY <1>3, <1>4, <1>5, <2>1, <2>2, Zenon
    <2> QED BY <1>3, <2>3 DEF Flows
  <1>7. Joined(tcp.buffer, data) = q
    <2>1. CASE m = 0
      <3>1. tcp.buffer = <<>> BY <1>2, <2>1, EmptySeq
      <3> QED BY <3>1 DEF Joined, q
    <2>2. CASE m = 1
      <3>1. tcp.buffer[1][1] = s BY <1>4, <2>2
      <3>2. 1 \in 1 .. n - m /\ data[1] = <<s, HalfAt(2)>> BY <1>5, <2>2
      <3> QED BY <3>1, <3>2 DEF Joined, q, EndsLine, HalfAt
    <2> QED BY <2>1, <2>2
  <1> QED BY <1>6, <1>7 DEF Begun, Continues

(* ... and a line that is taken from the front is whole.                    *)
LEMMA FlowSplit ==
    ASSUME NEW q \in Seq(Pieces), NEW s \in Sockets, NEW n \in 2 .. 3, Begun(q, s, n)
    PROVE  /\ SentLine(SubSeq(q, 1, 2))
           /\ Begun(SubSeq(q, 3, Len(q)), s, n - 2)
  <1>1. Len(q) = n /\ \A i \in 1 .. n : q[i] = <<s, HalfAt(i)>> BY DEF Begun, Flows
  <1>2. \A i \in 1 .. n : q[i] \in Pieces BY <1>1, ElementOfSeq
  <1>3. /\ Len(SubSeq(q, 1, 2)) = 2
        /\ \A i \in 1 .. 2 : SubSeq(q, 1, 2)[i] = q[i]
    <2>1. \A i \in 1 .. 2 : q[i] \in Pieces BY <1>2
    <2>2. Len(SubSeq(q, 1, 2)) = 2 /\ \A i \in 1 .. 2 - 1 + 1 : SubSeq(q, 1, 2)[i] = q[1 + i - 1]
      BY <2>1, SubSeqProperties
    <2> QED BY <2>2
  <1>4. /\ Len(SubSeq(q, 3, n)) = n - 2
        /\ \A i \in 1 .. n - 2 : SubSeq(q, 3, n)[i] = q[i + 2]
    <2>1. \A i \in 3 .. n : q[i] \in Pieces BY <1>2
    <2>2. /\ Len(SubSeq(q, 3, n)) = IF 3 <= n THEN n - 3 + 1 ELSE 0
          /\ \A i \in 1 .. n - 3 + 1 : SubSeq(q, 3, n)[i] = q[3 + i - 1]
      BY <2>1, SubSeqProperties
    <2> QED BY <2>2
  <1>5. SentLine(SubSeq(q, 1, 2)) BY <1>1, <1>3 DEF SentLine, EndsLine, HalfAt
  <1>6. Flows(SubSeq(q, 3, n), s, n - 2) BY <1>1, <1>4 DEF Flows, HalfAt
  <1>7. Due(s, n - 2) BY DEF Begun, Due, HalfAt
  <1> QED BY <1>1, <1>5, <1>6, <1>7 DEF Begun

Rigid == {"assign", "publish", "reset", "recv"} \cup SplittingPcs

(* A step that neither opens nor reads: connections only end, the buffer    *)
(* stays, and a thread moves, if at all, between places where nothing is    *)
(* promised of it, or from where a connection is opened or received.        *)
Calm ==
    /\ tcpUse' # "any" => tcpUse # "any" /\ whole' = whole
    /\ tcp'.buffer = tcp.buffer /\ data' = data /\ tcp'.socket \in {NoSocket, tcp.socket}
    /\ \A s \in Sockets : peers'[s].state = "open" => peers'[s] = peers[s]
    /\ \A t \in TcpThreads :
          \/ tcpRun'[t].pc = tcpRun[t].pc /\ tcpRun'[t].sock = tcpRun[t].sock
          \/ tcpRun'[t].pc \notin Rigid /\ tcpRun[t].pc \notin {"publish", "reset"} \cup SplittingPcs

(* A calm step keeps the owner of the pieces ...                            *)
LEMMA CalmOwner == OneOwner /\ Calm => OneOwner'
  <1> SUFFICES ASSUME OneOwner, Calm PROVE OneOwner'
    OBVIOUS
  <1>1. TcpAt("reader", "append")' => TcpAt("reader", "append")
    BY DEF Calm, TcpAt, Rigid, SplittingPcs, TcpThreads
  <1>2. OwnersOf(tcp.buffer)' = OwnersOf(tcp.buffer) /\ OwnersOf(data)' = OwnersOf(data)
    BY DEF Calm, OwnersOf
  <1> QED BY <1>1, <1>2 DEF OneOwner, Calm

(* ... and what is known of the lines.                                      *)
LEMMA CalmLines == TcpShape /\ TcpHeld /\ TcpLines /\ Calm => TcpLines'
  <1> SUFFICES ASSUME TcpShape, TcpHeld, TcpLines, Calm, tcpUse' # "any" PROVE TcpLines'
    BY DEF TcpLines
  <1>1. \A s \in Sockets : peers'[s].state = "open" => peers'[s] = peers[s] BY DEF Calm
  <1>2. \A s \in Sockets : \A n : Due(s, n) => Due(s, n)' BY <1>1 DEF Due
  <1>3. \A s \in Sockets : Fresh(s) => Fresh(s)' BY <1>1 DEF Fresh
  <1>4. \A s \in Sockets : \A n : Begun(tcp.buffer, s, n) => Begun(tcp.buffer, s, n)'
    BY <1>2 DEF Begun, Calm, Flows
  <1>5. \A s \in Sockets : \A n : Begun(data, s, n) => Begun(data, s, n)' BY <1>2 DEF Begun, Calm, Flows
  <1>6. \A s \in Sockets : Suits(s) => Suits(s)' BY <1>1, <1>4 DEF Suits
  <1>7. \A s \in Sockets : \A m, n : Continues(s, m, n) => Continues(s, m, n)'
    BY <1>2 DEF Continues, Calm, Flows
  <1>8. /\ \A t \in TcpThreads, to \in Rigid : TcpAt(t, to)' => TcpAt(t, to) /\ tcpRun'[t].sock = tcpRun[t].sock
        /\ \A t \in TcpThreads, to \in {"publish", "reset"} \cup SplittingPcs : TcpAt(t, to) => TcpAt(t, to)'
    BY DEF Calm, TcpAt
  <1>9. \A s \in Sockets : (tcpRun["reader"].pc)' \in SplittingPcs /\ Splits(s) => Splits(s)'
    <2> SUFFICES ASSUME NEW s \in Sockets, (tcpRun["reader"].pc)' \in SplittingPcs, Splits(s) PROVE Splits(s)'
      OBVIOUS
    <2>1. \A to \in SplittingPcs : TcpAt("reader", to)' => TcpAt("reader", to)
      BY <1>8 DEF TcpThreads, Rigid
    <2> QED BY <1>4, <1>5, <1>7, <2>1 DEF Splits, SplittingPcs
  <1>0. tcpUse # "any" BY DEF Calm
  <1>10. whole' BY <1>0 DEF Calm, TcpLines
  <1>11. ASSUME NEW t \in TcpThreads, TcpAt(t, "assign")' PROVE Fresh(tcpRun[t].sock)'
    <2>1. TcpAt(t, "assign") /\ tcpRun'[t].sock = tcpRun[t].sock BY <1>8, <1>11 DEF Rigid
    <2>2. tcpRun[t].sock \in Sockets BY <2>1 DEF TcpShape, Rows, TcpHeld, TcpAt, TcpThreads
    <2>3. Fresh(tcpRun[t].sock) BY <1>0, <2>1 DEF TcpLines
    <2> QED BY <1>3, <2>1, <2>2, <2>3 DEF Fresh
  <1>12. ASSUME NEW t \in TcpThreads, tcpRun'[t].pc \in {"publish", "reset"}, tcp'.socket # NoSocket
         PROVE  Fresh(tcp.socket)'
    <2>1. tcpRun[t].pc \in {"publish", "reset"} BY <1>8, <1>12 DEF Rigid, TcpAt
    <2>2. tcp'.socket = tcp.socket /\ tcp.socket \in Sockets BY <1>12 DEF Calm, TcpShape, Links
    <2>3. Fresh(tcp.socket) BY <1>0, <1>12, <2>1, <2>2 DEF TcpLines
    <2> QED BY <1>3, <2>2, <2>3 DEF Fresh
  <1>13. ASSUME \A t \in TcpThreads : tcpRun'[t].pc \notin {"publish", "reset"},
                tcpRun'["reader"].pc \notin SplittingPcs, tcp'.socket # NoSocket
         PROVE  Suits(tcp.socket)'
    <2>1. /\ \A t \in TcpThreads : tcpRun[t].pc \notin {"publish", "reset"}
          /\ tcpRun["reader"].pc \notin SplittingPcs
      BY <1>8, <1>13 DEF TcpAt, TcpThreads
    <2>2. tcp'.socket = tcp.socket /\ tcp.socket \in Sockets BY <1>13 DEF Calm, TcpShape, Links
    <2>3. Suits(tcp.socket) BY <1>0, <1>13, <2>1, <2>2 DEF TcpLines
    <2>4. \A s \in Sockets : Suits(s)' <=> (peers'[s].state = "open" => \E n \in 0 .. 1 : Begun(tcp.buffer, s, n)')
      BY DEF Suits
    <2> QED BY <1>6, <2>2, <2>3 DEF Suits
  <1>14. ASSUME TcpAt("reader", "recv")'
         PROVE  Suits(tcpRun["reader"].sock)' /\ tcp'.socket \in {NoSocket, tcpRun'["reader"].sock}
    <2>1. TcpAt("reader", "recv") /\ tcpRun'["reader"].sock = tcpRun["reader"].sock
      BY <1>8, <1>14 DEF Rigid, TcpThreads
    <2>2. tcpRun["reader"].sock \in Sockets BY <2>1 DEF TcpShape, Rows, TcpHeld, TcpAt, TcpThreads
    <2>3. Suits(tcpRun["reader"].sock) /\ tcp.socket \in {NoSocket, tcpRun["reader"].sock}
      BY <1>0, <2>1 DEF TcpLines
    <2> QED BY <1>6, <2>1, <2>2, <2>3 DEF Suits, Calm
  <1>15. ASSUME tcpRun'["reader"].pc \in SplittingPcs
         PROVE  \E s \in Sockets : tcp'.socket \in {NoSocket, s} /\ Splits(s)'
    <2>1. tcpRun["reader"].pc \in SplittingPcs BY <1>8, <1>15 DEF TcpAt, Rigid, TcpThreads
    <2>2. PICK s \in Sockets : tcp.socket \in {NoSocket, s} /\ Splits(s) BY <1>0, <2>1 DEF TcpLines
    <2> QED BY <1>9, <1>15, <2>2 DEF Calm
  <1> QED BY <1>10, <1>11, <1>12, <1>13, <1>14, <1>15 DEF TcpLines, TcpAt

(* The buffers stay. *)
LEMMA SameOwner ==
    ASSUME OneOwner, tcp'.buffer = tcp.buffer, data' = data,
           TcpAt("reader", "append")' => TcpAt("reader", "append")
    PROVE  OneOwner'
  BY DEF OneOwner, OwnersOf

(* A new connection is opened ...                                           *)
LEMMA LinesOpened ==
    ASSUME TcpBase, OneOwner, TcpLines, NEW t \in TcpThreads, TcpOpens(t)
    PROVE  OneOwner' /\ TcpLines'
  <1>1. PICK s \in Free :
             /\ tcpRun' = [tcpRun EXCEPT ![t].pc = "assign", ![t].sock = s]
             /\ peers' = [peers EXCEPT ![s] = [state |-> "open", half |-> 1]]
    BY DEF TcpOpens
  <1>2. s \in Sockets \cup {NoSocket} /\ s \in Sockets /\ s \notin Held BY DEF Free
  <1>3. TcpAt(t, "open") /\ UNCHANGED <<tcp, listening, data, tcpOp, tcpEvents, tcpUse, whole>>
    BY DEF TcpOpens, tcpHistory
  <1>4. /\ tcpRun'[t].pc = "assign" /\ tcpRun'[t].sock = s
        /\ \A u \in TcpThreads \ {t} : tcpRun'[u] = tcpRun[u]
    <2>1. tcpRun \in [TcpThreads -> Rows] BY DEF TcpBase, TcpShape
    <2>2. tcpRun[t] \in Rows BY <2>1
    <2> QED BY <1>1, <2>1, <2>2 DEF Rows
  <1>5. /\ peers'[s].half = 1 /\ \A r \in Sockets \ {s} : peers'[r] = peers[r]
    BY <1>1, <1>2 DEF TcpBase, TcpShape
  <1>6. OneOwner' BY <1>3, <1>4, SameOwner DEF TcpAt, TcpThreads
  <1>7. ASSUME tcpUse # "any" PROVE TcpLines'
    <2>1. /\ t = "gui" => TcpAt("reader", "none") /\ tcpRun'["reader"].pc = "none"
          /\ t = "reader" => tcpRun'["reader"].pc = "assign"
      BY <1>3, <1>4, <1>7 DEF TcpBase, TcpServed, TcpStarting, TcpOpening, TcpAt, TcpThreads
    <2>2. \A r \in Held \cap Sockets : peers'[r] = peers[r] BY <1>2, <1>5
    <2>3. /\ tcp.socket \in Held /\ \A u \in TcpThreads : tcpRun[u].sock \in Held
          /\ tcp.socket \in Sockets \cup {NoSocket}
      BY DEF Held, TcpBase, TcpShape, Links
    <2>4. \A u \in TcpThreads : TcpAt(u, "assign") => tcpRun[u].sock \in Sockets
      BY DEF TcpBase, TcpShape, TcpHeld, Rows, TcpAt, TcpThreads
    <2>5. ASSUME NEW u \in TcpThreads, TcpAt(u, "assign")' PROVE Fresh(tcpRun[u].sock)'
      <3>1. CASE u = t BY <1>4, <1>5, <3>1 DEF Fresh
      <3>2. CASE u # t
        <4>1. TcpAt(u, "assign") /\ tcpRun'[u].sock = tcpRun[u].sock BY <1>4, <2>5, <3>2 DEF TcpAt
        <4>2. Fresh(tcpRun[u].sock) BY <1>7, <4>1 DEF TcpLines
        <4> QED BY <2>2, <2>3, <2>4, <4>1, <4>2 DEF Fresh
      <3> QED BY <3>1, <3>2
    <2>6. ASSUME NEW u \in TcpThreads, tcpRun'[u].pc \in {"publish", "reset"}, tcp'.socket # NoSocket
          PROVE  Fresh(tcp.socket)'
      <3>1. tcpRun[u].pc \in {"publish", "reset"} /\ tcp.socket # NoSocket BY <1>3, <1>4, <2>6
      <3>2. Fresh(tcp.socket) BY <1>7, <3>1 DEF TcpLines
      <3> QED BY <1>3, <2>2, <2>3, <3>1, <3>2 DEF Fresh
    <2>7. ASSUME \A u \in TcpThreads : tcpRun'[u].pc \notin {"publish", "reset"}, tcp'.socket # NoSocket
          PROVE  Suits(tcp.socket)'
      <3>1. \A u \in TcpThreads : tcpRun[u].pc \notin {"publish", "reset"} BY <1>3, <1>4, <2>7 DEF TcpAt
      <3>2. tcpRun["reader"].pc \notin SplittingPcs /\ tcp.socket # NoSocket
        BY <1>3, <2>1, <2>7 DEF TcpAt, SplittingPcs, TcpThreads
      <3>3. Suits(tcp.socket) BY <1>7, <3>1, <3>2 DEF TcpLines
      <3>4. peers'[tcp.socket] = peers[tcp.socket] BY <2>2, <2>3, <3>2
      <3> QED BY <1>3, <3>3, <3>4 DEF Suits, Begun, Due, Flows
    <2>8. tcpRun'["reader"].pc \notin SplittingPcs \cup {"recv"}
      BY <2>1 DEF SplittingPcs, TcpThreads
    <2> QED BY <1>3, <1>7, <2>5, <2>6, <2>7, <2>8 DEF TcpLines, TcpAt
  <1> QED BY <1>3, <1>6, <1>7 DEF TcpLines

(* ... published as the link's socket ...                                   *)
LEMMA LinesAssigned ==
    ASSUME TcpBase, OneOwner, TcpLines, NEW t \in TcpThreads, TcpAssign(t)
    PROVE  OneOwner' /\ TcpLines'
  <1>1. /\ TcpAt(t, "assign") /\ tcp'.socket = tcpRun[t].sock /\ tcp'.buffer = tcp.buffer
        /\ UNCHANGED <<data, tcpUse, whole>>
        /\ tcpRun'[t].pc = "publish" /\ \A u \in TcpThreads \ {t} : tcpRun'[u] = tcpRun[u]
    BY DEF TcpAssign, tcpHistory, TcpBase, TcpShape, Links, Rows
  <1>2. \A s \in Sockets : peers'[s].state = "open" => peers'[s] = peers[s]
    BY DEF TcpAssign, TcpCollect, Closed
  <1>3. OneOwner' BY <1>1, SameOwner DEF TcpAt, TcpThreads
  <1>4. ASSUME tcpUse # "any" PROVE TcpLines'
    <2>1. /\ t = "gui" => tcpRun["reader"].pc = "none" /\ tcpRun'["reader"].pc = "none"
          /\ t = "reader" => tcpRun'["reader"].pc = "publish" /\ tcpRun'["gui"].pc \notin TcpOpening
      BY <1>1, <1>4 DEF TcpBase, TcpServed, TcpStarting, TcpOpening, TcpAt, TcpThreads
    <2>2. \A u \in TcpThreads : tcpRun'[u].pc # "assign"
      BY <1>1, <2>1 DEF TcpOpening, TcpThreads
    <2>3. tcpRun[t].sock \in Sockets
      BY <1>1 DEF TcpBase, TcpShape, TcpHeld, Rows, TcpAt, TcpThreads
    <2>4. Fresh(tcpRun[t].sock) BY <1>1, <1>4 DEF TcpLines
    <2>5. Fresh(tcp.socket)' BY <1>1, <1>2, <2>3, <2>4 DEF Fresh
    <2>6. tcpRun'["reader"].pc \notin SplittingPcs \cup {"recv"}
      BY <2>1 DEF SplittingPcs, TcpThreads
    <2> QED BY <1>1, <1>4, <2>2, <2>5, <2>6 DEF TcpLines, TcpAt
  <1> QED BY <1>1, <1>3, <1>4 DEF TcpLines

(* ... called connected ...                                                 *)
LEMMA LinesPublished ==
    ASSUME TcpBase, OneOwner, TcpLines, NEW t \in TcpThreads, TcpPublish(t)
    PROVE  OneOwner' /\ TcpLines'
  <1>1. /\ TcpAt(t, "publish") /\ tcp'.socket = tcp.socket /\ tcp'.buffer = tcp.buffer
        /\ UNCHANGED <<peers, data, tcpUse, whole>>
        /\ tcpRun'[t].pc = "reset" /\ \A u \in TcpThreads \ {t} : tcpRun'[u] = tcpRun[u]
    BY DEF TcpPublish, TcpGoto, tcpHistory, TcpBase, TcpShape, Links, Rows
  <1>3. OneOwner' BY <1>1, SameOwner DEF TcpAt, TcpThreads
  <1>4. ASSUME tcpUse # "any" PROVE TcpLines'
    <2>1. /\ t = "gui" => tcpRun["reader"].pc = "none" /\ tcpRun'["reader"].pc = "none"
          /\ t = "reader" => tcpRun'["reader"].pc = "reset" /\ tcpRun'["gui"].pc \notin TcpOpening
      BY <1>1, <1>4 DEF TcpBase, TcpServed, TcpStarting, TcpOpening, TcpAt, TcpThreads
    <2>2. \A u \in TcpThreads : tcpRun'[u].pc # "assign"
      BY <1>1, <2>1 DEF TcpOpening, TcpThreads
    <2>3. tcp'.socket # NoSocket => Fresh(tcp.socket)' BY <1>1, <1>4 DEF Fresh, TcpLines, TcpAt
    <2>4. tcpRun'["reader"].pc \notin SplittingPcs \cup {"recv"}
      BY <2>1 DEF SplittingPcs, TcpThreads
    <2> QED BY <1>1, <1>4, <2>2, <2>3, <2>4 DEF TcpLines, TcpAt
  <1> QED BY <1>1, <1>3, <1>4 DEF TcpLines

(* ... and starts with an empty buffer.                                     *)
LEMMA LinesReset ==
    ASSUME TcpBase, OneOwner, TcpLines, NEW t \in TcpThreads, ResetBuffer(t)
    PROVE  OneOwner' /\ TcpLines'
  <1>1. /\ TcpAt(t, "reset") /\ tcp'.socket = tcp.socket /\ tcp'.buffer = <<>>
        /\ UNCHANGED <<peers, data, tcpUse, whole>>
        /\ tcpRun'[t].pc = "announce" /\ \A u \in TcpThreads \ {t} : tcpRun'[u] = tcpRun[u]
    BY DEF ResetBuffer, TcpGoto, tcpHistory, TcpBase, TcpShape, Links, Rows
  <1>3. OneOwner'
    <2>1. OwnersOf(tcp.buffer)' = {} /\ OwnersOf(data)' = OwnersOf(data) BY <1>1 DEF OwnersOf
    <2>2. TcpAt("reader", "append")' => TcpAt("reader", "append") BY <1>1 DEF TcpAt, TcpThreads
    <2> QED BY <1>1, <2>1, <2>2 DEF OneOwner
  <1>4. ASSUME tcpUse # "any" PROVE TcpLines'
    <2>1. /\ t = "gui" => tcpRun["reader"].pc = "none" /\ tcpRun'["reader"].pc = "none"
          /\ t = "reader" => tcpRun'["reader"].pc = "announce" /\ tcpRun'["gui"].pc \notin TcpOpening
      BY <1>1, <1>4 DEF TcpBase, TcpServed, TcpStarting, TcpOpening, TcpAt, TcpThreads
    <2>2. \A u \in TcpThreads : tcpRun'[u].pc \notin {"assign", "publish", "reset"}
      BY <1>1, <2>1 DEF TcpOpening, TcpThreads
    <2>3. ASSUME tcp'.socket # NoSocket PROVE Suits(tcp.socket)'
      <3>1. Fresh(tcp.socket) BY <1>1, <1>4, <2>3 DEF TcpLines, TcpAt
      <3>2. Begun(tcp.buffer, tcp.socket, 0)' <=> Begun(<<>>, tcp.socket, 0)
        BY <1>1 DEF Begun, Flows, Due
      <3>3. Due(tcp.socket, 0) BY <3>1 DEF Fresh, Due, HalfAt
      <3>4. Begun(<<>>, tcp.socket, 0) BY <3>3, EmptyFlow DEF Begun
      <3>5. 0 \in 0 .. 1
        OBVIOUS
      <3> QED BY <3>2, <3>4, <3>5 DEF Suits
    <2>4. tcpRun'["reader"].pc \notin SplittingPcs \cup {"recv"}
      BY <2>1 DEF SplittingPcs, TcpThreads
    <2> QED BY <1>1, <1>4, <2>2, <2>3, <2>4 DEF TcpLines, TcpAt
  <1> QED BY <1>1, <1>3, <1>4 DEF TcpLines

(* The reader loads the socket.                                             *)
LEMMA LinesLoaded ==
    ASSUME TcpBase, OneOwner, TcpLines, LoadSocket
    PROVE  OneOwner' /\ TcpLines'
  <1>1. /\ TcpAt("reader", "load") /\ UNCHANGED <<tcp, peers, data, tcpUse, whole>>
        /\ tcpRun'["reader"].sock = tcp.socket
        /\ tcpRun'["reader"].pc = IF tcp.socket = NoSocket THEN "none" ELSE "recv"
        /\ tcpRun'["gui"] = tcpRun["gui"]
    BY DEF LoadSocket, tcpHistory, TcpBase, TcpShape, Rows, TcpThreads
  <1>2. OneOwner' BY <1>1, SameOwner DEF TcpAt
  <1>3. ASSUME tcpUse # "any" PROVE TcpLines'
    <2>1. tcpRun["gui"].pc \notin TcpOpening /\ tcpRun'["gui"].pc \notin TcpOpening
      BY <1>1, <1>3 DEF TcpBase, TcpServed, TcpStarting, TcpAt
    <2>2. \A u \in TcpThreads : tcpRun'[u].pc \notin {"assign", "publish", "reset"} \cup SplittingPcs
      <3>1. tcpRun'["gui"].pc \notin SplittingPcs
        BY <1>1 DEF TcpBase, TcpShape, TcpGuiPcs, TcpOpening, TcpDropping, SplittingPcs
      <3> QED BY <1>1, <2>1, <3>1 DEF TcpOpening, TcpThreads, SplittingPcs
    <2>3. tcp.socket # NoSocket => Suits(tcp.socket)
      <3>1. \A u \in TcpThreads : tcpRun[u].pc \notin {"publish", "reset"}
        BY <1>1, <2>1 DEF TcpOpening, TcpThreads, TcpAt
      <3>2. tcpRun["reader"].pc \notin SplittingPcs BY <1>1 DEF TcpAt, SplittingPcs
      <3> QED BY <1>3, <3>1, <3>2 DEF TcpLines
    <2>4. tcp.socket # NoSocket => Suits(tcp.socket)' /\ Suits(tcpRun["reader"].sock)'
      BY <1>1, <2>3 DEF Suits, Begun, Due, Flows
    <2>5. whole' BY <1>1, <1>3 DEF TcpLines
    <2> QED BY <1>1, <1>3, <2>2, <2>4, <2>5 DEF TcpLines, TcpAt, TcpThreads
  <1> QED BY <1>1, <1>2, <1>3 DEF TcpLines

(* What recv() does: one half or two from the socket the reader holds, or   *)
(* halves of no interest any more.                                          *)
LEMMA RecvEffect ==
    ASSUME TcpBase, Recv
    PROVE  /\ TcpAt("reader", "recv") /\ UNCHANGED <<tcp, listening, tcpOp, tcpEvents, tcpUse, whole>>
           /\ tcpRun' \in [TcpThreads -> Rows] /\ tcpRun'["reader"].pc = "append"
           /\ tcpRun'["reader"].sock = NoSocket /\ tcpRun'["reader"].was = tcpRun["reader"].was
           /\ tcpRun'["gui"] = tcpRun["gui"]
           /\ tcpRun["reader"].sock \in Sockets /\ peers[tcpRun["reader"].sock].state = "open"
           /\ peers' \in [Sockets -> Peers]
           /\ \A r \in Sockets : r \notin Held' => peers'[r] = Closed
           /\ \A r \in Held' \cap Sockets : r # tcpRun["reader"].sock => peers'[r] = peers[r]
           /\ \A r \in Held' \cap Sockets : peers'[r].state = peers[r].state
           /\ data' \in Seq(Pieces) /\ data' # <<>>
           /\ \E from \in {NoSocket, tcpRun["reader"].sock}, k \in {1, 2} :
                 LET s == tcpRun["reader"].sock
                     first == peers[s].half
                 IN  /\ from = (IF tcpUse = "any" THEN NoSocket ELSE s)
                     /\ Len(data') = k /\ data'[1] = <<from, first>>
                     /\ k = 2 => data'[2] = <<from, 3 - first>>
                     /\ s \in Held' => peers'[s].half = IF k = 1 THEN 3 - first ELSE first
  <1> DEFINE s == tcpRun["reader"].sock
             first == peers[s].half
             from == IF tcpUse = "any" THEN NoSocket ELSE s
             left(n) == [r \in Sockets |-> CASE r \notin Held' -> Closed
                                             [] r \in Held' /\ r # s -> peers[r]
                                             [] r \in Held' /\ r = s -> [peers[s] EXCEPT !.half = n]]
  <1>1. /\ TcpAt("reader", "recv") /\ UNCHANGED <<tcp, listening, tcpOp, tcpEvents, tcpUse, whole>>
        /\ tcpRun' = [tcpRun EXCEPT !["reader"].sock = NoSocket, !["reader"].pc = "append"]
        /\ peers[s].state = "open"
    BY DEF Recv, Receives, tcpHistory
  <1>2. /\ tcpRun' \in [TcpThreads -> Rows] /\ tcpRun'["reader"].pc = "append"
        /\ tcpRun'["reader"].sock = NoSocket /\ tcpRun'["reader"].was = tcpRun["reader"].was
        /\ tcpRun'["gui"] = tcpRun["gui"]
    <2>1. tcpRun \in [TcpThreads -> Rows] /\ NoSocket \in Sockets \cup {NoSocket}
          /\ "append" \in TcpGuiPcs \cup TcpReaderPcs
      BY DEF TcpBase, TcpShape, TcpReaderPcs
    <2> QED BY <1>1, <2>1 DEF Rows, TcpThreads
  <1>3. s \in Sockets BY <1>1 DEF TcpBase, TcpShape, TcpHeld, Rows, TcpAt, TcpThreads
  <1>4. peers[s] \in Peers /\ first \in {1, 2} /\ 3 - first \in {1, 2} BY <1>3 DEF TcpBase, TcpShape, Peers
  <1>5. \/ data' = <<<<from, first>>>> /\ peers' = left(3 - first)
        \/ data' = <<<<from, first>>, <<from, 3 - first>>>> /\ peers' = left(first)
    BY DEF Recv
  <1>6. PICK n \in {1, 2} : peers' = left(n) /\ n \in {first, 3 - first}
                            /\ (Len(data') = 1 => n = 3 - first) /\ (Len(data') = 2 => n = first)
    BY <1>4, <1>5
  <1>7. [peers[s] EXCEPT !.half = n] \in Peers /\ [peers[s] EXCEPT !.half = n].half = n
        /\ [peers[s] EXCEPT !.half = n].state = peers[s].state
    BY <1>4 DEF Peers
  <1>8. \A r \in Sockets : /\ r \notin Held' => peers'[r] = Closed
                           /\ r \in Held' /\ r # s => peers'[r] = peers[r]
                           /\ r \in Held' /\ r = s => peers'[r] = [peers[s] EXCEPT !.half = n]
    BY <1>6
  <1>9. peers' \in [Sockets -> Peers]
    <2>1. Closed \in Peers /\ peers \in [Sockets -> Peers] BY DEF Closed, Peers, TcpBase, TcpShape
    <2>2. peers' = [r \in Sockets |-> peers'[r]] BY <1>6
    <2> QED BY <1>7, <1>8, <2>1, <2>2
  <1>10. <<from, first>> \in Pieces /\ <<from, 3 - first>> \in Pieces BY <1>3, <1>4 DEF Pieces
  <1>11. /\ data' \in Seq(Pieces) /\ data' # <<>> /\ Len(data') \in {1, 2} /\ data'[1] = <<from, first>>
         /\ Len(data') = 2 => data'[2] = <<from, 3 - first>>
    <2>1. CASE data' = <<<<from, first>>>>
      <3>1. \A p \in Pieces : <<p>> \in Seq(Pieces) /\ <<p>> # <<>> /\ Len(<<p>>) = 1 /\ <<p>>[1] = p
        OBVIOUS
      <3> QED BY <1>10, <2>1, <3>1
    <2>2. CASE data' = <<<<from, first>>, <<from, 3 - first>>>>
      <3>1. \A p, q \in Pieces : /\ <<p, q>> \in Seq(Pieces) /\ <<p, q>> # <<>> /\ Len(<<p, q>>) = 2
                                /\ <<p, q>>[1] = p /\ <<p, q>>[2] = q
        OBVIOUS
      <3> HIDE DEF first, from
      <3> QED BY <1>10, <2>2, <3>1
    <2> QED BY <1>5, <2>1, <2>2
  <1>12. \A r \in Held' \cap Sockets : peers'[r].state = peers[r].state BY <1>7, <1>8
  <1>13. s \in Held' => peers'[s].half = IF Len(data') = 1 THEN 3 - first ELSE first
    BY <1>3, <1>6, <1>7, <1>8, <1>11
  <1>14. from \in {NoSocket, s} /\ from = (IF tcpUse = "any" THEN NoSocket ELSE s)
    OBVIOUS
  <1> HIDE DEF s, first, from, left
  <1> QED BY <1>1, <1>2, <1>3, <1>8, <1>9, <1>11, <1>12, <1>13, <1>14 DEF s, first, from

(* What the reader does with what it received.                              *)
LEMMA AppendEffect ==
    ASSUME TcpBase, OneOwner, AppendData
    PROVE  /\ TcpAt("reader", "append") /\ UNCHANGED <<tcp, peers, listening, tcpOp, tcpEvents, tcpUse, whole>>
           /\ tcpRun' \in [TcpThreads -> Rows] /\ tcpRun'["reader"].pc = "store"
           /\ tcpRun'["reader"].sock = tcpRun["reader"].sock /\ tcpRun'["reader"].was = tcpRun["reader"].was
           /\ tcpRun'["gui"] = tcpRun["gui"]
           /\ data' = Joined(tcp.buffer, data) /\ data' \in Seq(Pieces)
           /\ OwnersOf(data') \subseteq OwnersOf(tcp.buffer) \cup OwnersOf(data) \cup {NoSocket}
  <1>1. /\ TcpAt("reader", "append") /\ UNCHANGED <<tcp, peers, listening, tcpOp, tcpEvents, tcpUse, whole>>
        /\ TcpGoto("reader", "store") /\ data' = Joined(tcp.buffer, data)
    BY DEF AppendData, tcpHistory
  <1>2. data # <<>> BY <1>1 DEF OneOwner
  <1>3. TcpShape /\ tcp.buffer \in Seq(Pieces) /\ data \in Seq(Pieces) BY DEF TcpBase, TcpShape, Links
  <1>4. "store" \in TcpGuiPcs \cup TcpReaderPcs BY DEF TcpReaderPcs
  <1>5. "reader" \in TcpThreads /\ "gui" \in TcpThreads \ {"reader"} BY DEF TcpThreads
  <1>6. /\ tcpRun' \in [TcpThreads -> Rows] /\ tcpRun'["reader"].pc = "store"
        /\ tcpRun'["reader"].sock = tcpRun["reader"].sock /\ tcpRun'["reader"].was = tcpRun["reader"].was
        /\ tcpRun'["gui"] = tcpRun["gui"]
    BY <1>1, <1>3, <1>4, <1>5, RunGoes
  <1>7. /\ data' \in Seq(Pieces)
        /\ OwnersOf(data') \subseteq OwnersOf(tcp.buffer) \cup OwnersOf(data) \cup {NoSocket}
    BY <1>1, <1>2, <1>3, OwnersJoined
  <1> QED BY <1>1, <1>6, <1>7

(* The same of storing the buffer ...                                       *)
LEMMA StoreEffect ==
    ASSUME TcpBase, StoreBuffer \/ KeepRest
    PROVE  /\ TcpAt("reader", "store") \/ TcpAt("reader", "rest")
           /\ UNCHANGED <<peers, listening, tcpOp, tcpEvents, tcpUse, whole>>
           /\ tcpRun' \in [TcpThreads -> Rows] /\ tcpRun'["reader"].pc = "newline"
           /\ tcpRun'["reader"].sock = tcpRun["reader"].sock /\ tcpRun'["reader"].was = tcpRun["reader"].was
           /\ tcpRun'["gui"] = tcpRun["gui"]
           /\ tcp' \in Links /\ tcp'.running = tcp.running /\ tcp'.socket = tcp.socket
           /\ tcp'.connected = tcp.connected /\ tcp'.buffer = data /\ data' = <<>>
  <1>1. /\ TcpAt("reader", "store") \/ TcpAt("reader", "rest")
        /\ UNCHANGED <<peers, listening, tcpOp, tcpEvents, tcpUse, whole>>
        /\ TcpGoto("reader", "newline") /\ tcp' = [tcp EXCEPT !.buffer = data] /\ data' = <<>>
    BY DEF StoreBuffer, KeepRest, tcpHistory
  <1>2. TcpShape /\ data \in Seq(Pieces) BY DEF TcpBase, TcpShape
  <1>3. "newline" \in TcpGuiPcs \cup TcpReaderPcs BY DEF TcpReaderPcs
  <1>4. "reader" \in TcpThreads /\ "gui" \in TcpThreads \ {"reader"} BY DEF TcpThreads
  <1>5. /\ tcpRun' \in [TcpThreads -> Rows] /\ tcpRun'["reader"].pc = "newline"
        /\ tcpRun'["reader"].sock = tcpRun["reader"].sock /\ tcpRun'["reader"].was = tcpRun["reader"].was
        /\ tcpRun'["gui"] = tcpRun["gui"]
    BY <1>1, <1>2, <1>3, <1>4, RunGoes
  <1>6. /\ tcp' \in Links /\ tcp'.running = tcp.running /\ tcp'.socket = tcp.socket
        /\ tcp'.connected = tcp.connected /\ tcp'.buffer = data
    BY <1>1, <1>2, LinkBuffer
  <1> QED BY <1>1, <1>5, <1>6

(* ... of looking for the end of a line ...                                 *)
LEMMA NewlineEffect ==
    ASSUME TcpBase, TestNewline
    PROVE  /\ TcpAt("reader", "newline")
           /\ UNCHANGED <<tcp, peers, listening, data, tcpOp, tcpEvents, tcpUse, whole>>
           /\ tcpRun' \in [TcpThreads -> Rows]
           /\ LineEnds(tcp.buffer) # {} => tcpRun'["reader"].pc = "split"
           /\ LineEnds(tcp.buffer) = {} => tcpRun'["reader"].pc = "check"
           /\ tcpRun'["reader"].sock = tcpRun["reader"].sock /\ tcpRun'["reader"].was = tcpRun["reader"].was
           /\ tcpRun'["gui"] = tcpRun["gui"]
  <1>1. PICK to \in {"split", "check"} :
           /\ TcpGoto("reader", to)
           /\ to = "split" <=> LineEnds(tcp.buffer) # {}
    BY DEF TestNewline
  <1>2. TcpAt("reader", "newline") /\ UNCHANGED <<tcp, peers, listening, data, tcpOp, tcpEvents, tcpUse, whole>>
    BY DEF TestNewline, tcpHistory
  <1>3. TcpShape BY DEF TcpBase
  <1>4. to \in TcpGuiPcs \cup TcpReaderPcs BY DEF TcpReaderPcs
  <1>5. "reader" \in TcpThreads /\ "gui" \in TcpThreads \ {"reader"} BY DEF TcpThreads
  <1>6. /\ tcpRun' \in [TcpThreads -> Rows] /\ tcpRun'["reader"].pc = to
        /\ tcpRun'["reader"].sock = tcpRun["reader"].sock /\ tcpRun'["reader"].was = tcpRun["reader"].was
        /\ tcpRun'["gui"] = tcpRun["gui"]
    BY <1>1, <1>3, <1>4, <1>5, RunGoes
  <1> QED BY <1>1, <1>2, <1>6

(* ... and of the split.                                                    *)
LEMMA SplitEffect ==
    ASSUME TcpBase, SplitLine
    PROVE  /\ TcpAt("reader", "split") /\ UNCHANGED <<tcp, peers, listening, tcpOp, tcpEvents, tcpUse>>
           /\ tcpRun' \in [TcpThreads -> Rows] /\ tcpRun'["reader"].pc \in {"none", "rest"}
           /\ tcpRun'["reader"].sock = tcpRun["reader"].sock /\ tcpRun'["reader"].was = tcpRun["reader"].was
           /\ tcpRun'["gui"] = tcpRun["gui"]
           /\ tcpRun'["reader"].pc = "none" => LineEnds(tcp.buffer) = {} /\ UNCHANGED <<data, whole>>
           /\ tcpRun'["reader"].pc = "rest" =>
                  \E n \in LineEnds(tcp.buffer) :
                     /\ \A m \in LineEnds(tcp.buffer) : n <= m
                     /\ data' = SubSeq(tcp.buffer, n + 1, Len(tcp.buffer))
                     /\ whole' = (tcpUse = "any" \/ (whole /\ SentLine(SubSeq(tcp.buffer, 1, n))))
           /\ data' \in Seq(Pieces) /\ whole' \in BOOLEAN
           /\ OwnersOf(data') \subseteq OwnersOf(tcp.buffer) \cup OwnersOf(data)
  <1>1. PICK to \in {"none", "rest"} :
           /\ TcpGoto("reader", to)
           /\ to = "none" => LineEnds(tcp.buffer) = {} /\ UNCHANGED <<data, whole>>
           /\ to = "rest" =>
                 \E n \in LineEnds(tcp.buffer) :
                    /\ \A m \in LineEnds(tcp.buffer) : n <= m
                    /\ data' = SubSeq(tcp.buffer, n + 1, Len(tcp.buffer))
                    /\ whole' = (tcpUse = "any" \/ (whole /\ SentLine(SubSeq(tcp.buffer, 1, n))))
    BY DEF SplitLine
  <1>2. TcpAt("reader", "split") /\ UNCHANGED <<tcp, peers, listening, tcpOp, tcpEvents, tcpUse>>
    BY DEF SplitLine
  <1>3. TcpShape /\ tcp.buffer \in Seq(Pieces) /\ data \in Seq(Pieces) /\ whole \in BOOLEAN
    BY DEF TcpBase, TcpShape, Links
  <1>4. to \in TcpGuiPcs \cup TcpReaderPcs BY DEF TcpReaderPcs
  <1>5. "reader" \in TcpThreads /\ "gui" \in TcpThreads \ {"reader"} BY DEF TcpThreads
  <1>6. /\ tcpRun' \in [TcpThreads -> Rows] /\ tcpRun'["reader"].pc = to
        /\ tcpRun'["reader"].sock = tcpRun["reader"].sock /\ tcpRun'["reader"].was = tcpRun["reader"].was
        /\ tcpRun'["gui"] = tcpRun["gui"]
    BY <1>1, <1>3, <1>4, <1>5, RunGoes
  <1>7. /\ data' \in Seq(Pieces) /\ whole' \in BOOLEAN
        /\ OwnersOf(data') \subseteq OwnersOf(tcp.buffer) \cup OwnersOf(data)
    <2>1. CASE to = "none" BY <1>1, <1>3, <2>1
    <2>2. CASE to = "rest"
      <3>1. PICK n \in LineEnds(tcp.buffer) :
               /\ data' = SubSeq(tcp.buffer, n + 1, Len(tcp.buffer))
               /\ whole' = (tcpUse = "any" \/ (whole /\ SentLine(SubSeq(tcp.buffer, 1, n))))
        BY <1>1, <2>2
      <3>2. n \in 1 .. Len(tcp.buffer) BY <1>3, LenProperties DEF LineEnds
      <3>3. data' \in Seq(Pieces) /\ OwnersOf(data') \subseteq OwnersOf(tcp.buffer)
        BY <1>3, <3>1, <3>2, OwnersOfRest
      <3>4. whole' \in BOOLEAN BY <3>1, Zenon
      <3> QED BY <3>3, <3>4
    <2> QED BY <2>1, <2>2
  <1> QED BY <1>1, <1>2, <1>6, <1>7

(* In a connection's use the split finds the end of a line.                 *)
LEMMA SplitFinds ==
    ASSUME TcpBase, TcpLines, TcpAt("reader", "split"), tcpUse # "any"
    PROVE  LineEnds(tcp.buffer) = {2}
  <1>1. tcpRun["reader"].pc \in SplittingPcs BY DEF SplittingPcs, TcpAt
  <1>2. PICK s \in Sockets : Splits(s) BY <1>1 DEF TcpLines
  <1>3. PICK n \in 2 .. 3 : Begun(tcp.buffer, s, n) BY <1>2 DEF Splits
  <1>4. Flows(tcp.buffer, s, n) /\ n \in 0 .. 3 BY <1>3 DEF Begun
  <1>5. tcp.buffer \in Seq(Pieces) BY DEF TcpBase, TcpShape, Links
  <1>6. LineEnds(tcp.buffer) = IF n >= 2 THEN {2} ELSE {} BY <1>4, <1>5, EndsInFlow
  <1> QED BY <1>6

(* What the reader makes of received pieces keeps the base of the           *)
(* invariant.                                                               *)
LEMMA TcpSplittingStep ==
    ASSUME TcpBase, OneOwner, TcpLines,
           Recv \/ AppendData \/ StoreBuffer \/ TestNewline \/ SplitLine \/ KeepRest
    PROVE  TcpBase'
  <1>1. CASE Recv
    <2>1. /\ TcpAt("reader", "recv") /\ UNCHANGED <<tcp, listening, tcpOp, tcpEvents, tcpUse, whole>>
          /\ tcpRun' \in [TcpThreads -> Rows] /\ tcpRun'["reader"].pc = "append"
          /\ tcpRun'["reader"].sock = NoSocket /\ tcpRun'["reader"].was = tcpRun["reader"].was
          /\ tcpRun'["gui"] = tcpRun["gui"]
          /\ peers' \in [Sockets -> Peers]
          /\ \A r \in Sockets : r \notin Held' => peers'[r] = Closed
          /\ \A r \in Held' \cap Sockets : peers'[r].state = peers[r].state
          /\ data' \in Seq(Pieces)
      BY <1>1, RecvEffect
    <2>2. tcp.socket \in Held' /\ tcpRun["gui"].sock \in Held' BY <2>1 DEF Held, TcpThreads
    <2>3. tcp.socket \in Sockets \cup {NoSocket} /\ tcpRun["gui"].sock \in Sockets \cup {NoSocket}
      BY DEF TcpBase, TcpShape, Links, Rows, TcpThreads
    <2>4. OpenAt(tcp.socket) => OpenAt(tcp.socket)' BY <2>1, <2>2, <2>3 DEF OpenAt
    <2>5. OpenAt(tcpRun["gui"].sock) => OpenAt(tcpRun["gui"].sock)' BY <2>1, <2>2, <2>3 DEF OpenAt
    <2> HIDE DEF OpenAt
    <2>6. TcpShape' BY <2>1 DEF TcpBase, TcpShape, TcpReaderPcs
    <2>7. TcpHeld' BY <2>1 DEF TcpBase, TcpHeld, TcpAt, Closed
    <2>8. TcpServed'
      BY <2>1, <2>4, <2>5
      DEF TcpBase, TcpServed, TcpAt, TcpThreads, TcpStarting, TcpRestoring, Dropped, TcpOpening, TcpDropping
    <2>9. TcpTruth'
      BY <2>1
      DEF TcpBase, TcpTruth, TcpAt, TcpThreads, TcpStarting, TcpRestoring, Dropped, TcpOpening, TcpDropping, SplittingPcs
    <2> QED BY <2>6, <2>7, <2>8, <2>9 DEF TcpBase
  <1>2. ASSUME /\ tcpRun["reader"].pc \in SplittingPcs
               /\ UNCHANGED <<peers, listening, tcpOp, tcpEvents, tcpUse>>
               /\ tcp' \in Links /\ tcp'.running = tcp.running /\ tcp'.socket = tcp.socket
               /\ tcp'.connected = tcp.connected
               /\ tcpRun' \in [TcpThreads -> Rows]
               /\ tcpRun'["reader"].sock = tcpRun["reader"].sock /\ tcpRun'["reader"].was = tcpRun["reader"].was
               /\ tcpRun'["gui"] = tcpRun["gui"]
               /\ tcpRun'["reader"].pc \in SplittingPcs \cup {"check", "none"}
               /\ tcpRun'["reader"].pc = "none" => tcpUse = "any"
               /\ data' \in Seq(Pieces) /\ whole' \in BOOLEAN
        PROVE  TcpBase'
    <2>1. Held' = Held BY <1>2 DEF Held, TcpThreads, TcpBase, TcpShape
    <2>2. TcpShape' BY <1>2 DEF TcpBase, TcpShape, TcpReaderPcs, SplittingPcs
    <2>3. TcpHeld' BY <1>2, <2>1 DEF TcpBase, TcpHeld, TcpAt, SplittingPcs
    <2>4. OpenAt(tcp.socket)' <=> OpenAt(tcp.socket) BY <1>2 DEF OpenAt
    <2>5. OpenAt(tcpRun["gui"].sock)' <=> OpenAt(tcpRun["gui"].sock) BY <1>2 DEF OpenAt
    <2>6. TcpServed'
      BY <1>2, <2>4, <2>5
      DEF TcpBase, TcpServed, TcpAt, TcpThreads, TcpStarting, TcpRestoring, Dropped, TcpOpening, TcpDropping, SplittingPcs
    <2>7. TcpTruth'
      BY <1>2
      DEF TcpBase, TcpTruth, TcpAt, TcpThreads, TcpStarting, TcpRestoring, Dropped, TcpOpening, TcpDropping, SplittingPcs
    <2> QED BY <2>2, <2>3, <2>6, <2>7 DEF TcpBase
  <1>3. tcp \in Links /\ data \in Seq(Pieces) /\ whole \in BOOLEAN BY DEF TcpBase, TcpShape
  <1>4. CASE AppendData BY <1>2, <1>3, <1>4, AppendEffect DEF TcpAt, SplittingPcs
  <1>5. CASE StoreBuffer \/ KeepRest
    <2>1. <<>> \in Seq(Pieces)
      OBVIOUS
    <2> QED BY <1>2, <1>3, <1>5, <2>1, StoreEffect DEF TcpAt, SplittingPcs
  <1>6. CASE TestNewline BY <1>2, <1>3, <1>6, NewlineEffect DEF TcpAt, SplittingPcs
  <1>7. CASE SplitLine
    <2>1. tcpRun'["reader"].pc = "none" => tcpUse = "any" BY <1>7, SplitEffect, SplitFinds
    <2> QED BY <1>2, <1>3, <1>7, <2>1, SplitEffect DEF TcpAt, SplittingPcs
  <1> QED BY <1>1, <1>4, <1>5, <1>6, <1>7

(* While a connection in use is read, the GUI thread opens none; what       *)
(* remains to be shown of a step is what the reader holds after it.         *)
LEMMA GuiApart ==
    ASSUME TcpBase, tcpUse # "any", tcpRun["reader"].pc \in SplittingPcs \cup {"recv"},
           tcpRun'["gui"] = tcpRun["gui"]
    PROVE  tcpRun'["gui"].pc \notin {"assign", "publish", "reset", "recv"}
  <1>1. tcpRun["reader"].pc # "none" BY DEF SplittingPcs
  <1>2. tcpRun["gui"].pc \notin TcpOpening BY <1>1 DEF TcpBase, TcpServed, TcpStarting, TcpAt
  <1>3. tcpRun["gui"].pc # "recv" BY DEF TcpBase, TcpShape, TcpGuiPcs, TcpOpening, TcpDropping
  <1> QED BY <1>2, <1>3 DEF TcpOpening

(* What remains is that the pieces in the buffer and in `data` fit          *)
(* together.                                                                *)
LEMMA ReaderLines ==
    ASSUME TcpBase, tcpUse' # "any", tcpUse # "any", tcpRun["reader"].pc \in SplittingPcs \cup {"recv"},
           tcpRun'["gui"] = tcpRun["gui"], tcpRun'["reader"].pc \in SplittingPcs, whole',
           NEW s \in Sockets, tcp'.socket \in {NoSocket, s}, Splits(s)'
    PROVE  TcpLines'
  <1>1. tcpRun'["gui"].pc \notin {"assign", "publish", "reset", "recv"} BY GuiApart
  <1>2. \A t \in TcpThreads : tcpRun'[t].pc \notin {"assign", "publish", "reset"}
    BY <1>1 DEF TcpThreads, SplittingPcs
  <1>3. tcpRun'["reader"].pc # "recv" BY DEF SplittingPcs
  <1> QED BY <1>2, <1>3 DEF TcpLines, TcpAt

(* A piece is received ...                                                  *)
LEMMA LinesReceived ==
    ASSUME TcpBase, OneOwner, TcpLines, Recv
    PROVE  OneOwner' /\ TcpLines'
  <1>0. PICK s \in Sockets : s = tcpRun["reader"].sock BY RecvEffect
  <1> DEFINE first == peers[s].half
             from == IF tcpUse = "any" THEN NoSocket ELSE s
  <1>1. /\ TcpAt("reader", "recv") /\ UNCHANGED <<tcp, tcpUse, whole>>
        /\ tcpRun'["reader"].pc = "append" /\ tcpRun'["gui"] = tcpRun["gui"]
        /\ peers[s].state = "open"
        /\ \A r \in Sockets : r \notin Held' => peers'[r] = Closed
        /\ data' \in Seq(Pieces) /\ data' # <<>>
    BY <1>0, RecvEffect
  <1>2. PICK k \in {1, 2} :
           /\ Len(data') = k /\ data'[1] = <<from, first>>
           /\ k = 2 => data'[2] = <<from, 3 - first>>
           /\ s \in Held' => peers'[s].half = IF k = 1 THEN 3 - first ELSE first
    BY <1>0, RecvEffect
  <1>3. OwnersOf(data') \subseteq {from}
    <2>1. DOMAIN data' = 1 .. k BY <1>1, <1>2, LenProperties
    <2>2. \A i \in 1 .. k : data'[i][1] = from BY <1>2
    <2> QED BY <2>1, <2>2 DEF OwnersOf
  <1>4. CASE tcpUse = "any"
    <2>1. from = NoSocket BY <1>4
    <2>2. OneOwner' BY <1>1, <1>3, <2>1 DEF OneOwner
    <2> QED BY <1>1, <1>4, <2>2 DEF TcpLines
  <1>5. CASE tcpUse # "any"
    <2>1. from = s BY <1>5
    <2>2. PICK m \in 0 .. 1 : Begun(tcp.buffer, s, m) BY <1>0, <1>1, <1>5 DEF TcpLines, Suits
    <2>3. Flows(tcp.buffer, s, m) /\ first = HalfAt(m + 1) BY <1>1, <2>2 DEF Begun, Due
    <2>4. tcp.socket \in {NoSocket, s} BY <1>0, <1>1, <1>5 DEF TcpLines
    <2>5. OneOwner'
      <3>1. tcp.buffer \in Seq(Pieces) BY DEF TcpBase, TcpShape, Links
      <3>2. DOMAIN tcp.buffer = 1 .. m BY <2>3, <3>1, LenProperties DEF Flows
      <3>3. OwnersOf(tcp.buffer) \subseteq {s} BY <2>3, <3>2 DEF OwnersOf, Flows
      <3> QED BY <1>1, <1>3, <2>1, <3>3 DEF OneOwner
    <2> HIDE DEF first, from
    <2>6. m + k \in m + 1 .. m + 2 /\ m + k - m = k BY <1>2
    <2>7. \A i \in 1 .. k : data'[i] = <<s, HalfAt(m + i)>>
      <3>1. data'[1] = <<s, HalfAt(m + 1)>> BY <1>2, <2>1, <2>3
      <3>2. k = 2 => data'[2] = <<s, HalfAt(m + 2)>> BY <1>2, <2>1, <2>3 DEF HalfAt
      <3> QED BY <3>1, <3>2
    <2>8. Due(s, m + k)'
      <3>1. ASSUME peers'[s].state = "open" PROVE peers'[s].half = HalfAt(m + k + 1)
        <4>1. s \in Held' BY <1>1, <3>1 DEF Closed
        <4> QED BY <1>2, <2>3, <4>1 DEF HalfAt
      <3> QED BY <3>1 DEF Due
    <2>9. Continues(s, m, m + k)'
      <3>1. Flows(tcp.buffer, s, m)' BY <1>1, <2>3 DEF Flows
      <3> QED BY <1>2, <2>6, <2>7, <2>8, <3>1 DEF Continues
    <2>10. Splits(s)' BY <1>1, <2>6, <2>9 DEF Splits, TcpAt
    <2>11. whole' BY <1>1, <1>5 DEF TcpLines
    <2>12. TcpLines' BY <1>1, <1>5, <2>4, <2>10, <2>11, ReaderLines DEF TcpAt, SplittingPcs
    <2> QED BY <2>5, <2>12
  <1> QED BY <1>4, <1>5

(* ... put behind the buffer ...                                            *)
LEMMA LinesAppended ==
    ASSUME TcpBase, OneOwner, TcpLines, AppendData
    PROVE  OneOwner' /\ TcpLines'
  <1>1. /\ TcpAt("reader", "append") /\ UNCHANGED <<tcp, peers, tcpUse, whole>>
        /\ tcpRun'["reader"].pc = "store" /\ tcpRun'["gui"] = tcpRun["gui"]
        /\ data' = Joined(tcp.buffer, data)
        /\ OwnersOf(data') \subseteq OwnersOf(tcp.buffer) \cup OwnersOf(data) \cup {NoSocket}
    BY AppendEffect
  <1>2. OneOwner' BY <1>1 DEF OneOwner, TcpAt
  <1>3. ASSUME tcpUse # "any" PROVE TcpLines'
    <2>1. whole' /\ tcpRun["reader"].pc \in SplittingPcs BY <1>1, <1>3 DEF TcpLines, TcpAt, SplittingPcs
    <2>2. PICK s \in Sockets : tcp.socket \in {NoSocket, s} /\ Splits(s) BY <1>3, <2>1 DEF TcpLines
    <2>3. PICK m \in 0 .. 1 : \E n \in m + 1 .. m + 2 : Continues(s, m, n) BY <1>1, <2>2 DEF Splits
    <2>4. PICK n \in m + 1 .. m + 2 : Continues(s, m, n) BY <2>3
    <2>5. tcp.buffer \in Seq(Pieces) /\ data \in Seq(Pieces) BY DEF TcpBase, TcpShape, Links
    <2>6. Begun(data', s, n) BY <1>1, <2>4, <2>5, FlowJoined
    <2>7. Begun(data, s, n)' BY <1>1, <2>6 DEF Begun, Flows, Due
    <2>8. Splits(s)'
      <3>1. n \in 1 .. 3 BY <2>3
      <3> QED BY <1>1, <2>7, <3>1 DEF Splits, TcpAt
    <2> QED BY <1>1, <1>3, <2>1, <2>2, <2>8, ReaderLines DEF SplittingPcs
  <1> QED BY <1>1, <1>2, <1>3 DEF TcpLines

(* ... and stored, as what is left of it after a line is.                   *)
LEMMA LinesStored ==
    ASSUME TcpBase, OneOwner, TcpLines, StoreBuffer \/ KeepRest
    PROVE  OneOwner' /\ TcpLines'
  <1>1. /\ TcpAt("reader", "store") \/ TcpAt("reader", "rest")
        /\ UNCHANGED <<peers, tcpUse, whole>>
        /\ tcpRun'["reader"].pc = "newline" /\ tcpRun'["gui"] = tcpRun["gui"]
        /\ tcp'.socket = tcp.socket /\ tcp'.buffer = data /\ data' = <<>>
    BY StoreEffect
  <1>2. OneOwner'
    <2>1. OwnersOf(data') = {} /\ OwnersOf(tcp'.buffer) = OwnersOf(data) BY <1>1 DEF OwnersOf
    <2> QED BY <1>1, <2>1 DEF OneOwner, TcpAt
  <1>3. ASSUME tcpUse # "any" PROVE TcpLines'
    <2>1. whole' /\ tcpRun["reader"].pc \in SplittingPcs BY <1>1, <1>3 DEF TcpLines, TcpAt, SplittingPcs
    <2>2. PICK s \in Sockets : tcp.socket \in {NoSocket, s} /\ Splits(s) BY <1>3, <2>1 DEF TcpLines
    <2>3. PICK n \in 0 .. 3 : Begun(data, s, n) BY <1>1, <2>2 DEF Splits
    <2>4. Begun(tcp.buffer, s, n)' BY <1>1, <2>3 DEF Begun, Flows, Due
    <2>5. Splits(s)' BY <1>1, <2>4 DEF Splits, TcpAt
    <2> QED BY <1>1, <1>3, <2>1, <2>2, <2>5, ReaderLines DEF SplittingPcs
  <1> QED BY <1>1, <1>2, <1>3 DEF TcpLines

(* The buffer is searched for the end of a line: without one it suits the   *)
(* connection again ...                                                     *)
LEMMA LinesTested ==
    ASSUME TcpBase, OneOwner, TcpLines, TestNewline
    PROVE  OneOwner' /\ TcpLines'
  <1>1. /\ TcpAt("reader", "newline") /\ UNCHANGED <<tcp, peers, data, tcpUse, whole>>
        /\ LineEnds(tcp.buffer) # {} => tcpRun'["reader"].pc = "split"
        /\ LineEnds(tcp.buffer) = {} => tcpRun'["reader"].pc = "check"
        /\ tcpRun'["gui"] = tcpRun["gui"]
    BY NewlineEffect
  <1>2. OneOwner' BY <1>1, SameOwner DEF TcpAt
  <1>3. ASSUME tcpUse # "any" PROVE TcpLines'
    <2>1. whole' /\ tcpRun["reader"].pc \in SplittingPcs BY <1>1, <1>3 DEF TcpLines, TcpAt, SplittingPcs
    <2>2. PICK s \in Sockets : tcp.socket \in {NoSocket, s} /\ Splits(s) BY <1>3, <2>1 DEF TcpLines
    <2>3. PICK n \in 0 .. 3 : Begun(tcp.buffer, s, n) BY <1>1, <2>2 DEF Splits
    <2>4. LineEnds(tcp.buffer) = IF n >= 2 THEN {2} ELSE {}
      BY <2>3, EndsInFlow DEF Begun, TcpBase, TcpShape, Links
    <2>5. Begun(tcp.buffer, s, n)' BY <1>1, <2>3 DEF Begun, Flows, Due
    <2>6. CASE n \in 2 .. 3
      <3>1. tcpRun'["reader"].pc = "split" BY <1>1, <2>4, <2>6
      <3>2. Splits(s)' BY <2>5, <2>6, <3>1 DEF Splits, TcpAt
      <3> QED BY <1>1, <1>3, <2>1, <2>2, <3>1, <3>2, ReaderLines DEF SplittingPcs
    <2>7. CASE n \in 0 .. 1
      <3>1. tcpRun'["reader"].pc = "check" BY <1>1, <2>4, <2>7
      <3>2. tcpRun'["gui"].pc \notin {"assign", "publish", "reset", "recv"} BY <1>1, <1>3, <2>1, GuiApart
      <3>3. \A t \in TcpThreads : tcpRun'[t].pc \notin {"assign", "publish", "reset"}
        BY <3>1, <3>2 DEF TcpThreads
      <3>4. tcp'.socket # NoSocket => Suits(tcp.socket)' BY <1>1, <2>2, <2>5, <2>7 DEF Suits
      <3>5. tcpRun'["reader"].pc \notin SplittingPcs \cup {"recv"} BY <3>1 DEF SplittingPcs
      <3> QED BY <2>1, <3>3, <3>4, <3>5 DEF TcpLines, TcpAt
    <2> QED BY <2>6, <2>7
  <1> QED BY <1>1, <1>2, <1>3 DEF TcpLines

(* ... and with one a line is taken from it, which is whole.                *)
LEMMA LinesSplit ==
    ASSUME TcpBase, OneOwner, TcpLines, SplitLine
    PROVE  OneOwner' /\ TcpLines'
  <1>1. /\ TcpAt("reader", "split") /\ UNCHANGED <<tcp, peers, tcpUse>>
        /\ tcpRun'["reader"].pc \in {"none", "rest"} /\ tcpRun'["gui"] = tcpRun["gui"]
        /\ tcpRun'["reader"].pc = "none" => LineEnds(tcp.buffer) = {}
        /\ OwnersOf(data') \subseteq OwnersOf(tcp.buffer) \cup OwnersOf(data)
    BY SplitEffect
  <1>2. OneOwner' BY <1>1 DEF OneOwner, TcpAt
  <1>3. ASSUME tcpUse # "any" PROVE TcpLines'
    <2>1. whole /\ tcpRun["reader"].pc \in SplittingPcs BY <1>1, <1>3 DEF TcpLines, TcpAt, SplittingPcs
    <2>2. PICK s \in Sockets : tcp.socket \in {NoSocket, s} /\ Splits(s) BY <1>3, <2>1 DEF TcpLines
    <2>3. PICK n \in 2 .. 3 : Begun(tcp.buffer, s, n) BY <1>1, <2>2 DEF Splits
    <2>4. LineEnds(tcp.buffer) = {2} BY <1>1, <1>3, SplitFinds
    <2>5. tcpRun'["reader"].pc = "rest" BY <1>1, <2>4
    <2>6. /\ data' = SubSeq(tcp.buffer, 3, Len(tcp.buffer))
          /\ whole' = (tcpUse = "any" \/ (whole /\ SentLine(SubSeq(tcp.buffer, 1, 2))))
      <3>1. PICK k \in LineEnds(tcp.buffer) :
               /\ data' = SubSeq(tcp.buffer, k + 1, Len(tcp.buffer))
               /\ whole' = (tcpUse = "any" \/ (whole /\ SentLine(SubSeq(tcp.buffer, 1, k))))
        BY <2>5, SplitEffect
      <3>2. k = 2 /\ k + 1 = 3 BY <2>4
      <3> QED BY <3>1, <3>2
    <2>7. SentLine(SubSeq(tcp.buffer, 1, 2)) /\ Begun(SubSeq(tcp.buffer, 3, Len(tcp.buffer)), s, n - 2)
      BY <2>3, FlowSplit DEF TcpBase, TcpShape, Links
    <2>8. whole' BY <2>1, <2>6, <2>7
    <2>9. Begun(data, s, n - 2)'
      <3>1. Begun(data', s, n - 2) BY <2>6, <2>7
      <3> QED BY <1>1, <3>1 DEF Begun, Flows, Due
    <2>10. Splits(s)'
      <3>1. n - 2 \in 0 .. 1 BY <2>3
      <3> QED BY <2>5, <2>9, <3>1 DEF Splits, TcpAt
    <2> QED BY <1>1, <1>3, <2>1, <2>2, <2>5, <2>8, <2>10, ReaderLines DEF SplittingPcs
  <1> QED BY <1>1, <1>2, <1>3 DEF TcpLines

TcpEngages(t) == TcpOpens(t) \/ TcpAssign(t) \/ TcpPublish(t) \/ ResetBuffer(t)

(* Every step but those is calm.                                            *)
LEMMA CalmSteps ==
    ASSUME TcpBase, TcpNext
    PROVE  Calm \/ LoadSocket \/ TcpReceives \/ \E t \in TcpThreads : TcpEngages(t)
  <1>1. /\ tcpRun \in [TcpThreads -> Rows] /\ tcp \in Links /\ whole \in BOOLEAN
        /\ \A s \in Sockets : Closed.state # "open"
        /\ peers \in [Sockets -> Peers]
    BY DEF TcpBase, TcpShape, Closed
  <1>2. ASSUME NEW t \in TcpThreads, TcpOpenStep(t) PROVE Calm \/ TcpEngages(t)
    <2>1. CASE TcpOpenFails(t)
      BY <1>1, <2>1 DEF Calm, TcpOpenFails, TcpGoto, TcpAt, tcpHistory, Rows, Rigid, SplittingPcs
    <2>2. CASE TcpAnnounce(t)
      BY <1>1, <2>2 DEF Calm, TcpAnnounce, TcpGoto, TcpAt, Rows, Rigid, SplittingPcs
    <2>3. CASE TcpForgetConnected(t)
      BY <1>1, <2>3 DEF Calm, TcpForgetConnected, TcpGoto, TcpAt, tcpHistory, Rows, Links, Rigid, SplittingPcs
    <2>4. CASE ForgetSocket(t)
      BY <1>1, <2>4 DEF Calm, ForgetSocket, TcpGoto, TcpAt, TcpCollect, tcpHistory, Rows, Links, Rigid, SplittingPcs
    <2> QED BY <1>2, <2>1, <2>2, <2>3, <2>4 DEF TcpOpenStep, TcpEngages
  <1>3. ASSUME NEW t \in TcpThreads, TcpDropStep(t) PROVE Calm
    <2> USE DEF Calm, TcpGoto, TcpAt, TcpCollect, tcpHistory, Rows, Links, Rigid, SplittingPcs
    <2>1. CASE TcpReadConnected(t) BY <1>1, <2>1 DEF TcpReadConnected
    <2>2. CASE TcpUnpublish(t) BY <1>1, <2>2 DEF TcpUnpublish
    <2>3. CASE TestSocket(t) BY <1>1, <2>3 DEF TestSocket
    <2>4. CASE CloseSocket(t) BY <1>1, <2>4 DEF CloseSocket
    <2>5. CASE CloseNoSocket(t) BY <1>1, <2>5 DEF CloseNoSocket
    <2>6. CASE ClearSocket(t) BY <1>1, <2>6 DEF ClearSocket
    <2>7. CASE TcpTell(t)
      <3>1. TcpAfterDrop(t) \in {"check", "restart", "idle"} BY DEF TcpAfterDrop, TcpThreads
      <3> QED BY <1>1, <2>7, <3>1 DEF TcpTell
    <2> QED BY <1>3, <2>1, <2>2, <2>3, <2>4, <2>5, <2>6, <2>7 DEF TcpDropStep
  <1> USE DEF Calm, TcpGoto, TcpAt, TcpCollect, tcpHistory, Rows, Links, Rigid, SplittingPcs, TcpThreads
  <1>4. ASSUME TcpUser PROVE Calm
    <2>1. CASE TcpUserConnects BY <1>1, <2>1 DEF TcpUserConnects, UsedAs, Clicks
    <2>2. CASE TcpUserDisconnects BY <1>1, <2>2 DEF TcpUserDisconnects, UsedAs, Clicks
    <2>3. CASE TcpReconnect BY <1>1, <2>3 DEF TcpReconnect, UsedAs, Clicks
    <2>4. CASE TcpSend BY <1>1, <2>4 DEF TcpSend, Clicks
    <2> QED BY <1>4, <2>1, <2>2, <2>3, <2>4 DEF TcpUser
  <1>5. ASSUME SetHost \/ TcpConnect \/ TcpStart \/ TcpStartReader \/ TcpStop \/ TcpRestart \/ TcpWrite
        PROVE  Calm
    <2>1. CASE SetHost BY <1>1, <2>1 DEF SetHost
    <2>2. CASE TcpConnect BY <1>1, <2>2 DEF TcpConnect
    <2>3. CASE TcpStart BY <1>1, <2>3 DEF TcpStart
    <2>4. CASE TcpStartReader BY <1>1, <2>4 DEF TcpStartReader
    <2>5. CASE TcpStop BY <1>1, <2>5 DEF TcpStop
    <2>6. CASE TcpRestart BY <1>1, <2>6 DEF TcpRestart
    <2>7. CASE TcpWrite BY <1>1, <2>7 DEF TcpWrite, UsedAs
    <2> QED BY <1>5, <2>1, <2>2, <2>3, <2>4, <2>5, <2>6, <2>7
  <1>6. ASSUME \/ TcpCheckRunning \/ TcpCheckConnected \/ TcpCheckAuto \/ TcpWake \/ TcpRecheck
               \/ RecvTimesOut \/ RecvFails
        PROVE  Calm
    <2>1. CASE TcpCheckRunning BY <1>1, <2>1 DEF TcpCheckRunning
    <2>2. CASE TcpCheckConnected BY <1>1, <2>2 DEF TcpCheckConnected
    <2>3. CASE TcpCheckAuto BY <1>1, <2>3 DEF TcpCheckAuto
    <2>4. CASE TcpWake BY <1>1, <2>4 DEF TcpWake
    <2>5. CASE TcpRecheck BY <1>1, <2>5 DEF TcpRecheck
    <2>6. CASE RecvTimesOut BY <1>1, <2>6 DEF RecvTimesOut, Receives
    <2>7. CASE RecvFails BY <1>1, <2>7 DEF RecvFails, Receives
    <2> QED BY <1>6, <2>1, <2>2, <2>3, <2>4, <2>5, <2>6, <2>7
  <1>7. CASE StopsListening BY <1>1, <1>7 DEF StopsListening, Peers
  <1>8. CASE Listens BY <1>1, <1>8 DEF Listens
  <1> HIDE DEF Calm, TcpGoto, TcpAt, TcpCollect, tcpHistory, Rows, Links, Rigid, SplittingPcs
  <1>9. ASSUME TcpGui PROVE Calm \/ TcpEngages("gui")
    BY <1>2, <1>3, <1>5, <1>9 DEF TcpGui
  <1>10. ASSUME TcpReader PROVE Calm \/ LoadSocket \/ TcpReceives \/ TcpEngages("reader")
    BY <1>2, <1>3, <1>6, <1>10 DEF TcpReader, TcpReceives
  <1> QED BY <1>4, <1>7, <1>8, <1>9, <1>10 DEF TcpNext

(* A device that stops or starts listening keeps the base of the invariant. *)
LEMMA TcpDeviceStep ==
    ASSUME TcpBase, StopsListening \/ Listens
    PROVE  TcpBase'
  <1>1. CASE StopsListening
    <2>1. /\ listening' = FALSE /\ UNCHANGED <<tcp, tcpRun, data, tcpOp, tcpEvents, tcpUse, whole>>
      BY <1>1 DEF StopsListening, tcpHistory
    <2>2. /\ peers' \in [Sockets -> Peers]
          /\ \A s \in Sockets : peers'[s].state = "closed" <=> peers[s].state = "closed"
      BY <1>1 DEF StopsListening, TcpBase, TcpShape, Peers
    <2>3. TcpShape' BY <2>1, <2>2 DEF TcpBase, TcpShape
    <2>4. Held' = Held BY <2>1 DEF Held
    <2>5. TcpHeld' BY <2>1, <2>2, <2>4 DEF TcpBase, TcpHeld, TcpAt
    <2>6. /\ OpenAt(tcp.socket)' <=> OpenAt(tcp.socket)
          /\ \A t \in TcpThreads : OpenAt(tcpRun[t].sock)' <=> OpenAt(tcpRun[t].sock)
      BY <2>1, <2>2 DEF OpenAt, TcpBase, TcpShape, Links, Rows
    <2>7. TcpServed' BY <2>1, <2>6 DEF TcpBase, TcpServed, TcpAt
    <2>8. TcpTruth' BY <2>1 DEF TcpBase, TcpTruth, TcpAt
    <2> QED BY <2>3, <2>5, <2>7, <2>8 DEF TcpBase
  <1>2. CASE Listens
    BY <1>2
    DEF Listens, tcpHistory, TcpBase, TcpShape, TcpHeld, TcpServed, TcpTruth, TcpAt, OpenAt, Held
  <1> QED BY <1>1, <1>2

TcpInv == TcpBase /\ OneOwner /\ TcpLines

(* The invariant holds at the start ...                                     *)
LEMMA TcpInitial == TcpInit => TcpInv
  <1> SUFFICES ASSUME TcpInit PROVE TcpInv
    OBVIOUS
  <1>1. /\ tcp.socket = NoSocket /\ ~tcp.connected /\ tcp.buffer = <<>> /\ ~tcp.running
        /\ peers = [s \in Sockets |-> Closed] /\ data = <<>> /\ tcpUse = "connects" /\ whole = TRUE
        /\ tcpEvents = "DISCONNECTED"
        /\ tcpRun["gui"].pc = "idle" /\ tcpRun["reader"].pc = "none"
        /\ \A t \in TcpThreads : tcpRun[t].sock = NoSocket
    BY DEF TcpInit, TcpThreads
  <1>2. TcpShape
    <2>1. tcp \in Links /\ data \in Seq(Pieces) BY EmptyPieces DEF TcpInit, Links
    <2>2. tcpRun \in [TcpThreads -> Rows] /\ peers \in [Sockets -> Peers]
      BY DEF TcpInit, Rows, Peers, Closed, TcpGuiPcs, TcpReaderPcs, TcpThreads
    <2> QED BY <1>1, <2>1, <2>2 DEF TcpShape, TcpInit, TcpGuiPcs, TcpReaderPcs
  <1>3. TcpHeld BY <1>1 DEF TcpHeld, TcpAt, TcpThreads, Closed
  <1>4. TcpServed
    BY <1>1
    DEF TcpServed, TcpAt, TcpThreads, TcpStarting, TcpRestoring, Dropped, TcpOpening, TcpDropping
  <1>5. TcpTruth
    BY <1>1
    DEF TcpTruth, TcpAt, TcpStarting, TcpRestoring, Dropped, TcpOpening, SplittingPcs
  <1>6. OneOwner
    <2>1. OwnersOf(<<>>) = {} BY DEF OwnersOf
    <2>2. 1 \in Sockets BY DEF Sockets
    <2> QED BY <1>1, <2>1, <2>2 DEF OneOwner, TcpAt
  <1>7. TcpLines BY <1>1 DEF TcpLines, TcpAt, TcpThreads, SplittingPcs
  <1> QED BY <1>2, <1>3, <1>4, <1>5, <1>6, <1>7 DEF TcpInv, TcpBase

(* ... is kept by every step ...                                            *)
LEMMA TcpInductive == TcpInv /\ [TcpNext]_tcpVars => TcpInv'
  <1>1. ASSUME TcpInv, TcpNext PROVE TcpInv'
    <2>1. TcpBase /\ OneOwner /\ TcpLines /\ TcpShape /\ TcpHeld BY <1>1 DEF TcpInv, TcpBase
    <2>2. TcpBase'
      <3>1. CASE TcpReceives BY <2>1, <3>1, TcpSplittingStep DEF TcpReceives
      <3>2. CASE TcpReader /\ ~TcpReceives BY <2>1, <3>2, TcpReaderStep
      <3>3. CASE TcpUser \/ TcpGui BY <2>1, <3>3, TcpUserStep, TcpGuiStep
      <3>4. CASE StopsListening \/ Listens BY <2>1, <3>4, TcpDeviceStep
      <3> QED BY <1>1, <3>1, <3>2, <3>3, <3>4 DEF TcpNext
    <2>3. OneOwner' /\ TcpLines'
      <3>1. CASE Calm BY <2>1, <3>1, CalmOwner, CalmLines
      <3>2. CASE LoadSocket BY <2>1, <3>2, LinesLoaded
      <3>3. CASE TcpReceives
        BY <2>1, <3>3, LinesReceived, LinesAppended, LinesStored, LinesTested, LinesSplit DEF TcpReceives
      <3>4. CASE \E t \in TcpThreads : TcpEngages(t)
        BY <2>1, <3>4, LinesOpened, LinesAssigned, LinesPublished, LinesReset DEF TcpEngages
      <3> QED BY <1>1, <2>1, <3>1, <3>2, <3>3, <3>4, CalmSteps
    <2> QED BY <2>2, <2>3 DEF TcpInv
  <1>2. ASSUME TcpInv, UNCHANGED tcpVars PROVE TcpInv'
    <2> USE <1>2 DEF TcpInv, tcpVars
    <2>1. Held' = Held BY DEF Held
    <2>2. TcpBase'
      BY <2>1 DEF TcpBase, TcpShape, TcpHeld, TcpServed, TcpTruth, TcpAt, OpenAt
    <2>3. OneOwner' BY DEF OneOwner, OwnersOf, TcpAt
    <2>4. Calm BY DEF Calm
    <2>5. TcpLines' BY <2>4, CalmLines DEF TcpBase
    <2> QED BY <2>2, <2>3, <2>5
  <1> QED BY <1>1, <1>2

(* ... and is enough for what the window relies on.                         *)
LEMMA TcpPromises ==
    TcpInv => TcpTypeOK /\ TcpConnectedIsRead /\ TcpStoppedIsClosed /\ TcpEventsAgree /\ LinesAreWhole
  <1> SUFFICES ASSUME TcpInv
               PROVE  TcpTypeOK /\ TcpConnectedIsRead /\ TcpStoppedIsClosed /\ TcpEventsAgree /\ LinesAreWhole
    OBVIOUS
  <1> USE DEF TcpInv, TcpBase
  <1>1. TcpTypeOK
    <2>1. Free # {} BY FreeLeft
    <2>2. /\ tcp.socket \in Sockets \cup {NoSocket} /\ tcp.buffer \in Seq(Pieces)
          /\ tcp.connected \in BOOLEAN /\ tcp.running \in BOOLEAN /\ tcp.autoReconnect \in BOOLEAN
      BY DEF TcpShape, Links
    <2>3. DOMAIN tcpRun = TcpThreads BY DEF TcpShape
    <2>4. \A t \in TcpThreads : tcpRun[t].sock \in Sockets \cup {NoSocket} /\ tcpRun[t].was \in BOOLEAN
      BY DEF TcpShape, Rows
    <2> QED BY <2>1, <2>2, <2>3, <2>4 DEF TcpTypeOK, TcpShape, Peers
  <1>2. TcpConnectedIsRead
    BY DEF TcpConnectedIsRead, TcpServed, TcpAt
  <1>3. TcpStoppedIsClosed
    <2> SUFFICES ASSUME tcpUse # "any", TcpAt("gui", "idle"), TcpAt("reader", "none")
                 PROVE  ~tcp.connected /\ tcp.socket = NoSocket /\ \A s \in Sockets : peers[s].state = "closed"
      BY DEF TcpStoppedIsClosed
    <2>1. ~tcp.connected /\ tcp.socket = NoSocket BY DEF TcpServed, TcpAt
    <2>2. tcpRun["gui"].sock = NoSocket /\ tcpRun["reader"].sock = NoSocket BY DEF TcpHeld, TcpAt
    <2>3. Held = {NoSocket} BY <2>1, <2>2 DEF Held, TcpThreads
    <2>4. \A s \in Sockets : s # NoSocket BY DEF Sockets, NoSocket
    <2> QED BY <2>1, <2>3, <2>4 DEF TcpHeld
  <1>4. TcpEventsAgree
    BY DEF TcpEventsAgree, TcpTruth, TcpAt, TcpOpening, TcpDropping, Dropped
  <1>5. LinesAreWhole BY DEF LinesAreWhole, TcpLines
  <1> QED BY <1>1, <1>2, <1>3, <1>4, <1>5

-----------------------------------------------------------------------------
(* The broker's manager. *)

Connecting == {"setport", "connect", "clear", "client", "loop", "wait"}
Leaving == {"was", "auto", "leave", "join"}
Greeting == {"connected", "auto", "subscribe", "announce", "signal"} \* in on_connect()

(* Callbacks need the network thread, which lives from loop_start() to      *)
(* loop_stop(); a connection that is accepted is subscribed in on_connect(). *)
MqttServed ==
    /\ callAt.pc # "idle" => client.thread
    /\ client.net # "none" => client.thread \/ guiAt.pc = "loop"
    /\ mqtt.connected => client.thread \/ guiAt.pc = "unset"
    /\ client.net = "accepted" => callAt.pc \in {"connected", "auto", "subscribe"} \/ subs = Topics
    /\ guiAt.pc \in {"unset", "tell"} => ~client.thread
    /\ guiAt.pc \in Connecting => wanted
    /\ ~wanted => guiAt.pc \in Leaving \/ ~client.thread

(* If no connection is replaced, `connected`, the connection of the client  *)
(* and the last event agree but for the steps of a callback.                *)
MqttTruth ==
    ~retried =>
        /\ guiAt.pc \in Connecting \ {"wait"} => ~client.thread
        /\ callAt.pc \in Greeting => client.net \in {"accepted", "broken"}
        /\ mqtt.connected => client.net \in {"accepted", "broken"} \/ callAt.pc \in {"was", "unset"}
        /\ callAt.pc \in {"idle", "was", "unset", "signal"} => (mqttEvents = "CONNECTED" <=> mqtt.connected)
        /\ callAt.pc \in Greeting \ {"signal"} => mqttEvents = "DISCONNECTED"
        /\ callAt.pc = "connected" => ~mqtt.connected
        /\ callAt.pc \in Greeting \ {"connected"} => mqtt.connected
        /\ callAt.pc \in {"unset", "tell"} => (callAt.was <=> mqttEvents = "CONNECTED")
        /\ callAt.pc = "tell" => ~mqtt.connected

MqttInv == MqttTypeOK /\ MqttServed /\ MqttTruth

MqttAttributes == [connected : BOOLEAN, autoReconnect : BOOLEAN, signal : BOOLEAN]
MqttClients == [net : Nets, thread : BOOLEAN, leaving : BOOLEAN]
MqttGuis == [pc : MqttGuiPcs, was : BOOLEAN, ends : BOOLEAN]
MqttCalls == [pc : CallPcs, was : BOOLEAN]

(* What an assignment to one attribute makes of a record.                   *)
LEMMA GuiGoes ==
    ASSUME MqttTypeOK, NEW to \in MqttGuiPcs, guiAt' = [guiAt EXCEPT !.pc = to]
    PROVE  guiAt' \in MqttGuis /\ guiAt'.pc = to
  BY DEF MqttTypeOK, MqttGuis

(* The same of the callback ...                                             *)
LEMMA CallGoes ==
    ASSUME MqttTypeOK, NEW to \in CallPcs, callAt' = [callAt EXCEPT !.pc = to]
    PROVE  callAt' \in MqttCalls /\ callAt'.pc = to /\ callAt'.was = callAt.was
  BY DEF MqttTypeOK, MqttCalls

(* ... of the attribute `connected` ...                                     *)
LEMMA ConnectedSet ==
    ASSUME MqttTypeOK, NEW b \in BOOLEAN, mqtt' = [mqtt EXCEPT !.connected = b]
    PROVE  mqtt' \in MqttAttributes /\ mqtt'.connected = b
  BY DEF MqttTypeOK, MqttAttributes

(* ... of the other attributes ...                                          *)
LEMMA OtherSet ==
    ASSUME MqttTypeOK, NEW b \in BOOLEAN,
           mqtt' = [mqtt EXCEPT !.autoReconnect = b] \/ mqtt' = [mqtt EXCEPT !.signal = b]
    PROVE  mqtt' \in MqttAttributes /\ mqtt'.connected = mqtt.connected
  BY DEF MqttTypeOK, MqttAttributes

(* ... and of the client.                                                   *)
LEMMA ThreadSet ==
    ASSUME MqttTypeOK, NEW b \in BOOLEAN, client' = [client EXCEPT !.thread = b]
    PROVE  client' \in MqttClients /\ client'.thread = b /\ client'.net = client.net
  BY DEF MqttTypeOK, MqttClients

(* The calls of the GUI thread keep the invariant.                          *)
LEMMA MqttUserStep == MqttInv /\ (MqttUser \/ Acknowledge) => MqttInv'
  <1> SUFFICES ASSUME MqttInv, MqttUser \/ Acknowledge PROVE MqttInv'
    OBVIOUS
  <1> USE DEF MqttInv, MqttTypeOK, MqttServed, MqttTruth, mqttHistory, Calls, Connecting, Leaving, Greeting,
              MqttGuiPcs
  <1>1. CASE MqttUserConnects BY <1>1 DEF MqttUserConnects
  <1>2. CASE MqttUserDisconnects
    <2>1. guiAt.pc = "idle" /\ wanted' = FALSE /\ wanted' \in BOOLEAN
      BY <1>2 DEF MqttUserDisconnects
    <2>2. guiAt' \in MqttGuis /\ guiAt'.pc = "was"
      BY <1>2 DEF MqttUserDisconnects, MqttGuis
    <2>3. UNCHANGED <<mqtt, client, broker, subs, callAt, command, mqttEvents, retried, heard>>
      BY <1>2 DEF MqttUserDisconnects, mqttHistory
    <2>4. MqttTypeOK' BY <2>1, <2>2, <2>3 DEF MqttGuis, MqttCalls, MqttAttributes, MqttClients
    <2>5. MqttServed' BY <2>1, <2>2, <2>3
    <2>6. MqttTruth' BY <2>1, <2>2, <2>3
    <2> QED BY <2>4, <2>5, <2>6
  <1>3. CASE MqttSend BY <1>3 DEF MqttSend
  <1>4. CASE Acknowledge BY <1>4 DEF Acknowledge
  <1> QED BY <1>1, <1>2, <1>3, <1>4 DEF MqttUser

(* So do the steps of connect() and disconnect().                           *)
LEMMA MqttGuiStep == MqttInv /\ MqttGui => MqttInv'
  <1> SUFFICES ASSUME MqttInv, MqttGui PROVE MqttInv'
    OBVIOUS
  <1> USE DEF MqttInv, MqttTypeOK, MqttServed, MqttTruth, mqttHistory, Calls, Connecting, Leaving, Greeting,
              MqttGuiPcs
  <1>1. CASE MqttSetPort
    <2>1. guiAt.pc = "setport"
      BY <1>1 DEF MqttSetPort
    <2>2. guiAt' \in MqttGuis /\ guiAt'.pc \in {"idle", "connect"}
      /\ (guiAt'.pc = "connect" => ~mqtt.connected)
      BY <1>1, GuiGoes DEF MqttSetPort
    <2>3. mqtt' \in MqttAttributes /\ mqtt'.connected = mqtt.connected
      BY <1>1, OtherSet DEF MqttSetPort, MqttAttributes
    <2>4. UNCHANGED <<client, broker, subs, callAt, command, mqttEvents, wanted, retried, heard>>
      BY <1>1 DEF MqttSetPort, mqttHistory
    <2>5. MqttTypeOK' BY <2>1, <2>2, <2>3, <2>4 DEF MqttGuis, MqttCalls, MqttAttributes, MqttClients
    <2>6. MqttServed' BY <2>1, <2>2, <2>3, <2>4
    <2>7. MqttTruth' BY <2>1, <2>2, <2>3, <2>4
    <2> QED BY <2>5, <2>6, <2>7
  <1>2. CASE MqttConnect BY <1>2 DEF MqttConnect
  <1>3. CASE ClearSignal BY <1>3 DEF ClearSignal
  <1>4. CASE ClientConnect BY <1>4 DEF ClientConnect, Nets, KeptOnLoss
  <1>5. CASE LoopStart
    <2>1. guiAt.pc = "loop"
      BY <1>5 DEF LoopStart, Calls, CallsBack
    <2>2. guiAt' \in MqttGuis /\ guiAt'.pc = "wait"
      BY <1>5, GuiGoes DEF LoopStart
    <2>3. client' \in MqttClients /\ client'.thread = TRUE /\ client'.net = client.net
      BY <1>5, ThreadSet DEF LoopStart
    <2>4. UNCHANGED <<mqtt, broker, subs, callAt, command, mqttEvents, wanted, retried, heard>>
      BY <1>5 DEF LoopStart, mqttHistory
    <2>5. MqttTypeOK' BY <2>1, <2>2, <2>3, <2>4 DEF MqttGuis, MqttCalls, MqttAttributes, MqttClients
    <2>6. MqttServed' BY <2>1, <2>2, <2>3, <2>4
    <2>7. MqttTruth' BY <2>1, <2>2, <2>3, <2>4
    <2> QED BY <2>5, <2>6, <2>7
  <1>6. CASE WaitForConnect BY <1>6 DEF WaitForConnect
  <1>7. CASE MqttReadConnected
    <2>1. guiAt.pc = "was"
      BY <1>7 DEF MqttReadConnected, Calls, CallsBack
    <2>2. guiAt' \in MqttGuis /\ guiAt'.pc = "auto"
      BY <1>7 DEF MqttReadConnected, MqttGuis
    <2>3. UNCHANGED <<mqtt, client, broker, subs, callAt, command, mqttEvents, wanted, retried, heard>>
      BY <1>7 DEF MqttReadConnected, mqttHistory
    <2>4. MqttTypeOK' BY <2>1, <2>2, <2>3 DEF MqttGuis, MqttCalls, MqttAttributes, MqttClients
    <2>5. MqttServed' BY <2>1, <2>2, <2>3
    <2>6. MqttTruth' BY <2>1, <2>2, <2>3
    <2> QED BY <2>4, <2>5, <2>6
  <1>8. CASE ForgetAuto
    <2>1. guiAt.pc = "auto"
      BY <1>8 DEF ForgetAuto, Calls, CallsBack
    <2>2. guiAt' \in MqttGuis /\ guiAt'.pc = "leave"
      BY <1>8, GuiGoes DEF ForgetAuto
    <2>3. mqtt' \in MqttAttributes /\ mqtt'.connected = mqtt.connected
      BY <1>8, OtherSet DEF ForgetAuto
    <2>4. UNCHANGED <<client, broker, subs, callAt, command, mqttEvents, wanted, retried, heard>>
      BY <1>8 DEF ForgetAuto, mqttHistory
    <2>5. MqttTypeOK' BY <2>1, <2>2, <2>3, <2>4 DEF MqttGuis, MqttCalls, MqttAttributes, MqttClients
    <2>6. MqttServed' BY <2>1, <2>2, <2>3, <2>4
    <2>7. MqttTruth' BY <2>1, <2>2, <2>3, <2>4
    <2> QED BY <2>5, <2>6, <2>7
  <1>9. CASE Leave
    <2>1. guiAt.pc = "leave"
      BY <1>9 DEF Leave, Calls, CallsBack
    <2>2. guiAt' \in MqttGuis /\ guiAt'.pc = "join"
      BY <1>9, GuiGoes DEF Leave
    <2>3. client' \in MqttClients /\ client'.thread = client.thread /\ client'.net = client.net
      BY <1>9 DEF Leave, MqttClients
    <2>4. UNCHANGED <<mqtt, broker, subs, callAt, command, mqttEvents, wanted, retried, heard>>
      BY <1>9 DEF Leave, mqttHistory
    <2>5. MqttTypeOK' BY <2>1, <2>2, <2>3, <2>4 DEF MqttGuis, MqttCalls, MqttAttributes, MqttClients
    <2>6. MqttServed' BY <2>1, <2>2, <2>3, <2>4
    <2>7. MqttTruth' BY <2>1, <2>2, <2>3, <2>4
    <2> QED BY <2>5, <2>6, <2>7
  <1>10. CASE LoopStop
    <2>1. guiAt.pc = "join" /\ (client.thread => client.net = "none" /\ callAt.pc = "idle")
      BY <1>10 DEF LoopStop
    <2>2. guiAt' \in MqttGuis /\ guiAt'.pc = "unset"
      BY <1>10, GuiGoes DEF LoopStop
    <2>3. client' \in MqttClients /\ client'.thread = FALSE /\ client'.net = client.net
      BY <1>10, ThreadSet DEF LoopStop
    <2>4. UNCHANGED <<mqtt, broker, subs, callAt, command, mqttEvents, wanted, retried, heard>>
      BY <1>10 DEF LoopStop, mqttHistory
    <2>5. MqttTypeOK' BY <2>1, <2>2, <2>3, <2>4 DEF MqttGuis, MqttCalls, MqttAttributes, MqttClients
    <2>6. MqttServed' BY <2>1, <2>2, <2>3, <2>4
    <2>7. MqttTruth' BY <2>1, <2>2, <2>3, <2>4
    <2> QED BY <2>5, <2>6, <2>7
  <1>11. CASE Unset BY <1>11 DEF Unset
  <1>12. CASE TellGone BY <1>12 DEF TellGone
  <1> QED
    BY <1>1, <1>2, <1>3, <1>4, <1>5, <1>6, <1>7, <1>8, <1>9, <1>10, <1>11, <1>12 DEF MqttGui

(* And those of the callbacks.                                              *)
LEMMA MqttCallStep == MqttInv /\ Callback => MqttInv'
  <1> SUFFICES ASSUME MqttInv, Callback PROVE MqttInv'
    OBVIOUS
  <1> USE DEF MqttInv, MqttTypeOK, MqttServed, MqttTruth, mqttHistory, CallsBack, Connecting, Leaving,
              Greeting, CallPcs
  <1>1. CASE SetConnected
    <2>1. callAt.pc = "connected"
      BY <1>1 DEF SetConnected, Calls, CallsBack
    <2>2. callAt' \in MqttCalls /\ callAt'.pc = "auto"
      BY <1>1, CallGoes DEF SetConnected
    <2>3. mqtt' \in MqttAttributes /\ mqtt'.connected = TRUE
      BY <1>1, ConnectedSet DEF SetConnected
    <2>4. UNCHANGED <<client, broker, subs, guiAt, command, mqttEvents, wanted, retried, heard>>
      BY <1>1 DEF SetConnected, mqttHistory
    <2>5. MqttTypeOK' BY <2>1, <2>2, <2>3, <2>4 DEF MqttGuis, MqttCalls, MqttAttributes, MqttClients
    <2>6. MqttServed' BY <2>1, <2>2, <2>3, <2>4
    <2>7. MqttTruth' BY <2>1, <2>2, <2>3, <2>4
    <2> QED BY <2>5, <2>6, <2>7
  <1>2. CASE SetAuto
    <2>1. callAt.pc = "auto"
      BY <1>2 DEF SetAuto, Calls, CallsBack
    <2>2. callAt' \in MqttCalls /\ callAt'.pc = "subscribe"
      BY <1>2, CallGoes DEF SetAuto
    <2>3. mqtt' \in MqttAttributes /\ mqtt'.connected = mqtt.connected
      BY <1>2, OtherSet DEF SetAuto
    <2>4. UNCHANGED <<client, broker, subs, guiAt, command, mqttEvents, wanted, retried, heard>>
      BY <1>2 DEF SetAuto, mqttHistory
    <2>5. MqttTypeOK' BY <2>1, <2>2, <2>3, <2>4 DEF MqttGuis, MqttCalls, MqttAttributes, MqttClients
    <2>6. MqttServed' BY <2>1, <2>2, <2>3, <2>4
    <2>7. MqttTruth' BY <2>1, <2>2, <2>3, <2>4
    <2> QED BY <2>5, <2>6, <2>7
  <1>3. CASE Subscribe BY <1>3 DEF Subscribe
  <1>4. CASE AnnounceBroker BY <1>4 DEF AnnounceBroker
  <1>5. CASE Signal
    <2>1. callAt.pc = "signal"
      BY <1>5 DEF Signal, Calls, CallsBack
    <2>2. callAt' \in MqttCalls /\ callAt'.pc = "idle"
      BY <1>5, CallGoes DEF Signal
    <2>3. mqtt' \in MqttAttributes /\ mqtt'.connected = mqtt.connected
      BY <1>5, OtherSet DEF Signal
    <2>4. UNCHANGED <<client, broker, subs, guiAt, command, mqttEvents, wanted, retried, heard>>
      BY <1>5 DEF Signal, mqttHistory
    <2>5. MqttTypeOK' BY <2>1, <2>2, <2>3, <2>4 DEF MqttGuis, MqttCalls, MqttAttributes, MqttClients
    <2>6. MqttServed' BY <2>1, <2>2, <2>3, <2>4
    <2>7. MqttTruth' BY <2>1, <2>2, <2>3, <2>4
    <2> QED BY <2>5, <2>6, <2>7
  <1>6. CASE ReadWas BY <1>6 DEF ReadWas
  <1>7. CASE UnsetConnected
    <2>1. callAt.pc = "unset"
      BY <1>7 DEF UnsetConnected, Calls, CallsBack
    <2>2. callAt' \in MqttCalls /\ callAt'.pc = "tell" /\ callAt'.was = callAt.was
      BY <1>7, CallGoes DEF UnsetConnected
    <2>3. mqtt' \in MqttAttributes /\ mqtt'.connected = FALSE
      BY <1>7, ConnectedSet DEF UnsetConnected
    <2>4. UNCHANGED <<client, broker, subs, guiAt, command, mqttEvents, wanted, retried, heard>>
      BY <1>7 DEF UnsetConnected, mqttHistory
    <2>5. MqttTypeOK' BY <2>1, <2>2, <2>3, <2>4 DEF MqttGuis, MqttCalls, MqttAttributes, MqttClients
    <2>6. MqttServed' BY <2>1, <2>2, <2>3, <2>4
    <2>7. MqttTruth' BY <2>1, <2>2, <2>3, <2>4
    <2> QED BY <2>5, <2>6, <2>7
  <1>8. CASE TellLost BY <1>8 DEF TellLost
  <1> QED BY <1>1, <1>2, <1>3, <1>4, <1>5, <1>6, <1>7, <1>8 DEF Callback

(* And what the client's thread and the broker do.                          *)
LEMMA MqttNetworkStep == MqttInv /\ (Network \/ OnMessage \/ BrokerChanges) => MqttInv'
  <1> SUFFICES ASSUME MqttInv, Network \/ OnMessage \/ BrokerChanges PROVE MqttInv'
    OBVIOUS
  <1> USE DEF MqttInv, MqttTypeOK, MqttServed, MqttTruth, mqttHistory, Connecting, Leaving, Greeting, CallPcs,
              Nets, Listening
  <1>1. CASE Accepted BY <1>1 DEF Accepted, SentOnConnect
  <1>2. CASE Refused BY <1>2 DEF Refused
  <1>3. CASE Ends BY <1>3 DEF Ends, KeptOnLoss
  <1>4. CASE Retry BY <1>4 DEF Retry
  <1>5. CASE OnMessage BY <1>5 DEF OnMessage
  <1>6. CASE BrokerChanges BY <1>6 DEF BrokerChanges
  <1> QED BY <1>1, <1>2, <1>3, <1>4, <1>5, <1>6 DEF Network

(* Every step keeps the invariant.                                          *)
LEMMA MqttInductive == MqttInv /\ [MqttNext]_mqttVars => MqttInv'
  <1>1. MqttInv /\ MqttNext => MqttInv'
    BY MqttUserStep, MqttGuiStep, MqttCallStep, MqttNetworkStep DEF MqttNext
  <1>2. MqttInv /\ UNCHANGED mqttVars => MqttInv'
    BY DEF mqttVars, mqttHistory, MqttInv, MqttTypeOK, MqttServed, MqttTruth
  <1> QED BY <1>1, <1>2

(* It holds at the start ...                                                *)
LEMMA MqttInitial == MqttInit => MqttInv
  <1> SUFFICES ASSUME MqttInit PROVE MqttInv
    OBVIOUS
  <1>1. /\ mqtt \in MqttAttributes /\ ~mqtt.connected
        /\ client \in MqttClients /\ client.net = "none" /\ ~client.thread
        /\ guiAt \in MqttGuis /\ guiAt.pc = "idle"
        /\ callAt \in MqttCalls /\ callAt.pc = "idle"
    BY DEF MqttInit, MqttAttributes, MqttClients, MqttGuis, MqttCalls, Nets, MqttGuiPcs, CallPcs
  <1>2. /\ broker \in {"down", "refuses", "up"} /\ subs = {} /\ command = "none"
        /\ mqttEvents = "DISCONNECTED" /\ wanted \in BOOLEAN /\ retried \in BOOLEAN /\ heard \in BOOLEAN
    BY DEF MqttInit
  <1>3. MqttTypeOK BY <1>1, <1>2 DEF MqttTypeOK, MqttAttributes, MqttClients, MqttGuis, MqttCalls
  <1>4. MqttServed BY <1>1, <1>2 DEF MqttServed, Connecting, Leaving
  <1>5. MqttTruth BY <1>1, <1>2 DEF MqttTruth, Connecting, Greeting
  <1> QED BY <1>3, <1>4, <1>5 DEF MqttInv

(* ... and is enough.                                                       *)
LEMMA MqttPromises ==
    MqttInv => MqttTypeOK /\ MqttConnectedIsRead /\ MqttStoppedIsClosed /\ MqttEventsAgree
  BY DEF MqttInv, MqttTypeOK, MqttServed, MqttTruth, MqttConnectedIsRead, MqttStoppedIsClosed,
         MqttEventsAgree, MqttGuiAtRest, Listening, Connecting, Leaving, Greeting

-----------------------------------------------------------------------------
(* The simulator. *)

Assembling == {"add", "store", "measure", "report", "put"} \* in _build_packet()

(* A loop lives while `running` asks for one, and only one if the user      *)
(* waits for the end of the last.                                           *)
DemoServed ==
    /\ demo.connected <=> demo.running
    /\ demo.running => Alive # {}
    /\ ~hasty => \A l, m \in Alive : l = m

Follows(number) == number = (stream.last + 1) % Numbers

(* Between two packets the counter is the number of the last, and the next  *)
(* is built with the number that follows, unless RESET interferes.          *)
DemoNumbered ==
    ~hasty /\ ~stream.reset =>
        /\ (\A l \in LoopIds : loops[l].pc \notin {"measure", "report", "put"}) => demo.sequence = stream.last
        /\ \A l \in LoopIds :
              /\ loops[l].pc = "store" => Follows(loops[l].number)
              /\ loops[l].pc \in {"measure", "report", "put"} => Follows(demo.sequence)
              /\ loops[l].pc \in {"report", "put"} => Follows(loops[l].number)

(* After a packet that did not fit, and no command since, the next fits.    *)
DemoPrompt ==
    ~hasty =>
        /\ stream.late <= 1
        /\ stream.late = 1 /\ ~clearing => \A l \in LoopIds :
              /\ loops[l].pc \in Assembling => ~demo.paused
              /\ loops[l].pc \in {"report", "put"} => loops[l].measured = demo.faults
              /\ loops[l].pc = "put" => loops[l].reported = demo.faults

(* The time since the last packet and the time to the next fit an interval. *)
DemoPaced ==
    ~hasty /\ demo.connected /\ ~demo.paused => \A l \in Alive : stream.quiet + loops[l].wait <= Longest

DemoInv == DemoTypeOK /\ DemoServed /\ DemoNumbered /\ DemoPrompt /\ DemoPaced

DemoAttributes ==
    [connected : BOOLEAN, running : BOOLEAN, paused : BOOLEAN, rate : DemoRates,
     sequence : 0 .. Numbers - 1, faults : SUBSET Targets]
DemoLoops ==
    [pc : LoopPcs, wait : 0 .. Longest, number : 0 .. Numbers - 1,
     measured : SUBSET Targets, reported : SUBSET Targets]
DemoStreams == [last : 0 .. Numbers - 1, reset : BOOLEAN, late : 0 .. 2, quiet : 0 .. Longest + 1]

(* The bounded set of rates has a longest.                                  *)
LEMMA LongestRate == Longest \in Nat \ {0} /\ \A q \in DemoRates : q \in 0 .. Longest
  <1>1. \E r \in DemoRates : \A q \in DemoRates : q <= r BY DemoRatesAssumption
  <1>2. Longest \in DemoRates /\ \A q \in DemoRates : q <= Longest BY <1>1 DEF Longest
  <1> QED BY <1>2, DemoRatesAssumption

(* The invariant holds at the start.                                        *)
LEMMA DemoInitial == DemoInit => DemoInv
  <1> SUFFICES ASSUME DemoInit PROVE DemoInv
    OBVIOUS
  <1>1. demo \in DemoAttributes BY DemoRatesAssumption DEF DemoInit, DemoAttributes, Numbers
  <1>2. loops \in [LoopIds -> DemoLoops] /\ \A l \in LoopIds : loops[l].pc = "none"
    BY LongestRate DEF DemoInit, DemoLoops, Ended, LoopPcs, Numbers
  <1>3. stream \in DemoStreams /\ stream.last = 0 /\ stream.late = 0
    BY LongestRate DEF DemoInit, DemoStreams, NoStream, Numbers
  <1>4. DemoTypeOK BY <1>1, <1>2, <1>3 DEF DemoTypeOK, DemoInit, DemoAttributes, DemoLoops, DemoStreams
  <1>5. Alive = {} BY <1>2 DEF Alive
  <1>6. DemoServed BY <1>5 DEF DemoServed, DemoInit
  <1>7. DemoNumbered BY <1>2, <1>3 DEF DemoNumbered, DemoInit
  <1>8. DemoPrompt BY <1>3 DEF DemoPrompt, DemoInit
  <1>9. DemoPaced BY DEF DemoPaced, DemoInit
  <1> QED BY <1>4, <1>6, <1>7, <1>8, <1>9 DEF DemoInv

(* What a step of a loop makes of its record.                               *)
LEMMA LoopGoes ==
    ASSUME DemoTypeOK, NEW l \in LoopIds, NEW to \in LoopPcs, loops' = [loops EXCEPT ![l].pc = to]
    PROVE  /\ loops' \in [LoopIds -> DemoLoops] /\ loops'[l].pc = to
           /\ loops'[l].number = loops[l].number /\ loops'[l].wait = loops[l].wait
           /\ loops'[l].measured = loops[l].measured /\ loops'[l].reported = loops[l].reported
           /\ \A m \in LoopIds \ {l} : loops'[m] = loops[m]
  BY DEF DemoTypeOK, DemoLoops

(* What an assignment to one attribute of the manager makes of it.          *)
LEMMA SequenceSet ==
    ASSUME DemoTypeOK, NEW n \in 0 .. Numbers - 1, demo' = [demo EXCEPT !.sequence = n]
    PROVE  demo' \in DemoAttributes /\ demo'.sequence = n /\ demo'.connected = demo.connected
           /\ demo'.running = demo.running /\ demo'.paused = demo.paused /\ demo'.faults = demo.faults
  BY DEF DemoTypeOK, DemoAttributes

(* The same of `paused` ...                                                 *)
LEMMA PausedSet ==
    ASSUME DemoTypeOK, NEW b \in BOOLEAN, demo' = [demo EXCEPT !.paused = b]
    PROVE  demo' \in DemoAttributes /\ demo'.paused = b /\ demo'.connected = demo.connected
           /\ demo'.running = demo.running /\ demo'.sequence = demo.sequence /\ demo'.faults = demo.faults
  BY DEF DemoTypeOK, DemoAttributes

(* The history is kept as long as one loop runs.                            *)
LEMMA Told ==
    ASSUME NEW s \in DemoStreams, Tells(s)
    PROVE  stream' \in DemoStreams /\ (~hasty' => stream' = s)
  BY LongestRate DEF Tells, NoStream, DemoStreams, Numbers

(* ... and of what a packet does to the stream.                             *)
LEMMA StreamSet ==
    ASSUME DemoTypeOK
    PROVE  /\ [stream EXCEPT !.quiet = 0] \in DemoStreams
           /\ [stream EXCEPT !.late = 0] \in DemoStreams
           /\ [[stream EXCEPT !.quiet = 0] EXCEPT !.late = 0] \in DemoStreams
           /\ [[stream EXCEPT !.reset = TRUE] EXCEPT !.late = 0] \in DemoStreams
  <1>1. stream \in DemoStreams /\ 0 \in 0 .. Longest + 1 /\ 0 \in 0 .. 2
    BY LongestRate DEF DemoTypeOK, DemoStreams
  <1>2. [stream EXCEPT !.quiet = 0] \in DemoStreams BY <1>1 DEF DemoStreams
  <1>3. [stream EXCEPT !.late = 0] \in DemoStreams BY <1>1 DEF DemoStreams
  <1>4. [stream EXCEPT !.reset = TRUE] \in DemoStreams BY <1>1 DEF DemoStreams
  <1>5. \A s \in DemoStreams : [s EXCEPT !.late = 0] \in DemoStreams BY <1>1 DEF DemoStreams
  <1> QED BY <1>2, <1>3, <1>4, <1>5

(* A loop that is at work is the only one.                                  *)
LEMMA Alone ==
    ASSUME DemoServed, ~hasty, NEW l \in LoopIds, loops[l].pc # "none"
    PROVE  \A m \in LoopIds \ {l} : loops[m].pc = "none"
  BY DEF DemoServed, Alive

(* A step of the user, or a fault that clears, keeps the invariant.         *)
LEMMA DemoUserStep == DemoInv /\ (DemoUser \/ ClearBme) => DemoInv'
  <1> SUFFICES ASSUME DemoInv, DemoUser \/ ClearBme PROVE DemoInv'
    OBVIOUS
  <1> USE LongestRate DEF DemoInv, DemoTypeOK, DemoServed, DemoNumbered, DemoPrompt, DemoPaced, Alive, Obeys, Since,
       Tells, NoStream, Follows, Numbers, Targets
  <1>1. CASE DemoConnect
    <2>1. PICK l \in LoopIds \ Alive : loops' = [loops EXCEPT ![l].pc = "running"]
      BY <1>1 DEF DemoConnect
    <2>2. /\ loops' \in [LoopIds -> DemoLoops] /\ loops'[l].pc = "running" /\ loops[l].pc = "none"
          /\ \A m \in LoopIds \ {l} : loops'[m] = loops[m]
      BY <2>1, LoopGoes DEF LoopPcs
    <2>3. /\ demo' \in DemoAttributes /\ demo'.connected = TRUE /\ demo'.running = TRUE
          /\ demo'.sequence = demo.sequence /\ demo'.paused = demo.paused /\ demo'.faults = demo.faults
      BY <1>1 DEF DemoConnect, DemoAttributes
    <2>4. hasty' \in BOOLEAN /\ (~hasty' => ~hasty /\ Alive = {}) /\ UNCHANGED clearing
      BY <1>1 DEF DemoConnect
    <2>5. /\ stream' \in DemoStreams
          /\ ~hasty' => /\ stream'.last = stream.last /\ stream'.reset = stream.reset
                        /\ stream'.late = stream.late /\ stream'.quiet = 0
      BY <1>1, Told, StreamSet DEF DemoConnect, DemoStreams
    <2>6. DemoTypeOK' BY <2>2, <2>3, <2>4, <2>5 DEF DemoLoops, DemoAttributes, DemoStreams
    <2>7. l \in Alive' BY <2>2
    <2>8. ~hasty' => \A m \in LoopIds \ {l} : loops[m].pc = "none" /\ loops'[m].pc = "none" BY <2>2, <2>4
    <2>9. DemoServed' BY <2>3, <2>4, <2>7, <2>8
    <2>10. DemoNumbered' BY <2>2, <2>3, <2>4, <2>5, <2>8
    <2>11. DemoPrompt' BY <2>2, <2>3, <2>4, <2>5, <2>8 DEF Assembling
    <2>12. DemoPaced' BY <2>2, <2>3, <2>5, <2>6, <2>8
    <2> QED BY <2>6, <2>9, <2>10, <2>11, <2>12
  <1>2. CASE DemoDisconnect BY <1>2 DEF DemoDisconnect
  <1>3. CASE DemoPause
    <2>1. /\ demo' \in DemoAttributes /\ demo'.paused = TRUE /\ demo'.connected = demo.connected
          /\ demo'.running = demo.running /\ demo'.sequence = demo.sequence
      BY <1>3, PausedSet DEF DemoPause
    <2>2. stream' \in DemoStreams /\ stream'.last = stream.last /\ stream'.reset = stream.reset /\ stream'.late = 0
      BY <1>3 DEF DemoPause, DemoStreams
    <2>3. ~hasty /\ UNCHANGED <<loops, hasty, clearing>> BY <1>3 DEF DemoPause
    <2>4. DemoTypeOK' BY <2>1, <2>2, <2>3 DEF DemoAttributes, DemoStreams
    <2> QED BY <2>1, <2>2, <2>3, <2>4
  <1>4. CASE DemoResume
    <2>1. /\ demo' \in DemoAttributes /\ demo'.connected = demo.connected
          /\ demo'.running = demo.running /\ demo'.sequence = demo.sequence
      BY <1>4, PausedSet DEF DemoResume
    <2>2. stream' \in DemoStreams /\ stream'.last = stream.last /\ stream'.reset = stream.reset /\ stream'.late = 0
          /\ stream'.quiet = 0
      BY <1>4, Told, StreamSet DEF DemoResume, DemoStreams
    <2>3. ~hasty /\ UNCHANGED <<loops, hasty, clearing>> BY <1>4 DEF DemoResume
    <2>4. DemoTypeOK' BY <2>1, <2>2, <2>3 DEF DemoAttributes, DemoStreams
    <2>5. DemoPaced' BY <2>2, <2>3
    <2> QED BY <2>1, <2>2, <2>3, <2>4, <2>5
  <1>5. CASE DemoSetRate BY <1>5 DEF DemoSetRate
  <1>6. CASE DemoInject BY <1>6 DEF DemoInject
  <1>7. CASE DemoClear BY <1>7 DEF DemoClear
  <1>8. CASE DemoReset
    <2>1. /\ demo' \in DemoAttributes /\ demo'.connected = demo.connected
          /\ demo'.running = demo.running /\ demo'.paused = demo.paused
      BY <1>8, SequenceSet, 0 \in 0 .. Numbers - 1 DEF DemoReset
    <2>2. stream' \in DemoStreams /\ stream'.reset = TRUE /\ stream'.late = 0 /\ stream'.quiet = stream.quiet
      BY <1>8, Told, StreamSet DEF DemoReset, DemoStreams
    <2>3. ~hasty /\ UNCHANGED <<loops, hasty, clearing>> BY <1>8 DEF DemoReset
    <2>4. DemoTypeOK' BY <2>1, <2>2, <2>3 DEF DemoAttributes, DemoStreams
    <2> QED BY <2>1, <2>2, <2>3, <2>4
  <1>9. CASE ClearBme
    <2>1. /\ demo' \in DemoAttributes /\ demo'.connected = demo.connected /\ demo'.paused = demo.paused
          /\ demo'.running = demo.running /\ demo'.sequence = demo.sequence
      BY <1>9 DEF ClearBme, DemoAttributes
    <2>2. stream' \in DemoStreams
          /\ (~hasty => /\ stream'.last = stream.last /\ stream'.reset = stream.reset
                        /\ stream'.late = 0 /\ stream'.quiet = stream.quiet)
      BY <1>9, Told, StreamSet DEF ClearBme, DemoStreams
    <2>3. clearing' = FALSE /\ clearing' \in BOOLEAN /\ UNCHANGED <<loops, hasty>> BY <1>9 DEF ClearBme
    <2>4. DemoTypeOK' BY <2>1, <2>2, <2>3 DEF DemoAttributes, DemoStreams
    <2> QED BY <2>1, <2>2, <2>3, <2>4
  <1> QED BY <1>1, <1>2, <1>3, <1>4, <1>5, <1>6, <1>7, <1>8, <1>9 DEF DemoUser

(* Three ways in which a loop goes on without a change of what it shares:   *)
(* to a step at which nothing is promised of it, ...                        *)
LEMMA LoopIdles ==
    ASSUME DemoInv, NEW l \in LoopIds, UNCHANGED <<demo, clearing, stream, hasty>>,
           loops[l].pc \notin Assembling \cup {"none"},
           loops' \in [LoopIds -> DemoLoops], \A m \in LoopIds \ {l} : loops'[m] = loops[m],
           loops'[l].wait = loops[l].wait,
           \/ loops'[l].pc \in {"running", "due", "sleep"}
           \/ loops'[l].pc = "add" /\ ~demo.paused
    PROVE  DemoInv'
  <1> USE DEF Assembling
  <1>1. DemoTypeOK' BY DEF DemoInv, DemoTypeOK, DemoLoops
  <1>2. Alive' = Alive BY DEF Alive
  <1>3. DemoServed' BY <1>2 DEF DemoInv, DemoServed
  <1>4. ~hasty => \A m \in LoopIds \ {l} : loops[m].pc = "none" BY Alone DEF DemoInv
  <1>5. DemoNumbered' BY <1>4 DEF DemoInv, DemoNumbered, Follows
  <1>6. DemoPrompt' BY <1>4 DEF DemoInv, DemoPrompt
  <1>7. \A m \in LoopIds : loops'[m].wait = loops[m].wait
    OBVIOUS
  <1>8. DemoPaced' BY <1>2, <1>7 DEF DemoInv, DemoPaced, Alive
  <1> QED BY <1>1, <1>3, <1>5, <1>6, <1>8 DEF DemoInv

(* A step of a loop keeps the invariant.                                    *)
LEMMA DemoLoopStep == \A l \in LoopIds : DemoInv /\ DemoLoop(l) => DemoInv'
  <1> SUFFICES ASSUME DemoInv, NEW l \in LoopIds, DemoLoop(l) PROVE DemoInv'
    OBVIOUS
  <1> USE DEF Numbers
  <1>0. DemoTypeOK BY DEF DemoInv
  <1>1. CASE LoopRuns(l)
    <2>1. loops[l].pc = "running" /\ UNCHANGED <<demo, clearing, stream, hasty>> BY <1>1 DEF LoopRuns
    <2>2. CASE demo.running
      <3>1. loops' = [loops EXCEPT ![l].pc = "due"] BY <1>0, <1>1, <2>2 DEF LoopRuns, DemoTypeOK
      <3> QED BY <1>0, <2>1, <3>1, LoopGoes, LoopIdles DEF LoopPcs, Assembling
    <2>3. CASE ~demo.running
      <3>1. loops' = [loops EXCEPT ![l] = Ended] BY <1>1, <2>3 DEF LoopRuns
      <3>2. /\ loops'[l] = Ended /\ Ended \in DemoLoops /\ Ended.pc = "none"
            /\ \A m \in LoopIds \ {l} : loops'[m] = loops[m]
            /\ loops' \in [LoopIds -> DemoLoops]
        BY <1>0, <3>1, LongestRate DEF Ended, DemoLoops, DemoTypeOK, LoopPcs
      <3>3. DemoTypeOK' BY <1>0, <2>1, <3>2 DEF DemoTypeOK, DemoLoops
      <3>4. Alive' \subseteq Alive BY <3>2 DEF Alive
      <3>5. DemoServed' BY <2>1, <2>3, <3>4 DEF DemoInv, DemoServed
      <3>6. ~hasty => \A m \in LoopIds \ {l} : loops[m].pc = "none" BY <2>1, Alone DEF DemoInv
      <3>7. DemoNumbered' BY <2>1, <3>2, <3>6 DEF DemoInv, DemoNumbered, Follows
      <3>8. DemoPrompt' BY <2>1, <3>2, <3>6 DEF DemoInv, DemoPrompt, Assembling
      <3>9. DemoPaced' BY <2>1, <2>3 DEF DemoInv, DemoPaced, DemoServed
      <3> QED BY <3>3, <3>5, <3>7, <3>8, <3>9 DEF DemoInv
    <2> QED BY <2>2, <2>3
  <1>2. CASE LoopDue(l)
    <2>1. loops[l].pc = "due" /\ UNCHANGED <<demo, clearing, stream, hasty>> BY <1>2 DEF LoopDue, Goes
    <2>2. PICK to \in {"add", "sleep"} : loops' = [loops EXCEPT ![l].pc = to] /\ (to = "add" => ~demo.paused)
      BY <1>2 DEF LoopDue, Goes
    <2> QED BY <1>0, <2>1, <2>2, LoopGoes, LoopIdles DEF LoopPcs, Assembling
  <1>8. CASE LoopWakes(l)
    <2>1. loops[l].pc = "sleep" /\ UNCHANGED <<demo, clearing, stream, hasty>> BY <1>8 DEF LoopWakes, Goes
    <2>2. loops' = [loops EXCEPT ![l].pc = "running"] BY <1>8 DEF LoopWakes, Goes
    <2> QED BY <1>0, <2>1, <2>2, LoopGoes, LoopIdles DEF LoopPcs, Assembling
  <1>9. CASE ReadSequence(l) \/ StoreSequence(l) \/ Measure(l) \/ ReportHealth(l)
    <2>1. UNCHANGED <<clearing, stream, hasty>>
      BY <1>9 DEF ReadSequence, StoreSequence, Measure, ReportHealth
    <2>2. /\ loops' \in [LoopIds -> DemoLoops] /\ \A m \in LoopIds \ {l} : loops'[m] = loops[m]
          /\ loops[l].pc \in {"add", "store", "measure", "report"}
          /\ loops[l].pc = "add" => loops'[l].pc = "store" /\ loops'[l].number = (demo.sequence + 1) % Numbers
          /\ loops[l].pc = "store" => loops'[l].pc = "measure"
          /\ loops[l].pc = "measure" =>
                 loops'[l].pc = "report" /\ loops'[l].number = demo.sequence /\ loops'[l].measured = demo.faults
          /\ loops[l].pc = "report" =>
                 /\ loops'[l].pc = "put" /\ loops'[l].reported = demo.faults
                 /\ loops'[l].number = loops[l].number /\ loops'[l].measured = loops[l].measured
          /\ loops'[l].wait = loops[l].wait
      BY <1>0, <1>9 DEF ReadSequence, StoreSequence, Measure, ReportHealth, Goes, DemoTypeOK, DemoLoops, LoopPcs
    <2>3. /\ demo' \in DemoAttributes /\ demo'.connected = demo.connected /\ demo'.running = demo.running
          /\ demo'.paused = demo.paused /\ demo'.faults = demo.faults
          /\ demo'.sequence = IF loops[l].pc = "store" THEN loops[l].number ELSE demo.sequence
      BY <1>0, <1>9 DEF ReadSequence, StoreSequence, Measure, ReportHealth, Goes, DemoTypeOK, DemoAttributes
    <2>4. DemoTypeOK' BY <1>0, <2>1, <2>2, <2>3 DEF DemoTypeOK, DemoLoops, DemoAttributes
    <2>5. Alive' = Alive BY <2>2 DEF Alive
    <2>6. DemoServed' BY <2>1, <2>3, <2>5 DEF DemoInv, DemoServed
    <2>7. ~hasty => \A m \in LoopIds \ {l} : loops[m].pc = "none" BY <2>2, Alone DEF DemoInv
    <2>8. DemoNumbered' BY <2>1, <2>2, <2>3, <2>7 DEF DemoInv, DemoNumbered, Follows
    <2>9. DemoPrompt' BY <2>1, <2>2, <2>3, <2>7 DEF DemoInv, DemoPrompt, Assembling
    <2>10. \A m \in LoopIds : loops'[m].wait = loops[m].wait BY <2>2
    <2>11. DemoPaced' BY <2>1, <2>3, <2>5, <2>10 DEF DemoInv, DemoPaced, Alive
    <2> QED BY <2>4, <2>6, <2>8, <2>9, <2>11 DEF DemoInv
  <1>10. CASE PutPacket(l)
    <2>1. UNCHANGED <<demo, clearing, hasty>> /\ loops[l].pc = "put" BY <1>10 DEF PutPacket
    <2>2. /\ loops' \in [LoopIds -> DemoLoops] /\ \A m \in LoopIds \ {l} : loops'[m] = loops[m]
          /\ loops'[l].pc = "sleep" /\ loops'[l].wait = demo.rate
      <3> DEFINE asleep == [Ended EXCEPT !.pc = "sleep", !.wait = demo.rate]
      <3>1. Ended \in DemoLoops /\ demo.rate \in 0 .. Longest
        BY <1>0, LongestRate DEF Ended, DemoTypeOK, DemoLoops, LoopPcs
      <3>2. asleep \in DemoLoops /\ asleep.pc = "sleep" /\ asleep.wait = demo.rate
        BY <3>1 DEF DemoLoops, LoopPcs
      <3>3. loops' = [loops EXCEPT ![l] = asleep] BY <1>10 DEF PutPacket
      <3> HIDE DEF asleep
      <3> QED BY <1>0, <3>2, <3>3 DEF DemoTypeOK, DemoLoops
    <2> DEFINE after == [last |-> loops[l].number, quiet |-> 0,
                         reset |-> stream.reset /\ loops[l].number # demo.sequence,
                         late |-> IF Fits(l) \/ clearing \/ stream.late = 2 THEN stream.late ELSE stream.late + 1]
    <2>3. after \in DemoStreams
      BY <1>0, LongestRate DEF DemoTypeOK, DemoStreams, DemoLoops
    <2>4. Tells(after) BY <1>10 DEF PutPacket
    <2>5. stream' \in DemoStreams /\ (~hasty' => stream' = after)
      BY <2>3, <2>4, Told
    <2>6. ~hasty => /\ stream'.last = loops[l].number /\ stream'.quiet = 0
                    /\ stream'.late = IF Fits(l) \/ clearing \/ stream.late = 2 THEN stream.late ELSE stream.late + 1
      BY <2>1, <2>5
    <2>61. ~hasty => (stream'.reset <=> (stream.reset /\ loops[l].number # demo.sequence))
      <3>1. after.reset = (stream.reset /\ loops[l].number # demo.sequence)
        OBVIOUS
      <3> QED BY <2>1, <2>5, <3>1, Zenon
    <2> HIDE DEF after
    <2>7. DemoTypeOK' BY <1>0, <2>1, <2>2, <2>5 DEF DemoTypeOK, DemoLoops, DemoStreams
    <2>8. Alive' = Alive BY <2>1, <2>2 DEF Alive
    <2>9. DemoServed' BY <2>1, <2>8 DEF DemoInv, DemoServed
    <2>10. ~hasty => \A m \in LoopIds \ {l} : loops[m].pc = "none" BY <2>1, Alone DEF DemoInv
    <2>11. DemoNumbered' BY <2>1, <2>2, <2>6, <2>61, <2>10 DEF DemoInv, DemoNumbered, Follows
    <2>12. DemoPrompt' BY <2>1, <2>2, <2>6, <2>10, <1>0 DEF DemoInv, DemoPrompt, Assembling, Fits, DemoTypeOK
    <2>13. DemoPaced' BY <2>1, <2>2, <2>6, <2>8, <2>10, <1>0, LongestRate DEF DemoInv, DemoPaced, Alive, DemoTypeOK
    <2> QED BY <2>7, <2>9, <2>11, <2>12, <2>13 DEF DemoInv
  <1> QED BY <1>1, <1>2, <1>8, <1>9, <1>10 DEF DemoLoop

(* Time passes only when every loop sleeps.                                 *)
LEMMA DemoTicks == DemoInv /\ DemoTick => DemoInv'
  BY LongestRate DEF DemoInv, DemoTypeOK, DemoServed, DemoNumbered, DemoPrompt, DemoPaced, Alive,
       Goes, Follows, Numbers, Targets, LoopPcs, Assembling, DemoTick, Tells, NoStream

(* Every step keeps the invariant.                                          *)
LEMMA DemoInductive == DemoInv /\ [DemoNext]_demoVars => DemoInv'
  <1>1. DemoInv /\ DemoNext => DemoInv'
    BY DemoUserStep, DemoLoopStep, DemoTicks DEF DemoNext
  <1>2. DemoInv /\ UNCHANGED demoVars => DemoInv'
    BY DEF demoVars, DemoInv, DemoTypeOK, DemoServed, DemoNumbered, DemoPrompt, DemoPaced, Alive, Follows
  <1> QED BY <1>1, <1>2

(* It is enough for what the window relies on ...                           *)
LEMMA DemoPromises ==
    DemoInv => DemoTypeOK /\ (demo.connected => demo.running /\ Alive # {}) /\ DemoObeys /\ DemoFlows
  <1> SUFFICES ASSUME DemoInv PROVE DemoObeys /\ DemoFlows
    BY DEF DemoInv, DemoServed
  <1>1. DemoObeys BY DEF DemoInv, DemoPrompt, DemoObeys
  <1>2. ASSUME demo.connected, ~demo.paused, ~hasty PROVE stream.quiet <= Longest
    <2>1. PICK l \in LoopIds : l \in Alive BY <1>2 DEF DemoInv, DemoServed, Alive
    <2>2. stream.quiet + loops[l].wait <= Longest BY <1>2, <2>1 DEF DemoInv, DemoPaced
    <2>3. loops[l].wait \in Nat /\ stream.quiet \in Nat BY <2>1, LongestRate DEF DemoInv, DemoTypeOK
    <2> QED BY <2>2, <2>3, LongestRate
  <1> QED BY <1>1, <1>2 DEF DemoFlows

(* ... and for the packet numbers.                                          *)
LEMMA DemoCounts == DemoInv => DemoCountsOnStep
  BY DEF DemoInv, DemoCountsOnStep, DemoNumbered, PutPacket, Follows

-----------------------------------------------------------------------------
(* The program. *)

ManagersInv == kind \in Kinds /\ SerialInv /\ TcpInv /\ MqttInv /\ DemoInv

(* Every manager starts as its own module says, the chosen one and the      *)
(* others.                                                                  *)
LEMMA ManagersInitial == TransportsInit => ManagersInv
  BY SerialInitial, TcpInitial, MqttInitial, DemoInitial DEF TransportsInit, ManagersInv

(* A step of the program is one of a single manager and none of the others. *)
LEMMA ManagersInductive == ManagersInv /\ [TransportsNext]_transportVars => ManagersInv'
  <1> SUFFICES ASSUME ManagersInv, [TransportsNext]_transportVars PROVE ManagersInv'
    OBVIOUS
  <1>1. /\ kind' = kind
        /\ [Next]_vars /\ [TcpNext]_tcpVars /\ [MqttNext]_mqttVars /\ [DemoNext]_demoVars
    BY DEF TransportsNext, SerialStep, TcpStep, MqttStep, DemoStep, ProgramEnded, transportVars
  <1> QED BY <1>1, SerialInductive, TcpInductive, MqttInductive, DemoInductive DEF ManagersInv

(* The conjunction of the four invariants is an invariant of the program.   *)
LEMMA ManagersInvariant == TransportsSpec => []ManagersInv
  BY ManagersInitial, ManagersInductive, PTL DEF TransportsSpec

(* Type correctness of the four managers, for every set of ports and rates. *)
THEOREM TransportsTypeCorrect == TransportsSpec => []TransportsTypeOK
  <1>1. ManagersInv => TransportsTypeOK
    BY SerialPromises, TcpPromises, MqttPromises, DemoPromises DEF ManagersInv, TransportsTypeOK
  <1> QED BY <1>1, ManagersInvariant, PTL

(* A manager that says connected has a thread that serves the link, in      *)
(* whatever order its threads, its link and the user take their steps.      *)
THEOREM ConnectedMeansServed == TransportsSpec => []ConnectedIsServed
  <1>1. ManagersInv => ConnectedIsServed
    BY SerialPromises, TcpPromises, MqttPromises, DemoPromises DEF ManagersInv, ConnectedIsServed
  <1> QED BY <1>1, ManagersInvariant, PTL

(* After disconnect(), and once the threads are through, nothing is open.   *)
THEOREM StoppedMeansSilent == TransportsSpec => []StoppedIsSilent
  <1>1. ManagersInv => StoppedIsSilent
    BY SerialPromises, TcpPromises, MqttPromises DEF ManagersInv, StoppedIsSilent
  <1> QED BY <1>1, ManagersInvariant, PTL

(* With the threads at rest the last event agrees with `connected`.         *)
THEOREM EventsAreTrue == TransportsSpec => []EventsTellTruth
  <1>1. ManagersInv => EventsTellTruth
    BY SerialPromises, TcpPromises, MqttPromises DEF ManagersInv, EventsTellTruth
  <1> QED BY <1>1, ManagersInvariant, PTL

(* Every line the TCP link hands over is a line the device sent, however    *)
(* the stream is cut into pieces and wherever connections end.              *)
THEOREM LinesStayWhole == TransportsSpec => []LinesAreWhole
  <1>1. ManagersInv => LinesAreWhole BY TcpPromises DEF ManagersInv
  <1> QED BY <1>1, ManagersInvariant, PTL

(* A command to the simulator holds from the second packet after it on.     *)
THEOREM SimulatorObeys == TransportsSpec => []DemoObeys
  <1>1. ManagersInv => DemoObeys BY DemoPromises DEF ManagersInv
  <1> QED BY <1>1, ManagersInvariant, PTL

(* The simulator's stream flows, whatever rate is set while a packet is due. *)
THEOREM SimulatorFlows == TransportsSpec => []DemoFlows
  <1>1. ManagersInv => DemoFlows BY DemoPromises DEF ManagersInv
  <1> QED BY <1>1, ManagersInvariant, PTL

(* Its packets are numbered one after the other, across disconnections.     *)
THEOREM SimulatorCounts == TransportsSpec => DemoCountsOn
  <1>1. ManagersInv => [DemoCountsOnStep]_demoVars BY DemoCounts DEF ManagersInv
  <1> QED BY <1>1, ManagersInvariant, PTL DEF DemoCountsOn
=============================================================================
