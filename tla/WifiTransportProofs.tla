------------------------- MODULE WifiTransportProofs -------------------------
(***************************************************************************)
(* Proofs about the wireless transport: type correctness, and that a        *)
(* command reaches the command processor whole, once, in its sender's       *)
(* order, and is answered to nobody else, for any number of connections.    *)
(*                                                                          *)
(* What the properties say of the slot has to be known of a command from    *)
(* the moment its first piece is sent.  Stream(c) is all of a connection's  *)
(* text that is still ahead of the slot, read into the buffer or not: it    *)
(* begins at the begin of a line, its lines are whole but for the last, and *)
(* its commands are younger than all that have been in the slot.  That a    *)
(* buffer of a lost connection is no part of any Stream is what AcceptClient*)
(* clears it for.                                                           *)
(***************************************************************************)
EXTENDS WifiTransport, TLAPS, SequenceTheorems

CommandOf(text) == text[1].of

(* What of connection c's text is ahead of the slot. *)
Stream(c) == IF c = directClient THEN buffer \o unread[c] ELSE unread[c]

(* Lines of c one after the other, the last perhaps without its end. *)
PiecesOf(q, c) == \A i \in DOMAIN q : q[i] \in Pieces /\ q[i].of.from = c
Lines(q) ==
    /\ q # <<>> => ~q[1].last
    /\ \A i \in DOMAIN q : i + 1 \in DOMAIN q =>
          IF q[i].last THEN ~q[i + 1].last ELSE q[i + 1] = Piece(q[i].of, TRUE)
Rising(q) ==
    \A i, j \in DOMAIN q : i < j /\ ~q[j].last => q[i].of.number < q[j].of.number
Ordered(q, c) == PiecesOf(q, c) /\ Lines(q) /\ Rising(q)

(* The end of the stream of a connection that is up. *)
EndsAsTyped(q, c) ==
    /\ c \in typing => q # <<>> /\ ~q[Len(q)].last /\ q[Len(q)].of.number = begun[c]
    /\ c \notin typing => (q # <<>> => q[Len(q)].last)

StreamWhole(c) ==
    /\ Ordered(Stream(c), c)
    /\ \A i \in DOMAIN Stream(c) : Stream(c)[i].of.number <= begun[c]
    /\ link[c] = "open" => EndsAsTyped(Stream(c), c)
    /\ link[c] = "unused" => c # directClient /\ unread[c] = <<>> /\ c \notin typing
StreamsWhole == \A c \in Clients : StreamWhole(c)

(* Messages of the broker are whole as they are. *)
InboxRising ==
    /\ \A i \in DOMAIN inbox : inbox[i].from = Broker /\ inbox[i].number <= begun[Broker]
    /\ \A i, j \in DOMAIN inbox : i < j => inbox[i].number < inbox[j].number

(* What has been in the slot is older than what is in it, and both are      *)
(* older than what is on its way.                                           *)
Passed == processed \cup overwritten
Slot == {pending} \ {Empty}
Older(k) ==
    /\ k.number <= begun[k.from]
    /\ k.from = Broker => \A i \in DOMAIN inbox : k.number < inbox[i].number
    /\ k.from \in Clients =>
          \A i \in DOMAIN Stream(k.from) : k.number < Stream(k.from)[i].of.number
SlotRising ==
    /\ \A t \in Passed \cup Slot : Older(CommandOf(t))
    /\ pending # Empty => \A t \in Passed :
          CommandOf(t).from = CommandOf(pending).from => CommandOf(t).number < CommandOf(pending).number

(* Whose command is in the slot, at each point of a pass. *)
SlotOwner ==
    /\ pc \in {"wifi", "mqtt", "rest"} => pending = Empty
    /\ pc = "direct" /\ pending # Empty => CommandOf(pending).from = Broker
    /\ pc \in {"reading", "process"} /\ pending # Empty =>
          CommandOf(pending).from \in {Broker, directClient}
    /\ pc = "reading" => directClient # Nobody

AnswerType == answer.of \in Texts \cup {Empty} /\ answer.to \subseteq Senders

WifiInv ==
    /\ WifiTypeOK /\ WholeCommands
    /\ StreamsWhole /\ InboxRising /\ SlotRising
    /\ SlotOwner /\ AnswerType /\ AnswerReachesSender

-----------------------------------------------------------------------------
(* Types. *)

LEMMA TextFacts ==
    ASSUME NEW k \in Commands
    PROVE  /\ Text(k) \in Texts /\ Text(k) # Empty /\ CommandOf(Text(k)) = k
           /\ Text(k) = <<Piece(k, FALSE), Piece(k, TRUE)>>
  BY DEF Text, Texts, Empty, CommandOf, Piece

LEMMA OneOfTexts ==
    ASSUME NEW t \in Texts
    PROVE  CommandOf(t) \in Commands /\ t = Text(CommandOf(t)) /\ t # Empty
  <1>1. PICK k \in Commands : t = Text(k) BY DEF Texts
  <1> QED BY <1>1, TextFacts

(* Short sequences. *)
LEMMA ShortSeq ==
    ASSUME NEW S, NEW q \in Seq(S)
    PROVE  /\ Len(q) \in Nat /\ DOMAIN q = 1 .. Len(q) /\ (q = <<>> <=> Len(q) = 0)
           /\ Len(q) <= 1 /\ q # <<>> => Len(q) = 1
           /\ Len(q) = 1 => q = <<q[1]>>
           /\ \A i \in 1 .. Len(q) : q[i] \in S
  <1>1. Len(q) \in Nat /\ DOMAIN q = 1 .. Len(q) BY LenProperties
  <1>2. q = <<>> <=> Len(q) = 0 BY <1>1, EmptySeq
  <1>3. \A i \in 1 .. Len(q) : q[i] \in S BY ElementOfSeq
  <1>4. ASSUME Len(q) = 1 PROVE q = <<q[1]>>
    <2>1. q[1] \in S BY <1>3, <1>4
    <2>2. <<q[1]>> \in Seq(S) /\ Len(<<q[1]>>) = 1 /\ <<q[1]>>[1] = q[1] BY <2>1
    <2> QED BY <1>4, <2>2, SeqEqual
  <1>5. \A n \in Nat : n <= 1 /\ n # 0 => n = 1 OBVIOUS
  <1> QED BY <1>1, <1>2, <1>3, <1>4, <1>5, Zenon

LEMMA OneSeq ==
    ASSUME NEW S, NEW e \in S
    PROVE  /\ <<e>> \in Seq(S) /\ Len(<<e>>) = 1 /\ Len(<<e>>) <= 1 /\ <<e>>[1] = e
           /\ <<>> \in Seq(S) /\ Len(<<>>) <= 1
           /\ \A f \in S : Append(<<e>>, f) = <<e, f>>
  <1>1. <<e>> \in Seq(S) /\ Len(<<e>>) = 1 /\ <<e>>[1] = e /\ <<>> \in Seq(S) /\ Len(<<>>) = 0
    OBVIOUS
  <1>2. ASSUME NEW f \in S PROVE Append(<<e>>, f) = <<e, f>>
    <2>1. <<e, f>> \in Seq(S) /\ Len(<<e, f>>) = 2 /\ <<e, f>>[1] = e /\ <<e, f>>[2] = f OBVIOUS
    <2>2. /\ Append(<<e>>, f) \in Seq(S) /\ Len(Append(<<e>>, f)) = 1 + 1
          /\ Append(<<e>>, f)[1] = e /\ Append(<<e>>, f)[1 + 1] = f
      BY <1>1, AppendProperties
    <2>3. \A i \in 1 .. 2 : i = 1 \/ i = 2 OBVIOUS
    <2>4. \A i \in 1 .. 2 : Append(<<e>>, f)[i] = <<e, f>>[i] BY <2>1, <2>2, <2>3
    <2>5. 1 + 1 = 2 OBVIOUS
    <2>6. Len(Append(<<e>>, f)) = Len(<<e, f>>) /\ 1 .. Len(Append(<<e>>, f)) = 1 .. 2 BY <2>1, <2>2, <2>5, Zenon
    <2> QED BY <2>1, <2>2, <2>4, <2>6, SeqEqual, Zenon
  <1>3. 0 <= 1 /\ 1 <= 1 OBVIOUS
  <1> QED BY <1>1, <1>2, <1>3, Zenon

LEMMA OneMore ==
    ASSUME NEW S, NEW f \in [S -> Nat], NEW e
    PROVE  [f EXCEPT ![e] = @ + 1] \in [S -> Nat]
  <1>1. \A x \in S : f[x] \in Nat /\ f[x] + 1 \in Nat OBVIOUS
  <1>2. CASE e \in S BY <1>1, <1>2
  <1>3. CASE e \notin S BY <1>3
  <1> QED BY <1>2, <1>3

LEMMA HeadAndTail ==
    ASSUME NEW S, NEW q \in Seq(S), q # <<>>
    PROVE  <<q[1]>> \o Tail(q) = q
  <1> DEFINE t == Tail(q)
             new == <<q[1]>> \o t
  <1>1. /\ Len(q) \in Nat /\ Len(q) # 0 /\ t \in Seq(S) /\ Len(t) = Len(q) - 1
        /\ \A i \in 1 .. Len(t) : t[i] = q[i + 1]
    BY ShortSeq, HeadTailProperties
  <1>2. q[1] \in S BY <1>1, ShortSeq
  <1>3. <<q[1]>> \in Seq(S) /\ Len(<<q[1]>>) = 1 /\ <<q[1]>>[1] = q[1] BY <1>2, OneSeq
  <1>4. /\ new \in Seq(S) /\ Len(new) = 1 + Len(t)
        /\ \A i \in 1 .. 1 + Len(t) : new[i] = IF i <= 1 THEN <<q[1]>>[i] ELSE t[i - 1]
    BY <1>1, <1>3, ConcatProperties
  <1> HIDE DEF new, t
  <1>5. \A i \in 1 .. Len(q) : new[i] = q[i]
    <2> SUFFICES ASSUME NEW i \in 1 .. Len(q) PROVE new[i] = q[i]
      OBVIOUS
    <2>1. CASE i = 1 BY <1>1, <1>3, <1>4, <2>1
    <2>2. CASE i # 1
      <3>1. i - 1 \in 1 .. Len(t) /\ i \in 1 .. 1 + Len(t) /\ ~(i <= 1) /\ (i - 1) + 1 = i BY <1>1, <2>2
      <3> QED BY <1>1, <1>4, <3>1
    <2> QED BY <2>1, <2>2
  <1>6. Len(new) = Len(q) BY <1>1, <1>4
  <1>7. new = q BY <1>4, <1>5, <1>6, SeqEqual, Zenon
  <1> QED BY <1>7 DEF new, t

LEMMA ConcatAppend ==
    ASSUME NEW S, NEW s \in Seq(S), NEW t \in Seq(S), NEW e \in S
    PROVE  s \o Append(t, e) = Append(s \o t, e)
  <1>1. <<e>> \in Seq(S) /\ s \o t \in Seq(S) BY OneSeq, ConcatProperties
  <1>2. (s \o t) \o <<e>> = s \o (t \o <<e>>) BY <1>1, ConcatAssociative
  <1>3. Append(t, e) = t \o <<e>> BY AppendIsConcat
  <1>4. Append(s \o t, e) = (s \o t) \o <<e>> BY <1>1, AppendIsConcat
  <1> QED BY <1>2, <1>3, <1>4

LEMMA TypeInitial == Init => WifiTypeOK
  <1> SUFFICES ASSUME Init PROVE WifiTypeOK
    OBVIOUS
  <1>1. MaxCommands \in Nat BY ClientsAssumption
  <1>2. waiting \in Seq(Clients) /\ inbox \in Seq(Commands) /\ buffer \in Seq(Pieces) /\ Len(buffer) <= 1
    BY EmptySeq DEF Init, Empty
  <1>3. unread \in [Clients -> Seq(Pieces)] BY EmptySeq DEF Init
  <1>4. begun \in [Senders -> Nat] /\ (\A s \in Senders : begun[s] <= total) /\ total \in 0 .. MaxCommands
    BY <1>1 DEF Init
  <1>5. link \in [Clients -> {"unused", "open", "closed"}] BY DEF Init
  <1> QED BY <1>2, <1>3, <1>4, <1>5 DEF Init, WifiTypeOK

(* Concatenation and first elements, as Stream uses them. *)
LEMMA StreamType ==
    ASSUME WifiTypeOK, NEW c \in Clients
    PROVE  /\ Stream(c) \in Seq(Pieces) /\ unread[c] \in Seq(Pieces) /\ buffer \in Seq(Pieces)
           /\ c # directClient \/ buffer = <<>> => Stream(c) = unread[c]
           /\ c = directClient /\ buffer # <<>> =>
                 /\ Len(buffer) = 1 /\ Len(Stream(c)) = 1 + Len(unread[c])
                 /\ Stream(c)[1] = buffer[1]
                 /\ \A i \in 1 .. Len(unread[c]) : Stream(c)[i + 1] = unread[c][i]
           /\ unread[c] # <<>> => Stream(c) # <<>>
  <1>1. unread[c] \in Seq(Pieces) /\ buffer \in Seq(Pieces) /\ Len(buffer) <= 1 BY DEF WifiTypeOK
  <1>2. CASE c # directClient BY <1>1, <1>2 DEF Stream
  <1>3. CASE c = directClient /\ buffer = <<>>
    <2>1. Stream(c) = unread[c] BY <1>1, <1>3, ConcatEmptySeq DEF Stream
    <2> QED BY <1>1, <1>3, <2>1
  <1>4. CASE c = directClient /\ buffer # <<>>
    <2>1. Len(buffer) = 1 BY <1>1, <1>4, ShortSeq, Zenon
    <2>2. Stream(c) = buffer \o unread[c] BY <1>4 DEF Stream
    <2>3. /\ Stream(c) \in Seq(Pieces) /\ Len(Stream(c)) = 1 + Len(unread[c])
          /\ Stream(c)[1] = buffer[1]
          /\ \A i \in 1 .. Len(unread[c]) : Stream(c)[i + 1] = unread[c][i]
      BY <1>1, <2>1, <2>2, ConcatProperties, LenProperties
    <2>4. Stream(c) # <<>> BY <1>1, <2>3, EmptySeq
    <2> QED BY <1>1, <1>4, <2>1, <2>3, <2>4
  <1> QED BY <1>2, <1>3, <1>4

(* The first piece of a line goes into the buffer; the second completes the *)
(* line of which the first is in the buffer.                                *)
LEMMA ReadPieceEffect ==
    ASSUME WifiTypeOK, StreamsWhole, SlotOwner, ReadPiece
    PROVE  LET rest == unread[directClient]
           IN  /\ directClient \in Clients /\ rest \in Seq(Pieces) /\ rest # <<>>
               /\ unread' = [unread EXCEPT ![directClient] = Tail(rest)]
               /\ \/ /\ buffer = <<>> /\ buffer' = <<rest[1]>> /\ UNCHANGED <<pending, overwritten>>
                  \/ /\ buffer # <<>> /\ buffer' = <<>> /\ buffer[1].of \in Commands
                     /\ QueueCommand(Text(buffer[1].of))
  <1> DEFINE d == directClient
             rest == unread[d]
             text == Append(buffer, Head(rest))
  <1>1. d \in Clients BY DEF ReadPiece, SlotOwner, WifiTypeOK
  <1>2. rest \in Seq(Pieces) /\ rest # <<>> /\ unread' = [unread EXCEPT ![d] = Tail(rest)]
    BY <1>1 DEF ReadPiece, WifiTypeOK
  <1>3. Head(rest) = rest[1] /\ rest[1] \in Pieces /\ Len(rest) >= 1 BY <1>2, ElementOfSeq, EmptySeq
  <1>4. buffer \in Seq(Pieces) /\ Len(buffer) <= 1 BY DEF WifiTypeOK
  <1>5. text \in Seq(Pieces) /\ Len(text) = Len(buffer) + 1 /\ Last(text) = rest[1]
    BY <1>3, <1>4, AppendProperties DEF Last
  <1>6. Lines(Stream(d)) BY <1>1 DEF StreamsWhole, StreamWhole, Ordered
  <1>7. CASE buffer = <<>>
    <2>1. Stream(d) = rest BY <1>1, <1>7, StreamType
    <2>2. ~rest[1].last BY <1>2, <1>6, <2>1 DEF Lines
    <2>3. text = <<rest[1]>> BY <1>3, <1>7
    <2> QED BY <1>1, <1>2, <1>5, <1>7, <2>2, <2>3 DEF ReadPiece
  <1>8. CASE buffer # <<>>
    <2>1. /\ Len(buffer) = 1 /\ Stream(d) \in Seq(Pieces) /\ Len(Stream(d)) = 1 + Len(rest)
          /\ Stream(d)[1] = buffer[1] /\ Stream(d)[1 + 1] = rest[1]
      BY <1>1, <1>2, <1>3, <1>8, StreamType, LenProperties
    <2>2. 1 \in DOMAIN Stream(d) /\ 1 + 1 \in DOMAIN Stream(d) BY <1>2, <1>3, <2>1, LenProperties
    <2>3. ~buffer[1].last /\ rest[1] = Piece(buffer[1].of, TRUE)
      <3>1. Stream(d) # <<>> BY <1>2, <1>3, <2>1, EmptySeq
      <3> QED BY <1>6, <2>1, <2>2, <3>1 DEF Lines
    <2>4. buffer[1] \in Pieces BY <1>4, <2>1, ElementOfSeq
    <2>5. buffer[1].of \in Commands /\ buffer[1] = Piece(buffer[1].of, FALSE) BY <2>3, <2>4 DEF Pieces, Piece
    <2>6. text = Text(buffer[1].of)
      <3>1. buffer = <<buffer[1]>> BY <1>4, <2>1, ShortSeq
      <3>2. text = <<buffer[1], rest[1]>>
        <4>1. text = Append(<<buffer[1]>>, rest[1]) BY <1>3, <3>1, Zenon
        <4> QED BY <1>3, <2>4, <4>1, OneSeq, Zenon
      <3> QED BY <2>3, <2>5, <3>2 DEF Text
    <2>7. Last(text).last BY <1>5, <2>3 DEF Piece
    <2>8. QueueCommand(text) /\ buffer' = <<>> BY <2>7 DEF ReadPiece, Empty
    <2> QED BY <1>1, <1>2, <1>8, <2>5, <2>6, <2>8
  <1> QED BY <1>7, <1>8

(* A station goes on with the line it is typing, or begins the next one. *)
LEMMA SentPiece ==
    ASSUME WifiTypeOK, StreamsWhole, NEW c \in Clients, SendPiece(c)
    PROVE  \E p \in Pieces :
              /\ p.of.from = c /\ p.of.number = begun'[c]
              /\ unread' = [unread EXCEPT ![c] = Append(@, p)]
              /\ \/ c \in typing /\ p.last /\ typing' = typing \ {c} /\ begun' = begun
                 \/ /\ c \notin typing /\ ~p.last /\ typing' = typing \cup {c}
                    /\ begun' = [begun EXCEPT ![c] = @ + 1]
  <1>1. begun \in [Senders -> Nat] /\ c \in Senders /\ begun[c] <= total /\ total \in 0 .. MaxCommands /\ MaxCommands \in Nat
    BY ClientsAssumption DEF WifiTypeOK, Senders
  <1>2. CASE c \in typing
    <2> DEFINE p == Piece([from |-> c, number |-> begun[c]], TRUE)
               q == Stream(c)
    <2>1. q \in Seq(Pieces) /\ q # <<>> /\ q[Len(q)].of.number = begun[c]
      BY <1>2, StreamType DEF SendPiece, StreamsWhole, StreamWhole, EndsAsTyped
    <2>2. q[Len(q)] \in Pieces BY <2>1, ElementOfSeq, EmptySeq
    <2>3. begun[c] \in 1 .. MaxCommands BY <2>1, <2>2 DEF Pieces, Commands
    <2>4. p \in Pieces /\ p.of.from = c /\ p.of.number = begun[c] /\ p.last
      BY <1>1, <2>3 DEF Piece, Pieces, Commands
    <2>5. /\ unread' = [unread EXCEPT ![c] = Append(@, p)]
          /\ typing' = typing \ {c} /\ begun' = begun
      BY <1>2 DEF SendPiece
    <2> QED BY <1>2, <2>4, <2>5
  <1>3. CASE c \notin typing
    <2> DEFINE p == Piece([from |-> c, number |-> begun[c] + 1], FALSE)
    <2>1. /\ unread' = [unread EXCEPT ![c] = Append(@, p)]
          /\ typing' = typing \cup {c} /\ begun' = [begun EXCEPT ![c] = @ + 1] /\ total < MaxCommands
      BY <1>3 DEF SendPiece, BeginsCommand
    <2>2. begun'[c] = begun[c] + 1 /\ begun[c] + 1 \in 1 .. MaxCommands BY <1>1, <2>1
    <2>3. p \in Pieces /\ p.of.from = c /\ p.of.number = begun'[c] /\ ~p.last
      BY <1>1, <2>2 DEF Piece, Pieces, Commands
    <2> QED BY <1>3, <2>1, <2>3
  <1> QED BY <1>2, <1>3

LEMMA TypeInductive == WifiTypeOK /\ StreamsWhole /\ SlotOwner /\ [Next]_vars => WifiTypeOK'
  <1> SUFFICES ASSUME WifiTypeOK, StreamsWhole, SlotOwner, [Next]_vars PROVE WifiTypeOK'
    OBVIOUS
  <1> USE DEF WifiTypeOK, conns, peers, history
  <1>0. MaxCommands \in Nat BY ClientsAssumption
  <1>1. CASE ServiceWifi BY <1>1 DEF ServiceWifi
  <1>2. CASE HandleMessage BY <1>2 DEF HandleMessage
  <1>3. CASE ConnectMqtt BY <1>3 DEF ConnectMqtt
  <1>4. CASE NoMessage BY <1>4 DEF NoMessage
  <1>5. CASE StopClient BY <1>5 DEF StopClient, Hung, Flushed
  <1>6. CASE AcceptClient
    <2>1. Head(waiting) \in Clients /\ waiting' \in Seq(Clients) BY <1>6, HeadTailProperties DEF AcceptClient
    <2>2. buffer' \in Seq(Pieces) /\ Len(buffer') <= 1
      <3>1. buffer' = buffer \/ buffer' = <<>> BY <1>6 DEF AcceptClient, Empty
      <3>2. <<>> \in Seq(Pieces) /\ Len(<<>>) <= 1 OBVIOUS
      <3> QED BY <3>1, <3>2, Zenon
    <2>3. link' \in [Clients -> {"unused", "open", "closed"}] BY <1>6 DEF AcceptClient, Hung
    <2> QED BY <1>6, <2>1, <2>2, <2>3 DEF AcceptClient
  <1>7. CASE NoClient BY <1>7 DEF NoClient
  <1>8. CASE ServeClient BY <1>8 DEF ServeClient
  <1>9. CASE ReadPiece
    <2> DEFINE rest == unread[directClient]
    <2>1. /\ rest \in Seq(Pieces) /\ rest # <<>> /\ unread' = [unread EXCEPT ![directClient] = Tail(rest)]
          /\ buffer' = <<rest[1]>> \/ buffer' = <<>>
      BY <1>9, ReadPieceEffect
    <2>2. Tail(rest) \in Seq(Pieces) /\ rest[1] \in Pieces BY <2>1, HeadTailProperties, ElementOfSeq, EmptySeq
    <2>3. unread' \in [Clients -> Seq(Pieces)] BY <2>1, <2>2
    <2>4. buffer' \in Seq(Pieces) /\ Len(buffer') <= 1
      <3>1. <<rest[1]>> \in Seq(Pieces) /\ Len(<<rest[1]>>) = 1 BY <2>2
      <3>2. <<>> \in Seq(Pieces) /\ Len(<<rest[1]>>) <= 1 /\ Len(<<>>) <= 1 BY <3>1
      <3> QED BY <2>1, <3>1, <3>2, Zenon
    <2> QED BY <1>9, <2>3, <2>4 DEF ReadPiece
  <1>10. CASE NothingToRead BY <1>10 DEF NothingToRead
  <1>11. CASE ProcessPending BY <1>11 DEF ProcessPending
  <1>12. CASE NothingPending BY <1>12 DEF NothingPending
  <1>13. CASE PublishTelemetry BY <1>13 DEF PublishTelemetry
  <1>14. CASE NoTelemetry BY <1>14 DEF NoTelemetry
  <1>15. CASE WifiUp BY <1>15 DEF WifiUp
  <1>16. CASE WifiDown BY <1>16 DEF WifiDown
  <1>17. CASE MqttDrops
    <2>1. inbox' \in Seq(Commands) BY <1>17, EmptySeq DEF MqttDrops
    <2> QED BY <1>17, <2>1 DEF MqttDrops
  <1>18. CASE GiveUp BY <1>18 DEF GiveUp
  <1>19. CASE PublishCommand BY <1>0, <1>19 DEF PublishCommand, BeginsCommand, Commands, Senders
  <1>20. ASSUME NEW c \in Clients, Dial(c) PROVE WifiTypeOK' BY <1>20 DEF Dial
  <1>21. ASSUME NEW c \in Clients, Hangup(c) PROVE WifiTypeOK' BY <1>21 DEF Hangup
  <1>22. ASSUME NEW c \in Clients, Vanish(c) PROVE WifiTypeOK' BY <1>22 DEF Vanish
  <1>23. ASSUME NEW c \in Clients, SendPiece(c) PROVE WifiTypeOK'
    <2>1. /\ begun' \in [Senders -> Nat] /\ (\A s \in Senders : begun'[s] <= total') /\ total' \in 0 .. MaxCommands
          /\ typing' \subseteq Clients
      <3>1. CASE c \in typing BY <1>23, <3>1 DEF SendPiece
      <3>2. CASE c \notin typing
        <4>1. /\ total < MaxCommands /\ total' = total + 1 /\ begun' = [begun EXCEPT ![c] = @ + 1]
              /\ typing' = typing \cup {c}
          BY <1>23, <3>2 DEF SendPiece, BeginsCommand
        <4>2. \A s \in Senders : begun[s] \in Nat /\ begun[s] <= total OBVIOUS
        <4>3. total \in Nat /\ total + 1 \in 0 .. MaxCommands BY <1>0, <4>1
        <4>4. begun' \in [Senders -> Nat] BY <4>1, OneMore, Zenon
        <4>5. \A s \in Senders : begun'[s] <= total' BY <4>1, <4>2, <4>3
        <4> QED BY <4>1, <4>3, <4>4, <4>5
      <3> QED BY <3>1, <3>2
    <2>2. \E p \in Pieces : unread' = [unread EXCEPT ![c] = Append(@, p)] BY <1>23, SentPiece
    <2>3. unread' \in [Clients -> Seq(Pieces)] BY <2>2, AppendProperties
    <2> QED BY <1>23, <2>1, <2>3 DEF SendPiece
  <1>24. CASE UNCHANGED vars BY <1>24 DEF vars
  <1> QED
    BY <1>1, <1>2, <1>3, <1>4, <1>5, <1>6, <1>7, <1>8, <1>9, <1>10, <1>11, <1>12, <1>13, <1>14, <1>15,
       <1>16, <1>17, <1>18, <1>19, <1>20, <1>21, <1>22, <1>23, <1>24 DEF Next, Pass, External

-----------------------------------------------------------------------------
(* Streams grow at their end and are read from their begin. *)

LEMMA OrderedAppend ==
    ASSUME NEW c \in Clients, NEW q \in Seq(Pieces), Ordered(q, c),
           NEW p \in Pieces, p.of.from = c,
           q = <<>> => ~p.last,
           q # <<>> /\ q[Len(q)].last => ~p.last /\ \A i \in DOMAIN q : q[i].of.number < p.of.number,
           q # <<>> /\ ~q[Len(q)].last => p = Piece(q[Len(q)].of, TRUE)
    PROVE  Ordered(Append(q, p), c)
  <1> DEFINE n == Len(q)
             new == Append(q, p)
  <1>1. n \in Nat /\ DOMAIN q = 1 .. n /\ (q = <<>> <=> n = 0) BY ShortSeq
  <1>2. DOMAIN new = 1 .. n + 1 /\ new # <<>> /\ new[n + 1] = p /\ \A i \in 1 .. n : new[i] = q[i]
    BY AppendProperties, LenProperties
  <1> HIDE DEF new, n
  <1>3. PiecesOf(new, c) BY <1>1, <1>2 DEF PiecesOf, Ordered
  <1>4. q # <<>> => n \in 1 .. n BY <1>1
  <1>5. Lines(new)
    <2>1. ~new[1].last
      <3>1. CASE q = <<>> BY <1>1, <1>2, <3>1
      <3>2. CASE q # <<>>
        <4>1. ~q[1].last BY <3>2 DEF Ordered, Lines
        <4>2. 1 \in 1 .. n BY <1>1, <3>2
        <4> QED BY <1>2, <4>1, <4>2
      <3> QED BY <3>1, <3>2
    <2>2. ASSUME NEW i \in DOMAIN new, i + 1 \in DOMAIN new
          PROVE  IF new[i].last THEN ~new[i + 1].last ELSE new[i + 1] = Piece(new[i].of, TRUE)
      <3>1. i \in 1 .. n /\ new[i] = q[i] BY <1>1, <1>2, <2>2
      <3>2. CASE i + 1 \in 1 .. n BY <1>1, <1>2, <3>1, <3>2 DEF Ordered, Lines
      <3>3. CASE i + 1 \notin 1 .. n
        <4>1. i = n /\ new[i + 1] = p /\ q # <<>> BY <1>1, <1>2, <2>2, <3>1, <3>3
        <4> QED BY <3>1, <4>1 DEF n
      <3> QED BY <3>2, <3>3
    <2> QED BY <2>1, <2>2 DEF Lines
  <1>6. Rising(new)
    <2> SUFFICES ASSUME NEW i \in DOMAIN new, NEW j \in DOMAIN new, i < j, ~new[j].last
                 PROVE  new[i].of.number < new[j].of.number
      BY DEF Rising
    <2>1. i \in 1 .. n /\ new[i] = q[i] BY <1>1, <1>2
    <2>2. CASE j \in 1 .. n BY <1>1, <1>2, <2>1, <2>2 DEF Ordered, Rising
    <2>3. CASE j \notin 1 .. n
      <3>1. j = n + 1 /\ new[j] = p /\ q # <<>> BY <1>1, <1>2, <2>1, <2>3
      <3>2. ~p.last BY <3>1
      <3>3. q[n].last BY <3>1, <3>2 DEF n, Piece
      <3> QED BY <1>1, <2>1, <3>1, <3>2, <3>3 DEF n
    <2> QED BY <2>2, <2>3
  <1> QED BY <1>3, <1>5, <1>6 DEF Ordered, new

(* A part of a stream that begins at the begin of a line. *)
LEMMA OrderedPart ==
    ASSUME NEW c \in Clients, NEW q \in Seq(Pieces), Ordered(q, c),
           NEW part \in Seq(Pieces), NEW k \in Nat, Len(part) + k <= Len(q),
           \A i \in 1 .. Len(part) : part[i] = q[i + k],
           part # <<>> => ~part[1].last
    PROVE  Ordered(part, c)
  <1> DEFINE n == Len(part)
  <1>1. n \in Nat /\ Len(q) \in Nat /\ DOMAIN q = 1 .. Len(q) /\ DOMAIN part = 1 .. n BY ShortSeq
  <1> HIDE DEF n
  <1>2. \A i \in 1 .. n : i + k \in DOMAIN q /\ part[i] = q[i + k] BY <1>1 DEF n
  <1>3. PiecesOf(part, c) BY <1>1, <1>2 DEF PiecesOf, Ordered
  <1>4. Lines(part)
    <2> SUFFICES ASSUME NEW i \in 1 .. n, i + 1 \in 1 .. n
                 PROVE  IF part[i].last THEN ~part[i + 1].last ELSE part[i + 1] = Piece(part[i].of, TRUE)
      BY <1>1 DEF Lines
    <2>1. (i + 1) + k = (i + k) + 1 /\ i + k \in DOMAIN q /\ (i + k) + 1 \in DOMAIN q
      BY <1>1, <1>2
    <2>2. part[i] = q[i + k] /\ part[i + 1] = q[(i + k) + 1] BY <1>2, <2>1
    <2> QED BY <2>1, <2>2 DEF Ordered, Lines
  <1>5. Rising(part)
    <2> SUFFICES ASSUME NEW i \in 1 .. n, NEW j \in 1 .. n, i < j, ~part[j].last
                 PROVE  part[i].of.number < part[j].of.number
      BY <1>1 DEF Rising
    <2>1. i + k \in DOMAIN q /\ j + k \in DOMAIN q /\ i + k < j + k BY <1>1, <1>2
    <2> QED BY <1>2, <2>1 DEF Ordered, Rising
  <1> QED BY <1>3, <1>4, <1>5 DEF Ordered

(* What a step puts into the stream of c is younger than all c had begun.   *)
AgesKept(c) ==
    \A i \in DOMAIN Stream(c)' :
        \/ \E j \in DOMAIN Stream(c) : Stream(c)'[i].of.number = Stream(c)[j].of.number
        \/ Stream(c)'[i].of.number > begun[c]

LEMMA StreamKept ==
    ASSUME NEW c \in Clients, StreamWhole(c), Stream(c)' = Stream(c), begun'[c] = begun[c],
           (c \in typing') = (c \in typing), link'[c] = link[c] \/ link'[c] = "closed",
           link'[c] = "unused" => c # directClient' /\ unread'[c] = <<>>
    PROVE  StreamWhole(c)' /\ AgesKept(c)
  <1>1. AgesKept(c) BY DEF AgesKept
  <1> QED BY <1>1 DEF StreamWhole, EndsAsTyped

LEMMA StreamCut ==
    ASSUME WifiTypeOK, NEW c \in Clients, StreamWhole(c),
           NEW part \in Seq(Pieces), Stream(c)' = part,
           NEW k \in Nat, Len(part) + k <= Len(Stream(c)),
           \A i \in 1 .. Len(part) : part[i] = Stream(c)[i + k],
           part # <<>> => ~part[1].last,
           begun'[c] = begun[c], (c \in typing') = (c \in typing), link'[c] # "unused",
           link'[c] = "open" =>
              link[c] = "open" /\ Len(part) + k = Len(Stream(c)) /\ (part = <<>> => c \notin typing)
    PROVE  StreamWhole(c)' /\ AgesKept(c)
  <1> DEFINE q == Stream(c)
  <1>1. q \in Seq(Pieces) BY StreamType
  <1>2. /\ Len(q) \in Nat /\ Len(part) \in Nat /\ DOMAIN q = 1 .. Len(q) /\ DOMAIN part = 1 .. Len(part)
        /\ (part = <<>> <=> Len(part) = 0)
    BY <1>1, ShortSeq
  <1>3. \A i \in 1 .. Len(part) : i + k \in DOMAIN q /\ part[i] = q[i + k]
    <2>1. \A n, m \in Nat : n + k <= m => \A i \in 1 .. n : i + k \in 1 .. m OBVIOUS
    <2> QED BY <1>2, <2>1, Zenon
  <1>4. Ordered(q, c) /\ \A i \in DOMAIN q : q[i].of.number <= begun[c] BY DEF StreamWhole
  <1>5. Ordered(part, c) BY <1>1, <1>4, OrderedPart
  <1>6. \A i \in DOMAIN part : part[i].of.number <= begun[c] BY <1>2, <1>3, <1>4
  <1>7. AgesKept(c) BY <1>2, <1>3 DEF AgesKept
  <1>8. ASSUME link'[c] = "open" PROVE EndsAsTyped(part, c)'
    <2>1. EndsAsTyped(q, c) BY <1>8 DEF StreamWhole
    <2>2. CASE part = <<>> BY <1>8, <2>2 DEF EndsAsTyped
    <2>3. CASE part # <<>>
      <3>1. Len(part) \in 1 .. Len(part) /\ Len(part) + k = Len(q) /\ Len(q) # 0 BY <1>2, <1>8, <2>3
      <3>2. part[Len(part)] = q[Len(q)] /\ q # <<>> BY <1>1, <1>3, <3>1, ShortSeq
      <3> QED BY <2>1, <2>3, <3>2 DEF EndsAsTyped
    <2> QED BY <2>2, <2>3
  <1> QED BY <1>5, <1>6, <1>7, <1>8 DEF StreamWhole

LEMMA StreamGrows ==
    ASSUME WifiTypeOK, StreamsWhole, NEW c \in Clients, SendPiece(c)
    PROVE  StreamWhole(c)' /\ AgesKept(c)
  <1> DEFINE q == Stream(c)
             n == Len(q)
  <1>1. PICK p \in Pieces :
              /\ p.of.from = c /\ p.of.number = begun'[c]
              /\ unread' = [unread EXCEPT ![c] = Append(@, p)]
              /\ \/ c \in typing /\ p.last /\ typing' = typing \ {c} /\ begun' = begun
                 \/ /\ c \notin typing /\ ~p.last /\ typing' = typing \cup {c}
                    /\ begun' = [begun EXCEPT ![c] = @ + 1]
    BY SentPiece
  <1>2. /\ q \in Seq(Pieces) /\ n \in Nat /\ DOMAIN q = 1 .. n /\ (q = <<>> <=> n = 0)
        /\ \A i \in 1 .. n : q[i] \in Pieces
    BY StreamType, ShortSeq
  <1>3. /\ Ordered(q, c) /\ EndsAsTyped(q, c) /\ link[c] = "open" /\ link' = link
        /\ \A i \in 1 .. n : q[i].of.number <= begun[c]
    BY <1>2 DEF SendPiece, StreamsWhole, StreamWhole
  <1>4. Stream(c)' = Append(q, p)
    <2>1. /\ unread[c] \in Seq(Pieces) /\ buffer \in Seq(Pieces) /\ buffer' = buffer
          /\ directClient' = directClient /\ unread'[c] = Append(unread[c], p)
      BY <1>1 DEF SendPiece, WifiTypeOK
    <2>2. buffer \o Append(unread[c], p) = Append(buffer \o unread[c], p)
      BY <2>1, ConcatAppend
    <2>4. CASE c = directClient
      <3>1. Stream(c)' = buffer \o Append(unread[c], p) BY <2>1, <2>4 DEF Stream
      <3>2. q = buffer \o unread[c] BY <2>4 DEF Stream
      <3> QED BY <2>2, <3>1, <3>2
    <2>5. CASE c # directClient BY <2>1, <2>5 DEF Stream
    <2> QED BY <2>4, <2>5
  <1>5. begun[c] \in Nat BY DEF WifiTypeOK, Senders
  <1>6. c \in Senders /\ begun \in [Senders -> Nat] BY DEF WifiTypeOK, Senders
  <1> HIDE DEF n
  <1>7. q # <<>> => n \in 1 .. n BY <1>2
  <1>8. Ordered(Append(q, p), c)
    <2>1. q = <<>> => ~p.last BY <1>1, <1>3 DEF EndsAsTyped
    <2>2. ASSUME q # <<>>, q[n].last PROVE ~p.last /\ \A i \in DOMAIN q : q[i].of.number < p.of.number
      <3>1. c \notin typing BY <1>3, <2>2 DEF EndsAsTyped, n
      <3>2. ~p.last /\ p.of.number = begun[c] + 1 BY <1>1, <1>6, <3>1
      <3>3. \A i \in 1 .. n : q[i].of.number \in Nat BY <1>2 DEF Pieces, Commands
      <3> QED BY <1>2, <1>3, <1>5, <3>2, <3>3
    <2>3. ASSUME q # <<>>, ~q[n].last PROVE p = Piece(q[n].of, TRUE)
      <3>1. c \in typing /\ q[n].of.number = begun[c] BY <1>3, <2>3 DEF EndsAsTyped, n
      <3>2. p.last /\ p.of.number = begun[c] BY <1>1, <3>1
      <3>3. q[n].of \in Commands /\ q[n].of.from = c BY <1>2, <1>3, <1>7, <2>3 DEF Ordered, PiecesOf, Pieces
      <3>4. p = [of |-> p.of, last |-> p.last] /\ p.of \in Commands BY DEF Pieces
      <3>5. p.of = [from |-> c, number |-> begun[c]] BY <1>1, <3>2, <3>4 DEF Commands
      <3>6. q[n].of = [from |-> c, number |-> begun[c]] BY <3>1, <3>3 DEF Commands
      <3>7. p.last = TRUE BY <3>2, <3>4 DEF Pieces
      <3> QED BY <3>4, <3>5, <3>6, <3>7 DEF Piece
    <2> QED BY <1>1, <1>2, <1>3, <2>1, <2>2, <2>3, OrderedAppend DEF n
  <1>9. /\ DOMAIN Append(q, p) = 1 .. n + 1 /\ Append(q, p) # <<>> /\ Len(Append(q, p)) = n + 1
        /\ Append(q, p)[n + 1] = p /\ \A i \in 1 .. n : Append(q, p)[i] = q[i]
    BY <1>2, AppendProperties, LenProperties DEF n
  <1>10. begun'[c] = begun[c] \/ begun'[c] = begun[c] + 1 BY <1>1, <1>6
  <1>11. p.of.number = begun'[c] /\ (begun'[c] = begun[c] => q # <<>> /\ q[n].of.number = begun[c])
    <2>1. begun'[c] = begun[c] => c \in typing BY <1>1, <1>5, <1>6
    <2> QED BY <1>1, <1>3, <2>1 DEF EndsAsTyped, n
  <1>12. AgesKept(c)
    <2> SUFFICES ASSUME NEW i \in 1 .. n + 1
                 PROVE  \/ \E j \in 1 .. n : Append(q, p)[i].of.number = q[j].of.number
                        \/ Append(q, p)[i].of.number > begun[c]
      BY <1>2, <1>4, <1>9 DEF AgesKept
    <2>1. CASE i \in 1 .. n BY <1>9, <2>1
    <2>2. CASE i = n + 1 BY <1>5, <1>7, <1>9, <1>10, <1>11, <2>2
    <2> QED BY <1>2, <2>1, <2>2
  <1>13. \A i \in DOMAIN Append(q, p) : Append(q, p)[i].of.number <= begun'[c]
    <2> SUFFICES ASSUME NEW i \in 1 .. n + 1 PROVE Append(q, p)[i].of.number <= begun'[c]
      BY <1>9
    <2>1. CASE i \in 1 .. n
      <3>1. q[i].of.number \in Nat /\ q[i].of.number <= begun[c] BY <1>2, <1>3, <2>1 DEF Pieces, Commands
      <3> QED BY <1>5, <1>9, <1>10, <2>1, <3>1
    <2>2. CASE i = n + 1 BY <1>5, <1>9, <1>10, <1>11, <2>2
    <2> QED BY <1>2, <2>1, <2>2
  <1>14. /\ c \in typing' => ~p.last /\ p.of.number = begun'[c]
         /\ c \notin typing' => p.last
         /\ Append(q, p)[Len(Append(q, p))] = p
    BY <1>1, <1>9
  <1>15. PICK new : new = Append(q, p) /\ new = Stream(c)' BY <1>4
  <1>16. EndsAsTyped(new, c)' BY <1>9, <1>14, <1>15 DEF EndsAsTyped
  <1>17. Ordered(new, c) /\ \A i \in DOMAIN new : new[i].of.number <= begun'[c] BY <1>8, <1>13, <1>15
  <1>18. link'[c] = "open" BY <1>3
  <1> QED BY <1>12, <1>15, <1>16, <1>17, <1>18 DEF StreamWhole

(* Every step keeps the streams whole. *)
LEMMA StreamsInductive ==
    ASSUME WifiTypeOK, SlotOwner, StreamsWhole, [Next]_vars
    PROVE  \A c \in Clients : StreamWhole(c)' /\ AgesKept(c)
  <1> SUFFICES ASSUME NEW c \in Clients PROVE StreamWhole(c)' /\ AgesKept(c)
    OBVIOUS
  <1> DEFINE Kept ==
        /\ Stream(c)' = Stream(c) /\ begun'[c] = begun[c] /\ (c \in typing') = (c \in typing)
        /\ link'[c] = link[c] \/ link'[c] = "closed"
        /\ link'[c] = "unused" => c # directClient' /\ unread'[c] = <<>>
  <1>0. /\ StreamWhole(c) /\ c # Nobody /\ c # Broker /\ link[c] \in {"unused", "open", "closed"}
        /\ link \in [Clients -> {"unused", "open", "closed"}] /\ unread \in [Clients -> Seq(Pieces)]
        /\ directClient \in Clients \cup {Nobody} /\ waiting \in Seq(Clients)
    BY ClientsAssumption DEF StreamsWhole, WifiTypeOK
  <1>1. Kept => StreamWhole(c)' /\ AgesKept(c) BY <1>0, StreamKept
  <1> HIDE DEF Kept
  <1>2. ASSUME UNCHANGED <<conns, begun, typing>> PROVE Kept
    <2>1. UNCHANGED <<directClient, link, unread, buffer, begun, typing>> BY <1>2 DEF conns
    <2> QED BY <1>0, <2>1 DEF Kept, Stream, StreamWhole
  <1>3. CASE StopClient
    <2>1. /\ unread' = Flushed(directClient) /\ link' = Hung(directClient) /\ directClient' = Nobody
          /\ UNCHANGED <<buffer, begun, typing>>
      BY <1>3 DEF StopClient, peers
    <2>2. CASE c = directClient
      <3>1. Stream(c)' = <<>> /\ link'[c] = "closed" BY <1>0, <2>1, <2>2 DEF Stream, Flushed, Hung
      <3>2. Stream(c) \in Seq(Pieces) /\ Len(Stream(c)) \in Nat /\ Len(<<>>) + 0 <= Len(Stream(c))
        BY StreamType, LenProperties
      <3>3. <<>> \in Seq(Pieces) /\ 1 .. Len(<<>>) = {} OBVIOUS
      <3> QED BY <1>0, <2>1, <3>1, <3>2, <3>3, StreamCut
    <2>3. CASE c # directClient
      <3>1. Stream(c)' = Stream(c) /\ link'[c] = link[c] /\ unread'[c] = unread[c] /\ c # directClient'
        BY <1>0, <2>1, <2>3 DEF Stream, Flushed, Hung
      <3> QED BY <1>0, <1>1, <2>1, <3>1 DEF Kept, StreamWhole
    <2> QED BY <2>2, <2>3
  <1>4. CASE AcceptClient
    <2> DEFINE head == Head(waiting)
    <2>1. /\ ~Connected(directClient) /\ UNCHANGED <<unread, begun, typing>> /\ head \in Clients
          /\ IF Connected(head) THEN directClient' = head /\ buffer' = Empty /\ link' = Hung(directClient)
                                ELSE UNCHANGED <<directClient, buffer, link>>
      BY <1>0, <1>4, HeadTailProperties DEF AcceptClient, peers
    <2>2. CASE ~Connected(head)
      <3>1. UNCHANGED <<directClient, buffer, link, unread, begun, typing>> BY <2>1, <2>2
      <3> QED BY <1>0, <1>1, <3>1 DEF Kept, Stream, StreamWhole
    <2>3. CASE Connected(head)
      <3>1. head # directClient /\ directClient' = head /\ buffer' = <<>> /\ link' = Hung(directClient)
        BY <2>1, <2>3 DEF Empty
      <3>2. Stream(c)' = unread[c]
        <4>1. unread[c] \in Seq(Pieces) BY <1>0
        <4>2. <<>> \o unread[c] = unread[c] BY <4>1, ConcatEmptySeq
        <4> QED BY <2>1, <3>1, <4>2 DEF Stream
      <3>3. CASE c = directClient
        <4>1. unread[c] = <<>> /\ link'[c] = "closed" BY <1>0, <2>1, <3>1, <3>3 DEF Connected, Hung
        <4>2. Stream(c) \in Seq(Pieces) /\ Len(Stream(c)) \in Nat /\ Len(<<>>) + 0 <= Len(Stream(c))
          BY StreamType, LenProperties
        <4>3. <<>> \in Seq(Pieces) /\ 1 .. Len(<<>>) = {} OBVIOUS
        <4> QED BY <1>0, <2>1, <3>2, <4>1, <4>2, <4>3, StreamCut
      <3>4. CASE c # directClient
        <4>1. Stream(c)' = Stream(c) /\ link'[c] = link[c] BY <1>0, <3>1, <3>2, <3>4 DEF Stream, Hung
        <4>2. link[c] = "unused" => c # head
          BY <1>0, <2>3 DEF Connected, StreamWhole
        <4> QED BY <1>0, <1>1, <2>1, <3>1, <4>1, <4>2 DEF Kept, StreamWhole
      <3> QED BY <3>3, <3>4
    <2> QED BY <2>2, <2>3
  <1>5. CASE ReadPiece
    <2> DEFINE rest == unread[directClient]
    <2>1. /\ directClient \in Clients /\ rest \in Seq(Pieces) /\ rest # <<>>
          /\ unread' = [unread EXCEPT ![directClient] = Tail(rest)]
          /\ \/ buffer = <<>> /\ buffer' = <<rest[1]>>
             \/ buffer # <<>> /\ buffer' = <<>>
      BY <1>5, ReadPieceEffect
    <2>2. UNCHANGED <<directClient, link, begun, typing>> BY <1>5 DEF ReadPiece, peers
    <2>3. CASE c # directClient
      <3>1. unread'[c] = unread[c] BY <1>0, <2>1, <2>3
      <3>2. Stream(c)' = Stream(c) BY <2>2, <2>3, <3>1 DEF Stream
      <3> QED BY <1>0, <1>1, <2>2, <3>1, <3>2 DEF Kept, StreamWhole
    <2>4. CASE c = directClient
      <3>1. unread'[c] = Tail(rest) /\ Stream(c)' = buffer' \o Tail(rest) BY <1>0, <2>1, <2>2, <2>4 DEF Stream
      <3>2. /\ Tail(rest) \in Seq(Pieces) /\ Len(Tail(rest)) = Len(rest) - 1 /\ rest[1] \in Pieces
            /\ Len(rest) \in Nat /\ Len(rest) # 0
            /\ \A i \in 1 .. Len(Tail(rest)) : Tail(rest)[i] = rest[i + 1]
        BY <2>1, HeadTailProperties, ShortSeq, ElementOfSeq
      <3>3. CASE buffer = <<>> /\ buffer' = <<rest[1]>>
        <4>1. Stream(c) = rest BY <2>4, <3>3, StreamType
        <4>2. <<rest[1]>> \o Tail(rest) = rest BY <2>1, <3>2, HeadAndTail
        <4>3. Stream(c)' = Stream(c) BY <3>1, <3>3, <4>1, <4>2
        <4>4. link[c] # "unused" BY <1>0, <2>4 DEF StreamWhole
        <4> QED BY <1>0, <1>1, <2>2, <4>3, <4>4 DEF Kept
      <3>4. CASE buffer # <<>> /\ buffer' = <<>>
        <4> DEFINE part == Tail(rest)
        <4>1. Stream(c)' = part BY <3>1, <3>2, <3>4, ConcatEmptySeq
        <4>2. /\ Stream(c) \in Seq(Pieces) /\ Len(Stream(c)) = 1 + Len(rest) /\ Stream(c)[1] = buffer[1]
              /\ \A i \in 1 .. Len(rest) : Stream(c)[i + 1] = rest[i] /\ Stream(c) # <<>>
          BY <2>1, <2>4, <3>4, StreamType
        <4>3. Len(part) \in Nat /\ Len(part) + 2 = Len(Stream(c)) /\ Len(part) + 2 <= Len(Stream(c))
          <5>1. \A m, n, k \in Nat : n = m - 1 /\ m # 0 /\ k = 1 + m => n + 2 = k /\ n + 2 <= k OBVIOUS
          <5>2. Len(part) \in Nat /\ Len(Stream(c)) \in Nat BY <3>2, <4>2, LenProperties
          <5> QED BY <3>2, <4>2, <5>1, <5>2, Zenon
        <4>4. \A i \in 1 .. Len(part) : part[i] = Stream(c)[i + 2]
          <5> SUFFICES ASSUME NEW i \in 1 .. Len(part) PROVE part[i] = Stream(c)[i + 2]
            OBVIOUS
          <5>1. \A m, n \in Nat : n = m - 1 /\ m # 0 =>
                    \A j \in 1 .. n : j + 1 \in 1 .. m /\ (j + 1) + 1 = j + 2
            OBVIOUS
          <5>2. i + 1 \in 1 .. Len(rest) /\ (i + 1) + 1 = i + 2 BY <3>2, <4>3, <5>1, Zenon
          <5>3. part[i] = rest[i + 1] BY <3>2
          <5>4. Stream(c)[(i + 1) + 1] = rest[i + 1] BY <4>2, <5>2, Zenon
          <5> QED BY <5>2, <5>3, <5>4, Zenon
        <4>5. 1 \in DOMAIN Stream(c) /\ 1 + 1 \in DOMAIN Stream(c) /\ Stream(c)[1 + 1] = rest[1]
          <5>1. \A m, k \in Nat : m # 0 /\ k = 1 + m => 1 \in 1 .. k /\ 1 + 1 \in 1 .. k /\ 1 \in 1 .. m OBVIOUS
          <5>2. Len(Stream(c)) \in Nat /\ DOMAIN Stream(c) = 1 .. Len(Stream(c)) BY <4>2, LenProperties
          <5> QED BY <3>2, <4>2, <5>1, <5>2, Zenon
        <4>6. ~Stream(c)[1].last /\ rest[1].last
          <5>1. ~Stream(c)[1].last BY <1>0, <4>2 DEF StreamWhole, Ordered, Lines
          <5>2. Stream(c)[1 + 1] = Piece(Stream(c)[1].of, TRUE)
            BY <1>0, <4>5, <5>1 DEF StreamWhole, Ordered, Lines
          <5> QED BY <4>5, <5>1, <5>2 DEF Piece
        <4>7. part # <<>> => ~part[1].last
          <5> SUFFICES ASSUME part # <<>> PROVE ~part[1].last
            OBVIOUS
          <5>1. 1 \in 1 .. Len(part) /\ part[1] = rest[1 + 1]
            <6>1. \A n \in Nat : n # 0 => 1 \in 1 .. n OBVIOUS
            <6>2. Len(part) # 0 BY <3>2, ShortSeq
            <6> QED BY <3>2, <4>3, <6>1, <6>2, Zenon
          <5>2. part[1] = Stream(c)[1 + 2] BY <4>4, <5>1
          <5>3. (1 + 1) + 1 \in DOMAIN Stream(c) /\ (1 + 1) + 1 = 1 + 2
            <6>1. \A n, k \in Nat : 1 \in 1 .. n /\ n + 2 = k => (1 + 1) + 1 \in 1 .. k /\ (1 + 1) + 1 = 1 + 2 OBVIOUS
            <6>2. Len(Stream(c)) \in Nat /\ DOMAIN Stream(c) = 1 .. Len(Stream(c)) BY <4>2, LenProperties
            <6> QED BY <4>3, <5>1, <6>1, <6>2, Zenon
          <5> QED BY <1>0, <4>5, <4>6, <5>2, <5>3 DEF StreamWhole, Ordered, Lines
        <4>8. ASSUME link'[c] = "open", part = <<>> PROVE c \notin typing
          <5>1. Stream(c)[Len(Stream(c))] = rest[1]
            <6>1. \A n, k \in Nat : n = 0 /\ n + 2 = k => k = 1 + 1 OBVIOUS
            <6>2. Len(part) = 0 /\ Len(Stream(c)) \in Nat BY <3>2, <4>2, <4>8, ShortSeq, LenProperties
            <6>3. Len(Stream(c)) = 1 + 1 BY <4>3, <6>1, <6>2, Zenon
            <6> QED BY <4>5, <6>3
          <5> QED BY <1>0, <2>2, <4>6, <4>8, <5>1 DEF StreamWhole, EndsAsTyped
        <4>9. link[c] # "unused" BY <1>0, <2>4 DEF StreamWhole
        <4>10. 2 \in Nat OBVIOUS
        <4> QED BY <1>0, <2>2, <3>2, <4>1, <4>3, <4>4, <4>7, <4>8, <4>9, <4>10, StreamCut
      <3> QED BY <2>1, <3>3, <3>4
    <2> QED BY <2>3, <2>4
  <1>6. ASSUME NEW d \in Clients, Dial(d) PROVE StreamWhole(c)' /\ AgesKept(c)
    <2>1. /\ link[d] = "unused" /\ link' = [link EXCEPT ![d] = "open"]
          /\ UNCHANGED <<directClient, buffer, unread, begun, typing>>
      BY <1>6 DEF Dial, peers
    <2>2. CASE c # d BY <1>0, <1>1, <2>1, <2>2 DEF Kept, Stream, StreamWhole
    <2>3. CASE c = d
      <3>1. c \notin typing /\ Stream(c) = <<>> /\ Stream(c)' = <<>>
        BY <1>0, <2>1, <2>3 DEF StreamWhole, Stream
      <3>2. link'[c] = "open" BY <1>0, <2>1, <2>3
      <3>3. (c \notin typing)' /\ begun' = begun BY <2>1, <3>1
      <3>4. AgesKept(c) BY <3>1 DEF AgesKept
      <3> QED BY <1>0, <3>1, <3>2, <3>3, <3>4 DEF StreamWhole, EndsAsTyped
    <2> QED BY <2>2, <2>3
  <1>7. ASSUME NEW d \in Clients, Hangup(d) PROVE StreamWhole(c)' /\ AgesKept(c)
    <2>1. link' = [link EXCEPT ![d] = "closed"] /\ UNCHANGED <<directClient, buffer, unread, begun, typing>>
      BY <1>7 DEF Hangup, peers
    <2>2. link'[c] = link[c] \/ link'[c] = "closed" BY <1>0, <2>1
    <2> QED BY <1>0, <1>1, <2>1, <2>2 DEF Kept, Stream, StreamWhole
  <1>8. ASSUME NEW d \in Clients, Vanish(d) PROVE StreamWhole(c)' /\ AgesKept(c)
    BY <1>1, <1>2, <1>8 DEF Vanish
  <1>9. CASE GiveUp
    <2>1. PICK d \in written :
              /\ link' = [link EXCEPT ![d] = "closed"] /\ unread' = [unread EXCEPT ![d] = <<>>]
              /\ UNCHANGED <<directClient, buffer, begun, typing>>
      BY <1>9 DEF GiveUp, peers
    <2>2. CASE c # d
      <3>1. link'[c] = link[c] /\ unread'[c] = unread[c] BY <1>0, <2>1, <2>2
      <3>2. Stream(c)' = Stream(c) BY <2>1, <3>1 DEF Stream
      <3> QED BY <1>0, <1>1, <2>1, <3>1, <3>2 DEF Kept, StreamWhole
    <2>3. CASE c = d
      <3>1. link'[c] = "closed" /\ unread'[c] = <<>> BY <1>0, <2>1, <2>3
      <3> DEFINE part == IF c = directClient THEN buffer ELSE <<>>
      <3>2. buffer \in Seq(Pieces) /\ Stream(c) \in Seq(Pieces) /\ Len(Stream(c)) \in Nat
        BY StreamType, LenProperties
      <3>3. Stream(c)' = part /\ part \in Seq(Pieces)
        BY <2>1, <3>1, <3>2, ConcatEmptySeq, EmptySeq DEF Stream
      <3>4. /\ Len(part) + 0 <= Len(Stream(c)) /\ \A i \in 1 .. Len(part) : part[i] = Stream(c)[i + 0]
            /\ part # <<>> => ~part[1].last
        <4>1. CASE part = <<>>
          <5>1. Len(part) = 0 /\ 1 .. Len(part) = {} BY <4>1
          <5> QED BY <3>2, <4>1, <5>1
        <4>2. CASE part # <<>>
          <5>1. c = directClient /\ part = buffer /\ buffer # <<>> BY <4>2
          <5>2. Len(buffer) = 1 /\ Len(Stream(c)) = 1 + Len(unread[c]) /\ Stream(c)[1] = buffer[1]
            BY <5>1, StreamType
          <5>3. Len(unread[c]) \in Nat BY <1>0, LenProperties
          <5>4. 1 + 0 <= Len(Stream(c)) /\ Stream(c) # <<>> BY <3>2, <5>2, <5>3, EmptySeq
          <5>5. ~Stream(c)[1].last BY <1>0, <5>4 DEF StreamWhole, Ordered, Lines
          <5>6. \A i \in 1 .. 1 : i = 1 /\ i + 0 = 1 OBVIOUS
          <5> QED BY <5>1, <5>2, <5>4, <5>5, <5>6
        <4> QED BY <4>1, <4>2
      <3>5. 0 \in Nat OBVIOUS
      <3> HIDE DEF part
      <3> QED BY <1>0, <2>1, <3>1, <3>3, <3>4, <3>5, StreamCut
    <2> QED BY <2>2, <2>3
  <1>10. ASSUME NEW d \in Clients, SendPiece(d) PROVE StreamWhole(c)' /\ AgesKept(c)
    <2>1. CASE c = d BY <1>10, <2>1, StreamGrows
    <2>2. CASE c # d
      <3>1. PICK p \in Pieces :
                /\ unread' = [unread EXCEPT ![d] = Append(@, p)]
                /\ \/ typing' = typing \ {d} /\ begun' = begun
                   \/ typing' = typing \cup {d} /\ begun' = [begun EXCEPT ![d] = @ + 1]
        BY <1>10, SentPiece
      <3>2. c \in Senders /\ begun \in [Senders -> Nat] BY DEF Senders, WifiTypeOK
      <3>3. unread'[c] = unread[c] /\ begun'[c] = begun[c] /\ (c \in typing') = (c \in typing)
        BY <1>0, <2>2, <3>1, <3>2
      <3>4. UNCHANGED <<directClient, link, buffer>> BY <1>10 DEF SendPiece
      <3> QED BY <1>0, <1>1, <3>3, <3>4 DEF Kept, Stream, StreamWhole
    <2> QED BY <2>1, <2>2
  <1>11. CASE PublishCommand
    <2>1. UNCHANGED <<directClient, link, unread, buffer, typing>> /\ begun' = [begun EXCEPT ![Broker] = @ + 1]
      BY <1>11 DEF PublishCommand, BeginsCommand, conns
    <2>2. c \in Senders /\ begun \in [Senders -> Nat] BY DEF Senders, WifiTypeOK
    <2>3. begun'[c] = begun[c] BY <1>0, <2>1, <2>2
    <2> QED BY <1>0, <1>1, <2>1, <2>3 DEF Kept, Stream, StreamWhole
  <1>12. CASE UNCHANGED vars BY <1>1, <1>2, <1>12 DEF vars, peers
  <1>13. CASE Pass /\ ~StopClient /\ ~AcceptClient /\ ~ReadPiece
    BY <1>1, <1>2, <1>13
       DEF Pass, ServiceWifi, HandleMessage, ConnectMqtt, NoMessage, NoClient, ServeClient, NothingToRead,
           ProcessPending, NothingPending, PublishTelemetry, NoTelemetry, peers
  <1>14. CASE WifiUp \/ WifiDown \/ MqttDrops
    BY <1>1, <1>2, <1>14 DEF WifiUp, WifiDown, MqttDrops, peers
  <1> QED
    BY <1>3, <1>4, <1>5, <1>6, <1>7, <1>8, <1>9, <1>10, <1>11, <1>12, <1>13, <1>14 DEF Next, External

-----------------------------------------------------------------------------
(* Messages of the broker. *)

InboxAgesKept ==
    \A i \in DOMAIN inbox' :
        \/ \E j \in DOMAIN inbox : inbox'[i].number = inbox[j].number
        \/ inbox'[i].number > begun[Broker]

LEMMA InboxInductive ==
    ASSUME WifiTypeOK, InboxRising, [Next]_vars
    PROVE  InboxRising' /\ InboxAgesKept /\ \A s \in Senders : begun'[s] >= begun[s]
  <1>0. /\ begun \in [Senders -> Nat] /\ Broker \in Senders /\ inbox \in Seq(Commands)
        /\ \A c \in Clients : c \in Senders /\ c # Broker
        /\ \A s \in Senders : begun[s] \in Nat
    BY ClientsAssumption DEF WifiTypeOK, Senders
  <1>1. /\ Len(inbox) \in Nat /\ DOMAIN inbox = 1 .. Len(inbox) /\ (inbox = <<>> <=> Len(inbox) = 0)
        /\ \A i \in 1 .. Len(inbox) : inbox[i] \in Commands
    BY <1>0, ShortSeq
  <1>2. ASSUME UNCHANGED <<inbox, begun>> PROVE InboxRising' /\ InboxAgesKept /\ \A s \in Senders : begun'[s] >= begun[s]
    BY <1>0, <1>2 DEF InboxRising, InboxAgesKept
  <1>3. CASE HandleMessage
    <2> DEFINE n == Len(inbox)
    <2>1. inbox' = Tail(inbox) /\ inbox # <<>> /\ begun' = begun BY <1>3 DEF HandleMessage, peers
    <2>2. /\ Len(inbox') \in Nat /\ Len(inbox') = n - 1 /\ DOMAIN inbox' = 1 .. Len(inbox')
          /\ \A i \in 1 .. Len(inbox') : inbox'[i] = inbox[i + 1]
      BY <1>0, <2>1, HeadTailProperties, LenProperties
    <2> HIDE DEF n
    <2>3. \A i \in DOMAIN inbox' : i + 1 \in DOMAIN inbox /\ inbox'[i] = inbox[i + 1]
      <3>1. \A m, k \in Nat : k = m - 1 => \A i \in 1 .. k : i + 1 \in 1 .. m OBVIOUS
      <3> QED BY <1>1, <2>2, <3>1, Zenon DEF n
    <2>4. \A i, j \in DOMAIN inbox' : i < j => i + 1 < j + 1
      <3>1. \A k \in Nat : \A i, j \in 1 .. k : i < j => i + 1 < j + 1 OBVIOUS
      <3> QED BY <2>2, <3>1, Zenon
    <2>5. InboxRising' BY <2>1, <2>3, <2>4 DEF InboxRising
    <2>6. InboxAgesKept BY <2>3 DEF InboxAgesKept
    <2> QED BY <1>0, <2>1, <2>5, <2>6
  <1>4. CASE PublishCommand
    <2> DEFINE n == Len(inbox)
               k == [from |-> Broker, number |-> begun[Broker] + 1]
    <2>1. inbox' = Append(inbox, k) /\ begun' = [begun EXCEPT ![Broker] = @ + 1] /\ total < MaxCommands
      BY <1>4 DEF PublishCommand, BeginsCommand
    <2>2. k \in Commands
      <3>1. begun[Broker] <= total /\ total \in 0 .. MaxCommands /\ MaxCommands \in Nat
        BY <1>0, ClientsAssumption DEF WifiTypeOK
      <3>2. begun[Broker] + 1 \in 1 .. MaxCommands BY <1>0, <2>1, <3>1
      <3> QED BY <1>0, <3>2 DEF Commands
    <2>3. begun'[Broker] = begun[Broker] + 1 BY <1>0, <2>1
    <2>4. \A s \in Senders : begun'[s] >= begun[s] BY <1>0, <2>1
    <2>5. /\ DOMAIN inbox' = 1 .. n + 1 /\ inbox'[n + 1] = k /\ \A i \in 1 .. n : inbox'[i] = inbox[i]
      BY <1>0, <2>1, <2>2, AppendProperties, LenProperties
    <2>6. n \in Nat /\ DOMAIN inbox = 1 .. n BY <1>1
    <2> HIDE DEF n
    <2>7. \A i \in 1 .. n : inbox[i].from = Broker /\ inbox[i].number \in Nat /\ inbox[i].number <= begun[Broker]
      BY <1>1, <2>6 DEF InboxRising, Commands, n
    <2>8. k.from = Broker /\ k.number = begun[Broker] + 1 OBVIOUS
    <2> HIDE DEF k
    <2>9. ASSUME NEW i \in 1 .. n + 1 PROVE inbox'[i].from = Broker /\ inbox'[i].number <= begun'[Broker]
      <3>1. CASE i \in 1 .. n BY <1>0, <2>3, <2>5, <2>7, <3>1
      <3>2. CASE i = n + 1 BY <1>0, <2>3, <2>5, <2>8, <3>2
      <3> QED BY <2>6, <3>1, <3>2
    <2>10. ASSUME NEW i \in 1 .. n + 1, NEW j \in 1 .. n + 1, i < j PROVE inbox'[i].number < inbox'[j].number
      <3>1. i \in 1 .. n BY <2>6, <2>10
      <3>2. CASE j \in 1 .. n BY <2>5, <2>6, <2>10, <3>1, <3>2 DEF InboxRising
      <3>3. CASE j = n + 1 BY <1>0, <2>5, <2>7, <2>8, <3>1, <3>3
      <3> QED BY <2>6, <3>2, <3>3
    <2>11. InboxRising' BY <2>5, <2>9, <2>10 DEF InboxRising
    <2>12. InboxAgesKept
      <3> SUFFICES ASSUME NEW i \in 1 .. n + 1
                   PROVE  \/ \E j \in DOMAIN inbox : inbox'[i].number = inbox[j].number
                          \/ inbox'[i].number > begun[Broker]
        BY <2>5 DEF InboxAgesKept
      <3>1. CASE i \in 1 .. n BY <2>5, <2>6, <3>1
      <3>2. CASE i = n + 1 BY <1>0, <2>5, <2>8, <3>2
      <3> QED BY <2>6, <3>1, <3>2
    <2> QED BY <2>4, <2>11, <2>12
  <1>5. CASE MqttDrops
    <2>1. inbox' = <<>> /\ begun' = begun BY <1>5 DEF MqttDrops, peers
    <2>2. DOMAIN inbox' = {} BY <2>1
    <2> QED BY <1>0, <2>1, <2>2 DEF InboxRising, InboxAgesKept
  <1>6. ASSUME NEW c \in Clients, SendPiece(c) PROVE InboxRising' /\ InboxAgesKept /\ \A s \in Senders : begun'[s] >= begun[s]
    <2>1. begun' = begun \/ begun' = [begun EXCEPT ![c] = @ + 1] BY <1>6 DEF SendPiece, BeginsCommand
    <2>2. \A s \in Senders : begun'[s] >= begun[s] BY <1>0, <2>1
    <2>3. inbox' = inbox /\ begun'[Broker] = begun[Broker] BY <1>0, <1>6, <2>1 DEF SendPiece
    <2> QED BY <2>2, <2>3 DEF InboxRising, InboxAgesKept
  <1>7. CASE UNCHANGED vars BY <1>2, <1>7 DEF vars, peers
  <1>8. CASE Pass /\ ~HandleMessage
    BY <1>2, <1>8
       DEF Pass, ServiceWifi, ConnectMqtt, NoMessage, StopClient, AcceptClient, NoClient, ServeClient,
           ReadPiece, NothingToRead, ProcessPending, NothingPending, PublishTelemetry, NoTelemetry, peers
  <1>9. CASE WifiUp \/ WifiDown \/ GiveUp BY <1>2, <1>9 DEF WifiUp, WifiDown, GiveUp, peers
  <1>10. ASSUME NEW c \in Clients, Dial(c) \/ Hangup(c) \/ Vanish(c) PROVE UNCHANGED <<inbox, begun>>
    BY <1>10 DEF Dial, Hangup, Vanish, peers
  <1> QED BY <1>2, <1>3, <1>4, <1>5, <1>6, <1>7, <1>8, <1>9, <1>10 DEF Next, External

-----------------------------------------------------------------------------
(* The slot. *)

(* A step puts a command into the slot, takes one out, or leaves it alone.  *)
Queues(k) ==
    /\ QueueCommand(Text(k)) /\ UNCHANGED <<processed, answer, directClient>>
    /\ \/ HandleMessage /\ k = inbox[1] /\ k.from = Broker
       \/ ReadPiece /\ buffer # <<>> /\ k = buffer[1].of /\ k.from = directClient /\ pc' = pc

LEMMA SlotSteps ==
    ASSUME WifiTypeOK, StreamsWhole, InboxRising, SlotOwner, [Next]_vars
    PROVE  \/ \E k \in Commands : Queues(k)
           \/ ProcessPending
           \/ UNCHANGED <<pending, history>>
  <1>1. CASE HandleMessage
    <2>1. inbox \in Seq(Commands) /\ inbox # <<>> BY <1>1 DEF HandleMessage, WifiTypeOK
    <2>2. Head(inbox) = inbox[1] /\ 1 \in DOMAIN inbox /\ inbox[1] \in Commands
      <3>1. Head(inbox) = inbox[1] BY <2>1, HeadTailProperties
      <3>2. \A n \in Nat : n # 0 => 1 \in 1 .. n OBVIOUS
      <3>3. /\ Len(inbox) \in Nat /\ Len(inbox) # 0 /\ DOMAIN inbox = 1 .. Len(inbox)
            /\ \A i \in 1 .. Len(inbox) : inbox[i] \in Commands
        BY <2>1, ShortSeq
      <3>4. 1 \in 1 .. Len(inbox) BY <3>2, <3>3, Zenon
      <3> QED BY <3>1, <3>3, <3>4
    <2>3. inbox[1].from = Broker BY <2>2 DEF InboxRising
    <2> QED BY <1>1, <2>2, <2>3 DEF HandleMessage, Queues, conns
  <1>2. CASE ReadPiece
    <2>1. UNCHANGED <<pc, directClient, processed, answer>> BY <1>2 DEF ReadPiece
    <2>2. CASE UNCHANGED <<pending, overwritten>> BY <2>1, <2>2 DEF history
    <2>3. CASE ~UNCHANGED <<pending, overwritten>>
      <3>1. /\ directClient \in Clients /\ buffer # <<>> /\ buffer[1].of \in Commands
            /\ QueueCommand(Text(buffer[1].of))
        BY <1>2, <2>3, ReadPieceEffect
      <3>2. buffer[1].of.from = directClient
        <4>1. /\ Stream(directClient)[1] = buffer[1] /\ Stream(directClient) \in Seq(Pieces)
              /\ Len(Stream(directClient)) = 1 + Len(unread[directClient])
              /\ unread[directClient] \in Seq(Pieces)
          BY <3>1, StreamType
        <4>2. \A m \in Nat : 1 \in 1 .. 1 + m OBVIOUS
        <4>3. 1 \in DOMAIN Stream(directClient) BY <4>1, <4>2, LenProperties, Zenon
        <4> QED BY <3>1, <4>1, <4>3 DEF StreamsWhole, StreamWhole, Ordered, PiecesOf
      <3> QED BY <1>2, <2>1, <3>1, <3>2 DEF Queues
    <2> QED BY <2>2, <2>3
  <1>3. CASE UNCHANGED vars BY <1>3 DEF vars
  <1>4. CASE Pass /\ ~HandleMessage /\ ~ReadPiece
    BY <1>4
       DEF Pass, ServiceWifi, ConnectMqtt, NoMessage, StopClient, AcceptClient, NoClient, ServeClient,
           NothingToRead, NothingPending, PublishTelemetry, NoTelemetry
  <1>5. CASE External
    BY <1>5 DEF External, WifiUp, WifiDown, MqttDrops, GiveUp, PublishCommand, Dial, Hangup, Vanish, SendPiece
  <1> QED BY <1>1, <1>2, <1>3, <1>4, <1>5 DEF Next

(* What was older than everything on its way stays so. *)
LEMMA OlderKept ==
    ASSUME WifiTypeOK, SlotOwner, StreamsWhole, InboxRising, [Next]_vars,
           NEW k \in Commands, Older(k)
    PROVE  Older(k)'
  <1>1. (\A c \in Clients : StreamWhole(c)' /\ AgesKept(c)) BY StreamsInductive
  <1>2. InboxAgesKept /\ \A s \in Senders : begun'[s] >= begun[s] BY InboxInductive
  <1>3. k.number \in Nat /\ k.from \in Senders BY DEF Commands
  <1>4. begun[k.from] \in Nat BY <1>3 DEF WifiTypeOK
  <1>5. WifiTypeOK' BY TypeInductive
  <1>6. begun'[k.from] \in Nat BY <1>3, <1>5 DEF WifiTypeOK
  <1>7. k.number <= begun'[k.from] BY <1>2, <1>3, <1>4, <1>6 DEF Older
  <1>8. ASSUME k.from = Broker, NEW i \in DOMAIN inbox' PROVE k.number < inbox'[i].number
    <2>1. inbox'[i].number \in Nat
      <3>1. inbox' \in Seq(Commands) BY <1>5 DEF WifiTypeOK
      <3>2. inbox'[i] \in Commands BY <3>1, ElementOfSeq, LenProperties
      <3> QED BY <3>2 DEF Commands
    <2> QED BY <1>2, <1>3, <1>4, <1>8, <2>1 DEF InboxAgesKept, Older
  <1>9. ASSUME k.from \in Clients, NEW i \in DOMAIN Stream(k.from)' PROVE k.number < Stream(k.from)'[i].of.number
    <2>1. Stream(k.from)'[i].of.number \in Nat
      <3>1. StreamWhole(k.from)' BY <1>1, <1>9
      <3>2. Stream(k.from)'[i] \in Pieces BY <1>9, <3>1 DEF StreamWhole, Ordered, PiecesOf
      <3> QED BY <3>2 DEF Pieces, Commands
    <2>2. AgesKept(k.from) BY <1>1, <1>9
    <2> QED BY <1>3, <1>4, <1>9, <2>1, <2>2 DEF AgesKept, Older
  <1> QED BY <1>7, <1>8, <1>9 DEF Older

(* The command that comes into the slot is younger than those of its sender *)
(* that have been there, and older than everything still on its way.        *)
LEMMA QueuedCommand ==
    ASSUME WifiTypeOK, SlotOwner, StreamsWhole, InboxRising, NEW k \in Commands, Queues(k)
    PROVE  /\ Older(k)'
           /\ \A o \in Commands : Older(o) /\ o.from = k.from => o.number < k.number
  <1>0. k.number \in Nat /\ k.from \in Senders BY DEF Commands
  <1>1. CASE HandleMessage /\ k = inbox[1] /\ k.from = Broker
    <2>1. /\ inbox \in Seq(Commands) /\ inbox # <<>> /\ inbox' = Tail(inbox) /\ begun' = begun
      BY <1>1 DEF HandleMessage, WifiTypeOK, peers
    <2>2. Broker \notin Clients BY ClientsAssumption
    <2>3. 1 \in DOMAIN inbox /\ \A i \in DOMAIN inbox' : i + 1 \in DOMAIN inbox /\ inbox'[i] = inbox[i + 1] /\ 1 < i + 1
      <3>1. /\ Len(inbox) \in Nat /\ Len(inbox) # 0 /\ DOMAIN inbox = 1 .. Len(inbox)
            /\ Len(inbox') \in Nat /\ Len(inbox') = Len(inbox) - 1 /\ DOMAIN inbox' = 1 .. Len(inbox')
            /\ \A i \in 1 .. Len(inbox') : inbox'[i] = inbox[i + 1]
        BY <2>1, ShortSeq, HeadTailProperties, LenProperties
      <3>2. \A m, n \in Nat : m # 0 /\ n = m - 1 =>
                1 \in 1 .. m /\ \A i \in 1 .. n : i + 1 \in 1 .. m /\ 1 < i + 1
        OBVIOUS
      <3>3. 1 \in 1 .. Len(inbox) /\ \A i \in 1 .. Len(inbox') : i + 1 \in 1 .. Len(inbox) /\ 1 < i + 1
        BY <3>1, <3>2, Zenon
      <3> QED BY <3>1, <3>3, Zenon
    <2>4. \A i \in DOMAIN inbox' : k.number < inbox'[i].number BY <1>1, <2>3 DEF InboxRising
    <2>5. k.number <= begun[Broker] BY <1>1, <2>3 DEF InboxRising
    <2>6. Older(k)' BY <1>1, <2>1, <2>2, <2>4, <2>5 DEF Older
    <2>7. \A o \in Commands : Older(o) /\ o.from = k.from => o.number < k.number
      BY <1>1, <2>3 DEF Older
    <2> QED BY <2>6, <2>7
  <1>2. CASE ReadPiece /\ buffer # <<>> /\ k = buffer[1].of /\ k.from = directClient
    <2> DEFINE c == directClient
               rest == unread[c]
    <2>1. /\ c \in Clients /\ rest \in Seq(Pieces) /\ rest # <<>> /\ buffer' = <<>>
          /\ unread' = [unread EXCEPT ![c] = Tail(rest)]
      BY <1>2, ReadPieceEffect
    <2>2. begun' = begun /\ directClient' = c /\ c # Broker /\ unread \in [Clients -> Seq(Pieces)]
      BY <1>2, <2>1, ClientsAssumption DEF ReadPiece, peers, WifiTypeOK
    <2>3. /\ Tail(rest) \in Seq(Pieces) /\ Len(rest) \in Nat /\ Len(rest) # 0
          /\ Len(Tail(rest)) \in Nat /\ Len(Tail(rest)) = Len(rest) - 1 /\ DOMAIN Tail(rest) = 1 .. Len(Tail(rest))
          /\ \A i \in 1 .. Len(Tail(rest)) : Tail(rest)[i] = rest[i + 1]
      BY <2>1, ShortSeq, HeadTailProperties, LenProperties
    <2>4. Stream(c)' = Tail(rest)
      <3>1. Stream(c)' = buffer' \o unread'[c] BY <2>2 DEF Stream
      <3>2. unread'[c] = Tail(rest) BY <2>1, <2>2
      <3>3. <<>> \o Tail(rest) = Tail(rest) BY <2>3, ConcatEmptySeq
      <3> QED BY <2>1, <3>1, <3>2, <3>3
    <2>5. /\ Stream(c) \in Seq(Pieces) /\ Len(Stream(c)) = 1 + Len(rest) /\ Stream(c)[1] = buffer[1]
          /\ \A i \in 1 .. Len(rest) : Stream(c)[i + 1] = rest[i]
          /\ DOMAIN Stream(c) = 1 .. Len(Stream(c)) /\ Len(Stream(c)) \in Nat /\ Stream(c) # <<>>
      BY <1>2, <2>1, StreamType, LenProperties
    <2>6. /\ 1 \in DOMAIN Stream(c)
          /\ \A i \in DOMAIN Stream(c)' : (i + 1) + 1 \in DOMAIN Stream(c) /\ Stream(c)'[i] = Stream(c)[(i + 1) + 1]
      <3>1. \A m, n, l \in Nat : m # 0 /\ n = m - 1 /\ l = 1 + m =>
                1 \in 1 .. l /\ \A i \in 1 .. n : i + 1 \in 1 .. m /\ (i + 1) + 1 \in 1 .. l
        OBVIOUS
      <3>2. 1 \in 1 .. Len(Stream(c)) /\ \A i \in 1 .. Len(Tail(rest)) : i + 1 \in 1 .. Len(rest) /\ (i + 1) + 1 \in 1 .. Len(Stream(c))
        BY <2>3, <2>5, <3>1, Zenon
      <3> HIDE DEF rest
      <3>3. \A i \in 1 .. Len(Tail(rest)) : Tail(rest)[i] = Stream(c)[(i + 1) + 1]
        BY <2>3, <2>5, <3>2, Zenon
      <3> QED BY <2>3, <2>4, <2>5, <3>2, <3>3, Zenon
    <2>7. StreamWhole(c) BY <2>1 DEF StreamsWhole
    <2>8. \A i \in DOMAIN Stream(c) : i # 1 /\ i # 1 + 1 => k.number < Stream(c)[i].of.number
      \* The second piece is the end of k's line; each later one begins, or ends, a later line.
      <3> SUFFICES ASSUME NEW i \in DOMAIN Stream(c), i # 1, i # 1 + 1
                   PROVE  Stream(c)[1].of.number < Stream(c)[i].of.number
        BY <1>2, <2>5
      <3>1. i \in Nat /\ 1 < i /\ i - 1 \in DOMAIN Stream(c) /\ (i - 1) + 1 = i /\ 1 < i - 1
        <4>1. \A m \in Nat : \A j \in 1 .. m : j # 1 /\ j # 1 + 1 =>
                  j \in Nat /\ 1 < j /\ j - 1 \in 1 .. m /\ (j - 1) + 1 = j /\ 1 < j - 1
          OBVIOUS
        <4> QED BY <2>5, <4>1, Zenon
      <3>2. CASE ~Stream(c)[i].last BY <2>6, <2>7, <3>1, <3>2 DEF StreamWhole, Ordered, Rising
      <3>3. CASE Stream(c)[i].last
        <4>1. ~Stream(c)[i - 1].last /\ Stream(c)[i] = Piece(Stream(c)[i - 1].of, TRUE)
          BY <2>7, <3>1, <3>3 DEF StreamWhole, Ordered, Lines
        <4>2. Stream(c)[1].of.number < Stream(c)[i - 1].of.number
          BY <2>6, <2>7, <3>1, <4>1 DEF StreamWhole, Ordered, Rising
        <4> QED BY <4>1, <4>2 DEF Piece
      <3> QED BY <3>2, <3>3
    <2>9. \A i \in DOMAIN Stream(c)' : k.number < Stream(c)'[i].of.number
      <3>1. \A i \in DOMAIN Stream(c)' : (i + 1) + 1 # 1 /\ (i + 1) + 1 # 1 + 1
        <4>1. \A m \in Nat : \A i \in 1 .. m : (i + 1) + 1 # 1 /\ (i + 1) + 1 # 1 + 1 OBVIOUS
        <4> QED BY <2>3, <2>4, <4>1, Zenon
      <3> QED BY <2>6, <2>8, <3>1
    <2>10. k.number <= begun[c] BY <1>2, <2>5, <2>6, <2>7 DEF StreamWhole
    <2>11. Older(k)' BY <1>2, <2>2, <2>9, <2>10 DEF Older
    <2>12. \A o \in Commands : Older(o) /\ o.from = k.from => o.number < k.number
      BY <1>2, <2>1, <2>5, <2>6 DEF Older
    <2> QED BY <2>11, <2>12
  <1> QED BY <1>1, <1>2 DEF Queues

LEMMA SlotInductive ==
    ASSUME WifiInv, [Next]_vars
    PROVE  WholeCommands' /\ SlotRising' /\ AnswerType' /\ AnswerReachesSender'
  <1>0. WifiTypeOK /\ SlotOwner /\ StreamsWhole /\ InboxRising /\ WholeCommands /\ SlotRising /\ AnswerType /\ AnswerReachesSender
    BY DEF WifiInv
  <1>1. \A k \in Commands : Older(k) => Older(k)' BY <1>0, OlderKept
  <1>2. \A t \in Passed \cup Slot : CommandOf(t) \in Commands /\ Older(CommandOf(t)) /\ t \in Texts
    BY <1>0, OneOfTexts DEF WholeCommands, SlotRising, Passed, Slot
  <1>3. CASE \E k \in Commands : Queues(k)
    <2>1. PICK k \in Commands : Queues(k) BY <1>3
    <2>2. /\ pending' = Text(k) /\ pending' # Empty /\ CommandOf(pending') = k /\ pending' \in Texts
          /\ processed' = processed /\ answer' = answer
          /\ overwritten' = IF pending = Empty THEN overwritten ELSE overwritten \cup {pending}
      BY <2>1, TextFacts DEF Queues, QueueCommand
    <2>3. Passed' = Passed \cup Slot /\ Slot' = {pending'} BY <2>2 DEF Passed, Slot
    <2>4. Older(k)' /\ \A o \in Commands : Older(o) /\ o.from = k.from => o.number < k.number
      BY <1>0, <2>1, QueuedCommand
    <2>5. \A t \in Passed' \cup Slot' : Older(CommandOf(t))'
      <3>1. \A t \in Passed' : Older(CommandOf(t))' BY <1>1, <1>2, <2>3
      <3>2. \A t \in Slot' : Older(CommandOf(t))' BY <2>2, <2>3, <2>4
      <3> QED BY <3>1, <3>2
    <2>6. \A t \in Passed' : CommandOf(t).from = k.from => CommandOf(t).number < k.number
      BY <1>2, <2>3, <2>4
    <2>7. SlotRising' BY <2>2, <2>5, <2>6 DEF SlotRising, CommandOf
    <2>8. WholeCommands' BY <1>0, <1>2, <2>2, <2>3 DEF WholeCommands, Passed, Slot
    <2>9. AnswerType' /\ AnswerReachesSender' BY <1>0, <2>2 DEF AnswerType, AnswerReachesSender
    <2> QED BY <2>7, <2>8, <2>9
  <1>4. CASE ProcessPending
    <2>1. /\ pc = "process" /\ pending # Empty /\ pending' = Empty /\ overwritten' = overwritten
          /\ processed' = processed \cup {pending} /\ answer' = [of |-> pending, to |-> Receivers]
      BY <1>4 DEF ProcessPending
    <2>2. Slot' = {} /\ Passed' = Passed \cup Slot BY <2>1 DEF Passed, Slot
    <2>3. SlotRising'
      <3>1. \A t \in Passed' \cup Slot' : Older(CommandOf(t))' BY <1>1, <1>2, <2>2
      <3> QED BY <2>1, <3>1 DEF SlotRising, CommandOf
    <2>4. WholeCommands' BY <1>0, <1>2, <2>1, <2>2 DEF WholeCommands, Passed, Slot
    <2>5. Receivers \subseteq Senders /\ Receivers \cap Clients \subseteq {directClient}
      BY <1>0, ClientsAssumption DEF Receivers, Senders, Connected, WifiTypeOK
    <2>6. AnswerType' BY <1>2, <2>1, <2>5 DEF AnswerType, Slot
    <2>7. CommandOf(pending).from \in {Broker, directClient} BY <1>0, <2>1 DEF SlotOwner
    <2>8. AnswerReachesSender' BY <2>1, <2>5, <2>7, ClientsAssumption DEF AnswerReachesSender, CommandOf
    <2> QED BY <2>3, <2>4, <2>6, <2>8
  <1>5. CASE UNCHANGED <<pending, history>>
    <2>1. UNCHANGED <<pending, processed, overwritten, answer>> BY <1>5 DEF history
    <2>2. Passed' = Passed /\ Slot' = Slot BY <2>1 DEF Passed, Slot
    <2>3. \A t \in Passed' \cup Slot' : Older(CommandOf(t))' BY <1>1, <1>2, <2>2
    <2>4. SlotRising' BY <1>0, <2>1, <2>2, <2>3 DEF SlotRising, CommandOf
    <2> QED BY <1>0, <2>1, <2>4 DEF WholeCommands, AnswerType, AnswerReachesSender
  <1> QED BY <1>0, <1>3, <1>4, <1>5, SlotSteps

LEMMA OwnerInductive ==
    ASSUME WifiInv, [Next]_vars
    PROVE  SlotOwner'
  <1>0. WifiTypeOK /\ SlotOwner /\ StreamsWhole /\ InboxRising BY DEF WifiInv
  <1>1. CASE \E k \in Commands : Queues(k)
    <2>1. PICK k \in Commands : Queues(k) BY <1>1
    <2>2. pending' = Text(k) /\ CommandOf(pending') = k /\ directClient' = directClient
      BY <2>1, TextFacts DEF Queues, QueueCommand
    <2>3. CASE HandleMessage /\ k.from = Broker
      <3>1. pc' = "direct" BY <2>3 DEF HandleMessage
      <3> QED BY <2>2, <2>3, <3>1 DEF SlotOwner
    <2>4. CASE ReadPiece /\ k.from = directClient /\ pc' = pc
      <3>1. pc = "reading" BY <2>4 DEF ReadPiece
      <3>2. pc' = "reading" BY <2>4, <3>1
      <3> QED BY <1>0, <2>2, <2>4, <3>1, <3>2 DEF SlotOwner, CommandOf
    <2> QED BY <2>1, <2>3, <2>4 DEF Queues
  <1>2. CASE ProcessPending BY <1>2 DEF ProcessPending, SlotOwner
  <1>3. CASE UNCHANGED <<pending, history>>
    <2>1. pending' = pending BY <1>3
    <2>2. CASE Pass
      <3>1. CASE HandleMessage \/ ReadPiece
        <4>1. CASE HandleMessage BY <1>0, <2>1, <4>1 DEF HandleMessage, SlotOwner, CommandOf
        <4>2. CASE ReadPiece
          <5>1. UNCHANGED <<pc, directClient>> BY <4>2 DEF ReadPiece
          <5> QED BY <1>0, <2>1, <5>1 DEF SlotOwner, CommandOf
        <4> QED BY <3>1, <4>1, <4>2
      <3>2. CASE ~HandleMessage /\ ~ReadPiece
        BY <1>0, <2>1, <2>2, <3>2
           DEF Pass, ServiceWifi, ConnectMqtt, NoMessage, StopClient, AcceptClient, NoClient, ServeClient,
               NothingToRead, ProcessPending, NothingPending, PublishTelemetry, NoTelemetry, conns, SlotOwner,
               CommandOf, Connected
      <3> QED BY <3>1, <3>2
    <2>3. CASE External \/ UNCHANGED vars
      <3>1. UNCHANGED <<pc, directClient>>
        BY <2>3 DEF External, WifiUp, WifiDown, MqttDrops, GiveUp, PublishCommand, Dial, Hangup, Vanish,
                    SendPiece, conns, vars
      <3> QED BY <1>0, <2>1, <3>1 DEF SlotOwner, CommandOf
    <2> QED BY <2>2, <2>3 DEF Next
  <1> QED BY <1>0, <1>1, <1>2, <1>3, SlotSteps

-----------------------------------------------------------------------------
LEMMA InvInitial == Init => WifiInv
  <1> SUFFICES ASSUME Init PROVE WifiInv
    OBVIOUS
  <1>1. WifiTypeOK BY TypeInitial
  <1>2. /\ pending = Empty /\ processed = {} /\ overwritten = {} /\ directClient = Nobody /\ inbox = <<>>
        /\ pc = "wifi" /\ typing = {} /\ (\A c \in Clients : unread[c] = <<>> /\ link[c] = "unused")
        /\ answer.of = Empty /\ answer.to = {}
    BY DEF Init
  <1>3. Nobody \notin Clients BY ClientsAssumption
  <1>4. \A c \in Clients : Stream(c) = <<>> BY <1>2, <1>3 DEF Stream
  <1>5. StreamsWhole
    <2> SUFFICES ASSUME NEW c \in Clients PROVE StreamWhole(c)
      BY DEF StreamsWhole
    <2>1. Stream(c) = <<>> /\ DOMAIN <<>> = {} BY <1>4
    <2> QED BY <1>2, <1>3, <2>1 DEF StreamWhole, Ordered, PiecesOf, Lines, Rising
  <1>6. InboxRising
    <2>1. DOMAIN inbox = {} BY <1>2
    <2> QED BY <2>1 DEF InboxRising
  <1>7. WholeCommands /\ SlotRising /\ SlotOwner /\ AnswerType /\ AnswerReachesSender
    BY <1>2 DEF WholeCommands, SlotRising, SlotOwner, Passed, Slot, AnswerType, AnswerReachesSender
  <1> QED BY <1>1, <1>5, <1>6, <1>7 DEF WifiInv

LEMMA InvInductive == WifiInv /\ [Next]_vars => WifiInv'
  <1> SUFFICES ASSUME WifiInv, [Next]_vars PROVE WifiInv'
    OBVIOUS
  <1>0. WifiTypeOK /\ SlotOwner /\ StreamsWhole /\ InboxRising BY DEF WifiInv
  <1>1. WifiTypeOK' BY <1>0, TypeInductive
  <1>2. StreamsWhole' BY <1>0, StreamsInductive DEF StreamsWhole
  <1>3. InboxRising' BY <1>0, InboxInductive
  <1>4. WholeCommands' /\ SlotRising' /\ AnswerType' /\ AnswerReachesSender' BY SlotInductive
  <1>5. SlotOwner' BY OwnerInductive
  <1> QED BY <1>1, <1>2, <1>3, <1>4, <1>5 DEF WifiInv

THEOREM WifiInvariant == Spec => []WifiInv
  BY InvInitial, InvInductive, PTL DEF Spec

(* Every variable of the transport keeps its type: at most the begin of one *)
(* line is in directInputBuffer_, and no sender has begun more commands     *)
(* than there are.                                                          *)
THEOREM WifiTypeCorrect == Spec => []WifiTypeOK
  <1>1. WifiInv => WifiTypeOK BY DEF WifiInv
  <1> QED BY <1>1, WifiInvariant, PTL

(* Whatever connections come and go in the middle of a line, what comes     *)
(* into pendingCommand_ is one line of one sender.                          *)
THEOREM CommandsStayWhole == Spec => []WholeCommands
  <1>1. WifiInv => WholeCommands BY DEF WifiInv
  <1> QED BY <1>1, WifiInvariant, PTL

(* The answer publishResponseLines() writes to a direct client is for the   *)
(* command of that very connection.                                         *)
THEOREM AnswersGoHome == Spec => []AnswerReachesSender
  <1>1. WifiInv => AnswerReachesSender BY DEF WifiInv
  <1> QED BY <1>1, WifiInvariant, PTL

(* processPendingCommand() takes no command twice, none that was replaced   *)
(* in the slot, and those of one sender in the order it sent them.          *)
THEOREM CommandsInOrder == Spec => InOrder
  <1>1. WifiInv /\ [Next]_vars => [InOrderStep]_vars
    <2> SUFFICES ASSUME WifiInv, pc = "process", pending # Empty
                 PROVE  /\ pending \notin overwritten
                        /\ \A done \in processed :
                              done[1].of.from = pending[1].of.from => done[1].of.number < pending[1].of.number
      BY DEF InOrderStep
    <2>1. pending \in Texts /\ \A t \in Passed :
             CommandOf(t).from = CommandOf(pending).from => CommandOf(t).number < CommandOf(pending).number
      BY DEF WifiInv, WholeCommands, SlotRising
    <2>2. CommandOf(pending).number \in Nat BY <2>1, OneOfTexts DEF Commands
    <2>3. ~(CommandOf(pending).number < CommandOf(pending).number) BY <2>2
    <2> QED BY <2>1, <2>3 DEF Passed, CommandOf
  <1> QED BY <1>1, WifiInvariant, PTL DEF Spec, InOrder
=============================================================================
