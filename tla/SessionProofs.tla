--------------------------- MODULE SessionProofs ---------------------------
(* What was recorded is on the disk (RecordIsComplete), the buttons end up  *)
(* agreeing with the link (ControlsFollowLink) and summaries cover their    *)
(* files (SummaryCoversRecord), for every set of packets and every bound.   *)
(* The invariant relates the buffers to the files of the session that is    *)
(* open, logger.id, and leaves those of the others nothing to wait for.     *)
EXTENDS Session, SequenceTheorems, FiniteSetTheorems, TLAPS

LoggerType == [enabled : BOOLEAN, id : Seconds, open : SUBSET {"telemetry", "events"},
               rows : Seq(Packets), notes : Seq(Notable)]
FileType == [rows : Seq(Packets), notes : Seq(Notable), summary : Statistics \cup {NoSummary}]
RecordType == [rows : Seq(Packets), notes : Seq(Notable), failed : SUBSET {"rows", "notes"},
               ended : BOOLEAN, reset : BOOLEAN, spoiled : BOOLEAN, lost : BOOLEAN, kept : Nat]
WindowType == [phase : {"idle", "lines", "events", "ended"}, controls : BOOLEAN, canLog : BOOLEAN,
               connect : {"Connect", "Disconnect"}, logging : {"Start Logging", "Stop Logging"}]

Told == {"CONNECTED", "DISCONNECTED", "ERROR"}
Doings == {"", "opening", "was up", "was down"} \cup Told
LinkType == [connected : BOOLEAN, doing : [Threads -> Doings], lines : Seq(Packets \cup {Damaged}),
             events : Seq(Told), last : {"told", "crossed", "silent"}]
WorldType == [second : Seconds, full : BOOLEAN, inputs : Nat, manager : Managers]

(* The part of the type invariant that recording rests on. *)
LogTypes ==
    /\ logger \in LoggerType /\ disk \in [Seconds -> FileType] /\ record \in [Seconds -> RecordType]
    /\ window \in WindowType /\ stats \in Statistics
    /\ world \in WorldType /\ link \in LinkType

(* The rows of a file, and those in its buffer, against what was recorded.  *)
RowsAgree(file, told, pending) ==
    /\ told.kept <= Len(file.rows)
    /\ IF told.lost THEN IsPrefix(file.rows, told.rows) /\ pending = <<>>
                    ELSE file.rows \o pending = told.rows

(* The files of sessions that are not open hold what they should; those of  *)
(* the open one do with the buffers, which are empty unless a write failed. *)
RecordInv ==
    /\ \A s \in Seconds \ {logger.id} :
          /\ record[s].failed = {}
          /\ ~record[s].spoiled => RowsAgree(disk[s], record[s], <<>>) /\ disk[s].notes = record[s].notes
    /\ ~record[logger.id].spoiled =>
          /\ RowsAgree(disk[logger.id], record[logger.id], logger.rows)
          /\ disk[logger.id].notes \o logger.notes = record[logger.id].notes
          /\ "rows" \notin record[logger.id].failed => logger.rows = <<>>
          /\ "notes" \notin record[logger.id].failed => logger.notes = <<>>
    /\ ~logger.enabled => logger.rows = <<>> /\ logger.notes = <<>> /\ record[logger.id].failed = {}
    /\ logger.enabled => (record[logger.id].lost <=> "telemetry" \notin logger.open)
    /\ Recording /\ window.phase # "ended" => logger.enabled
    /\ logger.enabled => Recording \/ record[logger.id].spoiled

SessionInv == LogTypes /\ RecordInv

-----------------------------------------------------------------------------
(* Appending associates with concatenation.                                 *)
LEMMA Appended ==
  ASSUME NEW S, NEW a \in Seq(S), NEW b \in Seq(S), NEW x \in S
  PROVE  /\ a \o Append(b, x) = Append(a \o b, x)
         /\ Append(b, x) \in Seq(S) /\ a \o b \in Seq(S)
  <1>1. <<x>> \in Seq(S) /\ a \o b \in Seq(S) OBVIOUS
  <1>2. Append(b, x) = b \o <<x>> BY AppendIsConcat
  <1>3. Append(a \o b, x) = (a \o b) \o <<x>> BY <1>1, AppendIsConcat
  <1>4. (a \o b) \o <<x>> = a \o (b \o <<x>>) BY <1>1, ConcatAssociative
  <1> QED BY <1>1, <1>2, <1>3, <1>4

(* The same, for provers that need the quantifiers.                         *)
LEMMA EachAppended ==
  /\ \A a, b \in Seq(Packets) : \A x \in Packets : a \o Append(b, x) = Append(a \o b, x)
  /\ \A a, b \in Seq(Notable) : \A x \in Notable : a \o Append(b, x) = Append(a \o b, x)
  <1>1. \A a, b \in Seq(Packets) : \A x \in Packets : a \o Append(b, x) = Append(a \o b, x)
    BY Appended
  <1>2. \A a, b \in Seq(Notable) : \A x \in Notable : a \o Append(b, x) = Append(a \o b, x)
    BY Appended
  <1> QED BY <1>1, <1>2

(* A note or row that goes through the buffer, to the file or not.          *)
LEMMA Passed ==
  ASSUME NEW S, NEW onDisk \in Seq(S), NEW buffer \in Seq(S), NEW x \in S
  PROVE  /\ onDisk \o Append(buffer, x) = Append(onDisk \o buffer, x)
         /\ (onDisk \o Append(buffer, x)) \o <<>> = Append(onDisk \o buffer, x)
         /\ onDisk \o <<>> = onDisk
         /\ Append(buffer, x) \in Seq(S) /\ onDisk \o Append(buffer, x) \in Seq(S)
  <1>1. onDisk \o Append(buffer, x) = Append(onDisk \o buffer, x) BY Appended
  <1>2. Append(buffer, x) \in Seq(S) BY Appended
  <1>3. onDisk \o Append(buffer, x) \in Seq(S) BY <1>2, ConcatProperties
  <1> QED BY <1>1, <1>2, <1>3, ConcatEmptySeq

(* A sequence is a prefix of what it is extended to, by another or by one.  *)
LEMMA Extended ==
  ASSUME NEW S, NEW a \in Seq(S), NEW b \in Seq(S)
  PROVE  IsPrefix(a, a \o b) /\ \A x \in S : IsPrefix(a, b) => IsPrefix(a, Append(b, x))
  <1> DEFINE n == Len(a)
  <1>1. n \in Nat /\ Len(b) \in Nat /\ 1 \in 1 .. n + 1 BY LenProperties
  <1>2. ASSUME NEW t \in Seq(S), n <= Len(t), \A i \in 1 .. n : t[i] = a[i] PROVE IsPrefix(a, t)
    <2> DEFINE start == SubSeq(t, 1, n)
    <2>1. Len(t) \in Nat /\ n \in 0 .. Len(t) BY <1>1, <1>2, LenProperties
    <2>2. start \in Seq(S) /\ Len(start) = n /\ \A i \in 1 .. n : start[i] = t[i]
      <3>1. 1 \in 1 .. Len(t) + 1 /\ n \in 1 - 1 .. Len(t) BY <2>1
      <3>2. /\ start \in Seq(S) /\ Len(start) = IF 1 <= n THEN n - 1 + 1 ELSE 0
            /\ \A i \in 1 .. n - 1 + 1 : start[i] = t[1 + i - 1]
        <4> HIDE DEF n
        <4> QED BY <3>1, SubSeqProperties
      <3> HIDE DEF start
      <3> QED BY <1>1, <3>2
    <2> HIDE DEF start
    <2>3. start = a BY <1>2, <2>2, SeqEqual
    <2>4. SubSeq(a, 1, n) = a BY SubSeqFull
    <2> QED BY <1>2, <2>3, <2>4 DEF IsPrefix, start
  <1>3. IsPrefix(a, a \o b)
    <2>1. a \o b \in Seq(S) /\ Len(a \o b) = n + Len(b) /\ \A i \in 1 .. n : (a \o b)[i] = a[i]
      BY <1>1, ConcatProperties
    <2>2. n <= Len(a \o b) BY <1>1, <2>1
    <2> QED BY <1>2, <2>1, <2>2
  <1>4. ASSUME NEW x \in S, IsPrefix(a, b) PROVE IsPrefix(a, Append(b, x))
    <2> DEFINE more == Append(b, x)
    <2>1. more \in Seq(S) /\ Len(more) = Len(b) + 1 /\ \A i \in 1 .. Len(b) : more[i] = b[i]
      BY AppendProperties
    <2>2. n <= Len(b) /\ SubSeq(b, 1, n) = a
      <3>1. SubSeq(a, 1, n) = a BY SubSeqFull
      <3> QED BY <1>4, <3>1 DEF IsPrefix
    <2>3. \A i \in 1 .. n : b[i] = a[i]
      <3>1. 1 \in 1 .. Len(b) + 1 /\ n \in 1 - 1 .. Len(b) BY <1>1, <2>2
      <3>2. \A i \in 1 .. n - 1 + 1 : SubSeq(b, 1, n)[i] = b[1 + i - 1]
        <4> HIDE DEF n
        <4> QED BY <3>1, SubSeqProperties
      <3> QED BY <1>1, <2>2, <3>2
    <2>4. n <= Len(more) /\ \A i \in 1 .. n : more[i] = a[i] BY <1>1, <2>1, <2>2, <2>3
    <2> HIDE DEF more
    <2>5. IsPrefix(a, more) BY <1>2, <2>1, <2>4
    <2> QED BY <2>5 DEF more
  <1> QED BY <1>3, <1>4

-----------------------------------------------------------------------------
(* What a call of the logger does. *)

(* A row: nothing while logging is off, an exception once close() has       *)
(* failed, buffered on a full disk, else written.                           *)
LEMMA RowLogged ==
  ASSUME LogTypes, NEW packet \in Packets, Keeps(LogTelemetry(Now, packet))
  PROVE  /\ ~logger.enabled => logger' = logger /\ disk' = disk /\ ~LogTelemetry(Now, packet).raised
         /\ logger.enabled /\ "telemetry" \notin logger.open =>
               logger' = logger /\ disk' = disk /\ LogTelemetry(Now, packet).raised
         /\ logger.enabled /\ "telemetry" \in logger.open /\ world.full =>
               /\ logger' = [logger EXCEPT !.rows = Append(logger.rows, packet)] /\ disk' = disk
               /\ LogTelemetry(Now, packet).raised
         /\ logger.enabled /\ "telemetry" \in logger.open /\ ~world.full =>
               /\ logger' = [logger EXCEPT !.rows = <<>>]
               /\ disk' = [disk EXCEPT ![logger.id].rows =
                              disk[logger.id].rows \o Append(logger.rows, packet)]
               /\ ~LogTelemetry(Now, packet).raised
  BY DEF Keeps, LogTelemetry, Now, FlushedRows, LogTypes, LoggerType

(* A note likewise.                                                         *)
LEMMA NoteLogged ==
  ASSUME LogTypes, NEW note \in Notable, NEW s, s = LogEvent(Now, note)
  PROVE  /\ ~logger.enabled => s.log = logger /\ s.disk = disk /\ ~s.raised
         /\ logger.enabled /\ world.full =>
               /\ s.log = [logger EXCEPT !.notes = Append(logger.notes, note)] /\ s.disk = disk
               /\ s.raised
         /\ logger.enabled /\ ~world.full =>
               /\ s.log = [logger EXCEPT !.notes = <<>>]
               /\ s.disk = [disk EXCEPT ![logger.id].notes =
                              disk[logger.id].notes \o Append(logger.notes, note)]
               /\ ~s.raised
  BY DEF LogEvent, Now, FlushedNotes, LogTypes, LoggerType

(* A row that is logged passes through its buffer, and nothing else moves.   *)
LEMMA RowPasses ==
  ASSUME LogTypes, logger.enabled, "telemetry" \in logger.open, NEW packet \in Packets,
         Keeps(LogTelemetry(Now, packet))
  PROVE  LET id == logger.id
         IN  /\ logger'.id = id /\ logger'.enabled /\ logger'.notes = logger.notes /\ logger' \in LoggerType
             /\ logger'.open = logger.open
             /\ disk' \in [Seconds -> FileType] /\ disk'[id].notes = disk[id].notes
             /\ \A s \in Seconds \ {id} : disk'[s] = disk[s]
             /\ disk'[id].rows \o logger'.rows = Append(disk[id].rows \o logger.rows, packet)
             /\ ~LogTelemetry(Now, packet).raised => logger'.rows = <<>>
             /\ LogTelemetry(Now, packet).raised => disk' = disk
  <1> DEFINE id == logger.id  file == disk[id]  logged == LogTelemetry(Now, packet)
  <1>0. /\ LogTypes /\ id \in Seconds /\ file \in FileType /\ logger \in LoggerType
    BY DEF LogTypes, LoggerType
  <1> DEFINE through == file.rows \o Append(logger.rows, packet)
  <1>1. /\ Append(logger.rows, packet) \in Seq(Packets) /\ through \in Seq(Packets)
        /\ through = Append(file.rows \o logger.rows, packet) /\ through \o <<>> = through
    <2>1. file.rows \in Seq(Packets) /\ logger.rows \in Seq(Packets)
      BY <1>0, Zenon DEF LoggerType, FileType
    <2>2. Append(logger.rows, packet) \in Seq(Packets) BY <2>1, Appended
    <2>3. through \in Seq(Packets) BY <2>1, <2>2, ConcatProperties
    <2>4. through = Append(file.rows \o logger.rows, packet)
      BY <2>1, EachAppended, Zenon
    <2> HIDE DEF through
    <2>5. through \o <<>> = through BY <2>3, ConcatEmptySeq
    <2> QED BY <2>2, <2>3, <2>4, <2>5
  <1>2. /\ logger'.id = id /\ logger'.enabled /\ logger'.notes = logger.notes /\ logger' \in LoggerType
        /\ logger'.open = logger.open
        /\ disk' \in [Seconds -> FileType] /\ disk'[id].notes = file.notes
        /\ \A s \in Seconds \ {id} : disk'[s] = disk[s]
        /\ disk'[id].rows \o logger'.rows = through
        /\ ~logged.raised => logger'.rows = <<>>
        /\ logged.raised => disk' = disk
    <2> HIDE DEF through
    <2>1. CASE world.full
      <3>1. logger' = [logger EXCEPT !.rows = Append(logger.rows, packet)] /\ disk' = disk /\ logged.raised
        BY <1>0, <2>1, RowLogged
      <3> QED BY <1>0, <1>1, <3>1 DEF LoggerType, FileType, LogTypes, through
    <2>2. CASE ~world.full
      <3>1. /\ logger' = [logger EXCEPT !.rows = <<>>] /\ disk' = [disk EXCEPT ![id].rows = through]
            /\ ~logged.raised
        BY <1>0, <2>2, RowLogged DEF through
      <3>2. logger'.rows = <<>> /\ disk'[id].rows = through BY <1>0, <3>1 DEF LoggerType, FileType, LogTypes
      <3>3. disk'[id].rows \o logger'.rows = through BY <1>1, <3>2
      <3>4. disk' \in [Seconds -> FileType] /\ disk'[id].notes = file.notes
            /\ \A s \in Seconds \ {id} : disk'[s] = disk[s]
        BY <1>0, <1>1, <3>1 DEF FileType, LogTypes
      <3>5. /\ logger'.id = id /\ logger'.enabled /\ logger'.notes = logger.notes
            /\ logger' \in LoggerType /\ logger'.open = logger.open
        <4>1. <<>> \in Seq(Packets) BY EmptySeq
        <4> QED BY <1>0, <3>1, <4>1 DEF LoggerType
      <3> QED BY <3>1, <3>2, <3>3, <3>4, <3>5, Zenon
    <2> QED BY <2>1, <2>2
  <1> QED BY <1>1, <1>2 DEF through

(* So does a note.                                                          *)
LEMMA NotePasses ==
  ASSUME LogTypes, logger.enabled, NEW note \in Notable, Keeps(LogEvent(Now, note))
  PROVE  LET id == logger.id
         IN  /\ logger'.id = id /\ logger'.enabled /\ logger'.rows = logger.rows /\ logger' \in LoggerType
             /\ logger'.open = logger.open
             /\ disk' \in [Seconds -> FileType] /\ disk'[id].rows = disk[id].rows
             /\ \A s \in Seconds \ {id} : disk'[s] = disk[s]
             /\ disk'[id].notes \o logger'.notes = Append(disk[id].notes \o logger.notes, note)
             /\ ~LogEvent(Now, note).raised => logger'.notes = <<>>
  <1> DEFINE id == logger.id  file == disk[id]  logged == LogEvent(Now, note)
  <1>0. /\ LogTypes /\ id \in Seconds /\ file \in FileType /\ logger \in LoggerType
    BY DEF LogTypes, LoggerType
  <1> DEFINE through == file.notes \o Append(logger.notes, note)
  <1>1. /\ Append(logger.notes, note) \in Seq(Notable) /\ through \in Seq(Notable)
        /\ through = Append(file.notes \o logger.notes, note) /\ through \o <<>> = through
    <2>1. file.notes \in Seq(Notable) /\ logger.notes \in Seq(Notable)
      BY <1>0, Zenon DEF LoggerType, FileType
    <2>2. Append(logger.notes, note) \in Seq(Notable) BY <2>1, Appended
    <2>3. through \in Seq(Notable) BY <2>1, <2>2, ConcatProperties
    <2>4. through = Append(file.notes \o logger.notes, note)
      BY <2>1, EachAppended, Zenon
    <2> HIDE DEF through
    <2>5. through \o <<>> = through BY <2>3, ConcatEmptySeq
    <2> QED BY <2>2, <2>3, <2>4, <2>5
  <1>2. /\ logger'.id = id /\ logger'.enabled /\ logger'.rows = logger.rows /\ logger' \in LoggerType
        /\ logger'.open = logger.open
        /\ disk' \in [Seconds -> FileType] /\ disk'[id].rows = file.rows
        /\ \A s \in Seconds \ {id} : disk'[s] = disk[s]
        /\ disk'[id].notes \o logger'.notes = through
        /\ ~logged.raised => logger'.notes = <<>>
    <2> HIDE DEF through
    <2>1. CASE world.full
      <3>1. logger' = [logger EXCEPT !.notes = Append(logger.notes, note)] /\ disk' = disk /\ logged.raised
        BY <1>0, <2>1, NoteLogged DEF Keeps
      <3> QED BY <1>0, <1>1, <3>1 DEF LoggerType, FileType, LogTypes, through
    <2>2. CASE ~world.full
      <3>1. /\ logger' = [logger EXCEPT !.notes = <<>>] /\ disk' = [disk EXCEPT ![id].notes = through]
            /\ ~logged.raised
        BY <1>0, <2>2, NoteLogged DEF through, Keeps
      <3>2. logger'.notes = <<>> /\ disk'[id].notes = through BY <1>0, <3>1 DEF LoggerType, FileType, LogTypes
      <3>3. disk'[id].notes \o logger'.notes = through BY <1>1, <3>2
      <3>4. disk' \in [Seconds -> FileType] /\ disk'[id].rows = file.rows
            /\ \A s \in Seconds \ {id} : disk'[s] = disk[s]
        BY <1>0, <1>1, <3>1 DEF FileType, LogTypes
      <3>5. /\ logger'.id = id /\ logger'.enabled /\ logger'.rows = logger.rows
            /\ logger' \in LoggerType /\ logger'.open = logger.open
        <4>1. <<>> \in Seq(Notable) BY EmptySeq
        <4> QED BY <1>0, <3>1, <4>1 DEF LoggerType
      <3> QED BY <3>2, <3>3, <3>4, <3>5, Zenon
    <2> QED BY <2>1, <2>2
  <1> QED BY <1>1, <1>2 DEF through

-----------------------------------------------------------------------------
(* Rows and notes keep the invariant. *)

(* A row, logged or not, leaves files and buffers to hold the record.       *)
LEMMA RowKeeps ==
  ASSUME SessionInv, NEW packet \in Packets, Keeps(LogTelemetry(Now, packet)),
         record' = RecordedRow(packet, LogTelemetry(Now, packet)),
         window.phase # "ended", window'.logging = window.logging
  PROVE  RecordInv' /\ logger' \in LoggerType /\ disk' \in [Seconds -> FileType]
         /\ record' \in [Seconds -> RecordType]
  <1> DEFINE id == logger.id  file == disk[id]  told == record[id]  logged == LogTelemetry(Now, packet)
  <1>0. /\ LogTypes /\ RecordInv /\ id \in Seconds /\ file \in FileType /\ told \in RecordType
        /\ logger \in LoggerType
    BY DEF SessionInv, LogTypes, LoggerType
  <1>1. CASE ~logger.enabled
    <2>1. logger' = logger /\ disk' = disk BY <1>0, <1>1, RowLogged
    <2>2. record' = record BY <1>0, <1>1 DEF RecordInv, RecordedRow
    <2> QED BY <1>0, <2>1, <2>2 DEF RecordInv, Recording, LogTypes
  <1>2. CASE logger.enabled
    <2> DEFINE through == Append(file.rows \o logger.rows, packet)
    <2>1. /\ logger'.id = id /\ logger'.enabled /\ logger'.notes = logger.notes /\ logger' \in LoggerType
          /\ logger'.open = logger.open
          /\ disk' \in [Seconds -> FileType] /\ disk'[id].notes = file.notes
          /\ \A s \in Seconds \ {id} : disk'[s] = disk[s]
      <3>1. CASE "telemetry" \in logger.open BY <1>0, <1>2, <3>1, RowPasses
      <3>2. CASE "telemetry" \notin logger.open
        <4>1. logger' = logger /\ disk' = disk BY <1>0, <1>2, <3>2, RowLogged
        <4> QED BY <1>0, <1>2, <4>1 DEF LogTypes
      <3> QED BY <3>1, <3>2
    <2>2. CASE ~Recording
      <3>1. record' = record /\ told.spoiled BY <1>0, <1>2, <2>2 DEF RecordInv, RecordedRow
      <3> QED BY <1>0, <1>2, <2>1, <2>2, <3>1 DEF RecordInv, Recording, LogTypes
    <2>3. CASE Recording
      <3> HIDE DEF through
      <3> DEFINE rows == Append(told.rows, packet)
                 failed == (told.failed \ {"rows"}) \cup Fails("rows", logged)
                 kept == IF logged.raised THEN told.kept ELSE Len(rows)
                 next == [told EXCEPT !.rows = rows, !.failed = failed, !.kept = kept]
      <3>1. record' = [record EXCEPT ![id] = next] BY <2>3, Zenon DEF RecordedRow
      <3>2. rows \in Seq(Packets) /\ Len(rows) \in Nat BY <1>0 DEF RecordType
      <3>3. /\ record' \in [Seconds -> RecordType] /\ \A s \in Seconds \ {id} : record'[s] = record[s]
            /\ record'[id].rows = rows /\ record'[id].notes = told.notes
            /\ record'[id].spoiled = told.spoiled /\ record'[id].failed = failed
            /\ record'[id].lost = told.lost /\ record'[id].kept = kept
        <4>1. failed \in SUBSET {"rows", "notes"} BY <1>0 DEF RecordType, Fails
        <4>2. kept \in Nat BY <1>0, <3>2 DEF RecordType
        <4> HIDE DEF failed, kept, rows
        <4>3. /\ next \in RecordType /\ next.rows = rows /\ next.notes = told.notes
              /\ next.spoiled = told.spoiled /\ next.failed = failed
              /\ next.lost = told.lost /\ next.kept = kept
          BY <1>0, <3>2, <4>1, <4>2 DEF RecordType
        <4> HIDE DEF next
        <4> QED BY <1>0, <3>1, <4>3 DEF LogTypes
      <3>4. /\ "notes" \notin failed => "notes" \notin told.failed
            /\ "rows" \notin failed => ~logged.raised
        BY DEF Fails
      <3>5. told.lost <=> "telemetry" \notin logger.open BY <1>0, <1>2 DEF RecordInv
      <3>6. ASSUME ~told.spoiled
            PROVE  RowsAgree(disk'[id], record'[id], logger'.rows) /\ (~logged.raised => logger'.rows = <<>>)
        <4>1. RowsAgree(file, told, logger.rows) BY <1>0, <3>6 DEF RecordInv
        <4>2. CASE "telemetry" \in logger.open
          <5>1. /\ disk'[id].rows \o logger'.rows = through
                /\ ~logged.raised => logger'.rows = <<>>
                /\ logged.raised => disk'[id] = file
            BY <1>0, <1>2, <4>2, RowPasses DEF through
          <5>2. ~told.lost /\ file.rows \o logger.rows = told.rows /\ told.kept <= Len(file.rows)
            BY <3>5, <4>1, <4>2 DEF RowsAgree
          <5>3. through = rows BY <5>2 DEF through
          <5>4. kept <= Len(disk'[id].rows)
            <6>1. CASE logged.raised BY <5>1, <5>2, <6>1
            <6>2. CASE ~logged.raised
              <7>1. disk'[id].rows \in Seq(Packets) BY <1>0, <2>1 DEF FileType
              <7>2. disk'[id].rows \o <<>> = disk'[id].rows BY <7>1, ConcatEmptySeq
              <7>3. disk'[id].rows = rows BY <5>1, <5>3, <6>2, <7>2
              <7> QED BY <3>2, <6>2, <7>3
            <6> QED BY <6>1, <6>2
          <5> HIDE DEF kept, rows
          <5> QED BY <3>3, <5>1, <5>2, <5>3, <5>4 DEF RowsAgree
        <4>3. CASE "telemetry" \notin logger.open
          <5>1. logger' = logger /\ disk' = disk /\ logged.raised BY <1>0, <1>2, <4>3, RowLogged
          <5>2. told.lost /\ IsPrefix(file.rows, told.rows) /\ told.kept <= Len(file.rows) /\ logger.rows = <<>>
            BY <3>5, <4>1, <4>3 DEF RowsAgree
          <5>3. file.rows \in Seq(Packets) /\ told.rows \in Seq(Packets) BY <1>0 DEF FileType, RecordType
          <5>4. IsPrefix(file.rows, rows) BY <5>2, <5>3, Extended
          <5>5. kept = told.kept BY <5>1
          <5> HIDE DEF kept, rows
          <5> QED BY <3>3, <5>1, <5>2, <5>4, <5>5 DEF RowsAgree
        <4> QED BY <4>2, <4>3
      <3> HIDE DEF kept, rows, failed
      <3>7. \A s \in Seconds \ {logger'.id} :
               /\ record'[s].failed = {}
               /\ ~record'[s].spoiled =>
                     RowsAgree(disk'[s], record'[s], <<>>) /\ disk'[s].notes = record'[s].notes
        BY <1>0, <2>1, <3>3 DEF RecordInv
      <3>8. ~told.spoiled =>
               /\ RowsAgree(disk'[id], record'[id], logger'.rows)
               /\ disk'[id].notes \o logger'.notes = record'[id].notes
               /\ "rows" \notin record'[id].failed => logger'.rows = <<>>
               /\ "notes" \notin record'[id].failed => logger'.notes = <<>>
        BY <1>0, <2>1, <3>3, <3>4, <3>6 DEF RecordInv
      <3> QED BY <2>1, <2>3, <3>3, <3>5, <3>7, <3>8 DEF RecordInv, Recording
    <2> QED BY <2>2, <2>3
  <1> QED BY <1>1, <1>2

(* So does a note.                                                          *)
LEMMA NoteKeeps ==
  ASSUME SessionInv, NEW note \in Notable, Keeps(LogEvent(Now, note)),
         record' = RecordedNote(note, LogEvent(Now, note)),
         window.phase # "ended", window'.logging = window.logging
  PROVE  RecordInv' /\ logger' \in LoggerType /\ disk' \in [Seconds -> FileType]
         /\ record' \in [Seconds -> RecordType]
  <1> DEFINE id == logger.id  file == disk[id]  told == record[id]  logged == LogEvent(Now, note)
  <1>0. /\ LogTypes /\ RecordInv /\ id \in Seconds /\ file \in FileType /\ told \in RecordType
        /\ logger \in LoggerType
    BY DEF SessionInv, LogTypes, LoggerType
  <1>1. CASE ~logger.enabled
    <2>1. logger' = logger /\ disk' = disk BY <1>0, <1>1, NoteLogged DEF Keeps
    <2>2. record' = record BY <1>0, <1>1 DEF RecordInv, RecordedNote
    <2> QED BY <1>0, <2>1, <2>2 DEF RecordInv, Recording, LogTypes
  <1>2. CASE logger.enabled
    <2> DEFINE through == Append(file.notes \o logger.notes, note)
    <2>2. /\ logger'.id = id /\ logger'.enabled /\ logger'.rows = logger.rows /\ logger' \in LoggerType
          /\ logger'.open = logger.open
          /\ disk' \in [Seconds -> FileType] /\ disk'[id].rows = file.rows
          /\ \A s \in Seconds \ {id} : disk'[s] = disk[s]
          /\ disk'[id].notes \o logger'.notes = through
          /\ ~logged.raised => logger'.notes = <<>>
      BY <1>0, <1>2, NotePasses
    <2>3. CASE ~Recording
      <3>1. record' = record /\ told.spoiled BY <1>0, <1>2, <2>3 DEF RecordInv, RecordedNote
      <3> QED BY <1>0, <1>2, <2>2, <2>3, <3>1 DEF RecordInv, Recording, LogTypes
    <2>4. CASE Recording
      <3> HIDE DEF through
      <3> DEFINE failed == (told.failed \ {"notes"}) \cup Fails("notes", logged)
                 next == [told EXCEPT !.notes = Append(told.notes, note), !.failed = failed]
      <3>1. record' = [record EXCEPT ![id] = next] BY <2>4, Zenon DEF RecordedNote
      <3>2. /\ record' \in [Seconds -> RecordType] /\ \A s \in Seconds \ {id} : record'[s] = record[s]
            /\ record'[id].notes = Append(told.notes, note) /\ record'[id].rows = told.rows
            /\ record'[id].spoiled = told.spoiled /\ record'[id].failed = failed
            /\ record'[id].lost = told.lost /\ record'[id].kept = told.kept
        <4>1. Append(told.notes, note) \in Seq(Notable) BY <1>0 DEF RecordType
        <4>2. failed \in SUBSET {"notes", "rows"} BY <1>0 DEF RecordType, Fails
        <4> HIDE DEF failed
        <4>3. /\ next \in RecordType /\ next.notes = Append(told.notes, note) /\ next.rows = told.rows
              /\ next.spoiled = told.spoiled /\ next.failed = failed
              /\ next.lost = told.lost /\ next.kept = told.kept
          BY <1>0, <4>1, <4>2 DEF RecordType
        <4> HIDE DEF next
        <4> QED BY <1>0, <3>1, <4>3 DEF LogTypes
      <3>3. /\ "notes" \notin record'[id].failed => logger'.notes = <<>>
            /\ "rows" \notin record'[id].failed => "rows" \notin told.failed
        BY <2>2, <3>2 DEF Fails
      <3>4. ~told.spoiled => through = Append(told.notes, note)
        BY <1>0 DEF RecordInv, through
      <3>5. \A s \in Seconds \ {logger'.id} :
               /\ record'[s].failed = {}
               /\ ~record'[s].spoiled =>
                     disk'[s].notes = record'[s].notes /\ RowsAgree(disk'[s], record'[s], <<>>)
        BY <1>0, <2>2, <3>2 DEF RecordInv
      <3>6. ~told.spoiled =>
               /\ disk'[id].notes \o logger'.notes = record'[id].notes
               /\ RowsAgree(disk'[id], record'[id], logger'.rows)
               /\ "notes" \notin record'[id].failed => logger'.notes = <<>>
               /\ "rows" \notin record'[id].failed => logger'.rows = <<>>
        BY <1>0, <2>2, <3>2, <3>3, <3>4 DEF RecordInv, RowsAgree
      <3>7. told.lost <=> "telemetry" \notin logger.open BY <1>0, <1>2 DEF RecordInv
      <3> QED BY <2>2, <2>4, <3>2, <3>5, <3>6, <3>7 DEF RecordInv, Recording
    <2> QED BY <2>3, <2>4
  <1> QED BY <1>1, <1>2

-----------------------------------------------------------------------------
(* stop() keeps it, whether it succeeds, or fails at the note, the summary  *)
(* or close().                                                              *)

(* One file of one second is written, and nothing else changes.             *)
RowsSet(files, id, v) == [files EXCEPT ![id].rows = v]
NotesSet(files, id, v) == [files EXCEPT ![id].notes = v]
SummarySet(files, id, v) == [files EXCEPT ![id].summary = v]

(* Its rows are written.                                                    *)
LEMMA RowsWritten ==
  ASSUME NEW files \in [Seconds -> FileType], NEW id \in Seconds, NEW v \in Seq(Packets)
  PROVE  /\ RowsSet(files, id, v) \in [Seconds -> FileType]
         /\ \A t \in Seconds \ {id} : RowsSet(files, id, v)[t] = files[t]
         /\ RowsSet(files, id, v)[id].rows = v
         /\ RowsSet(files, id, v)[id].notes = files[id].notes
  <1> DEFINE new == [files[id] EXCEPT !.rows = v]
  <1>1. new \in FileType /\ new.rows = v /\ new.notes = files[id].notes
    BY DEF FileType
  <1>2. RowsSet(files, id, v) = [files EXCEPT ![id] = new] BY DEF RowsSet
  <1> HIDE DEF new
  <1> QED BY <1>1, <1>2

(* Its notes are written.                                                   *)
LEMMA NotesWritten ==
  ASSUME NEW files \in [Seconds -> FileType], NEW id \in Seconds, NEW v \in Seq(Notable)
  PROVE  /\ NotesSet(files, id, v) \in [Seconds -> FileType]
         /\ \A t \in Seconds \ {id} : NotesSet(files, id, v)[t] = files[t]
         /\ NotesSet(files, id, v)[id].notes = v
         /\ NotesSet(files, id, v)[id].rows = files[id].rows
  <1> DEFINE new == [files[id] EXCEPT !.notes = v]
  <1>1. new \in FileType /\ new.notes = v /\ new.rows = files[id].rows
    BY DEF FileType
  <1>2. NotesSet(files, id, v) = [files EXCEPT ![id] = new] BY DEF NotesSet
  <1> HIDE DEF new
  <1> QED BY <1>1, <1>2

(* Its summary is written.                                                  *)
LEMMA SummaryWritten ==
  ASSUME NEW files \in [Seconds -> FileType], NEW id \in Seconds, NEW v \in Statistics \cup {NoSummary}
  PROVE  /\ SummarySet(files, id, v) \in [Seconds -> FileType]
         /\ \A t \in Seconds \ {id} : SummarySet(files, id, v)[t] = files[t]
         /\ SummarySet(files, id, v)[id].rows = files[id].rows
         /\ SummarySet(files, id, v)[id].notes = files[id].notes
         /\ SummarySet(files, id, v)[id].summary = v
  <1> DEFINE new == [files[id] EXCEPT !.summary = v]
  <1>1. new \in FileType /\ new.summary = v /\ new.rows = files[id].rows /\ new.notes = files[id].notes
    BY DEF FileType
  <1>2. SummarySet(files, id, v) = [files EXCEPT ![id] = new] BY DEF SummarySet
  <1> HIDE DEF new
  <1> QED BY <1>1, <1>2

(* The note passes as any other; what remains is the step after it. *)
LEMMA StopNotes ==
  ASSUME LogTypes, logger.enabled, NEW s \in Stops
  PROVE  LET through == disk[logger.id].notes \o Append(logger.notes, "SESSION_END")
         IN  \/ /\ world.full /\ s.raised /\ s.disk = disk
                /\ s.log = [logger EXCEPT !.notes = Append(logger.notes, "SESSION_END")]
             \/ /\ ~world.full /\ s.disk \in [Seconds -> FileType]
                /\ \A t \in Seconds \ {logger.id} : s.disk[t] = disk[t]
                /\ s.disk[logger.id].notes = through
                /\ \/ /\ s.raised /\ s.log = [logger EXCEPT !.notes = <<>>]
                      /\ s.disk[logger.id].rows = disk[logger.id].rows
                   \/ /\ s.raised /\ s.disk[logger.id].rows = disk[logger.id].rows
                      /\ s.log = [logger EXCEPT !.notes = <<>>, !.rows = <<>>, !.open = {"events"}]
                   \/ /\ ~s.raised
                      /\ s.log = [enabled |-> FALSE, id |-> logger.id, open |-> {}, rows |-> <<>>,
                                  notes |-> <<>>]
                      /\ s.disk[logger.id].rows = disk[logger.id].rows \o logger.rows
                      /\ s.disk[logger.id].summary = Summary
  <1> DEFINE id == logger.id
             through == disk[id].notes \o Append(logger.notes, "SESSION_END")
             noted == LogEvent(Now, "SESSION_END")
  <1>0. id \in Seconds /\ logger \in LoggerType /\ disk \in [Seconds -> FileType]
    BY DEF LogTypes, LoggerType
  <1>1. CASE world.full
    <2>1. noted.raised /\ noted.disk = disk
          /\ noted.log = [logger EXCEPT !.notes = Append(logger.notes, "SESSION_END")]
      BY <1>1 DEF LogEvent, Now, LoggerType, LogTypes
    <2>2. s = noted BY <2>1 DEF Stops
    <2> QED BY <1>1, <2>1, <2>2
  <1>2. CASE ~world.full
    <2>1. noted = [log |-> [logger EXCEPT !.notes = <<>>],
                   disk |-> [disk EXCEPT ![id].notes = through], raised |-> FALSE]
      BY <1>0, <1>2 DEF LogEvent, Now, FlushedNotes, LoggerType, FileType
    <2>2. s = Closed(noted) \/ s = Unsummed(noted) \/ s = HalfClosed(noted) BY <2>1 DEF Stops
    <2>3. through \in Seq(Notable)
      <3>1. disk[id].notes \in Seq(Notable) /\ logger.notes \in Seq(Notable) /\ "SESSION_END" \in Notable
        BY <1>0 DEF LoggerType, FileType, Notable
      <3> QED BY <3>1, Passed
    <2>4. /\ noted.disk \in [Seconds -> FileType] /\ noted.disk[id].notes = through
          /\ noted.disk[id].rows = disk[id].rows
          /\ \A t \in Seconds \ {id} : noted.disk[t] = disk[t]
      <3> HIDE DEF through, noted, id
      <3>1. noted.disk = NotesSet(disk, id, through) BY <2>1 DEF NotesSet
      <3> QED BY <1>0, <2>3, <3>1, NotesWritten
    <2>5. /\ noted.log.id = id /\ noted.log = [logger EXCEPT !.notes = <<>>]
          /\ noted.log.notes = <<>> /\ noted.log.rows = logger.rows
      BY <1>0, <2>1 DEF LoggerType
    <2>6. CASE s = Unsummed(noted)
      <3>1. /\ s.raised /\ s.log = noted.log
            /\ s.disk = SummarySet(noted.disk, id, NoSummary)
        BY <2>1, <2>6 DEF Unsummed, SummarySet
      <3> HIDE DEF noted, through
      <3>2. /\ s.disk \in [Seconds -> FileType] /\ s.disk[id].notes = through
            /\ s.disk[id].rows = disk[id].rows
            /\ \A t \in Seconds \ {id} : s.disk[t] = disk[t]
        <4> HIDE DEF id
        <4>1. NoSummary \in Statistics \cup {NoSummary} OBVIOUS
        <4>2. /\ s.disk \in [Seconds -> FileType] /\ \A t \in Seconds \ {id} : s.disk[t] = noted.disk[t]
              /\ s.disk[id].notes = noted.disk[id].notes /\ s.disk[id].rows = noted.disk[id].rows
          BY <1>0, <2>4, <3>1, <4>1, SummaryWritten
        <4> QED BY <2>4, <4>2
      <3> QED BY <1>2, <2>5, <3>1, <3>2 DEF through
    <2>7. CASE s = HalfClosed(noted)
      <3>1. /\ s.raised /\ s.disk = SummarySet(noted.disk, id, Summary)
            /\ s.log = [logger EXCEPT !.notes = <<>>, !.rows = <<>>, !.open = {"events"}]
        <4>1. s = [noted EXCEPT !.disk[id].summary = Summary, !.raised = TRUE,
                                !.log.rows = <<>>, !.log.open = {"events"}]
          BY <2>7 DEF HalfClosed
        <4>2. noted.log = [logger EXCEPT !.notes = <<>>] /\ noted.log \in LoggerType
          <5>1. <<>> \in Seq(Notable) BY EmptySeq
          <5> QED BY <1>0, <2>5, <5>1 DEF LoggerType
        <4> DEFINE log == [noted.log EXCEPT !.rows = <<>>, !.open = {"events"}]
                   files == [noted.disk EXCEPT ![id].summary = Summary]
        <4>3. s.raised /\ s.log = log /\ s.disk = files
          <5>1. noted = [log |-> noted.log, disk |-> noted.disk, raised |-> FALSE] BY <2>1
          <5> HIDE DEF noted, through, id
          <5> QED BY <4>1, <5>1
        <4>4. log = [logger EXCEPT !.notes = <<>>, !.rows = <<>>, !.open = {"events"}]
          <5> HIDE DEF noted
          <5> QED BY <1>0, <4>2 DEF LoggerType
        <4> HIDE DEF noted, through, id, log
        <4> QED BY <4>3, <4>4 DEF SummarySet
      <3>2. Summary \in Statistics BY DEF LogTypes, Statistics, Summary
      <3> HIDE DEF noted, through
      <3>3. /\ s.disk \in [Seconds -> FileType] /\ s.disk[id].notes = through
            /\ s.disk[id].rows = disk[id].rows
            /\ \A t \in Seconds \ {id} : s.disk[t] = disk[t]
        <4> HIDE DEF id
        <4>1. Summary \in Statistics \cup {NoSummary} BY <3>2
        <4> DEFINE summary == Summary
        <4>2. summary \in Statistics \cup {NoSummary} /\ s.disk = SummarySet(noted.disk, id, summary)
          BY <3>1, <4>1
        <4> HIDE DEF summary
        <4>3. /\ s.disk \in [Seconds -> FileType] /\ \A t \in Seconds \ {id} : s.disk[t] = noted.disk[t]
              /\ s.disk[id].notes = noted.disk[id].notes /\ s.disk[id].rows = noted.disk[id].rows
          BY <1>0, <2>4, <4>2, SummaryWritten
        <4> QED BY <2>4, <4>3
      <3> QED BY <1>2, <3>1, <3>3 DEF through
    <2>8. CASE s = Closed(noted)
      <3> DEFINE flushed == Flushed(noted)
                 allRows == disk[id].rows \o logger.rows
      <3>1. allRows \in Seq(Packets) /\ through \o <<>> = through
        <4>1. disk[id].rows \in Seq(Packets) /\ logger.rows \in Seq(Packets)
          BY <1>0 DEF LoggerType, FileType
        <4> QED BY <2>3, <4>1, ConcatProperties, ConcatEmptySeq
      <3> DEFINE once == [noted.disk EXCEPT ![id].rows = allRows]
      <3>2. flushed = [log |-> [logger EXCEPT !.notes = <<>>, !.rows = <<>>],
                       disk |-> [once EXCEPT ![id].notes = through], raised |-> FALSE]
        <4>1. flushed = [noted EXCEPT !.disk[id].rows = noted.disk[id].rows \o noted.log.rows,
                                      !.disk[id].notes = noted.disk[id].notes \o noted.log.notes,
                                      !.log.rows = <<>>, !.log.notes = <<>>]
          BY <2>5 DEF Flushed
        <4>2. flushed = [noted EXCEPT !.disk[id].rows = allRows, !.disk[id].notes = through,
                                      !.log.rows = <<>>, !.log.notes = <<>>]
          <5> HIDE DEF noted, flushed
          <5> QED BY <2>4, <2>5, <3>1, <4>1
        <4> HIDE DEF allRows, through, id, flushed, noted
        <4> QED BY <2>1, <4>2
      <3>3. /\ once \in [Seconds -> FileType] /\ once[id].rows = allRows
            /\ once[id].notes = through
            /\ \A t \in Seconds \ {id} : once[t] = disk[t]
        <4>1. once = RowsSet(noted.disk, id, allRows) BY DEF RowsSet
        <4> HIDE DEF noted, through, allRows, id, once
        <4>2. /\ once \in [Seconds -> FileType] /\ once[id].rows = allRows
              /\ once[id].notes = noted.disk[id].notes
              /\ \A t \in Seconds \ {id} : once[t] = noted.disk[t]
          BY <1>0, <2>4, <3>1, <4>1, RowsWritten
        <4> QED BY <2>4, <4>2
      <3>4. /\ flushed.disk \in [Seconds -> FileType] /\ flushed.disk[id].notes = through
            /\ flushed.disk[id].rows = allRows
            /\ \A t \in Seconds \ {id} : flushed.disk[t] = disk[t]
        <4>1. flushed.disk = NotesSet(once, id, through) BY <3>2 DEF NotesSet
        <4> HIDE DEF noted, through, allRows, id, once, flushed
        <4>2. /\ flushed.disk \in [Seconds -> FileType] /\ flushed.disk[id].notes = through
              /\ flushed.disk[id].rows = once[id].rows
              /\ \A t \in Seconds \ {id} : flushed.disk[t] = once[t]
          BY <1>0, <2>3, <3>3, <4>1, NotesWritten
        <4> QED BY <3>3, <4>2
      <3>5. /\ ~s.raised
            /\ s.log = [enabled |-> FALSE, id |-> id, open |-> {}, rows |-> <<>>, notes |-> <<>>]
            /\ s.disk = SummarySet(flushed.disk, id, Summary)
        <4>1. s = [flushed EXCEPT !.disk[id].summary = Summary, !.log.enabled = FALSE, !.log.open = {}]
          BY <2>8 DEF Closed
        <4> HIDE DEF flushed, noted, through, allRows, once
        <4> QED BY <1>0, <3>2, <4>1 DEF LoggerType, SummarySet
      <3>6. Summary \in Statistics BY DEF LogTypes, Statistics, Summary
      <3> HIDE DEF flushed
      <3>7. /\ s.disk \in [Seconds -> FileType] /\ s.disk[id].notes = through
            /\ s.disk[id].rows = allRows /\ s.disk[id].summary = Summary
            /\ \A t \in Seconds \ {id} : s.disk[t] = disk[t]
        <4> HIDE DEF id, through, allRows
        <4>1. /\ s.disk \in [Seconds -> FileType] /\ \A t \in Seconds \ {id} : s.disk[t] = flushed.disk[t]
              /\ s.disk[id].notes = flushed.disk[id].notes /\ s.disk[id].rows = flushed.disk[id].rows
              /\ s.disk[id].summary = Summary
          BY <1>0, <3>4, <3>5, <3>6, SummaryWritten
        <4> QED BY <3>4, <4>1
      <3> QED BY <1>2, <3>5, <3>7
    <2> QED BY <2>2, <2>6, <2>7, <2>8
  <1> QED BY <1>1, <1>2

(* What is added to a file leaves it as long at least.                      *)
LEMMA LongerStill == \A k, m, n \in Nat : k <= m => k <= m + n
  OBVIOUS

(* Of none a file always holds as many.                                     *)
LEMMA NothingFits == 0 <= 0
  OBVIOUS

(* A stop that succeeds empties both buffers; one that fails leaves the     *)
(* session open, with at most its note in the buffer more.                  *)
LEMMA StopKeeps ==
  ASSUME SessionInv, logger.enabled, window.phase # "ended", NEW s \in Stops, Keeps(s),
         record' = RecordedStop(s), s.raised => window'.logging = window.logging,
         ~s.raised => window'.phase = "ended" \/ window'.logging = "Start Logging"
  PROVE  RecordInv' /\ logger' \in LoggerType /\ disk' \in [Seconds -> FileType]
         /\ record' \in [Seconds -> RecordType]
  <1> DEFINE id == logger.id  file == disk[id]  told == record[id]
             buffered == Append(logger.notes, "SESSION_END")
             through == file.notes \o buffered
             allRows == file.rows \o logger.rows
             allNotes == Append(told.notes, "SESSION_END")
             failed == StillFailed(s)
             lost == told.lost \/ (s.log.enabled /\ "telemetry" \notin s.log.open)
             next == [told EXCEPT !.notes = allNotes, !.failed = failed, !.ended = ~s.raised, !.lost = lost]
  <1>0. /\ LogTypes /\ RecordInv /\ id \in Seconds /\ file \in FileType /\ told \in RecordType
        /\ logger \in LoggerType
    BY DEF SessionInv, LogTypes, LoggerType
  <1>1. /\ file.notes \in Seq(Notable) /\ logger.notes \in Seq(Notable) /\ "SESSION_END" \in Notable
        /\ file.rows \in Seq(Packets) /\ logger.rows \in Seq(Packets) /\ told.notes \in Seq(Notable)
    BY <1>0 DEF LoggerType, FileType, RecordType, Notable
  <1>2. /\ through = Append(file.notes \o logger.notes, "SESSION_END") /\ through \o <<>> = through
        /\ buffered \in Seq(Notable) /\ allNotes \in Seq(Notable)
        /\ allRows \in Seq(Packets) /\ allRows \o <<>> = allRows
        /\ <<>> \in Seq(Notable) /\ <<>> \in Seq(Packets)
    <2>1. through = Append(file.notes \o logger.notes, "SESSION_END") /\ through \o <<>> = through
          /\ buffered \in Seq(Notable)
      <3>1. buffered \in Seq(Notable) BY <1>1, Appended
      <3>2. through \in Seq(Notable) BY <1>1, <3>1, ConcatProperties
      <3>3. through = Append(file.notes \o logger.notes, "SESSION_END")
        BY <1>1, EachAppended, Zenon
      <3> HIDE DEF through
      <3>4. through \o <<>> = through BY <3>2, ConcatEmptySeq
      <3> QED BY <3>1, <3>3, <3>4
    <2>2. allNotes \in Seq(Notable) BY <1>1, Passed
    <2>3. allRows \in Seq(Packets) /\ allRows \o <<>> = allRows BY <1>1, ConcatProperties, ConcatEmptySeq
    <2>4. <<>> \in Seq(Notable) /\ <<>> \in Seq(Packets) BY EmptySeq
    <2> QED BY <2>1, <2>2, <2>3, <2>4
  <1>3. /\ record' \in [Seconds -> RecordType] /\ \A t \in Seconds \ {id} : record'[t] = record[t]
        /\ record'[id].rows = told.rows /\ record'[id].notes = allNotes
        /\ record'[id].spoiled = told.spoiled /\ record'[id].failed = failed
        /\ record'[id].lost = lost /\ record'[id].kept = told.kept
    <2>1. record' = [record EXCEPT ![id] = next] BY DEF RecordedStop
    <2>2. failed \in SUBSET {"rows", "notes"} BY <1>0 DEF StillFailed, RecordType
    <2>4. lost \in BOOLEAN BY <1>0 DEF RecordType
    <2> HIDE DEF failed, allNotes, lost
    <2>3. /\ next \in RecordType /\ next.rows = told.rows /\ next.notes = allNotes
          /\ next.spoiled = told.spoiled /\ next.failed = failed
          /\ next.lost = lost /\ next.kept = told.kept
      BY <1>0, <1>2, <2>2, <2>4 DEF RecordType
    <2> HIDE DEF next
    <2> QED BY <1>0, <2>1, <2>3 DEF LogTypes
  <1>4. logger' = s.log /\ disk' = s.disk BY DEF Keeps
  <1> HIDE DEF through, buffered, allRows, allNotes, failed
  <1>5. /\ logger' \in LoggerType /\ disk' \in [Seconds -> FileType] /\ logger'.id = id
        /\ \A t \in Seconds \ {id} : disk'[t] = disk[t]
        /\ disk'[id].notes \o logger'.notes = through
        /\ \/ /\ logger'.open = logger.open /\ logger'.enabled
              /\ disk'[id].rows = file.rows /\ logger'.rows = logger.rows
           \/ /\ logger'.open = {"events"} /\ logger'.enabled
              /\ disk'[id].rows = file.rows /\ logger'.rows = <<>>
           \/ /\ ~logger'.enabled
              /\ disk'[id].rows = allRows /\ logger'.rows = <<>>
        /\ "notes" \notin failed => logger'.notes = <<>>
        /\ "rows" \notin failed => "rows" \notin told.failed \/ logger'.rows = <<>>
        /\ s.raised <=> logger'.enabled
        /\ ~s.raised => logger'.notes = <<>> /\ failed = {}
    <2>1. CASE world.full /\ s.raised /\ s.disk = disk /\ s.log = [logger EXCEPT !.notes = buffered]
      <3>1. "notes" \in failed /\ ("rows" \notin failed => "rows" \notin told.failed)
        BY <2>1 DEF failed, StillFailed
      <3> QED BY <1>0, <1>2, <1>4, <2>1, <3>1 DEF LoggerType, LogTypes, through
    <2>2. CASE /\ ~world.full /\ s.disk \in [Seconds -> FileType]
               /\ \A t \in Seconds \ {id} : s.disk[t] = disk[t]
               /\ s.disk[id].notes = through /\ s.raised /\ s.disk[id].rows = file.rows
               /\ \/ s.log = [logger EXCEPT !.notes = <<>>]
                  \/ s.log = [logger EXCEPT !.notes = <<>>, !.rows = <<>>, !.open = {"events"}]
      <3>1. "rows" \notin failed => "rows" \notin told.failed BY <2>2 DEF failed, StillFailed
      <3>2. /\ logger' \in LoggerType /\ logger'.id = id /\ logger'.notes = <<>> /\ logger'.enabled
            /\ \/ logger'.open = logger.open /\ logger'.rows = logger.rows
               \/ logger'.open = {"events"} /\ logger'.rows = <<>>
        <4>1. CASE s.log = [logger EXCEPT !.notes = <<>>] BY <1>0, <1>2, <1>4, <4>1 DEF LoggerType
        <4>2. CASE s.log = [logger EXCEPT !.notes = <<>>, !.rows = <<>>, !.open = {"events"}]
          BY <1>0, <1>2, <1>4, <4>2 DEF LoggerType
        <4> QED BY <2>2, <4>1, <4>2
      <3>3. disk'[id].notes \o logger'.notes = through BY <1>2, <1>4, <2>2, <3>2
      <3> HIDE DEF id
      <3> QED BY <1>4, <2>2, <3>1, <3>2, <3>3
    <2>3. CASE /\ ~world.full /\ s.disk \in [Seconds -> FileType]
               /\ \A t \in Seconds \ {id} : s.disk[t] = disk[t]
               /\ s.disk[id].notes = through /\ ~s.raised
               /\ s.log = [enabled |-> FALSE, id |-> id, open |-> {}, rows |-> <<>>, notes |-> <<>>]
               /\ s.disk[id].rows = allRows
      <3>1. failed = {} BY <2>3 DEF failed, StillFailed
      <3>2. /\ logger'.rows = <<>> /\ logger'.notes = <<>> /\ logger'.id = id /\ ~logger'.enabled
            /\ logger' \in LoggerType
        <4> HIDE DEF id
        <4>1. logger' = [enabled |-> FALSE, id |-> id, open |-> {}, rows |-> <<>>, notes |-> <<>>]
          BY <1>4, <2>3, Zenon
        <4> QED BY <1>0, <1>2, <4>1 DEF LoggerType
      <3>3. disk'[id].notes = through /\ disk'[id].rows = allRows BY <1>4, <2>3
      <3>4. disk'[id].notes \o logger'.notes = through BY <1>2, <3>2, <3>3
      <3> HIDE DEF id
      <3> QED BY <1>4, <2>3, <3>1, <3>2, <3>3, <3>4
    <2> HIDE DEF id
    <2>4. \/ world.full /\ s.raised /\ s.disk = disk /\ s.log = [logger EXCEPT !.notes = buffered]
          \/ /\ ~world.full /\ s.disk \in [Seconds -> FileType]
             /\ \A t \in Seconds \ {id} : s.disk[t] = disk[t]
             /\ s.disk[id].notes = through
             /\ \/ /\ s.raised /\ s.disk[id].rows = file.rows
                   /\ \/ s.log = [logger EXCEPT !.notes = <<>>]
                      \/ s.log = [logger EXCEPT !.notes = <<>>, !.rows = <<>>, !.open = {"events"}]
                \/ /\ ~s.raised /\ s.disk[id].rows = allRows
                   /\ s.log = [enabled |-> FALSE, id |-> id, open |-> {}, rows |-> <<>>, notes |-> <<>>]
      BY <1>0, StopNotes DEF through, buffered, allRows, id
    <2> QED BY <2>1, <2>2, <2>3, <2>4
  <1>6. told.lost <=> "telemetry" \notin logger.open BY <1>0 DEF RecordInv
  <1>7. lost <=> told.lost \/ (logger'.enabled /\ "telemetry" \notin logger'.open) BY <1>4
  <1> HIDE DEF lost
  <1>8. ASSUME ~told.spoiled
        PROVE  /\ through = allNotes /\ RowsAgree(disk'[id], record'[id], logger'.rows)
               /\ "rows" \notin failed => logger'.rows = <<>>
    <2>1. /\ RowsAgree(file, told, logger.rows) /\ file.notes \o logger.notes = told.notes
          /\ "rows" \notin told.failed => logger.rows = <<>>
      BY <1>0, <1>8 DEF RecordInv
    <2>2. through = allNotes BY <1>2, <2>1 DEF allNotes
    <2>3. /\ record'[id].rows = told.rows /\ record'[id].lost = lost /\ record'[id].kept = told.kept
          /\ told.kept <= Len(file.rows)
      BY <1>3, <2>1 DEF RowsAgree
    <2>4. CASE /\ logger'.open = logger.open /\ logger'.enabled
               /\ disk'[id].rows = file.rows /\ logger'.rows = logger.rows
      <3>1. lost <=> told.lost BY <1>6, <1>7, <2>4
      <3> QED BY <1>5, <2>1, <2>2, <2>3, <2>4, <3>1 DEF RowsAgree
    <2>5. CASE logger'.open = {"events"} /\ logger'.enabled /\ disk'[id].rows = file.rows /\ logger'.rows = <<>>
      <3>1. lost BY <1>7, <2>5
      <3>2. IsPrefix(file.rows, told.rows)
        <4>1. CASE told.lost BY <2>1, <4>1 DEF RowsAgree
        <4>2. CASE ~told.lost
          <5>1. file.rows \o logger.rows = told.rows BY <2>1, <4>2 DEF RowsAgree
          <5>2. IsPrefix(file.rows, file.rows \o logger.rows) BY <1>1, Extended
          <5> QED BY <5>1, <5>2
        <4> QED BY <4>1, <4>2
      <3> QED BY <2>2, <2>3, <2>5, <3>1, <3>2 DEF RowsAgree
    <2>6. CASE ~logger'.enabled /\ disk'[id].rows = allRows /\ logger'.rows = <<>>
      <3>1. lost <=> told.lost BY <1>7, <2>6
      <3>2. CASE told.lost
        <4>1. logger.rows = <<>> /\ IsPrefix(file.rows, told.rows) BY <2>1, <3>2 DEF RowsAgree
        <4>2. allRows = file.rows BY <1>1, <4>1, ConcatEmptySeq DEF allRows
        <4> QED BY <2>2, <2>3, <2>6, <3>1, <3>2, <4>1, <4>2 DEF RowsAgree
      <3>3. CASE ~told.lost
        <4>1. allRows = told.rows BY <2>1, <3>3 DEF RowsAgree, allRows
        <4>2. told.kept <= Len(allRows)
          <5>1. Len(allRows) = Len(file.rows) + Len(logger.rows) BY <1>1, ConcatProperties DEF allRows
          <5>2. Len(file.rows) \in Nat /\ Len(logger.rows) \in Nat BY <1>1, LenProperties
          <5>3. told.kept \in Nat BY <1>0 DEF RecordType
          <5>4. \A k, m, n \in Nat : k <= m => k <= m + n BY LongerStill
          <5>5. told.kept <= Len(file.rows) BY <2>3
          <5> HIDE DEF told, file, id
          <5> QED BY <5>1, <5>2, <5>3, <5>4, <5>5, Zenon
        <4> QED BY <1>2, <2>2, <2>3, <2>6, <3>1, <3>3, <4>1, <4>2 DEF RowsAgree
      <3> QED BY <3>2, <3>3
    <2> QED BY <1>5, <2>4, <2>5, <2>6
  <1>9. \A t \in Seconds \ {logger'.id} :
           /\ record'[t].failed = {}
           /\ ~record'[t].spoiled => RowsAgree(disk'[t], record'[t], <<>>) /\ disk'[t].notes = record'[t].notes
    BY <1>0, <1>3, <1>5 DEF RecordInv
  <1>10. ~told.spoiled =>
           /\ RowsAgree(disk'[id], record'[id], logger'.rows)
           /\ disk'[id].notes \o logger'.notes = record'[id].notes
           /\ "rows" \notin record'[id].failed => logger'.rows = <<>>
           /\ "notes" \notin record'[id].failed => logger'.notes = <<>>
    BY <1>3, <1>5, <1>8
  <1>11. /\ window'.logging = "Stop Logging" /\ window'.phase # "ended" => s.raised
         /\ s.raised => window'.logging = "Stop Logging" \/ told.spoiled
    BY <1>0 DEF RecordInv, Recording
  <1>12. ASSUME logger'.enabled
         PROVE  record'[id].lost <=> "telemetry" \notin logger'.open
    <2>1. lost <=> told.lost \/ "telemetry" \notin logger'.open BY <1>7, <1>12
    <2>2. logger'.open = logger.open \/ logger'.open = {"events"} BY <1>5, <1>12
    <2>3. "telemetry" \notin {"events"} OBVIOUS
    <2>4. record'[id].lost <=> lost BY <1>3
    <2> QED BY <1>6, <2>1, <2>2, <2>3, <2>4, Zenon
  <1>13. ~logger'.enabled => logger'.rows = <<>> /\ logger'.notes = <<>> /\ record'[id].failed = {}
    BY <1>3, <1>5
  <1> QED BY <1>3, <1>5, <1>9, <1>10, <1>11, <1>12, <1>13 DEF RecordInv, Recording

-----------------------------------------------------------------------------
(* start() begins an empty record: its files are emptied, or it is spoiled. *)

(* The files of start(), those that open() opened, are empty.               *)
LEMMA FilesOpened ==
  ASSUME LogTypes, NEW files \in SUBSET {"telemetry", "events"}
  PROVE  LET s == Opened(files)
             second == world.second
         IN  /\ s.log = [enabled |-> files = {"telemetry", "events"}, id |-> second,
                         open |-> logger.open \cup files, rows |-> <<>>, notes |-> <<>>]
             /\ s.log \in LoggerType
             /\ s.disk \in [Seconds -> FileType] /\ \A t \in Seconds \ {second} : s.disk[t] = disk[t]
             /\ files = {"telemetry", "events"} =>
                   ~s.raised /\ s.disk[second].rows = <<>> /\ s.disk[second].notes = <<>>
             /\ files # {"telemetry", "events"} => s.raised
             /\ s.raised \in BOOLEAN
  <1> DEFINE s == Opened(files)
             second == world.second
             kept == IF "events" \in files THEN <<>> ELSE disk[second].notes
             once == RowsSet(disk, second, <<>>)
  <1>0. /\ second \in Seconds /\ disk \in [Seconds -> FileType] /\ logger.open \subseteq {"telemetry", "events"}
        /\ disk[second].notes \in Seq(Notable)
        /\ <<>> \in Seq(Packets) /\ <<>> \in Seq(Notable)
    <2>1. <<>> \in Seq(Packets) /\ <<>> \in Seq(Notable) BY EmptySeq
    <2> QED BY <2>1 DEF LogTypes, LoggerType, FileType, WorldType
  <1>1. /\ s.log = [enabled |-> files = {"telemetry", "events"}, id |-> second,
                    open |-> logger.open \cup files, rows |-> <<>>, notes |-> <<>>]
        /\ s.raised = (files # {"telemetry", "events"})
        /\ files = {} => s.disk = disk
        /\ files # {} => s.disk = NotesSet(once, second, kept)
    BY DEF Opened, NotesSet, RowsSet
  <1> HIDE DEF s, second, kept, once
  <1>2. s.log \in LoggerType
    <2> DEFINE both == files = {"telemetry", "events"}  open == logger.open \cup files
    <2>1. both \in BOOLEAN /\ open \in SUBSET {"telemetry", "events"} BY <1>0
    <2>2. s.log = [enabled |-> both, id |-> second, open |-> open, rows |-> <<>>, notes |-> <<>>]
      BY <1>1
    <2> HIDE DEF both, open
    <2> QED BY <1>0, <2>1, <2>2 DEF LoggerType
  <1>3. /\ once \in [Seconds -> FileType] /\ \A t \in Seconds \ {second} : once[t] = disk[t]
        /\ once[second].rows = <<>>
    BY <1>0, RowsWritten DEF once
  <1>4. kept \in Seq(Notable) /\ ("events" \in files => kept = <<>>) BY <1>0 DEF kept
  <1>5. CASE files = {}
    BY <1>0, <1>1, <1>2, <1>5 DEF s, second
  <1>6. CASE files # {}
    <2>1. /\ s.disk \in [Seconds -> FileType] /\ \A t \in Seconds \ {second} : s.disk[t] = once[t]
          /\ s.disk[second].rows = once[second].rows /\ s.disk[second].notes = kept
      BY <1>0, <1>1, <1>3, <1>4, <1>6, NotesWritten
    <2> QED BY <1>1, <1>2, <1>3, <1>4, <2>1 DEF s, second
  <1> QED BY <1>5, <1>6

BufferSet(log, notes) == [log EXCEPT !.notes = notes]

(* One buffer of the logger is replaced, and nothing else.                  *)
LEMMA BufferReplaced ==
  ASSUME NEW log \in LoggerType, NEW notes \in Seq(Notable)
  PROVE  LET new == BufferSet(log, notes)
         IN  /\ new \in LoggerType /\ new.notes = notes /\ new.open = log.open
             /\ new.id = log.id /\ new.rows = log.rows /\ new.enabled = log.enabled
  BY DEF LoggerType, BufferSet

(* start() leaves no row in a buffer, and an enabled log only where files opened. *)
LEMMA StartEffect ==
  ASSUME LogTypes, NEW s \in Starts
  PROVE  LET second == world.second
         IN  /\ s.log \in LoggerType /\ s.log.id = second /\ s.log.rows = <<>>
             /\ s.disk \in [Seconds -> FileType] /\ \A t \in Seconds \ {second} : s.disk[t] = disk[t]
             /\ ~s.raised =>
                   /\ s.log.enabled /\ s.log.notes = <<>>
                   /\ s.disk[second].rows = <<>> /\ s.disk[second].notes = <<"SESSION_START">>
             /\ ~s.log.enabled => s.log.notes = <<>>
             /\ s.log.enabled =>
                   /\ s.log.open = {"telemetry", "events"} /\ s.disk[second].rows = <<>>
                   /\ s.disk[second].notes \o s.log.notes = <<"SESSION_START">>
             /\ s.raised \in BOOLEAN
  <1> DEFINE second == world.second  opened == Opened({"telemetry", "events"})
  <1>0. second \in Seconds /\ disk \in [Seconds -> FileType] BY DEF LogTypes, WorldType
  <1>1. ASSUME NEW files \in SUBSET {"telemetry", "events"}, s = Opened(files),
               files # {"telemetry", "events"}
        PROVE  /\ s.log \in LoggerType /\ s.log.id = second /\ s.log.rows = <<>> /\ s.log.notes = <<>>
               /\ s.disk \in [Seconds -> FileType] /\ \A t \in Seconds \ {second} : s.disk[t] = disk[t]
               /\ s.raised /\ s.raised \in BOOLEAN /\ ~s.log.enabled
    <2> DEFINE o == Opened(files)
    <2>1. /\ o.log = [enabled |-> files = {"telemetry", "events"}, id |-> second,
                      open |-> logger.open \cup files, rows |-> <<>>, notes |-> <<>>]
          /\ o.log \in LoggerType
          /\ o.disk \in [Seconds -> FileType] /\ \A t \in Seconds \ {second} : o.disk[t] = disk[t]
          /\ files # {"telemetry", "events"} => o.raised
          /\ o.raised \in BOOLEAN
      BY FilesOpened
    <2>2. s = o BY <1>1
    <2> HIDE DEF o, second
    <2>3. ~o.log.enabled
      <3> DEFINE both == files = {"telemetry", "events"}  open == logger.open \cup files
      <3>1. ~both /\ o.log = [enabled |-> both, id |-> second, open |-> open, rows |-> <<>>, notes |-> <<>>]
        BY <1>1, <2>1
      <3> HIDE DEF both, open
      <3> QED BY <3>1
    <2> QED BY <1>1, <2>1, <2>2, <2>3
  <1>2. /\ opened.log = [enabled |-> TRUE, id |-> second, open |-> logger.open \cup {"telemetry", "events"},
                         rows |-> <<>>, notes |-> <<>>]
        /\ opened.log \in LoggerType /\ opened.log.open = {"telemetry", "events"}
        /\ opened.disk \in [Seconds -> FileType] /\ \A t \in Seconds \ {second} : opened.disk[t] = disk[t]
        /\ opened.disk[second].rows = <<>> /\ opened.disk[second].notes = <<>>
        /\ opened.raised = FALSE
    <2> DEFINE both == {"telemetry", "events"}  open == logger.open \cup both
    <2>1. /\ opened.log = [enabled |-> TRUE, id |-> second, open |-> open, rows |-> <<>>, notes |-> <<>>]
          /\ opened.log \in LoggerType
          /\ opened.disk \in [Seconds -> FileType]
          /\ \A t \in Seconds \ {second} : opened.disk[t] = disk[t]
          /\ opened.disk[second].rows = <<>> /\ opened.disk[second].notes = <<>>
          /\ opened.raised = FALSE
      BY FilesOpened
    <2> HIDE DEF open
    <2>2. opened.log.open = open BY <2>1
    <2>3. open = both BY DEF open, LogTypes, LoggerType
    <2> QED BY <2>1, <2>2, <2>3 DEF open
  <1>3. /\ Append(<<>>, "SESSION_START") = <<"SESSION_START">>
        /\ <<>> \o <<"SESSION_START">> = <<"SESSION_START">>
        /\ <<"SESSION_START">> \in Seq(Notable) /\ <<>> \in Seq(Notable)
        /\ <<"SESSION_START">> \o <<>> = <<"SESSION_START">>
    BY EmptySeq DEF Notable
  <1> HIDE DEF opened, second
  <1>4. CASE s = LogEvent(opened, "SESSION_START")
    <2> DEFINE started == Append(opened.log.notes, "SESSION_START")
               written == [opened EXCEPT !.log.notes = started]
    <2>1. /\ started = <<"SESSION_START">> /\ opened.disk[second].notes \o started = started
          /\ started \in Seq(Notable)
      BY <1>2, <1>3
    <2> HIDE DEF started
    <2>2. /\ written = [log |-> [opened.log EXCEPT !.notes = started], disk |-> opened.disk,
                        raised |-> opened.raised]
      <3>1. opened = [log |-> opened.log, disk |-> opened.disk, raised |-> opened.raised]
        BY DEF opened, Opened
      <3> QED BY <3>1
    <2>3. CASE world.full
      <3>1. s = [written EXCEPT !.raised = TRUE]
        BY <1>2, <1>4, <2>3 DEF LogEvent, started
      <3>2. s.log = [opened.log EXCEPT !.notes = started] /\ s.disk = opened.disk /\ s.raised = TRUE
        <4> HIDE DEF written
        <4> QED BY <2>2, <3>1
      <3>3. /\ s.log \in LoggerType /\ s.log.id = second /\ s.log.rows = <<>>
            /\ s.log.enabled /\ s.log.notes = started /\ s.log.open = {"telemetry", "events"}
        <4> DEFINE log == opened.log
        <4>1. s.log = BufferSet(log, started) BY <3>2 DEF BufferSet
        <4>2. /\ log \in LoggerType /\ log.id = second /\ log.rows = <<>> /\ log.enabled
              /\ log.open = {"telemetry", "events"}
          BY <1>2
        <4> HIDE DEF log
        <4> DEFINE new == BufferSet(log, started)
        <4>3. /\ new \in LoggerType /\ new.id = log.id /\ new.rows = log.rows /\ new.enabled = log.enabled
              /\ new.notes = started /\ new.open = log.open
          BY <2>1, <4>2, BufferReplaced
        <4>4. s.log = new BY <4>1
        <4> HIDE DEF new
        <4> QED BY <4>2, <4>3, <4>4
      <3>4. s.disk[second].notes \o s.log.notes = <<"SESSION_START">>
        BY <1>2, <1>3, <2>1, <3>2, <3>3
      <3> QED BY <1>2, <3>2, <3>3, <3>4 DEF second
    <2>4. CASE ~world.full
      <3>1. s = FlushedNotes(written) BY <1>2, <1>4, <2>4 DEF LogEvent, started
      <3>2. /\ written.log.id = second /\ written.log.notes = started /\ written.disk = opened.disk
            /\ written.raised = FALSE
        BY <1>2, <2>2
      <3>3. s = [written EXCEPT !.disk[second].notes = opened.disk[second].notes \o started,
                                !.log.notes = <<>>]
        <4> HIDE DEF written
        <4> QED BY <3>1, <3>2 DEF FlushedNotes
      <3>4. s = [written EXCEPT !.disk[second].notes = started, !.log.notes = <<>>]
        <4> HIDE DEF written
        <4> QED BY <2>1, <3>3
      <3>5. /\ s.log = [opened.log EXCEPT !.notes = <<>>] /\ s.raised = FALSE
            /\ s.disk = NotesSet(opened.disk, second, started)
        <4> HIDE DEF written
        <4> QED BY <1>2, <2>2, <3>4 DEF NotesSet
      <3>6. /\ s.log \in LoggerType /\ s.log.id = second /\ s.log.rows = <<>> /\ s.log.notes = <<>>
            /\ s.log.enabled /\ s.log.open = {"telemetry", "events"}
        <4> DEFINE log == opened.log  empty == <<>>
        <4>1. s.log = BufferSet(log, empty) BY <3>5 DEF BufferSet
        <4>2. /\ log \in LoggerType /\ log.id = second /\ log.rows = <<>> /\ log.enabled
              /\ log.open = {"telemetry", "events"}
          BY <1>2
        <4>3. empty \in Seq(Notable) BY <1>3
        <4> HIDE DEF log, empty
        <4>4. /\ s.log \in LoggerType /\ s.log.id = second /\ s.log.rows = <<>> /\ s.log.notes = empty
              /\ s.log.enabled /\ s.log.open = {"telemetry", "events"}
          BY <4>1, <4>2, <4>3, BufferReplaced
        <4> QED BY <4>4 DEF empty
      <3>7. /\ s.disk \in [Seconds -> FileType] /\ \A t \in Seconds \ {second} : s.disk[t] = opened.disk[t]
            /\ s.disk[second].notes = started /\ s.disk[second].rows = opened.disk[second].rows
        <4>1. opened.disk \in [Seconds -> FileType] BY <1>2
        <4> DEFINE files == opened.disk
        <4>2. s.disk = NotesSet(files, second, started) /\ files \in [Seconds -> FileType]
          BY <3>5, <4>1
        <4> HIDE DEF files
        <4>3. /\ s.disk \in [Seconds -> FileType] /\ \A t \in Seconds \ {second} : s.disk[t] = files[t]
              /\ s.disk[second].notes = started /\ s.disk[second].rows = files[second].rows
          <5> DEFINE new == NotesSet(files, second, started)
          <5>1. /\ new \in [Seconds -> FileType] /\ \A t \in Seconds \ {second} : new[t] = files[t]
                /\ new[second].notes = started /\ new[second].rows = files[second].rows
            BY <1>0, <2>1, <4>2, NotesWritten
          <5>2. s.disk = new BY <4>2
          <5> HIDE DEF new
          <5> QED BY <5>1, <5>2
        <4> QED BY <4>3 DEF files
      <3>8. s.disk[second].notes \o s.log.notes = <<"SESSION_START">>
        BY <1>3, <2>1, <3>6, <3>7
      <3> QED BY <1>2, <2>1, <3>5, <3>6, <3>7, <3>8 DEF second
    <2> QED BY <2>3, <2>4
  <1>5. \/ s = LogEvent(opened, "SESSION_START")
        \/ \E files \in SUBSET {"telemetry", "events"} :
              files # {"telemetry", "events"} /\ s = Opened(files)
    BY DEF Starts, opened
  <1> QED BY <1>1, <1>4, <1>5 DEF second

(* The record that a start begins.                                          *)
LEMMA Begun ==
  ASSUME NEW raised \in BOOLEAN
  PROVE  LET new == [NewRecord EXCEPT !.notes = <<"SESSION_START">>, !.spoiled = raised]
         IN  /\ new \in RecordType /\ new.rows = <<>> /\ new.notes = <<"SESSION_START">>
             /\ new.failed = {} /\ new.spoiled = raised /\ ~new.ended /\ ~new.reset
             /\ ~new.lost /\ new.kept = 0
  <1>1. <<"SESSION_START">> \in Seq(Notable) /\ <<>> \in Seq(Packets) /\ <<>> \in Seq(Notable)
    BY EmptySeq DEF Notable
  <1>2. /\ NewRecord \in RecordType /\ NewRecord.rows = <<>> /\ NewRecord.failed = {}
        /\ ~NewRecord.ended /\ ~NewRecord.reset /\ ~NewRecord.lost /\ NewRecord.kept = 0
    BY <1>1 DEF NewRecord, RecordType
  <1> QED BY <1>1, <1>2 DEF RecordType

(* A start keeps the record of every session.                               *)
LEMMA StartKeeps ==
  ASSUME SessionInv, ~logger.enabled, window.phase # "ended", NEW s \in Starts, Keeps(s),
         record' = RecordedStart(s),
         s.raised => window'.logging = window.logging,
         ~s.raised => window'.logging = "Stop Logging"
  PROVE  RecordInv' /\ logger' \in LoggerType /\ disk' \in [Seconds -> FileType]
         /\ record' \in [Seconds -> RecordType]
  <1> DEFINE second == world.second
             raised == s.raised
             new == [NewRecord EXCEPT !.notes = <<"SESSION_START">>, !.spoiled = raised]
  <1>0. /\ LogTypes /\ RecordInv /\ second \in Seconds /\ logger.id \in Seconds
        /\ record \in [Seconds -> RecordType] /\ disk \in [Seconds -> FileType]
    BY DEF SessionInv, LogTypes, LoggerType, WorldType
  <1>1. /\ s.log \in LoggerType /\ s.log.id = second /\ s.log.rows = <<>>
        /\ s.disk \in [Seconds -> FileType] /\ \A t \in Seconds \ {second} : s.disk[t] = disk[t]
        /\ ~raised =>
              /\ s.log.enabled /\ s.log.notes = <<>>
              /\ s.disk[second].rows = <<>> /\ s.disk[second].notes = <<"SESSION_START">>
        /\ ~s.log.enabled => s.log.notes = <<>>
        /\ s.log.enabled => s.log.open = {"telemetry", "events"}
    BY <1>0, StartEffect
  <1>2. logger' = s.log /\ disk' = s.disk BY DEF Keeps
  <1>3. raised \in BOOLEAN
    BY <1>0, StartEffect
  <1>4. record' = [record EXCEPT ![second] = new] BY Zenon DEF RecordedStart
  <1> HIDE DEF raised, second
  <1>5. /\ new \in RecordType /\ new.rows = <<>> /\ new.notes = <<"SESSION_START">> /\ new.failed = {}
        /\ new.spoiled = raised /\ ~new.lost /\ new.kept = 0
    BY <1>3, Begun, Zenon
  <1> HIDE DEF new
  <1>6. new.notes \in Seq(Notable) /\ new.rows \in Seq(Packets) BY <1>5 DEF RecordType
  <1>7. /\ record' \in [Seconds -> RecordType] /\ record'[second] = new
        /\ \A t \in Seconds \ {second} : record'[t] = record[t]
    BY <1>0, <1>4, <1>5
  <1>8. \A t \in Seconds \ {second} :
           /\ record'[t].failed = {}
           /\ ~record'[t].spoiled =>
                 RowsAgree(disk'[t], record'[t], <<>>) /\ disk'[t].notes = record'[t].notes
    <2> SUFFICES ASSUME NEW t \in Seconds \ {second}
                 PROVE  /\ record[t].failed = {}
                        /\ ~record[t].spoiled =>
                              RowsAgree(disk[t], record[t], <<>>) /\ disk[t].notes = record[t].notes
      BY <1>1, <1>2, <1>7
    <2>1. CASE t # logger.id BY <1>0, <2>1 DEF RecordInv
    <2>2. CASE t = logger.id
      <3>1. disk[t].notes \o <<>> = disk[t].notes
        <4>1. disk[t].notes \in Seq(Notable) BY <1>0 DEF FileType
        <4> QED BY <4>1, ConcatEmptySeq
      <3> QED BY <1>0, <2>2, <3>1 DEF RecordInv
    <2> QED BY <2>1, <2>2
  <1>9. ~raised =>
           /\ RowsAgree(disk'[second], record'[second], logger'.rows)
           /\ disk'[second].notes \o logger'.notes = record'[second].notes
           /\ logger'.rows = <<>> /\ logger'.notes = <<>>
    <2>1. /\ <<>> \o <<>> = <<>> /\ <<"SESSION_START">> \o <<>> = <<"SESSION_START">>
          /\ Len(<<>>) = 0
      BY <1>6, <1>5, ConcatEmptySeq
    <2> SUFFICES ASSUME ~raised
                 PROVE  /\ RowsAgree(disk'[second], record'[second], logger'.rows)
                        /\ disk'[second].notes \o logger'.notes = record'[second].notes
                        /\ logger'.rows = <<>> /\ logger'.notes = <<>>
      OBVIOUS
    <2>2. /\ disk'[second].rows = <<>> /\ disk'[second].notes = <<"SESSION_START">>
          /\ logger'.rows = <<>> /\ logger'.notes = <<>>
      BY <1>1, <1>2
    <2>3. RowsAgree(disk'[second], new, <<>>)
      <3>1. new.rows = <<>> /\ ~new.lost /\ new.kept = 0 BY <1>5
      <3>2. new.kept <= Len(disk'[second].rows)
        <4>1. Len(disk'[second].rows) = 0 BY <2>1, <2>2, Zenon
        <4>2. 0 <= 0 BY NothingFits
        <4> QED BY <3>1, <4>1, <4>2, Zenon
      <3>3. disk'[second].rows \o <<>> = new.rows BY <2>1, <2>2, <3>1
      <3> QED BY <3>1, <3>2, <3>3, Zenon DEF RowsAgree
    <2> QED BY <1>5, <1>7, <2>1, <2>2, <2>3
  <1>10. /\ window'.logging = "Stop Logging" /\ window'.phase # "ended" => logger'.enabled
         /\ logger'.enabled => window'.logging = "Stop Logging" \/ raised
         /\ logger'.enabled => (record'[second].lost <=> "telemetry" \notin logger'.open)
    BY <1>0, <1>1, <1>2, <1>5, <1>7 DEF RecordInv, Recording, raised
  <1> QED BY <1>1, <1>2, <1>5, <1>7, <1>8, <1>9, <1>10 DEF RecordInv, Recording

-----------------------------------------------------------------------------
(* What surrounds the logger keeps its types. *)

(* A line is taken from the queue.                                          *)
LEMMA TakenTyped ==
  ASSUME LogTypes, TakesLine
  PROVE  link' \in LinkType /\ Head(link.lines) \in Packets \cup {Damaged}
  <1> DEFINE Lines == Packets \cup {Damaged}  lines == link.lines
  <1>1. lines \in Seq(Lines) /\ lines # <<>> BY DEF LogTypes, TakesLine, LinkType
  <1>2. Head(lines) \in Lines /\ Tail(lines) \in Seq(Lines)
    <2> HIDE DEF Lines, lines
    <2> QED BY <1>1, HeadTailProperties
  <1>3. link' = [link EXCEPT !.lines = Tail(lines)]
    BY DEF TakesLine
  <1> DEFINE left == Tail(lines)
  <1>4. link' = [link EXCEPT !.lines = left] /\ left \in Seq(Packets \cup {Damaged}) BY <1>2, <1>3
  <1> HIDE DEF left
  <1>5. link' \in LinkType BY <1>4 DEF LogTypes, LinkType
  <1> QED BY <1>2, <1>5

(* update() keeps counters and extremes natural numbers.                    *)
LEMMA StatsTyped ==
  ASSUME stats \in Statistics, NEW packet \in Packets
  PROVE  UpdatedStats(packet) \in Statistics
  <1>1. packet.temp \in Nat /\ packet.motion \in Nat BY PacketsAssumption
  <1>2. Least(packet.temp) \in Nat /\ Most(packet.temp) \in Nat
    BY <1>1 DEF Statistics, Least, Most
  <1> DEFINE least == IF packet.temp = NoValue THEN stats.least ELSE Least(packet.temp)
             most == IF packet.temp = NoValue THEN stats.most ELSE Most(packet.temp)
             peak == IF packet.motion > stats.peak THEN packet.motion ELSE stats.peak
             total == stats.total + 1
  <1>3. least \in Nat /\ most \in Nat /\ peak \in Nat /\ total \in Nat BY <1>1, <1>2 DEF Statistics
  <1>4. UpdatedStats(packet) =
          [stats EXCEPT !.total = total, !.least = least, !.most = most, !.peak = peak]
    BY DEF UpdatedStats
  <1> HIDE DEF least, most, peak, total
  <1> QED BY <1>3, <1>4 DEF Statistics

(* Only time, the disk and inputs move the world.                           *)
LEMMA WorldTyped ==
  ASSUME LogTypes, Next
  PROVE  world' \in WorldType
  <1>0. world \in WorldType /\ MaxSecond \in Nat
    BY BoundsAssumption DEF LogTypes
  <1>1. CASE Inputs BY <1>0, <1>1 DEF Inputs, WorldType
  <1>2. CASE SecondPasses BY <1>0, <1>2 DEF SecondPasses, Seconds, WorldType
  <1>3. CASE DiskChanges BY <1>0, <1>3 DEF DiskChanges, WorldType
  <1>4. CASE UNCHANGED world BY <1>0, <1>4
  <1> QED
    BY <1>1, <1>2, <1>3, <1>4
    DEF Next, LinkTries, LinkOpens, LinkRefused, LinkFails, LinkCloses, LinkTells, LinkErrs, LineArrives,
        ProcessSerial, NoMoreLines, NoMoreEvents, OnTelemetry, OnMalformed, OnConnect, OnDisconnect,
        OnSerialError, StartLogging, StopLogging, ResetStatistics, SendCommand, CloseWindow, Killed

(* What a thread does to the link, apart from telling it.                   *)
LinkMoves(t) == LinkTries(t) \/ LinkOpens(t) \/ LinkRefused(t) \/ LinkFails(t) \/ LinkCloses(t)

LEMMA LinkMoved ==
  ASSUME LogTypes, NEW t \in Threads, LinkMoves(t)
  PROVE  /\ link' \in LinkType /\ link'.lines = link.lines /\ link'.events = link.events
         /\ \A other \in Threads \ {t} : link'.doing[other] = link.doing[other]
         /\ UNCHANGED <<stats, logger, disk, window, record>>
  <1>0. link \in LinkType BY DEF LogTypes
  <1>1. PICK connected \in BOOLEAN, doing \in Doings, last \in {"told", "crossed", "silent"} :
           link' = [link EXCEPT !.connected = connected, !.doing[t] = doing, !.last = last]
    <2>1. link = [link EXCEPT !.connected = link.connected, !.last = link.last]
          /\ link.connected \in BOOLEAN /\ link.last \in {"told", "crossed", "silent"}
      BY <1>0 DEF LinkType
    <2>2. CASE LinkTries(t)
      <3>1. link' = [link EXCEPT !.connected = link.connected, !.doing[t] = "opening", !.last = link.last]
        BY <1>0, <2>2 DEF LinkTries, LinkType
      <3> QED BY <2>1, <3>1 DEF Doings
    <2>3. CASE LinkOpens(t)
      BY <1>0, <2>3 DEF LinkOpens, Telling, Doings, Told
    <2>4. CASE LinkRefused(t)
      <3>1. CASE world.manager = "mqtt"
        <4>1. link' = [link EXCEPT !.connected = link.connected, !.doing[t] = "ERROR", !.last = link.last]
          BY <1>0, <2>4, <3>1 DEF LinkRefused, LinkType
        <4> QED BY <2>1, <4>1 DEF Doings, Told
      <3>2. CASE world.manager # "mqtt"
        BY <1>0, <2>1, <2>4, <3>2 DEF LinkRefused, Untold, Doings, Told
      <3> QED BY <3>1, <3>2
    <2>5. CASE LinkFails(t)
      <3> DEFINE doing == IF link.connected THEN "was up" ELSE "was down"
      <3>1. link' = [link EXCEPT !.connected = link.connected, !.doing[t] = doing, !.last = link.last]
        BY <1>0, <2>5 DEF LinkFails, LinkType
      <3> QED BY <2>1, <3>1 DEF Doings
    <2>6. CASE LinkCloses(t)
      BY <1>0, <2>1, <2>6 DEF LinkCloses, Telling, Untold, Doings, Told
    <2> QED BY <2>2, <2>3, <2>4, <2>5, <2>6 DEF LinkMoves
  <1>2. UNCHANGED <<stats, logger, disk, window, record>>
    BY DEF LinkMoves, LinkTries, LinkOpens, LinkRefused, LinkFails, LinkCloses
  <1> QED BY <1>0, <1>1, <1>2 DEF LinkType

(* A thread tells.                                                          *)
LEMMA LinkTold ==
  ASSUME LogTypes, NEW t \in Threads, LinkTells(t)
  PROVE  /\ link' \in LinkType /\ link'.lines = link.lines /\ link'.connected = link.connected
         /\ link'.last = link.last /\ link.doing[t] \in Told /\ Len(link.events) < MaxQueue
         /\ link'.events = Append(link.events, link.doing[t]) /\ link'.doing[t] = ""
         /\ \A other \in Threads \ {t} : link'.doing[other] = link.doing[other]
         /\ UNCHANGED <<stats, logger, disk, world, window, record>>
  <1> DEFINE event == link.doing[t]  events == Append(link.events, event)
  <1>0. link \in LinkType /\ event \in Told BY DEF LogTypes, LinkTells, Told
  <1>1. events \in Seq(Told)
    <2>1. link.events \in Seq(Told) BY <1>0 DEF LinkType
    <2> HIDE DEF event
    <2> QED BY <1>0, <2>1, AppendProperties
  <1>2. link' = [link EXCEPT !.doing[t] = "", !.events = events] BY DEF LinkTells
  <1> HIDE DEF events
  <1>3. /\ link' \in LinkType /\ link'.lines = link.lines /\ link'.connected = link.connected
        /\ link'.last = link.last /\ link'.events = events /\ link'.doing[t] = ""
        /\ \A other \in Threads \ {t} : link'.doing[other] = link.doing[other]
    BY <1>0, <1>1, <1>2 DEF LinkType, Doings
  <1> QED BY <1>0, <1>3 DEF LinkTells, events

(* An error is queued.                                                      *)
LEMMA LinkErred ==
  ASSUME LogTypes, LinkErrs
  PROVE  /\ link' \in LinkType /\ link'.lines = link.lines /\ link'.connected = link.connected
         /\ link'.last = link.last /\ link'.doing = link.doing /\ Len(link.events) < MaxQueue
         /\ link'.events = Append(link.events, "ERROR")
  <1> DEFINE events == Append(link.events, "ERROR")
  <1>0. link \in LinkType /\ "ERROR" \in Told BY DEF LogTypes, Told
  <1>1. events \in Seq(Told)
    <2>1. link.events \in Seq(Told) BY <1>0 DEF LinkType
    <2> QED BY <1>0, <2>1, AppendProperties
  <1>2. link' = [link EXCEPT !.events = events] BY DEF LinkErrs
  <1> HIDE DEF events
  <1> QED BY <1>0, <1>1, <1>2 DEF LinkType, LinkErrs, events

(* The queues keep lines and events.                                        *)
LEMMA LinkTyped ==
  ASSUME LogTypes, Next
  PROVE  link' \in LinkType
  <1>0. link \in LinkType BY DEF LogTypes
  <1>1. ASSUME NEW t \in Threads, LinkMoves(t) PROVE link' \in LinkType BY <1>1, LinkMoved
  <1>2. ASSUME NEW t \in Threads, LinkTells(t) PROVE link' \in LinkType BY <1>2, LinkTold
  <1>3. CASE LinkErrs BY <1>3, LinkErred
  <1>4. CASE LineArrives
    <2>1. PICK line \in Packets \cup {Damaged} : link' = [link EXCEPT !.lines = Append(link.lines, line)]
      BY <1>4 DEF LineArrives
    <2>2. Append(link.lines, line) \in Seq(Packets \cup {Damaged})
      <3>1. link.lines \in Seq(Packets \cup {Damaged}) BY <1>0 DEF LinkType
      <3> QED BY <3>1, AppendProperties
    <2> QED BY <1>0, <2>1, <2>2 DEF LinkType
  <1>5. CASE TakesLine BY <1>5, TakenTyped
  <1>6. ASSUME NEW event, TakesEvent(event) PROVE link' \in LinkType
    <2>1. link.events \in Seq(Told) /\ link.events # <<>> BY <1>0, <1>6 DEF TakesEvent, LinkType
    <2>2. Tail(link.events) \in Seq(Told) BY <2>1, HeadTailProperties
    <2>3. link' = [link EXCEPT !.events = Tail(link.events)] BY <1>6 DEF TakesEvent
    <2> QED BY <1>0, <2>2, <2>3 DEF LinkType
  <1>7. CASE UNCHANGED link BY <1>0, <1>7
  <1> QED
    BY <1>1, <1>2, <1>3, <1>4, <1>5, <1>6, <1>7
    DEF Next, LinkMoves, ProcessSerial, NoMoreLines, NoMoreEvents, SecondPasses, DiskChanges, OnTelemetry,
        OnMalformed, OnConnect, OnDisconnect, OnSerialError, StartLogging, StopLogging, ResetStatistics,
        SendCommand, CloseWindow, Killed

-----------------------------------------------------------------------------
(* Every step. *)

(* What the lemmas above say of the logger, and of the window.              *)
Kept ==
    /\ RecordInv' /\ logger' \in LoggerType /\ disk' \in [Seconds -> FileType]
    /\ record' \in [Seconds -> RecordType]
    /\ window' \in WindowType /\ stats' \in Statistics

(* A step that leaves the logger alone.                                     *)
LEMMA QuietKeeps ==
  ASSUME SessionInv, UNCHANGED <<logger, disk, record>>, window' \in WindowType, stats' \in Statistics,
         window'.logging = window.logging, window.phase = "ended" => window'.phase = "ended"
  PROVE  Kept
  BY DEF SessionInv, LogTypes, RecordInv, Recording, Kept

(* A telemetry line.                                                        *)
LEMMA RowStep ==
  ASSUME SessionInv, OnTelemetry
  PROVE  Kept
  <1> DEFINE packet == Head(link.lines)  logged == LogTelemetry(Now, packet)
  <1>1. packet \in Packets BY TakenTyped DEF OnTelemetry, SessionInv
  <1>2. /\ Keeps(logged) /\ record' = RecordedRow(packet, logged)
        /\ window' = [window EXCEPT !.phase = PhaseAfter(logged)] /\ window.phase = "lines"
        /\ stats' = UpdatedStats(packet)
    BY DEF OnTelemetry, TakesLine
  <1>3. stats' \in Statistics BY <1>1, <1>2, StatsTyped DEF SessionInv, LogTypes
  <1>4. PhaseAfter(logged) \in {"idle", "lines"} BY <1>2 DEF PhaseAfter
  <1>5. window' \in WindowType /\ window'.logging = window.logging
    BY <1>2, <1>4 DEF SessionInv, LogTypes, WindowType
  <1>6. RecordInv' /\ logger' \in LoggerType /\ disk' \in [Seconds -> FileType]
        /\ record' \in [Seconds -> RecordType]
    <2>1. window.phase # "ended" BY <1>2
    <2> HIDE DEF packet
    <2> QED BY <1>1, <1>2, <1>5, <2>1, RowKeeps
  <1> QED BY <1>3, <1>5, <1>6 DEF Kept

(* A handler that notes an event or a command.                              *)
LEMMA NoteStep ==
  ASSUME SessionInv, NEW note \in Notable, NEW before \in WindowType, Notes(note, before),
         before.logging = window.logging, window.phase # "ended",
         before.phase = window.phase, stats' \in Statistics
  PROVE  Kept
  <1> DEFINE logged == LogEvent(Now, note)
  <1>1. /\ Keeps(logged) /\ record' = RecordedNote(note, logged)
        /\ window' = [before EXCEPT !.phase = PhaseAfter(logged)]
    BY DEF Notes
  <1>2. PhaseAfter(logged) \in {"idle", window.phase} BY DEF PhaseAfter
  <1>3. window' \in WindowType /\ window'.logging = window.logging
    BY <1>1, <1>2 DEF SessionInv, LogTypes, WindowType
  <1>4. RecordInv' /\ logger' \in LoggerType /\ disk' \in [Seconds -> FileType]
        /\ record' \in [Seconds -> RecordType]
    BY <1>1, <1>3, NoteKeeps
  <1> QED BY <1>3, <1>4 DEF Kept

(* RESET STATS leaves the files alone.                                      *)
LEMMA ResetKeeps ==
  ASSUME SessionInv, ResetStatistics
  PROVE  Kept
  <1> DEFINE id == logger.id  told == record[id]  reset == told.reset \/ logger.enabled
             next == [told EXCEPT !.reset = reset]
  <1>0. id \in Seconds /\ told \in RecordType /\ record \in [Seconds -> RecordType]
    BY DEF SessionInv, LogTypes, LoggerType
  <1>1. record' = [record EXCEPT ![id] = next] /\ UNCHANGED <<logger, disk, window>>
    BY DEF ResetStatistics
  <1>2. reset \in BOOLEAN BY <1>0 DEF RecordType, SessionInv, LogTypes, LoggerType
  <1> HIDE DEF reset
  <1>3. /\ next \in RecordType /\ next.rows = told.rows /\ next.notes = told.notes
        /\ next.failed = told.failed /\ next.spoiled = told.spoiled
        /\ next.lost = told.lost /\ next.kept = told.kept
    BY <1>0, <1>2 DEF RecordType
  <1> HIDE DEF next
  <1>4. record' \in [Seconds -> RecordType] /\ \A s \in Seconds :
           /\ record'[s].rows = record[s].rows /\ record'[s].notes = record[s].notes
           /\ record'[s].failed = record[s].failed /\ record'[s].spoiled = record[s].spoiled
           /\ record'[s].lost = record[s].lost /\ record'[s].kept = record[s].kept
    BY <1>0, <1>1, <1>3
  <1>5. RecordInv' BY <1>0, <1>1, <1>4 DEF RecordInv, RowsAgree, Recording, SessionInv
  <1>6. stats' \in Statistics
    BY DEF ResetStatistics, NewStats, Statistics, SessionInv, LogTypes, NoValue
  <1> QED BY <1>1, <1>4, <1>5, <1>6 DEF Kept, SessionInv, LogTypes

(* The button, pressed to start.                                            *)
LEMMA StartStep ==
  ASSUME SessionInv, StartLogging
  PROVE  Kept
  <1>1. PICK s \in Starts :
           /\ Keeps(s) /\ record' = RecordedStart(s)
           /\ window' = IF s.raised THEN window ELSE [window EXCEPT !.logging = "Stop Logging"]
    BY DEF StartLogging
  <1>2. ~logger.enabled /\ window.phase # "ended" /\ UNCHANGED stats BY DEF StartLogging, Pressed, Free
  <1>3. window' \in WindowType /\ (s.raised => window' = window)
        /\ (~s.raised => window'.logging = "Stop Logging")
    BY <1>1 DEF SessionInv, LogTypes, WindowType
  <1>4. RecordInv' /\ logger' \in LoggerType /\ disk' \in [Seconds -> FileType]
        /\ record' \in [Seconds -> RecordType]
    BY <1>1, <1>2, <1>3, StartKeeps
  <1> QED BY <1>2, <1>3, <1>4 DEF Kept, SessionInv, LogTypes

(* The button, pressed to stop.                                             *)
LEMMA StopStep ==
  ASSUME SessionInv, StopLogging
  PROVE  Kept
  <1>1. logger.enabled /\ window.phase # "ended" /\ UNCHANGED stats /\ stats' \in Statistics
    BY DEF StopLogging, Pressed, Free, SessionInv, LogTypes
  <1>2. CASE ~HasBaud
    <2>1. UNCHANGED <<logger, disk, window, record>> BY <1>2 DEF StopLogging
    <2> QED BY <1>1, <2>1, QuietKeeps DEF SessionInv, LogTypes
  <1>3. CASE HasBaud
    <2>1. PICK s \in Stops :
             /\ Keeps(s) /\ record' = RecordedStop(s)
             /\ window' = IF s.raised THEN window ELSE [window EXCEPT !.logging = "Start Logging"]
      BY <1>3 DEF StopLogging
    <2>2. window' \in WindowType /\ (s.raised => window' = window)
          /\ (~s.raised => window'.logging = "Start Logging")
      BY <2>1 DEF SessionInv, LogTypes, WindowType
    <2>3. RecordInv' /\ logger' \in LoggerType /\ disk' \in [Seconds -> FileType]
          /\ record' \in [Seconds -> RecordType]
      BY <1>1, <2>1, <2>2, StopKeeps
    <2> QED BY <1>1, <2>2, <2>3 DEF Kept
  <1> QED BY <1>2, <1>3

(* closeEvent().                                                            *)
LEMMA CloseStep ==
  ASSUME SessionInv, CloseWindow
  PROVE  Kept
  <1>1. /\ window.phase # "ended" /\ UNCHANGED stats /\ window' \in WindowType
        /\ window'.phase = "ended" /\ window'.logging = window.logging
    BY DEF CloseWindow, Pressed, Free, SessionInv, LogTypes, WindowType
  <1>2. stats' \in Statistics BY <1>1 DEF SessionInv, LogTypes
  <1>3. CASE ~(logger.enabled /\ HasBaud)
    <2>1. UNCHANGED <<logger, disk, record>> BY <1>3 DEF CloseWindow
    <2> QED BY <1>1, <1>2, <2>1, QuietKeeps
  <1>4. CASE logger.enabled /\ HasBaud
    <2>1. PICK s \in Stops : Keeps(s) /\ record' = RecordedStop(s)
      BY <1>4 DEF CloseWindow
    <2>2. RecordInv' /\ logger' \in LoggerType /\ disk' \in [Seconds -> FileType]
          /\ record' \in [Seconds -> RecordType]
      BY <1>1, <1>4, <2>1, StopKeeps
    <2> QED BY <1>1, <1>2, <2>2 DEF Kept
  <1> QED BY <1>3, <1>4

(* Each step of the program keeps the logger's part of the invariant.       *)
LEMMA NextKeeps ==
  ASSUME SessionInv, Next
  PROVE  Kept
  <1>0. /\ window \in WindowType /\ stats \in Statistics /\ logger \in LoggerType /\ link \in LinkType
    BY DEF SessionInv, LogTypes
  <1> DEFINE Quiet == UNCHANGED <<stats, logger, disk, record>> /\ window' \in WindowType
                      /\ window'.logging = window.logging
                      /\ (window.phase = "ended" => window'.phase = "ended")
  <1>1. ASSUME Quiet PROVE Kept BY <1>0, <1>1, QuietKeeps
  <1>2. CASE LinkErrs \/ LineArrives \/ SecondPasses \/ DiskChanges
    <2>1. Quiet BY <1>0, <1>2 DEF LinkErrs, LineArrives, SecondPasses, DiskChanges
    <2> QED BY <1>1, <2>1
  <1>15. ASSUME NEW t \in Threads, LinkMoves(t) \/ LinkTells(t) PROVE Kept
    <2>1. LogTypes BY DEF SessionInv
    <2>2. UNCHANGED <<stats, logger, disk, window, record>> BY <1>15, <2>1, LinkMoved, LinkTold
    <2> QED BY <1>0, <1>1, <2>2
  <1>3. CASE ProcessSerial \/ NoMoreLines \/ NoMoreEvents \/ Killed
    <2>1. Quiet BY <1>0, <1>3 DEF ProcessSerial, NoMoreLines, NoMoreEvents, Killed, Free, WindowType
    <2> QED BY <1>1, <2>1
  <1>4. CASE OnTelemetry BY <1>4, RowStep
  <1>5. CASE OnMalformed
    <2>1. stats' \in Statistics /\ UNCHANGED <<logger, disk, record, window>>
      BY <1>0, <1>5 DEF OnMalformed, Statistics
    <2> QED BY <1>0, <2>1, QuietKeeps
  <1>6. ASSUME NEW text \in {"Connect", "Disconnect"}
        PROVE  /\ Controlled(text) \in WindowType /\ Controlled(text).logging = window.logging
               /\ Controlled(text).phase = window.phase
    <2> DEFINE canLog == link.connected \/ logger.enabled
    <2>1. canLog \in BOOLEAN /\ link.connected \in BOOLEAN BY <1>0 DEF LinkType, LoggerType
    <2>2. Controlled(text) = [window EXCEPT !.connect = text, !.controls = link.connected, !.canLog = canLog]
      BY DEF Controlled
    <2> HIDE DEF canLog
    <2> QED BY <1>0, <1>6, <2>1, <2>2 DEF WindowType
  <1>7. CASE OnConnect
    <2>1. /\ Notes("SERIAL_CONNECT", Controlled("Disconnect")) /\ window.phase # "ended"
          /\ stats' \in Statistics
      BY <1>0, <1>7 DEF OnConnect, TakesEvent, Statistics
    <2>2. "SERIAL_CONNECT" \in Notable BY DEF Notable
    <2> QED BY <1>6, <2>1, <2>2, NoteStep
  <1>8. CASE OnDisconnect
    <2>1. /\ Notes("SERIAL_DISCONNECT", Controlled("Connect")) /\ window.phase # "ended"
          /\ stats' \in Statistics
      BY <1>0, <1>8 DEF OnDisconnect, TakesEvent
    <2>2. "SERIAL_DISCONNECT" \in Notable BY DEF Notable
    <2> QED BY <1>6, <2>1, <2>2, NoteStep
  <1>9. CASE OnSerialError
    <2>1. /\ Notes("SERIAL_ERROR", window) /\ window.phase # "ended" /\ stats' \in Statistics
      BY <1>0, <1>9 DEF OnSerialError, TakesEvent
    <2>2. "SERIAL_ERROR" \in Notable BY DEF Notable
    <2> QED BY <1>0, <2>1, <2>2, NoteStep
  <1>10. CASE StartLogging BY <1>10, StartStep
  <1>11. CASE StopLogging BY <1>11, StopStep
  <1>12. CASE ResetStatistics BY <1>12, ResetKeeps
  <1>13. CASE SendCommand
    <2>1. /\ Notes("COMMAND_SENT", window) \/ UNCHANGED <<logger, disk, window, record>>
          /\ window.phase # "ended" /\ stats' = stats
      BY <1>13 DEF SendCommand, Pressed, Free
    <2>2. "COMMAND_SENT" \in Notable BY DEF Notable
    <2>3. CASE Notes("COMMAND_SENT", window) BY <1>0, <2>1, <2>2, <2>3, NoteStep
    <2>4. CASE UNCHANGED <<logger, disk, window, record>> BY <1>0, <1>1, <2>1, <2>4
    <2> QED BY <2>1, <2>3, <2>4
  <1>14. CASE CloseWindow BY <1>14, CloseStep
  <1> QED
    BY <1>2, <1>3, <1>4, <1>5, <1>7, <1>8, <1>9, <1>10, <1>11, <1>12, <1>13, <1>14, <1>15 DEF Next, LinkMoves

(* The invariant holds at the start.                                        *)
LEMMA SessionInitial == Init => SessionInv
  <1> SUFFICES ASSUME Init PROVE SessionInv
    OBVIOUS
  <1>1. /\ <<>> \in Seq(Packets) /\ <<>> \in Seq(Notable)
        /\ <<>> \in Seq(Packets \cup {Damaged}) /\ <<>> \in Seq(Told)
    BY EmptySeq
  <1>2. 0 \in Seconds BY BoundsAssumption DEF Seconds
  <1>3. NoFile \in FileType /\ NewRecord \in RecordType
    BY <1>1 DEF NoFile, FileType, NewRecord, RecordType
  <1>4. logger \in LoggerType BY <1>1, <1>2 DEF Init, LoggerType
  <1>5. disk \in [Seconds -> FileType] /\ record \in [Seconds -> RecordType] BY <1>3 DEF Init
  <1>6. window \in WindowType /\ stats \in Statistics BY DEF Init, WindowType, NewStats, Statistics, NoValue
  <1>7. world \in WorldType
    <2>1. PICK manager \in Managers :
             world = [second |-> 0, full |-> FALSE, inputs |-> 0, manager |-> manager]
      BY DEF Init
    <2> QED BY <1>2, <2>1 DEF WorldType
  <1>8. link \in LinkType BY <1>1 DEF Init, LinkType, Doings
  <1>9. RecordInv
    <2>1. <<>> \o <<>> = <<>> BY <1>1, ConcatEmptySeq
    <2>2. /\ logger.id = 0 /\ logger.rows = <<>> /\ logger.notes = <<>> /\ ~logger.enabled
          /\ \A s \in Seconds : disk[s] = NoFile /\ record[s] = NewRecord
          /\ ~Recording
      BY DEF Init, Recording
    <2>3. /\ NoFile.rows = <<>> /\ NoFile.notes = <<>> /\ NewRecord.rows = <<>> /\ NewRecord.notes = <<>>
          /\ NewRecord.failed = {} /\ ~NewRecord.lost /\ NewRecord.kept = 0 /\ Len(<<>>) = 0
      BY DEF NoFile, NewRecord
    <2> QED BY <1>2, <2>1, <2>2, <2>3 DEF RecordInv, RowsAgree
  <1> QED BY <1>4, <1>5, <1>6, <1>7, <1>8, <1>9 DEF SessionInv, LogTypes

(* Every step keeps the invariant.                                          *)
LEMMA SessionInductive == SessionInv /\ [Next]_vars => SessionInv'
  <1> SUFFICES ASSUME SessionInv, [Next]_vars PROVE SessionInv'
    OBVIOUS
  <1>1. CASE Next
    <2>1. Kept BY <1>1, NextKeeps
    <2>2. world' \in WorldType /\ link' \in LinkType
      BY <1>1, WorldTyped, LinkTyped DEF SessionInv
    <2> QED BY <2>1, <2>2 DEF Kept, SessionInv, LogTypes
  <1>2. CASE UNCHANGED vars
    BY <1>2 DEF vars, SessionInv, LogTypes, RecordInv, Recording
  <1> QED BY <1>1, <1>2

(* The files of every session hold what the user was told is recorded, with *)
(* what a full disk refused in the buffers at most: logger.py flushes each  *)
(* row and note, and neither start() nor stop() drops or repeats one, but   *)
(* for a stop() whose close() fails, after which the rows are those up to   *)
(* the last one that was logged, at least, in order and without a gap.      *)
THEOREM RecordStaysComplete == Spec => []RecordIsComplete
  <1>1. SessionInv => RecordIsComplete
    <2> SUFFICES ASSUME SessionInv, NEW s \in Seconds, ~record[s].spoiled
                 PROVE  RowsOnDisk(s) /\ NotesOnDisk(s)
      BY DEF RecordIsComplete
    <2>1. disk[s].notes \in Seq(Notable) BY DEF SessionInv, LogTypes, FileType
    <2>2. disk[s].notes \o <<>> = disk[s].notes BY <2>1, ConcatEmptySeq
    <2>3. CASE s = logger.id
      BY <2>2, <2>3 DEF SessionInv, RecordInv, RowsAgree, RowsOnDisk, NotesOnDisk
    <2>4. CASE s # logger.id
      BY <2>2, <2>4 DEF SessionInv, RecordInv, RowsAgree, RowsOnDisk, NotesOnDisk
    <2> QED BY <2>3, <2>4
  <1> QED BY <1>1, SessionInitial, SessionInductive, PTL DEF Spec

-----------------------------------------------------------------------------
(* The buttons.  A handler of any change sets the controls by what is       *)
(* connected then, so that they are right once no change is owed or queued, *)
(* unless one was never told.  The text is what the last change that was    *)
(* told said: it tells the truth where the last assignment to connected is  *)
(* owed or queued and no other thread still owes what contradicts it.       *)

Changes == {"CONNECTED", "DISCONNECTED"}
Owing == \E t \in Threads : link.doing[t] \in Changes
Status == IF link.connected THEN "CONNECTED" ELSE "DISCONNECTED"
ControlsAgree == window.controls = link.connected /\ (link.connected => window.canLog)
TextAgrees == window.connect = (IF link.connected THEN "Disconnect" ELSE "Connect")

OnlyErrors(events, i) == \A j \in 1 .. Len(events) : j > i => events[j] = "ERROR"
Tells(events, status) == \A i \in 1 .. Len(events) : OnlyErrors(events, i) => events[i] \in {"ERROR", status}

ControlsInv ==
    /\ logger.enabled => window.canLog
    /\ link.last # "silent" /\ ~Owing /\ OnlyErrors(link.events, 0) => ControlsAgree
    /\ link.last = "told" =>
          /\ \A t \in Threads : link.doing[t] \in Changes => link.doing[t] = Status
          /\ ~Owing => Tells(link.events, Status) /\ (OnlyErrors(link.events, 0) => TextAgrees)

(* An event that tells the truth is queued.                                 *)
LEMMA TellsAppended ==
  ASSUME NEW events \in Seq(Told), NEW status, NEW event \in Told, event \in {"ERROR", status},
         event = "ERROR" => Tells(events, status)
  PROVE  /\ Tells(Append(events, event), status)
         /\ OnlyErrors(Append(events, event), 0) => event = "ERROR" /\ OnlyErrors(events, 0)
  <1> DEFINE new == Append(events, event)  n == Len(events)
  <1>1. /\ n \in Nat /\ Len(new) = n + 1 /\ new[n + 1] = event
        /\ \A i \in 1 .. n : new[i] = events[i]
    BY AppendProperties
  <1> HIDE DEF new
  <1>2. ASSUME NEW i \in 0 .. n, OnlyErrors(new, i) PROVE event = "ERROR" /\ OnlyErrors(events, i)
    <2>1. n + 1 \in 1 .. Len(new) /\ n + 1 > i BY <1>1
    <2>2. event = "ERROR" BY <1>1, <1>2, <2>1 DEF OnlyErrors
    <2>3. ASSUME NEW j \in 1 .. n, j > i PROVE events[j] = "ERROR"
      BY <1>1, <1>2, <2>3 DEF OnlyErrors
    <2> QED BY <2>2, <2>3 DEF OnlyErrors
  <1>3. ASSUME NEW i \in 1 .. Len(new), OnlyErrors(new, i) PROVE new[i] \in {"ERROR", status}
    <2>1. CASE i = n + 1 BY <1>1, <2>1
    <2>2. CASE i \in 1 .. n
      <3>1. event = "ERROR" /\ OnlyErrors(events, i) BY <1>2, <1>3, <2>2
      <3> QED BY <1>1, <2>2, <3>1 DEF Tells
    <2> QED BY <1>1, <2>1, <2>2
  <1>4. 0 \in 0 .. n BY <1>1
  <1> QED BY <1>2, <1>3, <1>4 DEF Tells, new

(* An error that is queued leaves the others to be seen.                    *)
LEMMA ErrorAppended ==
  ASSUME NEW events \in Seq(Told), OnlyErrors(Append(events, "ERROR"), 0)
  PROVE  OnlyErrors(events, 0)
  <1> DEFINE new == Append(events, "ERROR")
  <1>1. Len(events) \in Nat /\ Len(new) = Len(events) + 1 /\ \A i \in 1 .. Len(events) : new[i] = events[i]
    BY AppendProperties, LenProperties DEF Told
  <1>2. OnlyErrors(new, 0) OBVIOUS
  <1> HIDE DEF new
  <1> QED BY <1>1, <1>2 DEF OnlyErrors

(* The oldest event is taken.                                               *)
LEMMA TellsTaken ==
  ASSUME NEW events \in Seq(Told), events # <<>>
  PROVE  /\ OnlyErrors(Tail(events), 0) /\ Head(events) = "ERROR" => OnlyErrors(events, 0)
         /\ \A status : Tells(events, status) =>
               /\ Tells(Tail(events), status)
               /\ OnlyErrors(Tail(events), 0) => Head(events) \in {"ERROR", status}
  <1> DEFINE left == Tail(events)  n == Len(events)
  <1>1. /\ n \in Nat \ {0} /\ Head(events) = events[1] /\ Len(left) = n - 1
        /\ \A i \in 1 .. n - 1 : left[i] = events[i + 1]
    BY HeadTailProperties
  <1> HIDE DEF left
  <1>2. ASSUME NEW i \in 0 .. n - 1, OnlyErrors(left, i) PROVE OnlyErrors(events, i + 1)
    <2> SUFFICES ASSUME NEW j \in 1 .. n, j > i + 1 PROVE events[j] = "ERROR"
      BY DEF OnlyErrors
    <2>1. j - 1 \in 1 .. Len(left) /\ j - 1 > i /\ left[j - 1] = events[j] BY <1>1
    <2> QED BY <1>2, <2>1 DEF OnlyErrors
  <1>3. ASSUME NEW status, Tells(events, status), NEW i \in 1 .. Len(left), OnlyErrors(left, i)
        PROVE  left[i] \in {"ERROR", status}
    <2>1. i \in 0 .. n - 1 /\ i + 1 \in 1 .. n /\ left[i] = events[i + 1] BY <1>1
    <2>2. OnlyErrors(events, i + 1) BY <1>2, <1>3, <2>1
    <2> QED BY <1>3, <2>1, <2>2 DEF Tells
  <1>4. ASSUME OnlyErrors(left, 0)
        PROVE  /\ \A status : Tells(events, status) => events[1] \in {"ERROR", status}
               /\ events[1] = "ERROR" => OnlyErrors(events, 0)
    <2>1. OnlyErrors(events, 0 + 1) /\ 1 \in 1 .. n BY <1>1, <1>2, <1>4
    <2>2. ASSUME NEW status, Tells(events, status) PROVE events[1] \in {"ERROR", status}
      BY <2>1, <2>2 DEF Tells
    <2>3. ASSUME events[1] = "ERROR", NEW j \in 1 .. n PROVE events[j] = "ERROR"
      BY <1>1, <2>1, <2>3 DEF OnlyErrors
    <2> QED BY <2>2, <2>3 DEF OnlyErrors
  <1>5. ASSUME NEW status, Tells(events, status) PROVE Tells(left, status)
    BY <1>3, <1>5 DEF Tells
  <1> QED BY <1>1, <1>4, <1>5 DEF left

(* The widgets are left alone.                                              *)
SameButtons == /\ window'.controls = window.controls /\ window'.connect = window.connect
               /\ window'.canLog = window.canLog

(* A step that changes neither the buttons nor the link, nor what is owed.  *)
LEMMA SameControls ==
  ASSUME ControlsInv, link'.last = link.last, link'.events = link.events,
         link'.connected = link.connected, SameButtons, logger'.enabled => window'.canLog,
         \A t \in Threads : \/ link'.doing[t] = link.doing[t]
                            \/ link.doing[t] \notin Changes /\ link'.doing[t] \notin Changes
  PROVE  ControlsInv'
  <1>1. Status' = Status /\ (ControlsAgree' <=> ControlsAgree) /\ (TextAgrees' <=> TextAgrees)
    BY DEF Status, ControlsAgree, TextAgrees, SameButtons
  <1>2. Owing' <=> Owing BY DEF Owing
  <1> QED BY <1>1, <1>2 DEF ControlsInv

(* A step of a thread that changes connected without an event of its own,   *)
(* or not at all.                                                           *)
LEMMA UntoldControls ==
  ASSUME LogTypes, ControlsInv, NEW t \in Threads, NEW doing, doing \notin Changes,
         link.doing[t] \notin Changes, UNCHANGED <<logger, window>>,
         \/ link' = [link EXCEPT !.doing[t] = doing]
         \/ link' = [link EXCEPT !.connected = FALSE, !.doing[t] = doing, !.last = Untold]
  PROVE  ControlsInv'
  <1>0. link \in LinkType BY DEF LogTypes
  <1>1. /\ link'.events = link.events /\ link'.doing[t] = doing
        /\ \A other \in Threads \ {t} : link'.doing[other] = link.doing[other]
        /\ \/ link'.connected = link.connected /\ link'.last = link.last
           \/ link.connected /\ link'.last = "silent"
    <2>1. CASE link' = [link EXCEPT !.doing[t] = doing] BY <1>0, <2>1 DEF LinkType
    <2>2. CASE link' = [link EXCEPT !.connected = FALSE, !.doing[t] = doing, !.last = Untold]
      <3>1. CASE link.connected BY <1>0, <2>2, <3>1 DEF LinkType, Untold
      <3>2. CASE ~link.connected
        <4>1. link.connected = FALSE /\ Untold = link.last BY <1>0, <3>2 DEF LinkType, Untold
        <4> QED BY <1>0, <2>2, <4>1 DEF LinkType
      <3> QED BY <3>1, <3>2
    <2> QED BY <2>1, <2>2
  <1>2. CASE link'.last = "silent" /\ link.connected
    BY <1>2 DEF ControlsInv
  <1>3. CASE link'.connected = link.connected /\ link'.last = link.last
    <2>1. SameButtons /\ (logger'.enabled => window'.canLog) BY DEF SameButtons, ControlsInv
    <2> QED BY <1>1, <1>3, <2>1, SameControls
  <1> QED BY <1>1, <1>2, <1>3

(* A thread sets connected and owes the event that says so.                 *)
LEMMA SetControls ==
  ASSUME LogTypes, ControlsInv, NEW t \in Threads, NEW connected \in BOOLEAN, NEW event,
         event = IF connected THEN "CONNECTED" ELSE "DISCONNECTED",
         link' = [link EXCEPT !.connected = connected, !.doing[t] = event, !.last = Telling(t, event)],
         UNCHANGED <<logger, window>>
  PROVE  ControlsInv'
  <1>0. link \in LinkType BY DEF LogTypes
  <1>1. /\ link'.doing[t] = event /\ link'.last = Telling(t, event) /\ link'.connected = connected
        /\ \A other \in Threads \ {t} : link'.doing[other] = link.doing[other]
    BY <1>0 DEF LinkType
  <1>2. Owing' BY <1>1 DEF Owing, Changes
  <1>3. Status' = event BY <1>1 DEF Status
  <1>4. link'.last # "silent" BY <1>1 DEF Telling
  <1>5. ASSUME link'.last = "told", NEW other \in Threads, link'.doing[other] \in Changes
        PROVE  link'.doing[other] = event
    <2>1. CASE other = t BY <1>1, <2>1
    <2>2. CASE other # t BY <1>1, <1>5, <2>2 DEF Telling, Changes
    <2> QED BY <2>1, <2>2
  <1> QED BY <1>2, <1>3, <1>5 DEF ControlsInv

(* An error is queued, and nothing else.                                    *)
LEMMA ErrorControls ==
  ASSUME LogTypes, ControlsInv, link'.events = Append(link.events, "ERROR"), link'.last = link.last,
         link'.connected = link.connected, UNCHANGED <<logger, window>>,
         \A t \in Threads : \/ link'.doing[t] = link.doing[t]
                            \/ link.doing[t] \notin Changes /\ link'.doing[t] \notin Changes
  PROVE  ControlsInv'
  <1> DEFINE events == link.events
  <1>1. events \in Seq(Told) /\ "ERROR" \in Told BY DEF LogTypes, LinkType, Told
  <1>2. /\ OnlyErrors(Append(events, "ERROR"), 0) => OnlyErrors(events, 0)
        /\ Tells(events, Status) => Tells(Append(events, "ERROR"), Status)
    <2> HIDE DEF events
    <2>1. CASE Tells(events, Status) BY <1>1, <2>1, TellsAppended
    <2>2. CASE ~Tells(events, Status)
      <3>1. OnlyErrors(Append(events, "ERROR"), 0) => OnlyErrors(events, 0)
        BY <1>1, ErrorAppended
      <3> QED BY <2>2, <3>1
    <2> QED BY <2>1, <2>2
  <1>3. Status' = Status /\ (ControlsAgree' <=> ControlsAgree) /\ (TextAgrees' <=> TextAgrees)
    BY DEF Status, ControlsAgree, TextAgrees
  <1>4. Owing' <=> Owing BY DEF Owing
  <1> HIDE DEF events
  <1>5. link'.events = Append(events, "ERROR") /\ link.events = events BY DEF events
  <1> QED BY <1>2, <1>3, <1>4, <1>5 DEF ControlsInv

(* The link changes, and tells so later.                                    *)
LEMMA LinkControls ==
  ASSUME LogTypes, ControlsInv,
         \/ \E t \in Threads : LinkMoves(t) \/ LinkTells(t)
         \/ LinkErrs \/ LineArrives
  PROVE  ControlsInv'
  <1> DEFINE events == link.events
  <1>0. link \in LinkType /\ events \in Seq(Told)
    BY DEF LogTypes, LinkType
  <1>1. ASSUME NEW t \in Threads, LinkMoves(t) PROVE ControlsInv'
    <2>0. UNCHANGED <<logger, window>> BY <1>1, LinkMoved
    <2>1. CASE LinkTries(t)
      <3>1. /\ "opening" \notin Changes /\ link.doing[t] \notin Changes
            /\ link' = [link EXCEPT !.doing[t] = "opening"]
        BY <2>1 DEF LinkTries, Free, Changes
      <3> QED BY <2>0, <3>1, UntoldControls
    <2>2. CASE LinkOpens(t)
      BY <2>0, <2>2, SetControls DEF LinkOpens
    <2>3. CASE LinkRefused(t)
      <3>1. /\ "ERROR" \notin Changes /\ link.doing[t] \notin Changes
            /\ \/ link' = [link EXCEPT !.doing[t] = "ERROR"]
               \/ link' = [link EXCEPT !.connected = FALSE, !.doing[t] = "ERROR", !.last = Untold]
        BY <2>3 DEF LinkRefused, Changes
      <3> QED BY <2>0, <3>1, UntoldControls
    <2>4. CASE LinkFails(t)
      <3> DEFINE doing == IF link.connected THEN "was up" ELSE "was down"
      <3>1. doing \notin Changes /\ link.doing[t] \notin Changes /\ link' = [link EXCEPT !.doing[t] = doing]
        BY <2>4 DEF LinkFails, Free, Changes
      <3> HIDE DEF doing
      <3> QED BY <2>0, <3>1, UntoldControls
    <2>5. CASE LinkCloses(t)
      <3>1. CASE link.doing[t] = "was up"
        <4>1. link' = [link EXCEPT !.connected = FALSE, !.doing[t] = "DISCONNECTED",
                                   !.last = Telling(t, "DISCONNECTED")]
          BY <2>5, <3>1 DEF LinkCloses
        <4> QED BY <2>0, <4>1, SetControls
      <3>2. CASE link.doing[t] = "was down"
        <4>1. link' = [link EXCEPT !.connected = FALSE, !.doing[t] = "", !.last = Untold]
          BY <2>5, <3>2 DEF LinkCloses
        <4>2. "" \notin Changes /\ link.doing[t] \notin Changes BY <3>2 DEF Changes
        <4> QED BY <2>0, <4>1, <4>2, UntoldControls
      <3> QED BY <2>5, <3>1, <3>2 DEF LinkCloses
    <2> QED BY <1>1, <2>1, <2>2, <2>3, <2>4, <2>5 DEF LinkMoves
  <1>2. ASSUME NEW t \in Threads, LinkTells(t) PROVE ControlsInv'
    <2> DEFINE event == link.doing[t]
    <2>1. /\ event \in Told /\ link'.events = Append(events, event) /\ link'.connected = link.connected
          /\ link'.last = link.last /\ link'.doing[t] = ""
          /\ \A other \in Threads \ {t} : link'.doing[other] = link.doing[other]
          /\ UNCHANGED <<logger, window>>
      BY <1>2, LinkTold
    <2>2. CASE event = "ERROR" BY <2>1, <2>2, ErrorControls DEF Changes
    <2>3. CASE event # "ERROR"
      <3>1. event \in Changes BY <2>1, <2>3 DEF Told, Changes
      <3>2. ~OnlyErrors(Append(events, event), 0) /\ Tells(Append(events, event), event)
        <4> HIDE DEF events, event
        <4> QED BY <1>0, <2>1, <2>3, TellsAppended
      <3>3. Status' = Status BY <2>1 DEF Status
      <3>4. link.last = "told" => event = Status BY <3>1 DEF ControlsInv
      <3>5. ASSUME link.last = "told", NEW other \in Threads, link'.doing[other] \in Changes
            PROVE  link'.doing[other] = Status
        <4>1. other # t BY <2>1, <3>5 DEF Changes
        <4> QED BY <2>1, <3>5, <4>1 DEF ControlsInv
      <3>6. logger'.enabled => window'.canLog BY <2>1 DEF ControlsInv
      <3> HIDE DEF events, event
      <3> QED BY <2>1, <3>2, <3>3, <3>4, <3>5, <3>6 DEF ControlsInv
    <2> QED BY <2>2, <2>3
  <1>3. CASE LinkErrs
    BY <1>3, LinkErred, ErrorControls DEF LinkErrs
  <1>4. CASE LineArrives
    <2>1. /\ link'.last = link.last /\ link'.connected = link.connected /\ link'.events = link.events
          /\ link'.doing = link.doing
      BY <1>0, <1>4 DEF LineArrives, LinkType
    <2>2. SameButtons /\ (logger'.enabled => window'.canLog)
      BY <1>4 DEF LineArrives, SameButtons, ControlsInv
    <2> QED BY <2>1, <2>2, SameControls
  <1> QED BY <1>1, <1>2, <1>3, <1>4

(* The next event is taken; the buttons stay, or show the link.             *)
LEMMA EventControls ==
  ASSUME LogTypes, ControlsInv, NEW event \in Told, TakesEvent(event),
         logger'.enabled => window'.canLog,
         event = "ERROR" => SameButtons,
         event # "ERROR" =>
            /\ window'.controls = link.connected /\ (link.connected => window'.canLog)
            /\ window'.connect = (IF event = "CONNECTED" THEN "Disconnect" ELSE "Connect")
  PROVE  ControlsInv'
  <1> DEFINE events == link.events  left == Tail(events)
  <1>0. link \in LinkType /\ events \in Seq(Told) /\ events # <<>> /\ Head(events) = event
    BY DEF LogTypes, LinkType, TakesEvent
  <1>1. /\ link'.events = left /\ link'.doing = link.doing /\ link'.connected = link.connected
        /\ link'.last = link.last
    BY <1>0 DEF TakesEvent, LinkType
  <1>2. Status' = Status /\ (Owing' <=> Owing) BY <1>1 DEF Status, Owing
  <1>3. /\ OnlyErrors(left, 0) /\ event = "ERROR" => OnlyErrors(events, 0)
        /\ Tells(events, Status) =>
              Tells(left, Status) /\ (OnlyErrors(left, 0) => event \in {"ERROR", Status})
    <2> HIDE DEF events
    <2> QED BY <1>0, TellsTaken
  <1> HIDE DEF left
  <1>4. ASSUME link.last # "silent", ~Owing, OnlyErrors(left, 0) PROVE ControlsAgree'
    <2>1. CASE event = "ERROR"
      BY <1>1, <1>3, <1>4, <2>1 DEF ControlsInv, ControlsAgree, SameButtons
    <2>2. CASE event # "ERROR" BY <1>1, <2>2 DEF ControlsAgree
    <2> QED BY <2>1, <2>2
  <1>5. ASSUME link.last = "told", ~Owing
        PROVE  Tells(left, Status) /\ (OnlyErrors(left, 0) => TextAgrees')
    <2>1. Tells(events, Status) /\ (OnlyErrors(events, 0) => TextAgrees) BY <1>5 DEF ControlsInv
    <2>2. ASSUME OnlyErrors(left, 0) PROVE TextAgrees'
      <3>1. CASE event = "ERROR" BY <1>1, <1>3, <2>1, <2>2, <3>1 DEF TextAgrees, SameButtons
      <3>2. CASE event # "ERROR" BY <1>1, <1>3, <2>1, <2>2, <3>2 DEF TextAgrees, Status
      <3> QED BY <3>1, <3>2
    <2> QED BY <1>3, <2>1, <2>2
  <1>6. link.last = "told" => \A t \in Threads : link'.doing[t] \in Changes => link'.doing[t] = Status
    BY <1>1 DEF ControlsInv
  <1> QED BY <1>1, <1>2, <1>4, <1>5, <1>6 DEF ControlsInv

(* A note, written or refused, leaves the buttons to its handler.           *)
LEMMA NoteControls ==
  ASSUME SessionInv, ControlsInv, NEW note \in Notable, NEW before \in WindowType, Notes(note, before)
  PROVE  /\ logger'.enabled = logger.enabled
         /\ window'.controls = before.controls /\ window'.canLog = before.canLog
         /\ window'.connect = before.connect
  <1> DEFINE logged == LogEvent(Now, note)
  <1>1. LogTypes /\ logger \in LoggerType BY DEF SessionInv, LogTypes
  <1>2. logger' = logged.log /\ window' = [before EXCEPT !.phase = PhaseAfter(logged)]
    BY DEF Notes, Keeps
  <1>3. logged.log.enabled = logger.enabled
    <2>1. CASE ~logger.enabled BY <1>1, <2>1, NoteLogged
    <2>2. CASE logger.enabled /\ world.full
      <3>1. logged.log = [logger EXCEPT !.notes = Append(logger.notes, note)] BY <1>1, <2>2, NoteLogged
      <3> QED BY <1>1, <3>1 DEF LoggerType
    <2>3. CASE logger.enabled /\ ~world.full
      <3>1. logged.log = [logger EXCEPT !.notes = <<>>] BY <1>1, <2>3, NoteLogged
      <3> QED BY <1>1, <3>1 DEF LoggerType
    <2> QED BY <2>1, <2>2, <2>3
  <1> HIDE DEF logged
  <1> QED BY <1>2, <1>3 DEF WindowType

(* Every step keeps the buttons' part of the invariant.                     *)
LEMMA ControlsNext ==
  ASSUME SessionInv, ControlsInv, Next
  PROVE  ControlsInv'
  <1>0. /\ LogTypes /\ window \in WindowType /\ logger \in LoggerType /\ link \in LinkType
        /\ (logger.enabled => window.canLog)
    BY DEF SessionInv, LogTypes, ControlsInv
  <1>1. CASE (\E t \in Threads : LinkMoves(t) \/ LinkTells(t)) \/ LinkErrs \/ LineArrives
    BY <1>0, <1>1, LinkControls
  <1>2. ASSUME UNCHANGED <<link, logger>>, SameButtons PROVE ControlsInv'
    BY <1>0, <1>2, SameControls DEF SameButtons
  <1>3. CASE SecondPasses \/ DiskChanges \/ ResetStatistics
    BY <1>2, <1>3 DEF SecondPasses, DiskChanges, ResetStatistics, SameButtons
  <1>4. CASE ProcessSerial \/ NoMoreLines \/ NoMoreEvents \/ Killed
    BY <1>0, <1>2, <1>4 DEF ProcessSerial, NoMoreLines, NoMoreEvents, Killed, SameButtons, WindowType
  <1>5. ASSUME TakesLine
        PROVE  /\ link'.doing = link.doing /\ link'.last = link.last
               /\ link'.events = link.events /\ link'.connected = link.connected
    BY <1>0, <1>5 DEF TakesLine, LinkType
  <1>6. CASE OnTelemetry
    <2> DEFINE packet == Head(link.lines)  logged == LogTelemetry(Now, packet)
    <2>1. packet \in Packets BY <1>0, <1>6, TakenTyped DEF OnTelemetry
    <2>2. Keeps(logged) /\ window' = [window EXCEPT !.phase = PhaseAfter(logged)] /\ TakesLine
      BY <1>6 DEF OnTelemetry
    <2> HIDE DEF packet
    <2>3. logger'.enabled = logger.enabled
      <3>1. CASE ~logger.enabled BY <1>0, <2>1, <2>2, <3>1, RowLogged
      <3>4. CASE logger.enabled /\ "telemetry" \notin logger.open
        BY <1>0, <2>1, <2>2, <3>4, RowLogged
      <3>2. CASE logger.enabled /\ "telemetry" \in logger.open /\ world.full
        <4>1. logger' = [logger EXCEPT !.rows = Append(logger.rows, packet)]
          BY <1>0, <2>1, <2>2, <3>2, RowLogged
        <4> QED BY <1>0, <4>1 DEF LoggerType
      <3>3. CASE logger.enabled /\ "telemetry" \in logger.open /\ ~world.full
        <4>1. logger' = [logger EXCEPT !.rows = <<>>] BY <1>0, <2>1, <2>2, <3>3, RowLogged
        <4> QED BY <1>0, <4>1 DEF LoggerType
      <3> QED BY <3>1, <3>2, <3>3, <3>4
    <2>4. SameButtons BY <1>0, <2>2 DEF SameButtons, WindowType
    <2> QED BY <1>0, <1>5, <2>2, <2>3, <2>4, SameControls DEF SameButtons
  <1>7. CASE OnMalformed
    BY <1>0, <1>5, <1>7, SameControls DEF OnMalformed, SameButtons
  <1>8. ASSUME NEW text \in {"Connect", "Disconnect"}
        PROVE  /\ Controlled(text) \in WindowType /\ Controlled(text).connect = text
               /\ Controlled(text).controls = link.connected
               /\ (link.connected \/ logger.enabled => Controlled(text).canLog)
    <2> DEFINE canLog == link.connected \/ logger.enabled
    <2>1. canLog \in BOOLEAN /\ link.connected \in BOOLEAN BY <1>0 DEF LinkType, LoggerType
    <2>2. Controlled(text) = [window EXCEPT !.connect = text, !.controls = link.connected, !.canLog = canLog]
      BY DEF Controlled
    <2>3. link.connected \/ logger.enabled => canLog OBVIOUS
    <2> HIDE DEF canLog
    <2> QED BY <1>0, <1>8, <2>1, <2>2, <2>3 DEF WindowType
  <1>9. CASE OnConnect
    <2>1. TakesEvent("CONNECTED") /\ Notes("SERIAL_CONNECT", Controlled("Disconnect")) BY <1>9 DEF OnConnect
    <2>2. "SERIAL_CONNECT" \in Notable /\ "CONNECTED" \in Told BY DEF Notable, Told
    <2>3. /\ logger'.enabled = logger.enabled /\ window'.connect = "Disconnect"
          /\ window'.controls = link.connected
          /\ (link.connected \/ logger.enabled => window'.canLog)
      BY <1>8, <2>1, <2>2, NoteControls
    <2> QED BY <1>0, <2>1, <2>2, <2>3, EventControls
  <1>10. CASE OnDisconnect
    <2>1. TakesEvent("DISCONNECTED") /\ Notes("SERIAL_DISCONNECT", Controlled("Connect"))
      BY <1>10 DEF OnDisconnect
    <2>2. "SERIAL_DISCONNECT" \in Notable /\ "DISCONNECTED" \in Told BY DEF Notable, Told
    <2>3. /\ logger'.enabled = logger.enabled /\ window'.connect = "Connect"
          /\ window'.controls = link.connected
          /\ (link.connected \/ logger.enabled => window'.canLog)
      BY <1>8, <2>1, <2>2, NoteControls
    <2> QED BY <1>0, <2>1, <2>2, <2>3, EventControls
  <1>11. CASE OnSerialError
    <2>1. TakesEvent("ERROR") /\ Notes("SERIAL_ERROR", window) BY <1>11 DEF OnSerialError
    <2>2. "SERIAL_ERROR" \in Notable /\ "ERROR" \in Told BY DEF Notable, Told
    <2>3. logger'.enabled = logger.enabled /\ SameButtons
      BY <1>0, <2>1, <2>2, NoteControls DEF SameButtons
    <2>4. logger'.enabled => window'.canLog BY <1>0, <2>3 DEF SameButtons
    <2> QED BY <1>0, <2>1, <2>2, <2>3, <2>4, EventControls
  <1>12. CASE StartLogging
    <2>1. SameButtons /\ window.canLog /\ UNCHANGED link
      BY <1>0, <1>12 DEF StartLogging, SameButtons, WindowType
    <2> QED BY <2>1, SameControls DEF SameButtons
  <1>13. CASE StopLogging
    <2>1. SameButtons /\ window.canLog /\ UNCHANGED link
      BY <1>0, <1>13 DEF StopLogging, SameButtons, WindowType
    <2> QED BY <2>1, SameControls DEF SameButtons
  <1>14. CASE SendCommand
    <2>1. UNCHANGED link BY <1>14 DEF SendCommand
    <2>2. CASE Notes("COMMAND_SENT", window)
      <3>1. "COMMAND_SENT" \in Notable BY DEF Notable
      <3>2. logger'.enabled = logger.enabled /\ SameButtons BY <1>0, <2>2, <3>1, NoteControls DEF SameButtons
      <3> QED BY <1>0, <2>1, <3>2, SameControls DEF SameButtons
    <2>3. CASE UNCHANGED <<logger, disk, window, record>> BY <1>2, <2>1, <2>3 DEF SameButtons
    <2> QED BY <1>14, <2>2, <2>3 DEF SendCommand
  <1>15. CASE CloseWindow
    <2>1. SameButtons /\ UNCHANGED link BY <1>0, <1>15 DEF CloseWindow, SameButtons, WindowType
    <2>2. logger'.enabled => window'.canLog
      <3>1. CASE logger.enabled BY <1>0, <2>1, <3>1 DEF SameButtons
      <3>2. CASE ~logger.enabled BY <1>0, <1>15, <3>2 DEF CloseWindow
      <3> QED BY <3>1, <3>2
    <2> QED BY <2>1, <2>2, SameControls
  <1> QED
    BY <1>1, <1>3, <1>4, <1>6, <1>7, <1>9, <1>10, <1>11, <1>12, <1>13, <1>14, <1>15 DEF Next, LinkMoves

(* The buttons end up agreeing with the link, whichever thread changed it   *)
(* last: the handler of a change reads what is connected when it runs, and  *)
(* one that a full disk ends has set them before.  The exceptions are those *)
(* of ControlsFollowLink, a change that no event tells and, for the text,   *)
(* two events that cross each other.  An open log keeps its button enabled. *)
THEOREM ControlsEndUpRight == Spec => []ControlsFollowLink
  <1> DEFINE Inv == SessionInv /\ ControlsInv
  <1>0. OnlyErrors(<<>>, 0) /\ \A status : Tells(<<>>, status)
    BY DEF OnlyErrors, Tells
  <1>1. Init => Inv
    <2>1. Init => ControlsInv
      <3> SUFFICES ASSUME Init PROVE ControlsInv
        OBVIOUS
      <3>1. /\ \A t \in Threads : link.doing[t] \notin Changes
            /\ link.events = <<>> /\ ~link.connected /\ ~logger.enabled
            /\ window.controls = FALSE /\ link.connected = FALSE /\ window.connect = "Connect"
        BY DEF Init, Changes
      <3> QED BY <1>0, <3>1 DEF ControlsInv, ControlsAgree, TextAgrees
    <2> QED BY <2>1, SessionInitial
  <1>2. Inv /\ [Next]_vars => Inv'
    <2> SUFFICES ASSUME SessionInv, ControlsInv, [Next]_vars PROVE SessionInv' /\ ControlsInv'
      OBVIOUS
    <2>1. SessionInv' BY SessionInductive
    <2>2. CASE Next BY <2>1, <2>2, ControlsNext
    <2>3. CASE UNCHANGED vars
      BY <2>1, <2>3 DEF vars, ControlsInv, ControlsAgree, TextAgrees, Status, Owing
    <2> QED BY <2>1, <2>2, <2>3
  <1>3. Inv => ControlsFollowLink
    <2>1. ASSUME Settled PROVE ~Owing /\ link.events = <<>>
      BY <2>1 DEF Settled, Owing, Changes
    <2> QED BY <1>0, <2>1 DEF ControlsInv, ControlsFollowLink, ControlsAgree, TextAgrees
  <1> QED BY <1>1, <1>2, <1>3, PTL DEF Spec

-----------------------------------------------------------------------------
(* The type invariant, with the bounds of the queues. *)

LinkBounds ==
    /\ Len(link.lines) <= MaxQueue /\ Len(link.events) <= MaxQueue
    /\ world.inputs <= MaxInputs

(* The length of a queue to which something is added, or from which it is taken. *)
LEMMA QueueLength ==
  ASSUME NEW S, NEW queue \in Seq(S)
  PROVE  /\ Len(queue) \in Nat
         /\ \A x \in S : Len(queue) < MaxQueue => Len(Append(queue, x)) <= MaxQueue
         /\ queue # <<>> /\ Len(queue) <= MaxQueue => Len(Tail(queue)) <= MaxQueue
  <1>1. \A m, n \in Nat : (m < 2 => m + 1 <= 2) /\ (m <= 2 => m - 1 <= 2) OBVIOUS
  <1>2. Len(queue) \in Nat BY LenProperties
  <1>3. \A x \in S : Len(Append(queue, x)) = Len(queue) + 1 BY AppendProperties
  <1>4. queue # <<>> => Len(Tail(queue)) = Len(queue) - 1 BY HeadTailProperties
  <1> QED BY <1>1, <1>2, <1>3, <1>4, Zenon DEF MaxQueue

(* Every step respects the bounds of the queues and of the inputs.          *)
LEMMA BoundsKept ==
  ASSUME LogTypes, LinkBounds, Next
  PROVE  LinkBounds'
  <1> DEFINE lines == link.lines  events == link.events  inputs == world.inputs
  <1>0. /\ link \in LinkType /\ lines \in Seq(Packets \cup {Damaged}) /\ events \in Seq(Told)
        /\ world \in WorldType /\ inputs <= MaxInputs /\ MaxInputs \in Nat /\ inputs \in Nat
    BY BoundsAssumption DEF LogTypes, LinkType, LinkBounds, WorldType
  <1>1. ASSUME Inputs PROVE world'.inputs <= MaxInputs
    <2>1. world' = [world EXCEPT !.inputs = inputs + 1] /\ inputs < MaxInputs BY <1>1 DEF Inputs
    <2> QED BY <1>0, <2>1 DEF WorldType
  <1>2. world'.inputs <= MaxInputs
    <2>1. ASSUME UNCHANGED world PROVE world'.inputs <= MaxInputs BY <1>0, <2>1
    <2>2. CASE SecondPasses BY <1>0, <2>2 DEF SecondPasses, WorldType
    <2>3. CASE DiskChanges BY <1>0, <2>3 DEF DiskChanges, WorldType
    <2> QED
      BY <1>1, <2>1, <2>2, <2>3
      DEF Next, LinkTries, LinkOpens, LinkRefused, LinkFails, LinkCloses, LinkTells, LinkErrs, LineArrives,
          ProcessSerial, NoMoreLines, NoMoreEvents, OnTelemetry, OnMalformed, OnConnect, OnDisconnect,
          OnSerialError, StartLogging, StopLogging, ResetStatistics, SendCommand, CloseWindow, Killed
  <1>3. Len(lines) <= MaxQueue /\ Len(events) <= MaxQueue BY DEF LinkBounds
  <1>4. ASSUME NEW t \in Threads, LinkMoves(t) PROVE LinkBounds'
    <2>1. link'.lines = lines /\ link'.events = events BY <1>4, LinkMoved
    <2> QED BY <1>2, <1>3, <2>1 DEF LinkBounds
  <1>5. ASSUME NEW event \in Told, Len(events) < MaxQueue, link'.lines = lines, link'.events = Append(events, event)
        PROVE  LinkBounds'
    <2>1. Len(link'.events) <= MaxQueue
      <3> HIDE DEF events
      <3>1. Len(Append(events, event)) <= MaxQueue BY <1>0, <1>5, QueueLength
      <3> QED BY <1>5, <3>1
    <2> QED BY <1>2, <1>3, <1>5, <2>1 DEF LinkBounds
  <1>6. ASSUME NEW t \in Threads, LinkTells(t) PROVE LinkBounds'
    <2>1. /\ link'.lines = lines /\ link.doing[t] \in Told /\ Len(events) < MaxQueue
          /\ link'.events = Append(events, link.doing[t])
      BY <1>6, LinkTold
    <2> QED BY <1>5, <2>1
  <1>7. CASE LinkErrs
    <2>1. link'.lines = lines /\ link'.events = Append(events, "ERROR") /\ Len(events) < MaxQueue
      BY <1>7, LinkErred
    <2> QED BY <1>5, <2>1 DEF Told
  <1>8. CASE LineArrives
    <2>1. PICK line \in Packets \cup {Damaged} : link' = [link EXCEPT !.lines = Append(lines, line)]
      BY <1>8 DEF LineArrives
    <2>2. link'.events = events /\ link'.lines = Append(lines, line) /\ Len(lines) < MaxQueue
      BY <1>0, <1>8, <2>1 DEF LineArrives, LinkType
    <2>3. Len(link'.lines) <= MaxQueue
      <3> HIDE DEF lines
      <3>1. Len(Append(lines, line)) <= MaxQueue BY <1>0, <2>2, QueueLength
      <3> QED BY <2>2, <3>1
    <2> QED BY <1>2, <1>3, <2>2, <2>3 DEF LinkBounds
  <1>9. CASE TakesLine
    <2>1. link'.events = events /\ link'.lines = Tail(lines) /\ lines # <<>>
      BY <1>0, <1>9 DEF TakesLine, LinkType
    <2>2. Len(link'.lines) <= MaxQueue
      <3> HIDE DEF lines
      <3>1. Len(Tail(lines)) <= MaxQueue BY <1>0, <1>3, <2>1, QueueLength
      <3> QED BY <2>1, <3>1
    <2> QED BY <1>2, <1>3, <2>1, <2>2 DEF LinkBounds
  <1>10. ASSUME NEW event, TakesEvent(event) PROVE LinkBounds'
    <2>1. link'.lines = lines /\ link'.events = Tail(events) /\ events # <<>>
      BY <1>0, <1>10 DEF TakesEvent, LinkType
    <2>2. Len(link'.events) <= MaxQueue
      <3> HIDE DEF events
      <3>1. Len(Tail(events)) <= MaxQueue BY <1>0, <1>3, <2>1, QueueLength
      <3> QED BY <2>1, <3>1
    <2> QED BY <1>2, <1>3, <2>1, <2>2 DEF LinkBounds
  <1>11. CASE UNCHANGED link BY <1>2, <1>3, <1>11 DEF LinkBounds
  <1> QED
    BY <1>4, <1>6, <1>7, <1>8, <1>9, <1>10, <1>11
    DEF Next, LinkMoves, ProcessSerial, NoMoreLines, NoMoreEvents, SecondPasses, DiskChanges, OnTelemetry,
        OnMalformed, OnConnect, OnDisconnect, OnSerialError, StartLogging, StopLogging, ResetStatistics,
        SendCommand, CloseWindow, Killed

(* While process_serial() runs its thread is not in a call of the link.     *)
GuiFree == window.phase \notin {"idle", "ended"} => link.doing["gui"] = ""

LEMMA GuiStaysFree ==
  ASSUME LogTypes, GuiFree, Next
  PROVE  GuiFree'
  <1>0. link \in LinkType /\ window \in WindowType BY DEF LogTypes
  <1>1. ASSUME NEW t \in Threads, LinkMoves(t) \/ LinkTells(t) PROVE GuiFree'
    <2>1. window' = window /\ \A other \in Threads \ {t} : link'.doing[other] = link.doing[other]
      BY <1>1, LinkMoved, LinkTold
    <2>2. CASE t # "gui" BY <2>1, <2>2 DEF GuiFree, Threads
    <2>3. CASE t = "gui"
      <3>1. link.doing["gui"] # "" \/ window.phase = "idle"
        BY <1>1, <2>3
        DEF LinkMoves, LinkTries, LinkOpens, LinkRefused, LinkFails, LinkCloses, LinkTells, Free
      <3> QED BY <2>1, <3>1 DEF GuiFree
    <2> QED BY <2>2, <2>3
  <1>2. ASSUME link'.doing = link.doing, window'.phase \in {window.phase, "idle", "ended"} PROVE GuiFree'
    BY <1>2 DEF GuiFree
  <1>3. CASE LinkErrs \/ LineArrives
    <2>1. link'.doing = link.doing /\ window' = window BY <1>0, <1>3 DEF LinkErrs, LineArrives, LinkType
    <2> QED BY <1>2, <2>1
  <1>4. CASE ProcessSerial BY <1>4 DEF ProcessSerial, Free, GuiFree
  <1>5. CASE NoMoreLines BY <1>5 DEF NoMoreLines, GuiFree
  <1>6. ASSUME NEW note, NEW before, Notes(note, before), before \in WindowType, before.phase = window.phase
        PROVE  window'.phase \in {window.phase, "idle"}
    <2> DEFINE phase == PhaseAfter(LogEvent(Now, note))
    <2>1. window' = [before EXCEPT !.phase = phase] BY <1>6 DEF Notes
    <2>2. phase \in {window.phase, "idle"} BY DEF PhaseAfter
    <2> HIDE DEF phase
    <2> QED BY <1>6, <2>1, <2>2 DEF WindowType
  <1>7. ASSUME NEW text \in {"Connect", "Disconnect"}
        PROVE  Controlled(text) \in WindowType /\ Controlled(text).phase = window.phase
    <2> DEFINE canLog == link.connected \/ logger.enabled
    <2>1. canLog \in BOOLEAN /\ link.connected \in BOOLEAN BY <1>0 DEF LogTypes, LinkType, LoggerType
    <2>2. Controlled(text) = [window EXCEPT !.connect = text, !.controls = link.connected, !.canLog = canLog]
      BY DEF Controlled
    <2> HIDE DEF canLog
    <2> QED BY <1>0, <1>7, <2>1, <2>2 DEF WindowType
  <1>8. CASE OnTelemetry
    <2> DEFINE phase == PhaseAfter(LogTelemetry(Now, Head(link.lines)))
    <2>1. window' = [window EXCEPT !.phase = phase] /\ link' = [link EXCEPT !.lines = Tail(link.lines)]
      BY <1>8 DEF OnTelemetry, TakesLine
    <2>2. phase \in {window.phase, "idle"} BY DEF PhaseAfter
    <2> HIDE DEF phase
    <2>3. window'.phase \in {window.phase, "idle"} /\ link'.doing = link.doing
      BY <1>0, <2>1, <2>2 DEF WindowType, LinkType
    <2> QED BY <1>2, <2>3
  <1>9. CASE OnMalformed
    <2>1. window' = window /\ link'.doing = link.doing BY <1>0, <1>9 DEF OnMalformed, TakesLine, LinkType
    <2> QED BY <1>2, <2>1
  <1>10. ASSUME NEW event, TakesEvent(event) PROVE link'.doing = link.doing
    BY <1>0, <1>10 DEF TakesEvent, LinkType
  <1>11. CASE OnConnect \/ OnDisconnect \/ OnSerialError
    <2>1. window'.phase \in {window.phase, "idle"}
      BY <1>0, <1>6, <1>7, <1>11 DEF OnConnect, OnDisconnect, OnSerialError
    <2>2. link'.doing = link.doing BY <1>10, <1>11 DEF OnConnect, OnDisconnect, OnSerialError
    <2> QED BY <1>2, <2>1, <2>2
  <1>12. CASE SendCommand
    <2>1. window'.phase \in {window.phase, "idle"} BY <1>0, <1>6, <1>12 DEF SendCommand
    <2>2. link' = link BY <1>12 DEF SendCommand
    <2> QED BY <1>2, <2>1, <2>2
  <1>13. CASE StartLogging \/ StopLogging
    <2>1. window'.phase = window.phase /\ link' = link
      BY <1>0, <1>13 DEF StartLogging, StopLogging, WindowType
    <2> QED BY <1>2, <2>1
  <1>14. CASE NoMoreEvents \/ SecondPasses \/ DiskChanges \/ ResetStatistics \/ CloseWindow \/ Killed
    <2>1. window'.phase \in {window.phase, "idle", "ended"} /\ link' = link
      BY <1>0, <1>14
      DEF NoMoreEvents, SecondPasses, DiskChanges, ResetStatistics, CloseWindow, Killed, WindowType
    <2> QED BY <1>2, <2>1
  <1> QED
    BY <1>1, <1>3, <1>4, <1>5, <1>8, <1>9, <1>11, <1>12, <1>13, <1>14 DEF Next, LinkMoves

-----------------------------------------------------------------------------
(* The summary. *)

(* What numbers have to say of the rows and notes of a session.             *)
Covers(numbers, rows, notes, reset) ==
    /\ numbers.connections >= Connects(notes)
    /\ ~reset =>
          /\ Spans(numbers, rows)
          /\ \A row \in ToSet(rows) : row.temp # NoValue => numbers.least # NoValue

AllRows == disk[logger.id].rows \o logger.rows
AllNotes == disk[logger.id].notes \o logger.notes

(* The statistics cover the session that is open, its buffers included, and *)
(* summaries those that ended.                                              *)
SummaryInv ==
    /\ \A s \in Seconds :
          record[s].ended => Covers(disk[s].summary, disk[s].rows, disk[s].notes, record[s].reset)
    /\ logger.enabled =>
          /\ ~record[logger.id].ended
          /\ Covers(stats, AllRows, AllNotes, record[logger.id].reset)

(* A note is one connection more, or none.                                  *)
LEMMA ConnectsAppended ==
  ASSUME NEW notes \in Seq(Notable), NEW note \in Notable
  PROVE  /\ Connects(notes) \in Nat
         /\ Connects(Append(notes, note)) =
               IF note = "SERIAL_CONNECT" THEN Connects(notes) + 1 ELSE Connects(notes)
  <1> DEFINE n == Len(notes)  more == Append(notes, note)
             told == { i \in DOMAIN notes : notes[i] = "SERIAL_CONNECT" }
             told2 == { i \in DOMAIN more : more[i] = "SERIAL_CONNECT" }
  <1>1. n \in Nat /\ DOMAIN notes = 1 .. n BY LenProperties
  <1>2. /\ more \in Seq(Notable) /\ Len(more) = n + 1 /\ DOMAIN more = 1 .. n + 1
        /\ \A i \in 1 .. n : more[i] = notes[i]
        /\ more[n + 1] = note
    BY AppendProperties, LenProperties
  <1> HIDE DEF n, more
  <1>3. IsFiniteSet(told) /\ n + 1 \notin told
    <2>1. IsFiniteSet(1 .. n) BY <1>1, FS_Interval
    <2>2. told \subseteq 1 .. n BY <1>1
    <2>3. n + 1 \notin 1 .. n BY <1>1
    <2> QED BY <2>1, <2>2, <2>3, FS_Subset
  <1>4. told2 = IF note = "SERIAL_CONNECT" THEN told \cup {n + 1} ELSE told
    <2>1. 1 .. n + 1 = (1 .. n) \cup {n + 1} BY <1>1
    <2>2. n + 1 \notin 1 .. n BY <1>1
    <2> QED BY <1>1, <1>2, <2>1, <2>2, Zenon
  <1>5. Connects(notes) = Cardinality(told) /\ Connects(more) = Cardinality(told2) BY DEF Connects
  <1> HIDE DEF told, told2
  <1>6. Cardinality(told) \in Nat BY <1>3, FS_CardinalityType
  <1>7. Cardinality(told \cup {n + 1}) = Cardinality(told) + 1 BY <1>3, FS_AddElement
  <1> QED BY <1>4, <1>5, <1>6, <1>7 DEF more

(* update() moves the extremes outwards, so that they span the packet too.  *)
LEMMA StatsGrow ==
  ASSUME stats \in Statistics, NEW packet \in Packets
  PROVE  LET new == UpdatedStats(packet)
         IN  /\ new.total = stats.total + 1 /\ new.connections = stats.connections
             /\ packet.temp # NoValue =>
                   new.least # NoValue /\ new.least <= packet.temp /\ packet.temp <= new.most
             /\ packet.motion <= new.peak
             /\ stats.least # NoValue => new.least # NoValue /\ new.least <= stats.least
             /\ stats.most <= new.most /\ stats.peak <= new.peak
  <1>1. packet.temp \in Nat /\ packet.motion \in Nat BY PacketsAssumption
  <1> DEFINE least == IF packet.temp = NoValue THEN stats.least ELSE Least(packet.temp)
             most == IF packet.temp = NoValue THEN stats.most ELSE Most(packet.temp)
             peak == IF packet.motion > stats.peak THEN packet.motion ELSE stats.peak
             total == stats.total + 1
  <1>2. /\ packet.temp # NoValue => least # NoValue /\ least <= packet.temp /\ packet.temp <= most
        /\ packet.motion <= peak
        /\ stats.least # NoValue => least # NoValue /\ least <= stats.least
        /\ stats.most <= most /\ stats.peak <= peak
    BY <1>1 DEF Statistics, Least, Most, NoValue
  <1>3. UpdatedStats(packet) =
          [stats EXCEPT !.total = total, !.least = least, !.most = most, !.peak = peak]
    BY DEF UpdatedStats
  <1> HIDE DEF least, most, peak
  <1> QED BY <1>2, <1>3 DEF Statistics

(* A packet that is counted and then recorded stays covered.                *)
LEMMA RowCovered ==
  ASSUME stats \in Statistics, NEW packet \in Packets, NEW rows \in Seq(Packets),
         NEW notes, NEW reset, Covers(stats, rows, notes, reset)
  PROVE  Covers(UpdatedStats(packet), Append(rows, packet), notes, reset)
  <1> DEFINE new == UpdatedStats(packet)  more == Append(rows, packet)
  <1>1. /\ new.total = stats.total + 1 /\ new.connections = stats.connections
        /\ packet.temp # NoValue =>
              new.least # NoValue /\ new.least <= packet.temp /\ packet.temp <= new.most
        /\ packet.motion <= new.peak
        /\ stats.least # NoValue => new.least # NoValue /\ new.least <= stats.least
        /\ stats.most <= new.most /\ stats.peak <= new.peak
    BY StatsGrow
  <1>2. new \in Statistics BY StatsTyped
  <1>3. Len(more) = Len(rows) + 1 /\ Len(rows) \in Nat BY AppendProperties, LenProperties
  <1>4. ToSet(more) = ToSet(rows) \cup {packet}
    <2>1. Len(rows) \in Nat /\ DOMAIN rows = 1 .. Len(rows) BY LenProperties
    <2>2. /\ DOMAIN more = 1 .. Len(rows) + 1 /\ \A i \in 1 .. Len(rows) : more[i] = rows[i]
          /\ more[Len(rows) + 1] = packet
      BY AppendProperties, LenProperties
    <2> DEFINE n == Len(rows)
    <2>3. 1 .. n + 1 = (1 .. n) \cup {n + 1}
      <3>1. \A m \in Nat : 1 .. m + 1 = (1 .. m) \cup {m + 1} OBVIOUS
      <3> QED BY <2>1, <3>1, Zenon
    <2>4. DOMAIN more = DOMAIN rows \cup {n + 1} /\ \A i \in DOMAIN rows : more[i] = rows[i]
      BY <2>1, <2>2, <2>3
    <2>5. more[n + 1] = packet BY <2>2
    <2> HIDE DEF n, more
    <2> QED BY <2>4, <2>5 DEF ToSet
  <1>5. \A row \in ToSet(rows) : row \in Packets
    <2>1. DOMAIN rows = 1 .. Len(rows) /\ \A i \in 1 .. Len(rows) : rows[i] \in Packets
      BY LenProperties, ElementOfSeq
    <2> QED BY <2>1, Zenon DEF ToSet
  <1> HIDE DEF new, more
  <1>6. new.connections >= Connects(notes) BY <1>1 DEF Covers
  <1>7. ASSUME ~reset
        PROVE  /\ new.total >= Len(more)
               /\ \A row \in ToSet(more) :
                     /\ row.temp # NoValue => row.temp \in new.least .. new.most /\ new.least # NoValue
                     /\ row.motion <= new.peak
    <2>1. /\ stats.total >= Len(rows)
          /\ \A row \in ToSet(rows) :
                /\ row.temp # NoValue => row.temp \in stats.least .. stats.most /\ stats.least # NoValue
                /\ row.motion <= stats.peak
      BY <1>7 DEF Covers, Spans
    <2> DEFINE length == Len(rows)
    <2>2. length \in Nat /\ stats.total >= length /\ Len(more) = length + 1 BY <1>3, <2>1
    <2> HIDE DEF length
    <2>3. new.total >= Len(more) BY <1>1, <2>2 DEF Statistics
    <2>4. ASSUME NEW row \in ToSet(more)
          PROVE  /\ row.temp # NoValue => row.temp \in new.least .. new.most /\ new.least # NoValue
                 /\ row.motion <= new.peak
      <3>1. packet.temp \in Nat /\ packet.motion \in Nat BY PacketsAssumption
      <3>2. CASE row = packet BY <1>1, <1>2, <3>1, <3>2 DEF Statistics
      <3>3. CASE row \in ToSet(rows)
        <4>1. row.temp \in Nat /\ row.motion \in Nat BY <1>5, <3>3, PacketsAssumption
        <4>2. /\ row.temp # NoValue => row.temp \in stats.least .. stats.most /\ stats.least # NoValue
              /\ row.motion <= stats.peak
          BY <2>1, <3>3
        <4> QED BY <1>1, <1>2, <4>1, <4>2 DEF Statistics
      <3> QED BY <1>4, <3>2, <3>3, Zenon
    <2> QED BY <2>3, <2>4
  <1>8. ~reset => Spans(new, more) /\ \A row \in ToSet(more) : row.temp # NoValue => new.least # NoValue
    BY <1>7, Zenon DEF Spans
  <1> QED BY <1>6, <1>8, Zenon DEF Covers, new, more

(* What covers rows covers those of them that are not lost, the first ones. *)
LEMMA PrefixCovered ==
  ASSUME NEW numbers \in Statistics, NEW rows \in Seq(Packets), NEW more \in Seq(Packets), NEW notes,
         NEW reset, Covers(numbers, rows \o more, notes, reset)
  PROVE  Covers(numbers, rows, notes, reset)
  <1> DEFINE whole == rows \o more  n == Len(rows)
  <1>1. n \in Nat /\ Len(more) \in Nat /\ DOMAIN rows = 1 .. n BY LenProperties
  <1>2. /\ whole \in Seq(Packets) /\ Len(whole) = n + Len(more) /\ \A i \in 1 .. n : whole[i] = rows[i]
    BY ConcatProperties
  <1>3. DOMAIN whole = 1 .. n + Len(more) BY <1>2, LenProperties
  <1> HIDE DEF whole, n
  <1>4. ToSet(rows) \subseteq ToSet(whole)
    <2>1. \A i \in DOMAIN rows : i \in DOMAIN whole /\ rows[i] = whole[i] BY <1>1, <1>2, <1>3
    <2> QED BY <2>1, Zenon DEF ToSet
  <1>5. ASSUME numbers.total >= Len(whole) PROVE numbers.total >= n
    BY <1>1, <1>2, <1>5 DEF Statistics
  <1>6. Covers(numbers, whole, notes, reset) BY DEF whole
  <1> QED BY <1>4, <1>5, <1>6 DEF Covers, Spans, n

(* A note does, where a connection was counted first.                       *)
LEMMA NoteCovered ==
  ASSUME stats \in Statistics, NEW numbers, NEW note \in Notable, NEW rows, NEW notes \in Seq(Notable),
         NEW reset, Covers(stats, rows, notes, reset),
         \/ note # "SERIAL_CONNECT" /\ numbers = stats
         \/ numbers = [stats EXCEPT !.connections = stats.connections + 1]
  PROVE  Covers(numbers, rows, Append(notes, note), reset)
  <1> DEFINE was == Connects(notes)  is == Connects(Append(notes, note))
  <1>1. was \in Nat /\ is = IF note = "SERIAL_CONNECT" THEN was + 1 ELSE was
    BY ConnectsAppended
  <1>2. stats.connections >= was BY DEF Covers
  <1>3. /\ numbers.total = stats.total /\ numbers.least = stats.least /\ numbers.most = stats.most
        /\ numbers.peak = stats.peak
        /\ \/ numbers.connections = stats.connections /\ note # "SERIAL_CONNECT"
           \/ numbers.connections = stats.connections + 1
    BY DEF Statistics
  <1> HIDE DEF was, is
  <1>4. numbers.connections >= is BY <1>1, <1>2, <1>3 DEF Statistics
  <1> QED BY <1>3, <1>4 DEF Covers, Spans, is

(* Recording says neither that a session ended nor that it was reset.       *)
LEMMA MarksKept ==
  ASSUME LogTypes, NEW packet, NEW note, NEW s,
         record' = RecordedRow(packet, s) \/ record' = RecordedNote(note, s)
  PROVE  \A t \in Seconds : record'[t].ended = record[t].ended /\ record'[t].reset = record[t].reset
  <1> DEFINE id == logger.id  told == record[id]
             row == [told EXCEPT !.rows = Append(told.rows, packet),
                                 !.failed = (told.failed \ {"rows"}) \cup Fails("rows", s),
                                 !.kept = IF s.raised THEN told.kept
                                          ELSE Len(Append(told.rows, packet))]
             noted == [told EXCEPT !.notes = Append(told.notes, note),
                                   !.failed = (told.failed \ {"notes"}) \cup Fails("notes", s)]
  <1>0. record \in [Seconds -> RecordType] /\ id \in Seconds /\ told \in RecordType
    BY DEF LogTypes, LoggerType
  <1>1. /\ row.ended = told.ended /\ row.reset = told.reset
        /\ noted.ended = told.ended /\ noted.reset = told.reset
    BY <1>0 DEF RecordType
  <1>2. \/ record' = record \/ record' = [record EXCEPT ![id] = row]
        \/ record' = [record EXCEPT ![id] = noted]
    BY Zenon DEF RecordedRow, RecordedNote
  <1> HIDE DEF row, noted
  <1> QED BY <1>0, <1>1, <1>2

(* A handler that at most adds to the files of the open session.            *)
LEMMA SummaryKept ==
  ASSUME LogTypes, SummaryInv, logger'.id = logger.id, logger'.enabled = logger.enabled,
         \A t \in Seconds \ {logger.id} : disk'[t] = disk[t],
         ~logger.enabled => disk' = disk,
         \A t \in Seconds : record'[t].ended = record[t].ended /\ record'[t].reset = record[t].reset,
         logger.enabled => Covers(stats', AllRows', AllNotes', record[logger.id].reset)
  PROVE  SummaryInv'
  <1>0. logger.id \in Seconds BY DEF LogTypes, LoggerType
  <1>1. ASSUME NEW s \in Seconds, record'[s].ended
        PROVE  Covers(disk'[s].summary, disk'[s].rows, disk'[s].notes, record'[s].reset)
    <2>1. disk'[s] = disk[s]
      <3>1. CASE s # logger.id BY <3>1
      <3>2. CASE s = logger.id BY <1>1, <3>2 DEF SummaryInv
      <3> QED BY <3>1, <3>2
    <2>2. record[s].ended /\ record'[s].reset = record[s].reset BY <1>1
    <2>3. Covers(disk[s].summary, disk[s].rows, disk[s].notes, record[s].reset)
      BY <2>2 DEF SummaryInv
    <2> QED BY <2>1, <2>2, <2>3
  <1>2. logger'.enabled =>
           /\ ~record'[logger'.id].ended
           /\ Covers(stats', AllRows', AllNotes', record'[logger'.id].reset)
    BY <1>0 DEF SummaryInv
  <1> QED BY <1>1, <1>2 DEF SummaryInv

(* Logging is on where the file of the events is open.                      *)
FilesOpen == logger.enabled => "events" \in logger.open

(* A packet that arrives.                                                   *)
LEMMA RowSummed ==
  ASSUME LogTypes, SummaryInv, FilesOpen, OnTelemetry
  PROVE  SummaryInv' /\ FilesOpen'
  <1> DEFINE packet == Head(link.lines)  logged == LogTelemetry(Now, packet)
  <1>1. packet \in Packets BY TakenTyped DEF OnTelemetry
  <1>2. Keeps(logged) /\ record' = RecordedRow(packet, logged) /\ stats' = UpdatedStats(packet)
    BY DEF OnTelemetry
  <1> HIDE DEF packet
  <1>3. \A t \in Seconds : record'[t].ended = record[t].ended /\ record'[t].reset = record[t].reset
    <2> HIDE DEF logged
    <2> QED BY <1>2, MarksKept
  <1>4. CASE ~logger.enabled
    <2>1. logger' = logger /\ disk' = disk BY <1>1, <1>2, <1>4, RowLogged
    <2> QED BY <1>3, <1>4, <2>1, SummaryKept DEF FilesOpen
  <1>5. CASE logger.enabled
    <2> DEFINE id == logger.id  rows == AllRows  notes == AllNotes  reset == record[id].reset
    <2>1. rows \in Seq(Packets)
      <3>1. disk[id].rows \in Seq(Packets) /\ logger.rows \in Seq(Packets)
        BY DEF LogTypes, LoggerType, FileType
      <3> QED BY <3>1, ConcatProperties DEF AllRows
    <2>2. Covers(UpdatedStats(packet), Append(rows, packet), notes, reset)
      <3>1. Covers(stats, rows, notes, reset) BY <1>5 DEF SummaryInv
      <3>2. stats \in Statistics BY DEF LogTypes
      <3> HIDE DEF rows, notes, reset
      <3> QED BY <1>1, <2>1, <3>1, <3>2, RowCovered
    <2>3. CASE "telemetry" \in logger.open
      <3>1. /\ logger'.id = id /\ logger'.enabled /\ logger'.notes = logger.notes
            /\ logger'.open = logger.open
            /\ disk'[id].notes = disk[id].notes
            /\ \A s \in Seconds \ {id} : disk'[s] = disk[s]
            /\ disk'[id].rows \o logger'.rows = Append(rows, packet)
        BY <1>1, <1>2, <1>5, <2>3, RowPasses DEF AllRows
      <3>2. AllRows' = Append(rows, packet) /\ AllNotes' = notes
        BY <3>1 DEF AllRows, AllNotes
      <3>3. Covers(stats', AllRows', AllNotes', reset) BY <1>2, <2>2, <3>2
      <3> QED BY <1>3, <1>5, <3>1, <3>3, SummaryKept DEF FilesOpen
    <2>4. CASE "telemetry" \notin logger.open
      <3>1. logger' = logger /\ disk' = disk BY <1>1, <1>2, <1>5, <2>4, RowLogged
      <3>2. AllRows' = rows /\ AllNotes' = notes BY <3>1 DEF AllRows, AllNotes
      <3>3. Covers(UpdatedStats(packet), rows, notes, reset)
        <4>1. UpdatedStats(packet) \in Statistics BY <1>1, StatsTyped DEF LogTypes
        <4>2. Append(rows, packet) = rows \o <<packet>> /\ <<packet>> \in Seq(Packets)
          BY <1>1, <2>1, AppendIsConcat
        <4> HIDE DEF rows, notes, reset
        <4> QED BY <2>1, <2>2, <4>1, <4>2, PrefixCovered
      <3>4. Covers(stats', AllRows', AllNotes', reset) BY <1>2, <3>2, <3>3
      <3> QED BY <1>3, <1>5, <3>1, <3>4, SummaryKept DEF FilesOpen
    <2> QED BY <2>3, <2>4
  <1> QED BY <1>4, <1>5

(* An event or a command that is noted.                                     *)
LEMMA NoteSummed ==
  ASSUME LogTypes, SummaryInv, FilesOpen, NEW note \in Notable, NEW before, Notes(note, before),
         \/ note # "SERIAL_CONNECT" /\ stats' = stats
         \/ stats' = [stats EXCEPT !.connections = stats.connections + 1]
  PROVE  SummaryInv' /\ FilesOpen'
  <1> DEFINE logged == LogEvent(Now, note)
  <1>1. Keeps(logged) /\ record' = RecordedNote(note, logged) BY DEF Notes
  <1>2. \A t \in Seconds : record'[t].ended = record[t].ended /\ record'[t].reset = record[t].reset
    <2> HIDE DEF logged
    <2> QED BY <1>1, MarksKept
  <1>3. CASE ~logger.enabled
    <2>1. logger' = logger /\ disk' = disk BY <1>1, <1>3, NoteLogged DEF Keeps
    <2> QED BY <1>2, <1>3, <2>1, SummaryKept DEF FilesOpen
  <1>4. CASE logger.enabled
    <2> DEFINE id == logger.id
    <2>1. /\ logger'.id = id /\ logger'.enabled /\ logger'.rows = logger.rows
          /\ logger'.open = logger.open
          /\ disk'[id].rows = disk[id].rows
          /\ \A s \in Seconds \ {id} : disk'[s] = disk[s]
          /\ disk'[id].notes \o logger'.notes = Append(AllNotes, note)
      BY <1>1, <1>4, NotePasses DEF AllNotes
    <2>2. AllNotes' = Append(AllNotes, note) /\ AllRows' = AllRows
      BY <2>1 DEF AllRows, AllNotes
    <2>3. AllNotes \in Seq(Notable)
      <3>1. disk[id].notes \in Seq(Notable) /\ logger.notes \in Seq(Notable)
        BY DEF LogTypes, LoggerType, FileType
      <3> QED BY <3>1, ConcatProperties DEF AllNotes
    <2>4. Covers(stats', AllRows', AllNotes', record[id].reset)
      <3> DEFINE rows == AllRows  notes == AllNotes  reset == record[id].reset  numbers == stats'
      <3>1. Covers(stats, rows, notes, reset) BY <1>4 DEF SummaryInv
      <3>2. notes \in Seq(Notable) /\ stats \in Statistics BY <2>3 DEF LogTypes
      <3>3. \/ note # "SERIAL_CONNECT" /\ numbers = stats
            \/ numbers = [stats EXCEPT !.connections = stats.connections + 1]
        OBVIOUS
      <3> HIDE DEF rows, notes, reset, numbers
      <3>4. Covers(numbers, rows, Append(notes, note), reset)
        BY <3>1, <3>2, <3>3, NoteCovered
      <3> QED BY <2>2, <3>4 DEF rows, notes, reset, numbers
    <2> QED BY <1>2, <1>4, <2>1, <2>4, SummaryKept DEF FilesOpen
  <1> QED BY <1>3, <1>4

(* Whatever the numbers, they cover a session that has just begun.          *)
LEMMA NothingCovered ==
  ASSUME NEW numbers \in Statistics, NEW reset
  PROVE  Covers(numbers, <<>>, <<"SESSION_START">>, reset)
  <1>1. Connects(<<>>) = 0
    <2>1. { i \in DOMAIN <<>> : <<>>[i] = "SERIAL_CONNECT" } = {} OBVIOUS
    <2> QED BY <2>1, FS_EmptySet, Zenon DEF Connects
  <1>2. Connects(<<"SESSION_START">>) = 0
    <2>1. Append(<<>>, "SESSION_START") = <<"SESSION_START">> /\ <<>> \in Seq(Notable)
          /\ "SESSION_START" \in Notable
      BY EmptySeq DEF Notable
    <2> QED BY <1>1, <2>1, ConnectsAppended
  <1>3. ToSet(<<>>) = {} /\ Len(<<>>) = 0 BY DEF ToSet
  <1> QED BY <1>2, <1>3 DEF Covers, Spans, Statistics

(* A session that starts has nothing to cover yet.                          *)
LEMMA StartSummed ==
  ASSUME LogTypes, SummaryInv, NEW s \in Starts, Keeps(s), record' = RecordedStart(s), UNCHANGED stats
  PROVE  SummaryInv' /\ FilesOpen'
  <1> DEFINE second == world.second  raised == s.raised
             new == [NewRecord EXCEPT !.notes = <<"SESSION_START">>, !.spoiled = raised]
  <1>1. /\ s.log.id = second /\ s.log.rows = <<>>
        /\ \A t \in Seconds \ {second} : s.disk[t] = disk[t]
        /\ s.log.enabled =>
              /\ s.log.open = {"telemetry", "events"} /\ s.disk[second].rows = <<>>
              /\ s.disk[second].notes \o s.log.notes = <<"SESSION_START">>
        /\ raised \in BOOLEAN
    BY StartEffect
  <1>2. logger' = s.log /\ disk' = s.disk BY DEF Keeps
  <1>3. second \in Seconds /\ record \in [Seconds -> RecordType] /\ stats \in Statistics
    BY DEF LogTypes, WorldType
  <1>4. ~new.ended
    <2> HIDE DEF raised
    <2> QED BY <1>1, Begun
  <1>5. record' = [record EXCEPT ![second] = new] BY Zenon DEF RecordedStart
  <1> HIDE DEF second, raised, new
  <1>6. record'[second] = new /\ \A t \in Seconds \ {second} : record'[t] = record[t] BY <1>3, <1>5
  <1>7. ASSUME NEW t \in Seconds, record'[t].ended
        PROVE  Covers(disk'[t].summary, disk'[t].rows, disk'[t].notes, record'[t].reset)
    <2>1. t # second BY <1>4, <1>6, <1>7
    <2>2. record'[t] = record[t] /\ disk'[t] = disk[t] BY <1>1, <1>2, <1>6, <2>1
    <2>3. Covers(disk[t].summary, disk[t].rows, disk[t].notes, record[t].reset)
      BY <1>7, <2>2 DEF SummaryInv
    <2> QED BY <2>2, <2>3
  <1>8. ASSUME logger'.enabled
        PROVE  ~record'[logger'.id].ended /\ Covers(stats', AllRows', AllNotes', record'[logger'.id].reset)
    <2>1. AllRows' = <<>> /\ AllNotes' = <<"SESSION_START">>
      <3>1. /\ logger'.id = second /\ logger'.rows = <<>> /\ disk'[second].rows = <<>>
            /\ disk'[second].notes \o logger'.notes = <<"SESSION_START">>
        BY <1>1, <1>2, <1>8
      <3>2. <<>> \o <<>> = <<>>
        <4>1. <<>> \in Seq(Packets) BY EmptySeq
        <4> QED BY <4>1, ConcatEmptySeq
      <3> QED BY <3>1, <3>2 DEF AllRows, AllNotes
    <2>2. ~record'[logger'.id].ended BY <1>1, <1>2, <1>4, <1>6
    <2> DEFINE reset == record'[logger'.id].reset
    <2>3. Covers(stats, <<>>, <<"SESSION_START">>, reset)
      <3> HIDE DEF reset
      <3> QED BY <1>3, NothingCovered
    <2> QED BY <2>1, <2>2, <2>3
  <1>9. FilesOpen' BY <1>1, <1>2 DEF FilesOpen
  <1> QED BY <1>7, <1>8, <1>9 DEF SummaryInv

(* A stop that succeeds writes the statistics, which cover what it flushes; *)
(* one that fails leaves the session open, and them covering what is left.  *)
LEMMA StopSummed ==
  ASSUME LogTypes, SummaryInv, FilesOpen, logger.enabled, NEW s \in Stops, Keeps(s),
         record' = RecordedStop(s), UNCHANGED stats
  PROVE  SummaryInv' /\ FilesOpen'
  <1> DEFINE id == logger.id  told == record[id]  reset == told.reset
             buffered == Append(logger.notes, "SESSION_END")
             through == disk[id].notes \o buffered
             raised == s.raised
             next == [told EXCEPT !.notes = Append(told.notes, "SESSION_END"),
                                  !.failed = StillFailed(s), !.ended = ~raised,
                                  !.lost = told.lost \/ (s.log.enabled /\ "telemetry" \notin s.log.open)]
  <1>0. /\ id \in Seconds /\ logger \in LoggerType /\ disk \in [Seconds -> FileType]
        /\ told \in RecordType /\ record \in [Seconds -> RecordType] /\ stats \in Statistics
    BY DEF LogTypes, LoggerType
  <1>1. logger' = s.log /\ disk' = s.disk BY DEF Keeps
  <1>2. /\ AllRows \in Seq(Packets) /\ AllNotes \in Seq(Notable) /\ "SESSION_END" \in Notable
        /\ through = Append(AllNotes, "SESSION_END") /\ through \in Seq(Notable) /\ through \o <<>> = through
    <2>1. /\ disk[id].notes \in Seq(Notable) /\ logger.notes \in Seq(Notable) /\ "SESSION_END" \in Notable
          /\ disk[id].rows \in Seq(Packets) /\ logger.rows \in Seq(Packets)
      BY <1>0 DEF LoggerType, FileType, Notable
    <2>2. buffered \in Seq(Notable) BY <2>1, Appended
    <2>3. through = Append(AllNotes, "SESSION_END") BY <2>1, EachAppended, Zenon DEF AllNotes
    <2>4. through \in Seq(Notable) BY <2>1, <2>2, ConcatProperties
    <2>5. AllRows \in Seq(Packets) /\ AllNotes \in Seq(Notable)
      BY <2>1, ConcatProperties DEF AllRows, AllNotes
    <2> HIDE DEF through
    <2>6. through \o <<>> = through BY <2>4, ConcatEmptySeq
    <2> QED BY <2>1, <2>3, <2>4, <2>5, <2>6
  <1>3. Covers(stats, AllRows, through, reset)
    <2> DEFINE rows == AllRows  notes == AllNotes
    <2>1. Covers(stats, rows, notes, reset) /\ notes \in Seq(Notable) BY <1>2 DEF SummaryInv
    <2> HIDE DEF rows, notes, reset
    <2>2. "SESSION_END" # "SERIAL_CONNECT" /\ "SESSION_END" \in Notable BY <1>2
    <2>3. Covers(stats, rows, Append(notes, "SESSION_END"), reset) BY <1>0, <2>1, <2>2, NoteCovered
    <2> QED BY <1>2, <2>3 DEF rows, notes
  <1>4. /\ record'[id].ended = ~raised /\ record'[id].reset = reset
        /\ \A t \in Seconds \ {id} : record'[t] = record[t]
    <2>1. record' = [record EXCEPT ![id] = next] BY Zenon DEF RecordedStop
    <2>2. next.ended = ~raised /\ next.reset = reset
      <3> DEFINE notes == Append(told.notes, "SESSION_END")  failed == StillFailed(s)  ended == ~raised
                 lost == told.lost \/ (s.log.enabled /\ "telemetry" \notin s.log.open)
      <3>1. next = [told EXCEPT !.notes = notes, !.failed = failed, !.ended = ended, !.lost = lost] OBVIOUS
      <3> HIDE DEF notes, failed, ended, lost, next
      <3>2. next.ended = ended /\ next.reset = told.reset BY <1>0, <3>1 DEF RecordType
      <3> QED BY <3>2 DEF ended
    <2> HIDE DEF next
    <2> QED BY <1>0, <2>1, <2>2
  <1>5. \/ /\ raised /\ disk' = disk /\ logger' = [logger EXCEPT !.notes = buffered]
        \/ /\ \A t \in Seconds \ {id} : disk'[t] = disk[t]
           /\ disk'[id].notes = through
           /\ \/ raised /\ logger' = [logger EXCEPT !.notes = <<>>] /\ disk'[id].rows = disk[id].rows
              \/ /\ raised /\ disk'[id].rows = disk[id].rows
                 /\ logger' = [logger EXCEPT !.notes = <<>>, !.rows = <<>>, !.open = {"events"}]
              \/ /\ ~raised /\ disk'[id].rows = AllRows /\ disk'[id].summary = Summary
                 /\ logger' = [enabled |-> FALSE, id |-> id, open |-> {}, rows |-> <<>>, notes |-> <<>>]
    BY <1>1, StopNotes DEF AllRows
  <1>6. ASSUME NEW t \in Seconds \ {id}, record'[t].ended, \A u \in Seconds \ {id} : disk'[u] = disk[u]
        PROVE  Covers(disk'[t].summary, disk'[t].rows, disk'[t].notes, record'[t].reset)
    <2>1. record'[t] = record[t] /\ disk'[t] = disk[t] BY <1>4, <1>6
    <2>2. Covers(disk[t].summary, disk[t].rows, disk[t].notes, record[t].reset)
      BY <1>6, <2>1 DEF SummaryInv
    <2> QED BY <2>1, <2>2
  <1> HIDE DEF buffered, raised, reset
  <1>7. CASE raised
    <2>1. /\ logger'.id = id /\ logger'.enabled = logger.enabled /\ "events" \in logger'.open
          /\ logger'.rows = logger.rows \/ logger'.rows = <<>>
          /\ disk'[id].rows = disk[id].rows /\ \A t \in Seconds \ {id} : disk'[t] = disk[t]
      <3> HIDE DEF through, next, told
      <3> QED BY <1>0, <1>5, <1>7 DEF LoggerType, FilesOpen
    <2>2. disk'[id].notes \o logger'.notes = through
      <3>1. CASE disk' = disk /\ logger' = [logger EXCEPT !.notes = buffered]
        <4>1. logger'.notes = buffered BY <1>0, <3>1 DEF LoggerType
        <4> QED BY <3>1, <4>1
      <3>2. CASE /\ disk'[id].notes = through
                 /\ \/ logger' = [logger EXCEPT !.notes = <<>>]
                    \/ logger' = [logger EXCEPT !.notes = <<>>, !.rows = <<>>, !.open = {"events"}]
        <4>1. logger'.notes = <<>> BY <1>0, <3>2 DEF LoggerType
        <4> QED BY <1>2, <3>2, <4>1
      <3> QED BY <1>5, <1>7, <3>1, <3>2
    <2>3. AllNotes' = through BY <2>1, <2>2 DEF AllNotes
    <2> HIDE DEF through
    <2>4. Covers(stats, AllRows', through, reset)
      <3> DEFINE rows == disk[id].rows  pending == logger.rows  left == logger'.rows
      <3>1. rows \in Seq(Packets) /\ pending \in Seq(Packets) BY <1>0 DEF LoggerType, FileType
      <3>2. AllRows = rows \o pending /\ AllRows' = rows \o left /\ left \in {pending, <<>>}
        BY <2>1 DEF AllRows
      <3>3. rows \o <<>> = rows BY <3>1, ConcatEmptySeq
      <3>4. Covers(stats, rows \o pending, through, reset) BY <1>3, <3>2
      <3> HIDE DEF rows, pending, left
      <3>5. Covers(stats, rows, through, reset) BY <1>0, <3>1, <3>4, PrefixCovered
      <3> QED BY <3>2, <3>3, <3>4, <3>5
    <2>5. Covers(stats', AllRows', AllNotes', record'[logger'.id].reset)
      BY <1>4, <2>1, <2>3, <2>4
    <2>6. ~record'[id].ended BY <1>4, <1>7
    <2>7. \A t \in Seconds : record'[t].ended =>
             Covers(disk'[t].summary, disk'[t].rows, disk'[t].notes, record'[t].reset)
      BY <1>6, <2>1, <2>6
    <2> QED BY <2>1, <2>5, <2>6, <2>7 DEF SummaryInv, FilesOpen
  <1>8. CASE ~raised
    <2>1. /\ \A t \in Seconds \ {id} : disk'[t] = disk[t]
          /\ disk'[id].notes = through /\ disk'[id].rows = AllRows /\ disk'[id].summary = Summary
          /\ logger' = [enabled |-> FALSE, id |-> id, open |-> {}, rows |-> <<>>, notes |-> <<>>]
      BY <1>5, <1>8
    <2>2. ~logger'.enabled BY <2>1
    <2> HIDE DEF through
    <2>3. Covers(Summary, AllRows, through, reset)
      <3>1. /\ Summary.connections = stats.connections /\ Summary.total = stats.total
            /\ Summary.least = stats.least /\ Summary.most = stats.most /\ Summary.peak = stats.peak
        BY DEF Summary
      <3> QED BY <1>3, <3>1 DEF Covers, Spans
    <2>4. Covers(disk'[id].summary, disk'[id].rows, disk'[id].notes, record'[id].reset)
      BY <1>4, <2>1, <2>3
    <2>5. \A t \in Seconds : record'[t].ended =>
             Covers(disk'[t].summary, disk'[t].rows, disk'[t].notes, record'[t].reset)
      BY <1>6, <2>1, <2>4
    <2> QED BY <2>2, <2>5 DEF SummaryInv, FilesOpen
  <1> QED BY <1>7, <1>8

(* RESET STATS, pressed while a session is open, releases its summary.      *)
LEMMA ResetSummed ==
  ASSUME LogTypes, SummaryInv, FilesOpen, ResetStatistics
  PROVE  SummaryInv' /\ FilesOpen'
  <1> DEFINE id == logger.id  told == record[id]  reset == told.reset \/ logger.enabled
             next == [told EXCEPT !.reset = reset]
  <1>0. /\ id \in Seconds /\ told \in RecordType /\ record \in [Seconds -> RecordType]
        /\ stats \in Statistics
    BY DEF LogTypes, LoggerType
  <1>1. /\ record' = [record EXCEPT ![id] = next] /\ UNCHANGED <<logger, disk>>
        /\ stats' = [NewStats EXCEPT !.connections = stats.connections]
    BY DEF ResetStatistics
  <1>2. next.ended = told.ended /\ next.reset = reset
    <2> HIDE DEF reset
    <2> QED BY <1>0 DEF RecordType
  <1>3. /\ record'[id].ended = told.ended /\ record'[id].reset = reset
        /\ \A t \in Seconds \ {id} : record'[t] = record[t]
    <2> HIDE DEF next
    <2> QED BY <1>0, <1>1, <1>2
  <1>4. ASSUME NEW t \in Seconds, record'[t].ended
        PROVE  Covers(disk'[t].summary, disk'[t].rows, disk'[t].notes, record'[t].reset)
    <2>1. record[t].ended /\ (record[t].reset => record'[t].reset) BY <1>3, <1>4
    <2>2. Covers(disk[t].summary, disk[t].rows, disk[t].notes, record[t].reset) BY <2>1 DEF SummaryInv
    <2> QED BY <1>1, <2>1, <2>2 DEF Covers
  <1>5. ASSUME logger'.enabled
        PROVE  ~record'[logger'.id].ended /\ Covers(stats', AllRows', AllNotes', record'[logger'.id].reset)
    <2>1. logger.enabled /\ AllRows' = AllRows /\ AllNotes' = AllNotes
      BY <1>1, <1>5 DEF AllRows, AllNotes
    <2>2. ~record'[id].ended /\ record'[id].reset BY <1>3, <2>1 DEF SummaryInv
    <2>3. stats'.connections = stats.connections BY <1>1 DEF NewStats
    <2>4. stats.connections >= Connects(AllNotes) BY <2>1 DEF SummaryInv, Covers
    <2> QED BY <1>1, <2>1, <2>2, <2>3, <2>4 DEF Covers
  <1>6. FilesOpen' BY <1>1 DEF FilesOpen
  <1> QED BY <1>4, <1>5, <1>6 DEF SummaryInv

(* Every step keeps what the statistics and the summaries cover.            *)
LEMMA SummaryNext ==
  ASSUME LogTypes, SummaryInv, FilesOpen, Next
  PROVE  SummaryInv' /\ FilesOpen'
  <1>1. ASSUME UNCHANGED <<logger, disk, record, stats>> PROVE SummaryInv' /\ FilesOpen'
    BY <1>1 DEF SummaryInv, FilesOpen, AllRows, AllNotes
  <1>2. CASE LinkErrs \/ LineArrives \/ SecondPasses \/ DiskChanges
    BY <1>1, <1>2 DEF LinkErrs, LineArrives, SecondPasses, DiskChanges
  <1>15. ASSUME NEW t \in Threads, LinkMoves(t) \/ LinkTells(t) PROVE SummaryInv' /\ FilesOpen'
    <2>1. UNCHANGED <<stats, logger, disk, record>> BY <1>15, LinkMoved, LinkTold
    <2> QED BY <1>1, <2>1
  <1>3. CASE ProcessSerial \/ NoMoreLines \/ NoMoreEvents \/ Killed
    BY <1>1, <1>3 DEF ProcessSerial, NoMoreLines, NoMoreEvents, Killed
  <1>4. CASE OnTelemetry BY <1>4, RowSummed
  <1>5. CASE OnMalformed
    <2>1. /\ UNCHANGED <<logger, disk, record>> /\ AllRows' = AllRows /\ AllNotes' = AllNotes
          /\ stats' = [stats EXCEPT !.malformed = stats.malformed + 1]
      BY <1>5 DEF OnMalformed, AllRows, AllNotes
    <2>2. /\ stats'.connections = stats.connections /\ stats'.total = stats.total
          /\ stats'.least = stats.least /\ stats'.most = stats.most /\ stats'.peak = stats.peak
      BY <2>1 DEF LogTypes, Statistics
    <2> QED BY <2>1, <2>2 DEF SummaryInv, FilesOpen, Covers, Spans
  <1>6. /\ "SERIAL_CONNECT" \in Notable /\ "SERIAL_DISCONNECT" \in Notable \ {"SERIAL_CONNECT"}
        /\ "SERIAL_ERROR" \in Notable \ {"SERIAL_CONNECT"}
        /\ "COMMAND_SENT" \in Notable \ {"SERIAL_CONNECT"}
    BY DEF Notable
  <1>7. CASE OnConnect
    <2>1. /\ Notes("SERIAL_CONNECT", Controlled("Disconnect"))
          /\ stats' = [stats EXCEPT !.connections = stats.connections + 1]
      BY <1>7 DEF OnConnect
    <2> QED BY <1>6, <2>1, NoteSummed
  <1>8. CASE OnDisconnect
    <2>1. Notes("SERIAL_DISCONNECT", Controlled("Connect")) /\ stats' = stats BY <1>8 DEF OnDisconnect
    <2> QED BY <1>6, <2>1, NoteSummed
  <1>9. CASE OnSerialError
    <2>1. Notes("SERIAL_ERROR", window) /\ stats' = stats BY <1>9 DEF OnSerialError
    <2> QED BY <1>6, <2>1, NoteSummed
  <1>10. CASE StartLogging
    <2>1. PICK s \in Starts : Keeps(s) /\ record' = RecordedStart(s) BY <1>10 DEF StartLogging
    <2>2. UNCHANGED stats BY <1>10 DEF StartLogging
    <2> QED BY <2>1, <2>2, StartSummed
  <1>11. CASE StopLogging
    <2>1. logger.enabled /\ UNCHANGED stats BY <1>11 DEF StopLogging
    <2>2. CASE HasBaud
      <3>1. PICK s \in Stops : Keeps(s) /\ record' = RecordedStop(s) BY <1>11, <2>2 DEF StopLogging
      <3> QED BY <2>1, <3>1, StopSummed
    <2>3. CASE ~HasBaud
      <3>1. UNCHANGED <<logger, disk, record>> BY <1>11, <2>3 DEF StopLogging
      <3> QED BY <1>1, <2>1, <3>1
    <2> QED BY <2>2, <2>3
  <1>12. CASE ResetStatistics BY <1>12, ResetSummed
  <1>13. CASE SendCommand
    <2>1. /\ Notes("COMMAND_SENT", window) \/ UNCHANGED <<logger, disk, record>>
          /\ stats' = stats
      BY <1>13 DEF SendCommand
    <2>2. CASE Notes("COMMAND_SENT", window) BY <1>6, <2>1, <2>2, NoteSummed
    <2>3. CASE UNCHANGED <<logger, disk, record>> BY <1>1, <2>1, <2>3
    <2> QED BY <2>1, <2>2, <2>3
  <1>14. CASE CloseWindow
    <2>1. UNCHANGED stats BY <1>14 DEF CloseWindow
    <2>2. CASE logger.enabled /\ HasBaud
      <3>1. PICK s \in Stops : Keeps(s) /\ record' = RecordedStop(s) BY <1>14, <2>2 DEF CloseWindow
      <3> QED BY <2>1, <2>2, <3>1, StopSummed
    <2>3. CASE ~(logger.enabled /\ HasBaud)
      <3>1. UNCHANGED <<logger, disk, record>> BY <1>14, <2>3 DEF CloseWindow
      <3> QED BY <1>1, <2>1, <3>1
    <2> QED BY <2>2, <2>3
  <1> QED
    BY <1>2, <1>3, <1>4, <1>5, <1>7, <1>8, <1>9, <1>10, <1>11, <1>12, <1>13, <1>14, <1>15
    DEF Next, LinkMoves

(* What all the theorems of the session rest on.                            *)
WholeInv == SessionInv /\ LinkBounds /\ GuiFree /\ SummaryInv /\ FilesOpen

(* It holds from the start, and for ever.                                   *)
THEOREM SessionInvariant == Spec => []WholeInv
  <1>1. Init => WholeInv
    <2> SUFFICES ASSUME Init PROVE LinkBounds /\ GuiFree /\ SummaryInv /\ FilesOpen
      BY SessionInitial DEF WholeInv
    <2>1. /\ link.lines = <<>> /\ link.events = <<>> /\ world.inputs = 0 /\ window.phase = "idle"
      <3>1. PICK manager \in Managers :
               world = [second |-> 0, full |-> FALSE, inputs |-> 0, manager |-> manager]
        BY DEF Init
      <3> QED BY <3>1 DEF Init
    <2>2. Len(<<>>) <= 2 /\ 0 <= MaxInputs BY BoundsAssumption
    <2>3. LinkBounds /\ GuiFree BY <2>1, <2>2 DEF LinkBounds, MaxQueue, GuiFree
    <2>4. ~logger.enabled /\ \A s \in Seconds : record[s] = NewRecord BY DEF Init
    <2>5. ~NewRecord.ended BY DEF NewRecord
    <2> QED BY <2>3, <2>4, <2>5 DEF SummaryInv, FilesOpen
  <1>2. WholeInv /\ [Next]_vars => WholeInv'
    <2> SUFFICES ASSUME SessionInv, LinkBounds, GuiFree, SummaryInv, FilesOpen, [Next]_vars
                 PROVE  SessionInv' /\ LinkBounds' /\ GuiFree' /\ SummaryInv' /\ FilesOpen'
      BY DEF WholeInv
    <2>1. SessionInv' BY SessionInductive
    <2>2. LogTypes BY DEF SessionInv
    <2>3. CASE Next BY <2>1, <2>2, <2>3, BoundsKept, GuiStaysFree, SummaryNext
    <2>4. CASE UNCHANGED vars
      BY <2>1, <2>4 DEF vars, LinkBounds, GuiFree, SummaryInv, FilesOpen, AllRows, AllNotes
    <2> QED BY <2>1, <2>3, <2>4
  <1> QED BY <1>1, <1>2, PTL DEF Spec

(* Every variable keeps its type and every queue its bound; logging is on   *)
(* only with the file of the events open, and without that of the telemetry *)
(* only after a stop() whose close() failed; process_serial() and a call    *)
(* into the link never overlap on the window's thread.                      *)
THEOREM SessionTypeCorrect == Spec => []SessionTypeOK
  <1>1. WholeInv => SessionTypeOK
    <2> SUFFICES ASSUME SessionInv, LinkBounds, GuiFree, FilesOpen PROVE SessionTypeOK
      BY DEF WholeInv
    <2>0. /\ link \in LinkType /\ stats \in Statistics /\ logger \in LoggerType
          /\ disk \in [Seconds -> FileType] /\ window \in WindowType
          /\ world \in WorldType /\ MaxInputs \in Nat
      BY BoundsAssumption DEF SessionInv, LogTypes
    <2>1. /\ link.connected \in BOOLEAN /\ link.last \in {"told", "crossed", "silent"}
          /\ link.doing \in [Threads -> {"", "opening", "was up", "was down", "CONNECTED", "DISCONNECTED",
                                         "ERROR"}]
          /\ link.lines \in Seq(Packets \cup {Damaged}) /\ Len(link.lines) <= MaxQueue
          /\ link.events \in Seq({"CONNECTED", "DISCONNECTED", "ERROR"}) /\ Len(link.events) <= MaxQueue
      <3>1. Doings = {"", "opening", "was up", "was down", "CONNECTED", "DISCONNECTED", "ERROR"}
        BY DEF Doings, Told
      <3> QED BY <2>0, <3>1 DEF LinkType, LinkBounds, Told
    <2>2. /\ logger.id \in Seconds /\ logger.open \subseteq {"telemetry", "events"}
          /\ logger.enabled \in BOOLEAN
          /\ logger.enabled => "events" \in logger.open /\ ("telemetry" \in logger.open \/ record[logger.id].lost)
          /\ logger.rows \in Seq(Packets) /\ logger.notes \in Seq(Notable)
      BY <2>0 DEF LoggerType, FilesOpen, SessionInv, RecordInv
    <2>3. \A s \in Seconds :
             /\ disk[s].rows \in Seq(Packets) /\ disk[s].notes \in Seq(Notable)
             /\ disk[s].summary \in Statistics \cup {NoSummary}
      BY <2>0 DEF FileType
    <2>4. world \in [second : Seconds, full : BOOLEAN, inputs : 0 .. MaxInputs, manager : Managers]
      BY <2>0 DEF LinkBounds, WorldType
    <2> QED BY <2>0, <2>1, <2>2, <2>3, <2>4 DEF SessionTypeOK, WindowType, GuiFree
  <1> QED BY <1>1, SessionInvariant, PTL

(* The summary that stop() writes covers the rows and the connections of    *)
(* its files, whatever the disk refused before, close() that loses rows     *)
(* included.                                                                *)
THEOREM SummariesCover == Spec => []SummaryCoversRecord
  <1>1. WholeInv => SummaryCoversRecord
    BY DEF WholeInv, SummaryInv, Covers, SummaryCoversRecord
  <1> QED BY <1>1, SessionInvariant, PTL
=============================================================================
