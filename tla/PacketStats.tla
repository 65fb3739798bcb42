---------------------------- MODULE PacketStats ----------------------------
(***************************************************************************)
(* The ground station's loss accounting: TelemetryStats                     *)
(* (ground_station/stats.py) fed by on_serial_line() (ground_station/app.py)*)
(* with what parse_telemetry() (ground_station/parser.py) makes of the      *)
(* packets of a device, numbered by buildTelemetryPacket().                 *)
(*                                                                          *)
(* A packet arrives intact, damaged (its CRC does not match), not at all,   *)
(* or as a fragment: its first characters, queued when readline() times out *)
(* (SerialManager).  A fragment that ends before ",CRC=" passes for a       *)
(* packet of the time before the CRC, and one that ends in the number for a *)
(* packet with the number its digits spell.                                 *)
(*                                                                          *)
(* `open` and `missed` are the truth the counter estimates: the packets     *)
(* that did not arrive, since the last one that did and before it.          *)
(***************************************************************************)
EXTENDS Integers

CONSTANTS
    SeqMod,    \* sequenceNumber wraps at this value: 2^32
    Base,      \* of the written sequence number: 10
    MaxEmitted \* bound: packets emitted

ASSUME SeqModAssumption == SeqMod \in Nat \ {0}
ASSUME BaseAssumption == Base \in Nat /\ Base > 1
ASSUME EmittedAssumption == MaxEmitted \in Nat

VARIABLES
    sequence, \* of the device
    emitted,  \* packets emitted, for the bound
    stats,    \* total_packets, malformed_packets, lost_packets, last_sequence
    open, missed,
    renumbered, \* history: the device began again from 0 since the statistics did
    cut         \* history: a fragment passed for a packet since the statistics began

vars == <<sequence, emitted, stats, open, missed, renumbered, cut>>

NoSequence == -1
NewStats == [total |-> 0, malformed |-> 0, lost |-> 0, last |-> NoSequence]

Init ==
    /\ sequence = 0 /\ emitted = 0 /\ stats = NewStats
    /\ open = 0 /\ missed = 0 /\ renumbered = FALSE /\ cut = FALSE

(* Mutants of Gap: the next number counts as lost; a number below the last  *)
(* one counts negative; gaps are counted instead of packets.                *)
GapFromLast(current) ==
    IF stats.last # NoSequence /\ current > stats.last THEN current - stats.last ELSE 0
GapSigned(current) == IF stats.last # NoSequence THEN current - (stats.last + 1) ELSE 0
GapAsOne(current) == IF stats.last # NoSequence /\ current > stats.last + 1 THEN 1 ELSE 0

(* update() with a parsed packet, and with None. *)
Gap(current) ==
    IF stats.last # NoSequence /\ current > stats.last + 1 THEN current - (stats.last + 1) ELSE 0
Updated(current) ==
    [stats EXCEPT !.total = @ + 1, !.lost = @ + Gap(current), !.last = current]
(* Mutant of Malformed: the number of a damaged packet is believed.         *)
MalformedBelieved == [stats EXCEPT !.malformed = @ + 1, !.last = sequence']

Malformed == [stats EXCEPT !.malformed = @ + 1]

Emit ==
    /\ emitted < MaxEmitted /\ emitted' = emitted + 1
    /\ sequence' = (sequence + 1) % SeqMod
    /\ renumbered' = (renumbered \/ sequence' = 0)

Counted == open' = 0 /\ missed' = missed + open
Missing == open' = (IF stats.last = NoSequence THEN 0 ELSE open + 1) /\ UNCHANGED missed

Deliver == Emit /\ stats' = Updated(sequence') /\ Counted /\ UNCHANGED cut
Lose == Emit /\ UNCHANGED <<stats, cut>> /\ Missing
Damage == Emit /\ stats' = Malformed /\ Missing /\ UNCHANGED cut

(* The numbers that the first digits of n spell; 2^32 has ten digits. *)
Prefixes(n) == { p \in 1 .. n : \E k \in 0 .. 9 : p = n \div (Base ^ k) }
Truncate ==
    /\ Emit
    /\ \E p \in Prefixes(sequence') : stats' = Updated(p)
    /\ Counted /\ cut' = TRUE

(* RESET or a power cycle of the device. *)
Restart ==
    /\ sequence' = 0 /\ renumbered' = TRUE
    /\ UNCHANGED <<emitted, stats, open, missed, cut>>

(* reset_statistics() *)
ResetStatistics ==
    /\ stats' = NewStats
    /\ open' = 0 /\ missed' = 0 /\ renumbered' = FALSE /\ cut' = FALSE
    /\ UNCHANGED <<sequence, emitted>>

Next ==
    \/ Deliver
    \/ Lose
    \/ Damage
    \/ Truncate
    \/ Restart
    \/ ResetStatistics

Spec == Init /\ [][Next]_vars

-----------------------------------------------------------------------------
(* Type invariant. *)
StatsTypeOK ==
    /\ sequence \in 0 .. SeqMod - 1 /\ emitted \in 0 .. MaxEmitted
    /\ stats \in [total : Nat, malformed : Nat, lost : Nat, last : Nat \cup {NoSequence}]
    /\ stats.last < SeqMod
    /\ open \in Nat /\ missed \in Nat
    /\ renumbered \in BOOLEAN /\ cut \in BOOLEAN

(* The loss counter never accuses the link of more than it lost, also when  *)
(* the device restarts or its number wraps between two packets, and packets *)
(* are damaged meanwhile.                                                   *)
LossIsReal == ~cut => stats.lost <= missed

(* While the device counts on, the counter is exact: every packet that did  *)
(* not arrive intact is lost, the damaged ones too.                         *)
LossIsComplete == ~cut /\ ~renumbered => stats.lost = missed

(* No loss stays hidden, also when fragments distort the last number: once  *)
(* a packet arrives with its own number, every packet missed is counted.    *)
NothingIsHidden == ~renumbered /\ stats.last = sequence => missed <= stats.lost

(* "Statistics track packet rate, sequence gaps" (docs/architecture.md): no *)
(* loss is counted that did not happen, whatever lines the parser accepts.  *)
NoInventedLoss == stats.lost <= missed
=============================================================================
