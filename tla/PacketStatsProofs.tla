------------------------- MODULE PacketStatsProofs -------------------------
(* Theorems about PacketStats: for every width of the sequence number and   *)
(* however the device and the statistics are restarted, the loss counter is *)
(* right until a packet cut short is taken for a whole one, and hides no    *)
(* loss after that.                                                         *)
EXTENDS PacketStats, TLAPS

(* The inductive invariant.  What ties the counter to the truth is the      *)
(* number of packets missed since the last one that arrived: at least the   *)
(* distance of the two sequence numbers, and exactly that while the device  *)
(* counts on.  A fragment breaks that tie by a smaller last number; then    *)
(* the distance still bounds what is not counted yet.                       *)
Arrived == stats.last # NoSequence
OpenCoversGap ==
    /\ ~Arrived => open = 0
    /\ ~cut /\ Arrived /\ sequence > stats.last => open >= sequence - stats.last
OpenIsGap ==
    ~cut /\ ~renumbered /\ Arrived => sequence >= stats.last /\ open = sequence - stats.last
UncountedInGap ==
    ~renumbered =>
        /\ ~Arrived => missed = 0
        /\ Arrived => /\ sequence >= stats.last
                      /\ missed + open <= stats.lost + (sequence - stats.last)

StatsInv ==
    StatsTypeOK /\ OpenCoversGap /\ OpenIsGap /\ UncountedInGap /\ LossIsReal /\ LossIsComplete

(* The next number, and when it is not the successor. *)
LEMMA NextNumber ==
  ASSUME NEW n \in 0 .. SeqMod - 1
  PROVE  /\ (n + 1) % SeqMod \in 0 .. SeqMod - 1
         /\ (n + 1) % SeqMod = n + 1 \/ (n + 1) % SeqMod = 0
  <1>1. CASE n + 1 < SeqMod BY <1>1, SeqModAssumption, SMT
  <1>2. CASE n + 1 = SeqMod BY <1>2, SeqModAssumption, SMT
  <1> QED BY <1>1, <1>2, SeqModAssumption, SMT

(* What every emission does, whatever becomes of the packet. *)
LEMMA EmitFacts ==
  ASSUME StatsInv, Emit
  PROVE  /\ sequence \in 0 .. SeqMod - 1 /\ sequence' \in 0 .. SeqMod - 1
         /\ emitted' \in 0 .. MaxEmitted
         /\ sequence' = sequence + 1 \/ sequence' = 0
         /\ renumbered' \in BOOLEAN
         /\ ~renumbered' => ~renumbered /\ sequence' = sequence + 1
  <1>1. sequence \in 0 .. SeqMod - 1 /\ emitted \in 0 .. MaxEmitted /\ renumbered \in BOOLEAN
    BY DEF StatsInv, StatsTypeOK
  <1>2. /\ sequence' \in 0 .. SeqMod - 1
        /\ sequence' = sequence + 1 \/ sequence' = 0
    BY <1>1, NextNumber DEF Emit
  <1>3. emitted' \in 0 .. MaxEmitted BY <1>1, EmittedAssumption, SMT DEF Emit
  <1>4. renumbered' \in BOOLEAN /\ (~renumbered' => ~renumbered /\ sequence' # 0)
    BY <1>1 DEF Emit
  <1> QED BY <1>1, <1>2, <1>3, <1>4

(* The fields of the statistics. *)
LEMMA StatsFields ==
  ASSUME StatsTypeOK
  PROVE  /\ stats = [total |-> stats.total, malformed |-> stats.malformed,
                     lost |-> stats.lost, last |-> stats.last]
         /\ stats.total \in Nat /\ stats.malformed \in Nat /\ stats.lost \in Nat
         /\ stats.last \in Nat \cup {NoSequence} /\ stats.last < SeqMod
         /\ open \in Nat /\ missed \in Nat /\ cut \in BOOLEAN
  BY DEF StatsTypeOK

(* A packet taken for whole with the number n, its own or a smaller one. *)
LEMMA CountInv ==
  ASSUME StatsInv, Emit, Counted, NEW n \in Nat, n <= sequence', stats' = Updated(n),
         cut' \in BOOLEAN, ~cut' => ~cut /\ n = sequence'
  PROVE  StatsInv'
  <1>1. /\ sequence \in 0 .. SeqMod - 1 /\ sequence' \in 0 .. SeqMod - 1
        /\ emitted' \in 0 .. MaxEmitted /\ renumbered' \in BOOLEAN
        /\ sequence' = sequence + 1 \/ sequence' = 0
        /\ ~renumbered' => ~renumbered /\ sequence' = sequence + 1
    BY EmitFacts
  <1>2. /\ stats.total \in Nat /\ stats.malformed \in Nat /\ stats.lost \in Nat
        /\ stats.last \in Nat \cup {NoSequence} /\ stats.last < SeqMod
        /\ open \in Nat /\ missed \in Nat
    BY StatsFields DEF StatsInv
  <1> DEFINE gap == Gap(n)
  <1>3. stats' = [total |-> stats.total + 1, malformed |-> stats.malformed,
                  lost |-> stats.lost + gap, last |-> n]
    BY StatsFields DEF Updated, StatsInv
  <1>4. open' = 0 /\ missed' = missed + open BY DEF Counted
  <1>5. gap \in Nat BY <1>2, SMT DEF Gap, NoSequence
  <1>6. ~cut' => gap <= open
    BY <1>1, <1>2, SeqModAssumption, SMT DEF Gap, StatsInv, OpenCoversGap, Arrived, NoSequence
  <1>7. ~cut' /\ ~renumbered' => gap = open
    BY <1>1, <1>2, SeqModAssumption, SMT
    DEF Gap, StatsInv, OpenCoversGap, OpenIsGap, Arrived, NoSequence
  <1>8. /\ stats'.total \in Nat /\ stats'.malformed \in Nat
        /\ stats'.lost = stats.lost + gap /\ stats'.lost \in Nat /\ stats'.last = n
    BY <1>2, <1>3, <1>5
  <1>9. StatsTypeOK'
    <2>1. stats' \in [total : Nat, malformed : Nat, lost : Nat, last : Nat \cup {NoSequence}]
      <3>1. stats.total + 1 \in Nat /\ stats.malformed \in Nat /\ stats.lost + gap \in Nat
        BY <1>2, <1>5
      <3> QED BY <1>3, <3>1
    <2>2. stats'.last < SeqMod BY <1>1, <1>8, SeqModAssumption, SMT
    <2>3. open' \in Nat /\ missed' \in Nat BY <1>2, <1>4
    <2> QED BY <1>1, <2>1, <2>2, <2>3 DEF StatsTypeOK
  <1>10. Arrived' BY <1>8, SMT DEF Arrived, NoSequence
  <1>11. OpenCoversGap' /\ OpenIsGap'
    <2>1. ~cut' => stats'.last = sequence' /\ open' = 0 BY <1>4, <1>8
    <2>2. \A i \in Int : i - i = 0 /\ ~(i > i) /\ i >= i /\ 0 >= i - i BY SMT
    <2>3. sequence' \in Int BY <1>1, SeqModAssumption, SMT
    <2> QED BY <1>10, <2>1, <2>2, <2>3 DEF OpenCoversGap, OpenIsGap
  <1>12. UncountedInGap'
    <2>1. ASSUME ~renumbered' PROVE missed' + open' <= stats'.lost + (sequence' - stats'.last)
      <3>1. CASE Arrived
        <4>1. /\ sequence >= stats.last
              /\ missed + open <= stats.lost + (sequence - stats.last)
          BY <1>1, <2>1, <3>1 DEF StatsInv, UncountedInGap
        <4>2. gap >= n - (stats.last + 1) BY <1>2, <3>1, SMT DEF Gap, Arrived, NoSequence
        <4> QED BY <1>1, <1>2, <1>4, <1>5, <1>8, <2>1, <4>1, <4>2, SeqModAssumption, SMT DEF NoSequence
      <3>2. CASE ~Arrived
        <4>1. missed = 0 /\ open = 0
          BY <1>1, <2>1, <3>2 DEF StatsInv, UncountedInGap, OpenCoversGap
        <4> QED BY <1>1, <1>2, <1>4, <1>5, <1>8, <2>1, <4>1, SeqModAssumption, SMT
      <3> QED BY <3>1, <3>2
    <2>2. sequence' >= stats'.last BY <1>1, <1>8, SeqModAssumption, SMT
    <2> QED BY <1>10, <2>1, <2>2 DEF UncountedInGap
  <1>13. LossIsReal' BY <1>2, <1>4, <1>5, <1>6, <1>8, SMT DEF LossIsReal, StatsInv
  <1>14. LossIsComplete' BY <1>1, <1>2, <1>4, <1>7, <1>8, SMT DEF LossIsComplete, StatsInv
  <1> QED BY <1>9, <1>11, <1>12, <1>13, <1>14 DEF StatsInv

(* A packet that arrives intact, and one cut short. *)
LEMMA DeliverInv == ASSUME StatsInv, Deliver PROVE StatsInv'
  <1>1. Emit /\ Counted /\ stats' = Updated(sequence') /\ cut' = cut BY DEF Deliver
  <1>2. sequence' \in Nat /\ sequence' <= sequence'
    <2>1. sequence' \in 0 .. SeqMod - 1 BY <1>1, EmitFacts
    <2> QED BY <2>1, SeqModAssumption, SMT
  <1>3. cut \in BOOLEAN BY StatsFields DEF StatsInv
  <1> QED BY <1>1, <1>2, <1>3, CountInv

LEMMA TruncateInv == ASSUME StatsInv, Truncate PROVE StatsInv'
  <1>1. Emit /\ Counted /\ cut' = TRUE BY DEF Truncate
  <1>2. PICK p \in Prefixes(sequence') : stats' = Updated(p) BY DEF Truncate
  <1>3. p \in Nat /\ p <= sequence'
    <2>1. sequence' \in 0 .. SeqMod - 1 BY <1>1, EmitFacts
    <2>2. p \in 1 .. sequence' BY <1>2 DEF Prefixes
    <2> QED BY <2>1, <2>2, SeqModAssumption, SMT
  <1> QED BY <1>1, <1>2, <1>3, CountInv

(* A packet that does not arrive, or arrives damaged. *)
LEMMA MissInv == ASSUME StatsInv, Lose \/ Damage PROVE StatsInv'
  <1>1. Emit /\ Missing BY DEF Lose, Damage
  <1>2. /\ sequence \in 0 .. SeqMod - 1 /\ sequence' \in 0 .. SeqMod - 1
        /\ emitted' \in 0 .. MaxEmitted /\ renumbered' \in BOOLEAN
        /\ sequence' = sequence + 1 \/ sequence' = 0
        /\ ~renumbered' => ~renumbered /\ sequence' = sequence + 1
    BY <1>1, EmitFacts
  <1>3. /\ stats.total \in Nat /\ stats.malformed \in Nat /\ stats.lost \in Nat
        /\ stats.last \in Nat \cup {NoSequence} /\ stats.last < SeqMod
        /\ open \in Nat /\ missed \in Nat /\ cut \in BOOLEAN /\ cut' = cut
    BY StatsFields DEF StatsInv, Lose, Damage
  <1>4. /\ stats' \in [total : Nat, malformed : Nat, lost : Nat, last : Nat \cup {NoSequence}]
        /\ stats'.lost = stats.lost /\ stats'.last = stats.last
    <2>1. CASE Lose BY <2>1 DEF Lose, StatsInv, StatsTypeOK
    <2>2. CASE Damage
      <3>1. stats' = [total |-> stats.total, malformed |-> stats.malformed + 1,
                      lost |-> stats.lost, last |-> stats.last]
        BY <2>2, StatsFields DEF Damage, Malformed, StatsInv
      <3>2. stats.malformed + 1 \in Nat BY <1>3
      <3> QED BY <1>3, <3>1, <3>2
    <2> QED BY <2>1, <2>2
  <1>5. missed' = missed /\ open' = (IF stats.last = NoSequence THEN 0 ELSE open + 1)
    BY <1>1 DEF Missing
  <1>6. StatsTypeOK'
    <2>1. open' \in Nat BY <1>3, <1>5
    <2> QED BY <1>2, <1>3, <1>4, <1>5, <2>1 DEF StatsTypeOK
  <1>7. OpenCoversGap'
    BY <1>2, <1>3, <1>4, <1>5, SeqModAssumption, SMT DEF StatsInv, OpenCoversGap, Arrived, NoSequence
  <1>8. OpenIsGap'
    BY <1>2, <1>3, <1>4, <1>5, SeqModAssumption, SMT DEF StatsInv, OpenIsGap, Arrived, NoSequence
  <1>9. LossIsReal' /\ LossIsComplete'
    BY <1>2, <1>3, <1>4, <1>5 DEF StatsInv, LossIsReal, LossIsComplete
  <1>10. UncountedInGap'
    BY <1>2, <1>3, <1>4, <1>5, SeqModAssumption, SMT
    DEF StatsInv, UncountedInGap, OpenCoversGap, Arrived, NoSequence
  <1> QED BY <1>6, <1>7, <1>8, <1>9, <1>10 DEF StatsInv

(* New statistics have the right type. *)
LEMMA NewStatsType ==
  /\ NewStats \in [total : Nat, malformed : Nat, lost : Nat, last : Nat \cup {NoSequence}]
  /\ NewStats.last = NoSequence /\ NewStats.lost = 0 /\ NoSequence < SeqMod
  /\ 0 \in 0 .. SeqMod - 1
  <1>1. NoSequence < SeqMod /\ 0 \in 0 .. SeqMod - 1 BY SeqModAssumption, SMT DEF NoSequence
  <1> QED BY <1>1 DEF NewStats

(* The device begins again from 0. *)
LEMMA RestartInv == ASSUME StatsInv, Restart PROVE StatsInv'
  <1>1. /\ sequence' = 0 /\ renumbered' = TRUE
        /\ emitted' = emitted /\ stats' = stats /\ open' = open /\ missed' = missed
        /\ cut' = cut
    BY DEF Restart
  <1>2. stats.last \in Nat \cup {NoSequence} /\ open \in Nat BY StatsFields DEF StatsInv
  <1>3. 0 \in 0 .. SeqMod - 1 BY SeqModAssumption, SMT
  <1>4. StatsTypeOK' BY <1>1, <1>3 DEF StatsInv, StatsTypeOK
  <1>5. OpenCoversGap' BY <1>1, <1>2, SMT DEF StatsInv, OpenCoversGap, Arrived, NoSequence
  <1> QED BY <1>1, <1>4, <1>5 DEF StatsInv, OpenIsGap, UncountedInGap, LossIsReal, LossIsComplete

(* The statistics begin again. *)
LEMMA ResetInv == ASSUME StatsInv, ResetStatistics PROVE StatsInv'
  <1>1. /\ stats' = NewStats /\ open' = 0 /\ missed' = 0 /\ renumbered' = FALSE
        /\ sequence' = sequence /\ emitted' = emitted /\ cut' = FALSE
    BY DEF ResetStatistics
  <1>2. StatsTypeOK'
    BY <1>1, NewStatsType DEF StatsInv, StatsTypeOK
  <1>3. OpenCoversGap' /\ OpenIsGap' /\ UncountedInGap'
    BY <1>1, NewStatsType DEF OpenCoversGap, OpenIsGap, UncountedInGap, Arrived
  <1> QED BY <1>1, <1>2, <1>3, NewStatsType DEF StatsInv, LossIsReal, LossIsComplete

(* The invariant holds at the start. *)
LEMMA InitInv == Init => StatsInv
  <1> SUFFICES ASSUME Init PROVE StatsInv
    OBVIOUS
  <1>1. StatsTypeOK
    <2>1. 0 \in 0 .. MaxEmitted BY EmittedAssumption, SMT
    <2> QED BY <2>1, NewStatsType DEF Init, StatsTypeOK
  <1>2. OpenCoversGap /\ OpenIsGap /\ UncountedInGap
    BY NewStatsType DEF Init, OpenCoversGap, OpenIsGap, UncountedInGap, Arrived
  <1> QED BY <1>1, <1>2, NewStatsType DEF Init, StatsInv, LossIsReal, LossIsComplete

(* Every step preserves the invariant. *)
LEMMA StatsInductive == StatsInv /\ [Next]_vars => StatsInv'
  <1> SUFFICES ASSUME StatsInv, [Next]_vars PROVE StatsInv'
    OBVIOUS
  <1>1. CASE Deliver BY <1>1, DeliverInv
  <1>2. CASE Lose \/ Damage BY <1>2, MissInv
  <1>3. CASE Truncate BY <1>3, TruncateInv
  <1>4. CASE Restart BY <1>4, RestartInv
  <1>5. CASE ResetStatistics BY <1>5, ResetInv
  <1>6. CASE UNCHANGED vars
    BY <1>6
    DEF vars, StatsInv, StatsTypeOK, OpenCoversGap, OpenIsGap, UncountedInGap, Arrived,
        LossIsReal, LossIsComplete
  <1> QED BY <1>1, <1>2, <1>3, <1>4, <1>5, <1>6 DEF Next

(* Every reachable state satisfies the invariant. *)
LEMMA StatsInvariant == Spec => []StatsInv
  <1>1. Init => StatsInv BY InitInv
  <1>2. StatsInv /\ [Next]_vars => StatsInv' BY StatsInductive
  <1> QED BY <1>1, <1>2, PTL DEF Spec

(* Type correctness. *)
THEOREM StatsTypeCorrect == Spec => []StatsTypeOK
  <1>1. StatsInv => StatsTypeOK BY DEF StatsInv
  <1> QED BY <1>1, StatsInvariant, PTL

(* Until a packet cut short is taken for a whole one, the counter never     *)
(* exceeds the true loss, through any number of restarts of the device and  *)
(* wraps of its 32-bit number.                                              *)
THEOREM LossIsNeverInvented == Spec => []LossIsReal
  <1>1. StatsInv => LossIsReal BY DEF StatsInv
  <1> QED BY <1>1, StatsInvariant, PTL

(* It equals the true loss while the device counts on. *)
THEOREM LossIsNeverMissed == Spec => []LossIsComplete
  <1>1. StatsInv => LossIsComplete BY DEF StatsInv
  <1> QED BY <1>1, StatsInvariant, PTL

(* Whatever was cut short, no loss is left uncounted when a packet with the *)
(* device's own number has arrived last.                                    *)
THEOREM LossIsNeverHidden == Spec => []NothingIsHidden
  <1>1. StatsInv => NothingIsHidden
    <2> SUFFICES ASSUME StatsInv, ~renumbered, stats.last = sequence PROVE missed <= stats.lost
      BY DEF NothingIsHidden
    <2>1. sequence \in Nat /\ stats.lost \in Nat /\ missed \in Nat /\ open \in Nat
      <3>1. sequence \in 0 .. SeqMod - 1 BY DEF StatsInv, StatsTypeOK
      <3> QED BY <3>1, StatsFields, SeqModAssumption, SMT DEF StatsInv
    <2>2. Arrived BY <2>1, SMT DEF Arrived, NoSequence
    <2>3. missed + open <= stats.lost + (sequence - stats.last)
      BY <2>2 DEF StatsInv, UncountedInGap
    <2> QED BY <2>1, <2>3, SMT
  <1> QED BY <1>1, StatsInvariant, PTL
=============================================================================
