------------------------- MODULE DemoSerialManager -------------------------
(***************************************************************************)
(* The ground station's simulator (ground_station/demo_serial.py): a        *)
(* manager that is a device as well.  Commands run on the GUI thread, in    *)
(* send(); packets are built by a loop on a thread of its own, which reads  *)
(* the attributes that send() writes one by one while it puts a packet      *)
(* together.  connect() starts a new loop every time.                       *)
(*                                                                          *)
(* An action is one access to a shared attribute; the reads of both fault   *)
(* flags for the measurements are one, and so are those for the health      *)
(* fields.  Time passes when every loop sleeps.  Packet numbers are only    *)
(* compared with the one before, and kept modulo Numbers.                   *)
(***************************************************************************)
EXTENDS Naturals, FiniteSets

CONSTANTS
    DemoRates, \* intervals between packets that the user sets, in units of time
    DemoRate   \* the interval at the start

ASSUME DemoRatesAssumption ==
    /\ DemoRates \subseteq Nat \ {0} /\ DemoRate \in DemoRates
    /\ \E r \in DemoRates : \A q \in DemoRates : q <= r \* send() refuses others

VARIABLES
    demo,     \* the attributes connected, running, paused, rate_ms, sequence, the faults
    loops,    \* of each loop: its next access, the time to next_packet, the packet it builds
    clearing, \* send() has cleared imu_fault and not yet bme_fault
    stream,   \* history of line_queue, see below
    hasty     \* history: connect() was called before the loop of the last session ended

demoVars == <<demo, loops, clearing, stream, hasty>>

Numbers == 3
LoopIds == {1, 2} \* bound: loops alive at a time
Targets == {"BME", "IMU"}
Longest == CHOOSE r \in DemoRates : \A q \in DemoRates : q <= r
LoopPcs == {"none", "running", "due", "add", "store", "measure", "report", "put", "sleep"}
Ended == [pc |-> "none", wait |-> 0, number |-> 0, measured |-> {}, reported |-> {}]

NoStream == [last |-> 0, reset |-> FALSE, late |-> 0, quiet |-> 0]

(* stream: the number of the last packet; whether RESET was executed since  *)
(* that number was the counter's; the packets since the last command that a *)
(* device in the state it left would not send; the time since a packet,     *)
(* RESUME or connect().  It ends with the first connect() that comes too    *)
(* early.                                                                   *)
DemoInit ==
    /\ demo = [connected |-> FALSE, running |-> FALSE, paused |-> FALSE, rate |-> DemoRate,
               sequence |-> 0, faults |-> {}]
    /\ loops = [l \in LoopIds |-> Ended] /\ clearing = FALSE
    /\ stream = NoStream
    /\ hasty = FALSE

(* Once two loops have run, no history is kept. *)
Tells(s) == stream' = IF hasty' THEN NoStream ELSE s

Alive == { l \in LoopIds : loops[l].pc # "none" }

-----------------------------------------------------------------------------
(* connect() and disconnect(), on the GUI thread; the loop sees `running`   *)
(* alone.  start_time only shifts what the packets contain.                 *)

(* Mutant of DemoConnect: every session counts from the start.              *)
DemoConnectAnew ==
    /\ ~clearing /\ ~demo.connected
    /\ \E l \in LoopIds \ Alive :
          /\ \A m \in LoopIds \ Alive : l <= m
          /\ loops' = [loops EXCEPT ![l].pc = "running"]
    /\ demo' = [demo EXCEPT !.connected = TRUE, !.running = TRUE, !.sequence = 0]
    /\ hasty' = (hasty \/ Alive # {})
    /\ Tells([stream EXCEPT !.quiet = 0])
    /\ UNCHANGED clearing

DemoConnect ==
    /\ ~clearing /\ ~demo.connected
    /\ \E l \in LoopIds \ Alive :
          /\ \A m \in LoopIds \ Alive : l <= m
          /\ loops' = [loops EXCEPT ![l].pc = "running"]
    /\ demo' = [demo EXCEPT !.connected = TRUE, !.running = TRUE]
    /\ hasty' = (hasty \/ Alive # {})
    /\ Tells([stream EXCEPT !.quiet = 0])
    /\ UNCHANGED clearing

DemoDisconnect ==
    /\ ~clearing /\ demo.connected
    /\ demo' = [demo EXCEPT !.connected = FALSE, !.running = FALSE]
    /\ UNCHANGED <<loops, clearing, stream, hasty>>

-----------------------------------------------------------------------------
(* send(): a command writes its attributes, then queues ACK and, but for    *)
(* RESET, STATUS, of attributes that only this thread writes.  A rate out   *)
(* of range, a target or a command that does not exist, and STATUS, write   *)
(* nothing.  (Bound: commands are given until two loops have run.)          *)

Obeys(after) ==
    /\ ~hasty /\ ~clearing /\ demo.connected /\ demo' = after
    /\ UNCHANGED <<loops, hasty>>
Since(s) == Tells([s EXCEPT !.late = 0])

DemoPause == Obeys([demo EXCEPT !.paused = TRUE]) /\ Since(stream) /\ UNCHANGED clearing
DemoResume ==
    /\ Obeys([demo EXCEPT !.paused = FALSE]) /\ UNCHANGED clearing
    /\ Since([stream EXCEPT !.quiet = 0])
(* Mutant of DemoSetRate: the next packet is planned anew.                  *)
DemoSetRateAnew ==
    /\ ~hasty /\ ~clearing /\ demo.connected
    /\ \E r \in DemoRates :
          /\ demo' = [demo EXCEPT !.rate = r]
          /\ loops' = [l \in LoopIds |-> IF l \in Alive THEN [loops[l] EXCEPT !.wait = r] ELSE loops[l]]
    /\ UNCHANGED <<clearing, hasty>> /\ Since(stream)

DemoSetRate ==
    /\ \E r \in DemoRates : Obeys([demo EXCEPT !.rate = r])
    /\ Since(stream) /\ UNCHANGED clearing
DemoInject ==
    /\ \E x \in Targets : Obeys([demo EXCEPT !.faults = @ \cup {x}])
    /\ Since(stream) /\ UNCHANGED clearing
DemoClear ==
    /\ Obeys([demo EXCEPT !.faults = @ \ {"IMU"}])
    /\ clearing' = TRUE /\ UNCHANGED stream
ClearBme ==
    /\ clearing /\ clearing' = FALSE
    /\ demo' = [demo EXCEPT !.faults = @ \ {"BME"}]
    /\ UNCHANGED <<loops, hasty>> /\ Since(stream)
(* RESET of the simulator keeps pause, rate and faults, and reports nothing.*)
DemoReset ==
    /\ Obeys([demo EXCEPT !.sequence = 0]) /\ UNCHANGED clearing
    /\ Since([stream EXCEPT !.reset = TRUE])

-----------------------------------------------------------------------------
(* _loop() and _build_packet(), of loop l. *)

Goes(l, from, to) == loops[l].pc = from /\ loops' = [loops EXCEPT ![l].pc = to]

(* A loop that ends forgets its local variables. *)
LoopRuns(l) ==
    /\ loops[l].pc = "running"
    /\ loops' = [loops EXCEPT ![l] = IF demo.running THEN [@ EXCEPT !.pc = "due"] ELSE Ended]
    /\ UNCHANGED <<demo, clearing, stream, hasty>>

(* Mutant of LoopDue: the pause is not looked at.                           *)
LoopDueAnyway(l) ==
    /\ Goes(l, "due", IF loops[l].wait = 0 THEN "add" ELSE "sleep")
    /\ UNCHANGED <<demo, clearing, stream, hasty>>

LoopDue(l) ==
    /\ Goes(l, "due", IF ~demo.paused /\ loops[l].wait = 0 THEN "add" ELSE "sleep")
    /\ UNCHANGED <<demo, clearing, stream, hasty>>

(* self.sequence += 1 reads, then stores; the packet reads it once more.    *)
ReadSequence(l) ==
    /\ loops[l].pc = "add"
    /\ loops' = [loops EXCEPT ![l].pc = "store", ![l].number = (demo.sequence + 1) % Numbers]
    /\ UNCHANGED <<demo, clearing, stream, hasty>>

StoreSequence(l) ==
    /\ Goes(l, "store", "measure")
    /\ demo' = [demo EXCEPT !.sequence = loops[l].number]
    /\ UNCHANGED <<clearing, stream, hasty>>

(* A sensor with a fault has no measurements in the packet ... *)
Measure(l) ==
    /\ loops[l].pc = "measure"
    /\ loops' = [loops EXCEPT ![l].pc = "report", ![l].number = demo.sequence, ![l].measured = demo.faults]
    /\ UNCHANGED <<demo, clearing, stream, hasty>>

(* ... and is reported in its health fields and in STATUS. *)
ReportHealth(l) ==
    /\ loops[l].pc = "report"
    /\ loops' = [loops EXCEPT ![l].pc = "put", ![l].reported = demo.faults]
    /\ UNCHANGED <<demo, clearing, stream, hasty>>

Fits(l) == ~demo.paused /\ loops[l].measured = demo.faults /\ loops[l].reported = demo.faults

(* The next packet is planned with the rate of this moment. *)
PutPacket(l) ==
    /\ loops[l].pc = "put"
    /\ loops' = [loops EXCEPT ![l] = [Ended EXCEPT !.pc = "sleep", !.wait = demo.rate]]
    /\ UNCHANGED <<demo, clearing, hasty>>
    /\ Tells([last |-> loops[l].number, quiet |-> 0,
              reset |-> stream.reset /\ loops[l].number # demo.sequence,
              late |-> IF Fits(l) \/ clearing \/ stream.late = 2 THEN stream.late ELSE stream.late + 1])

LoopWakes(l) == Goes(l, "sleep", "running") /\ UNCHANGED <<demo, clearing, stream, hasty>>

(* A unit of time, longer than the sleep of 10 ms: no loop has work to do.  *)
DemoTick ==
    /\ ~clearing
    /\ \A l \in Alive : loops[l].pc = "sleep" /\ demo.running /\ (demo.paused \/ loops[l].wait > 0)
    /\ loops' = [l \in LoopIds |-> [loops[l] EXCEPT !.wait = IF @ > 0 THEN @ - 1 ELSE 0]]
    /\ UNCHANGED <<demo, clearing, hasty>>
    /\ Tells([stream EXCEPT !.quiet = IF @ > Longest THEN @ ELSE @ + 1])

-----------------------------------------------------------------------------
DemoUser ==
    \/ DemoConnect \/ DemoDisconnect
    \/ DemoPause \/ DemoResume \/ DemoSetRate \/ DemoInject \/ DemoClear \/ DemoReset
DemoLoop(l) ==
    \/ LoopRuns(l) \/ LoopDue(l) \/ ReadSequence(l) \/ StoreSequence(l)
    \/ Measure(l) \/ ReportHealth(l) \/ PutPacket(l) \/ LoopWakes(l)

DemoNext == DemoUser \/ ClearBme \/ (\E l \in LoopIds : DemoLoop(l)) \/ DemoTick

DemoSpec == DemoInit /\ [][DemoNext]_demoVars

(* Every thread is scheduled. *)
DemoFairness == WF_demoVars(ClearBme) /\ \A l \in LoopIds : WF_demoVars(DemoLoop(l))
DemoFairSpec == DemoSpec /\ DemoFairness

-----------------------------------------------------------------------------
(* Type invariant. *)
DemoTypeOK ==
    /\ demo \in [connected : BOOLEAN, running : BOOLEAN, paused : BOOLEAN, rate : DemoRates,
                 sequence : 0 .. Numbers - 1, faults : SUBSET Targets]
    /\ loops \in [LoopIds -> [pc : LoopPcs, wait : 0 .. Longest, number : 0 .. Numbers - 1,
                              measured : SUBSET Targets, reported : SUBSET Targets]]
    /\ stream \in [last : 0 .. Numbers - 1, reset : BOOLEAN, late : 0 .. 2, quiet : 0 .. Longest + 1]
    /\ clearing \in BOOLEAN /\ hasty \in BOOLEAN

(* Packets are numbered one after the other, across disconnections too, as  *)
(* the loss counter expects, unless RESET is executed between two of them,  *)
(* or two loops count.                                                      *)
DemoCountsOnStep ==
    \A l \in LoopIds :
        PutPacket(l) /\ ~hasty /\ ~stream.reset => loops[l].number = (stream.last + 1) % Numbers
DemoCountsOn == [][DemoCountsOnStep]_demoVars

(* A command holds from the second packet after it on: PAUSE silences the   *)
(* stream, and packets agree with the faults, and with themselves, but for  *)
(* the one that was being put together.                                     *)
DemoObeys == ~hasty => stream.late <= 1

(* The stream flows: a packet comes within the longest interval, whatever   *)
(* rate is set while it is waited for.                                      *)
DemoFlows == demo.connected /\ ~demo.paused /\ ~hasty => stream.quiet <= Longest

(* disconnect() ends the loop, those of hasty users too.                    *)
DemoLoopEnds == <>[](~demo.running) => <>[](Alive = {})
=============================================================================
