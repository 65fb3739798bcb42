------------------------------ MODULE MCDevice ------------------------------
(* Instance of Device for TLC: the command lines of each configuration. *)
EXTENDS Device

Cmd(command, value, number) ==
    [form |-> "CMD", command |-> command, value |-> value, number |-> number]

(* Commands that touch the stream's timing, one of each kind of rate, and   *)
(* one that is out of range.                                                *)
TimingLines ==
    { Cmd("PAUSE", "", 0), Cmd("RESUME", "", 0), Cmd("SET_RATE", "MIN", MinInterval),
      Cmd("SET_RATE", "MAX", MaxInterval), Cmd("SET_RATE", "HIGH", MaxInterval + 1),
      Cmd("RESET", "", 0) }

(* Commands that touch the sensors. *)
SensorLines == { Cmd("INJECT_FAULT", x, 0) : x \in Sensors } \cup { Cmd("CLEAR_FAULTS", "", 0) }

(* Lines that are answered with an error or not at all, and STATUS. *)
OtherLines ==
    { [form |-> "BLANK", command |-> "", value |-> "", number |-> 0],
      [form |-> "OTHER", command |-> "", value |-> "", number |-> 0],
      Cmd("SET_RATE", "", 0), Cmd("SET_RATE", "LOW", MinInterval - 1), Cmd("INJECT_FAULT", "AUX", 0),
      Cmd("STATUS", "", 0), Cmd("FORMAT", "", 0) }

AllLines == TimingLines \cup SensorLines \cup OtherLines
=============================================================================
