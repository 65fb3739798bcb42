------------------------------ MODULE MCSession ------------------------------
(* Instance of Session for TLC: a packet with both sensors, and one of each *)
(* sensor alone, whose values are extremes.                                 *)
EXTENDS Session

MCPackets == { [temp |-> 2, motion |-> 1], [temp |-> 1, motion |-> NoValue], [temp |-> NoValue, motion |-> 2] }
=============================================================================
