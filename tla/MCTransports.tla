---------------------------- MODULE MCTransports ----------------------------
(* Instance of Transports for TLC. *)
EXTENDS Transports
=============================================================================
