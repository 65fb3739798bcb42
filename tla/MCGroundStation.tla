-------------------------- MODULE MCGroundStation --------------------------
(* Instance of GroundStation for TLC. *)
EXTENDS GroundStation
=============================================================================
