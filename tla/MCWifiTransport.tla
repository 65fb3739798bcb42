-------------------------- MODULE MCWifiTransport --------------------------
(* Instance of WifiTransport for TLC. *)
EXTENDS WifiTransport
=============================================================================
