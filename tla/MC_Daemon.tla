------------------------------ MODULE MC_Daemon ------------------------------
(* Two nodes and two clients; enough connections for a reconnect.           *)
EXTENDS Daemon
==============================================================================
