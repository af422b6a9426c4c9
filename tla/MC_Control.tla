----------------------------- MODULE MC_Control ------------------------------
(* Two daemons that start, serve, stop and crash on one path and one        *)
(* bitcoind, with two runs of the client.                                   *)
EXTENDS Control
==============================================================================
