----------------------------- MODULE MCServer -----------------------------
(* Instances of Server for TLC: two clients and two ports. *)
EXTENDS Server

CONSTANTS client1, client2, port1, port2
============================================================================
