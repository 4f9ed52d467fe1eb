---------------------------- MODULE MCHandshake ----------------------------
(* Model values for the addresses.                                          *)
EXTENDS Handshake
CONSTANTS c1, c2
MCClients == {c1, c2}
MCTesters == {c2}
=============================================================================
