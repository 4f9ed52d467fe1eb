-------------------------- MODULE MCServerThreadsWeak --------------------------
(* Values for the constants of ServerThreads: an array of six bytes, so that *)
(* datagrams of one and three bytes fit in some positions and not in    *)
(* others, split at the end of the array, and wrap around it.                *)
EXTENDS ServerThreadsWeak
MCPacketLens == {0, 1, 3}
=============================================================================
