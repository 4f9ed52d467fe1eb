------------------------------ MODULE MCRelay ------------------------------
(* Bytes of two values, so that payloads look like lengths and a length can  *)
(* be too large; frames of one and two bytes in a FIFO smaller than a frame. *)
(* Of the amounts, a short holds one, makes three negative and cuts six.     *)
EXTENDS Relay
MCAmounts == {1, 3}
=============================================================================
