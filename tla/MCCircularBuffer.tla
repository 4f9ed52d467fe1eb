-------------------------- MODULE MCCircularBuffer --------------------------
(* An array of four bytes of two values.                                    *)
EXTENDS CircularBuffer
MCBytes == {0, 1}
=============================================================================
