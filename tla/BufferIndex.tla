---------------------------- MODULE BufferIndex ----------------------------
(***************************************************************************)
(* The index arithmetic of the circular buffer of VideoServer/src/buffer.c *)
(* as operators.  The buffer is an array of Max bytes; "head" is the next  *)
(* slot written, "tail" the next slot read, and "full" tells the two       *)
(* states with head = tail apart.                                          *)
(*                                                                         *)
(* head, tail and max are size_t.  With VIDEO_BUFFER_SIZE = 20000000 no    *)
(* sum below reaches 2^32; a difference that goes below zero is brought    *)
(* back to the same negative number by the conversion to int in            *)
(* get_space, so the arithmetic is that of the integers.                   *)
(***************************************************************************)
EXTENDS Integers

CONSTANT Max   \* buf->max

ASSUME MaxAssumption == Max \in Nat \ {0}

\* The slots of buf->buffer.
Index == 0 .. Max - 1

\* Mutant of Step: the wrap-around happens one slot too late.
StepWrapsLate(i, n) == IF i + n > Max THEN i + n - Max ELSE i + n

\* The index n slots after i: the "% buf->max" of both cursors.
Step(i, n) == (i + n) % Max

\* The bytes the first memcpy of a send of n bytes covers when head = h: all
\* of them, or those up to the end of the array.
Segment(h, n) == IF n + h > Max THEN Max - h ELSE n

\* Mutant of SpaceOf: the wrapped case forgets to add Max to head.
SpaceOfUnwrapped(wrapped, h, t) == Max - (h - t)

\* The two formulas of get_space.  "wrapped" is the outcome of the comparison
\* head < tail, which the code evaluates before it loads both again.
SpaceOf(wrapped, h, t) ==
  IF wrapped THEN Max - ((h + Max) - t) ELSE Max - (h - t)

\* get_space, fill_level and buffer_is_empty when nobody else touches the
\* buffer meanwhile.
GetSpace(h, t, f) == IF f THEN 0 ELSE SpaceOf(h < t, h, t)
FillLevel(h, t, f) == Max - GetSpace(h, t, f)
BufferIsEmpty(h, t, f) == GetSpace(h, t, f) = Max
=============================================================================
