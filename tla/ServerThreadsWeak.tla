------------------------- MODULE ServerThreadsWeak -------------------------
(***************************************************************************)
(* ServerThreads on the memory of the board.  buffer.c uses plain memory:  *)
(* neither volatile nor a barrier separates the memcpy from the store to   *)
(* head that publishes it, and what one ARM core stores may become visible *)
(* to the other in another order.  Here the store to head overtakes copied *)
(* bytes; every other access is as in ServerThreads.                       *)
(***************************************************************************)
EXTENDS ServerThreads

VARIABLE stale   \* slots in which the fifo thread's core still sees older bytes

\* send_data_buffer: some of the copied bytes take longer to be visible.
CopyDelayed ==
  /\ CopySegment
  /\ \E slots \in SUBSET (head .. head + Segment(head, call) - 1) : stale' = stale \cup slots

\* They are visible at last.
Arrive == \E i \in stale : stale' = stale \ {i} /\ UNCHANGED vars

\* read_data_buffer: takes the older byte, which is not a byte of the stream
\* that is still to be taken.
ReadOlder ==
  /\ fpc = "read" /\ tail \in stale
  /\ readData' = Garbage
  /\ fpc' = "tail"
  /\ UNCHANGED <<shared, rlocal, fwrapped, fifoLevel, history, stale>>

InOrder ==
  /\ Next
  /\ ReadByte => tail \notin stale
  /\ UNCHANGED stale

WeakSpec ==
  /\ Init /\ stale = {}
  /\ [][CopyDelayed \/ Arrive \/ ReadOlder \/ InOrder]_<<vars, stale>>

-----------------------------------------------------------------------------

\* "copy the data to the array and increment the pointer to the next empty spot
\* in the array": as long as full was never set on a drained buffer, a byte the
\* fifo thread takes below head is the byte that was copied there.
TakesCopiedByte == (~falseFull /\ fpc = "tail") => readData = read
=============================================================================
