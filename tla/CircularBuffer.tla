--------------------------- MODULE CircularBuffer ---------------------------
(***************************************************************************)
(* buffer.c in the hands of one caller: each function runs to its end      *)
(* before the next is called.  The callers in server.c never send more     *)
(* than get_space allows and never read an empty buffer, nor do they here; *)
(* unlike send_packet_buffer, which keeps a slot free, they may fill the   *)
(* buffer to the last byte, which is what the flag "full" is for.          *)
(***************************************************************************)
EXTENDS BufferIndex, Sequences

CONSTANT Bytes   \* the values of a char that are told apart

ASSUME BytesAssumption == Bytes /= {}

VARIABLES
  buffer, head, tail, full,   \* the fields of circular_buf_t
  data,                       \* what read_data_buffer stored last
  sent                        \* history: what send_data_buffer was last given

vars == <<buffer, head, tail, full, data, sent>>

Space == GetSpace(head, tail, full)

\* init_buffer; malloc leaves the bytes as they are.
Init ==
  /\ buffer \in [Index -> Bytes]
  /\ head = 0 /\ tail = 0 /\ full = FALSE
  /\ data \in Bytes
  /\ sent = <<>>

\* Mutant of Copied: the second part is copied from the start of the data.
CopiedAgain(chunk) ==
  [i \in Index |->
     IF i \in head .. head + Len(chunk) - 1 THEN chunk[i - head + 1]
     ELSE IF i + Max \in head .. head + Len(chunk) - 1 THEN chunk[i + 1]
     ELSE buffer[i]]

\* The array after both parts of send_data_buffer were copied: the first from
\* head to the end of the array, the second from its start.
Copied(chunk) ==
  [i \in Index |->
     IF i \in head .. head + Len(chunk) - 1 THEN chunk[i - head + 1]
     ELSE IF i + Max \in head .. head + Len(chunk) - 1 THEN chunk[i + Max - head + 1]
     ELSE buffer[i]]

\* send_data_buffer; full is last set when the second part is in.
SendData(chunk) ==
  /\ Len(chunk) <= Space
  /\ buffer' = Copied(chunk)
  /\ head' = Step(head, Len(chunk))
  /\ full' = (head' = tail)
  /\ sent' = chunk
  /\ UNCHANGED <<tail, data>>

\* read_data_buffer, which fifo_write_thread calls unless buffer_is_empty.
ReadData ==
  /\ ~BufferIsEmpty(head, tail, full)
  /\ data' = buffer[tail]
  /\ tail' = Step(tail, 1)
  /\ full' = FALSE
  /\ UNCHANGED <<buffer, head, sent>>

Next == ReadData \/ \E n \in 1 .. Max : \E chunk \in [1 .. n -> Bytes] : SendData(chunk)

Spec == Init /\ [][Next]_vars

-----------------------------------------------------------------------------
(* Properties.                                                              *)

\* The bytes between tail and head, as many as fill_level says there are.
Contents == [i \in 1 .. FillLevel(head, tail, full) |-> buffer[Step(tail, i - 1)]]

Queue == INSTANCE ByteQueue WITH Capacity <- Max, queue <- Contents,
                                     put <- sent, taken <- data

\* Every field has its type, and get_space stays between 0 and max.
TypeOK ==
  /\ buffer \in [Index -> Bytes]
  /\ head \in Index /\ tail \in Index /\ full \in BOOLEAN
  /\ data \in Bytes
  /\ sent \in Seq(Bytes)
  /\ Space \in 0 .. Max

\* What send_data_buffer is given comes out of read_data_buffer, as from a
\* queue, through the split at the end of the array, the wrap-around of both
\* cursors and the two states with head = tail; and get_space, fill_level and
\* buffer_is_empty count what is in it.
IsByteQueue == Queue!Spec
=============================================================================
