--------------------------- MODULE ServerThreads ---------------------------
(***************************************************************************)
(* The two threads of the video server and the buffer they share.          *)
(*                                                                         *)
(* The receive thread (recv_video, send_packet_buffer, send_data_buffer)   *)
(* puts every datagram into the circular buffer behind a two-byte length.  *)
(* The fifo thread (fifo_write_thread, read_data_buffer) takes one byte at *)
(* a time and writes it to the FPGA's FIFO.  Nothing locks the buffer:     *)
(* head, tail, full and the bytes are plain memory, so the grain of the    *)
(* actions here is one access to a variable the OTHER thread writes.  A    *)
(* thread's accesses to its own cursor are local to it and take no step.   *)
(* Accesses take effect in program order (see README, "Memory order").     *)
(*                                                                         *)
(* A byte is represented by its position in the stream of all bytes put    *)
(* into the buffer, 0, 1, 2, ...; the code never looks at a byte's value.  *)
(***************************************************************************)
EXTENDS BufferIndex

CONSTANTS
  PacketLens,   \* the lengths of datagrams that arrive, 0 among them
  FifoDepth,    \* bytes the hardware FIFO holds
  ByteLimit     \* bound: the receive loop stops before more bytes than this

ASSUME LensAssumption == PacketLens \subseteq Nat
ASSUME DepthAssumption == FifoDepth \in Nat \ {0}
ASSUME LimitAssumption == ByteLimit \in Nat

VARIABLES
  buffer,       \* buf->buffer
  head,         \* buf->head, stored by the receive thread only
  tail,         \* buf->tail, stored by the fifo thread only
  full,         \* buf->full, stored by both
  \* the receive thread
  rpc,          \* where it is
  dataLen,      \* recvLen, the length of the datagram in hand
  wrapped,      \* head < tail, as get_space saw it
  space,        \* bufferSpace, the result of get_space
  call,         \* bytes the current send_data_buffer still has to copy
  seg,          \* bytes copied whose head update is still to come
  payload,      \* bytes of the send_data_buffer that follows, or NoCall
  meets,        \* head == tail, as send_data_buffer saw it
  \* the fifo thread
  fpc,          \* where it is
  fwrapped,     \* head < tail, as its get_space saw it
  readData,     \* the local variable of that name
  fifoLevel,    \* bytes in the hardware FIFO
  \* history
  written,      \* bytes published by a head update since the start
  read,         \* bytes taken by a tail update since the start
  room,         \* free bytes when the receive thread entered get_space
  falseFull     \* full was set although every byte had been taken

shared == <<buffer, head, tail, full>>
rlocal == <<rpc, dataLen, wrapped, space, call, seg, payload, meets>>
flocal == <<fpc, fwrapped, readData, fifoLevel>>
history == <<written, read, room, falseFull>>
vars == <<shared, rlocal, flocal, history>>

\* What malloc left in the array; no byte of the stream.
Garbage == -1

HeaderLen == 2   \* sizeof len_header
NoCall == -1     \* no send_data_buffer follows

Unread == written - read
Free == Max - Unread

-----------------------------------------------------------------------------
(* The receive thread.                                                      *)

\* recv_video: recv_data returns a datagram; an empty one is skipped, any
\* other goes to send_packet_buffer.
RecvVideo ==
  /\ rpc = "recv"
  /\ \E n \in PacketLens :
       /\ n > 0
       /\ written + HeaderLen + n <= ByteLimit
       /\ dataLen' = n
  /\ rpc' = "space_full"
  /\ UNCHANGED <<shared, wrapped, space, call, seg, payload, meets, flocal, history>>

\* get_space, called by send_packet_buffer: it loads full ...
SpaceFull ==
  /\ rpc = "space_full"
  /\ room' = Free
  /\ IF full
     THEN space' = 0 /\ rpc' = "room"
     ELSE rpc' = "space_cmp" /\ UNCHANGED space
  /\ UNCHANGED <<shared, dataLen, wrapped, call, seg, payload, meets, flocal,
                 written, read, falseFull>>

\* ... then tail, to compare it with head ...
SpaceCompare ==
  /\ rpc = "space_cmp"
  /\ wrapped' = (head < tail)
  /\ rpc' = "space_calc"
  /\ UNCHANGED <<shared, dataLen, space, call, seg, payload, meets, flocal, history>>

\* ... and tail once more, in the formula the comparison selected.
SpaceCompute ==
  /\ rpc = "space_calc"
  /\ space' = SpaceOf(wrapped, head, tail)
  /\ rpc' = "room"
  /\ UNCHANGED <<shared, dataLen, wrapped, call, seg, payload, meets, flocal, history>>

\* Mutants of HasRoom: the header is forgotten; an exact fit is accepted.
HasRoomForData == space > dataLen
HasRoomExactly == space >= dataLen + HeaderLen

\* send_packet_buffer: the header is sent first, then the data; without
\* enough room the datagram is dropped.
HasRoom == space > dataLen + HeaderLen

SendPacket ==
  /\ rpc = "room"
  /\ IF HasRoom
     THEN call' = HeaderLen /\ payload' = dataLen /\ rpc' = "copy"
     ELSE rpc' = "recv" /\ UNCHANGED <<call, payload>>
  /\ UNCHANGED <<shared, dataLen, wrapped, space, seg, meets, flocal, history>>

\* The bytes a memcpy of n bytes to &buffer[head] leaves in the array.
Memcpy(n) ==
  [i \in Index |-> IF i \in head .. head + n - 1
                   THEN written + (i - head)
                   ELSE buffer[i]]

\* send_data_buffer: copies what fits before the end of the array.
CopySegment ==
  /\ rpc = "copy"
  /\ LET n == Segment(head, call)
     IN  /\ buffer' = Memcpy(n)
         /\ seg' = n
         /\ call' = call - n
  /\ rpc' = "advance"
  /\ UNCHANGED <<head, tail, full, dataLen, wrapped, space, payload, meets,
                 flocal, history>>

\* send_data_buffer: publishes the copied bytes by moving head.
AdvanceHead ==
  /\ rpc = "advance"
  /\ head' = Step(head, seg)
  /\ written' = written + seg
  /\ seg' = 0
  /\ rpc' = "full_load"
  /\ UNCHANGED <<buffer, tail, full, dataLen, wrapped, space, call, payload,
                 meets, flocal, read, room, falseFull>>

\* send_data_buffer: buf->full = buf->head == buf->tail, first the load ...
CompareFull ==
  /\ rpc = "full_load"
  /\ meets' = (head = tail)
  /\ rpc' = "full_store"
  /\ UNCHANGED <<shared, dataLen, wrapped, space, call, seg, payload, flocal, history>>

\* ... then the store, after which the call copies its second part, or the
\* next call of send_packet_buffer starts, or the thread receives again.
StoreFull ==
  /\ rpc = "full_store"
  /\ full' = meets
  /\ falseFull' = (falseFull \/ (meets /\ Unread <= 0))
  /\ \/ call > 0 /\ rpc' = "copy" /\ UNCHANGED <<call, payload>>
     \/ call = 0 /\ payload /= NoCall /\ rpc' = "copy" /\ call' = payload /\ payload' = NoCall
     \/ call = 0 /\ payload = NoCall /\ rpc' = "recv" /\ UNCHANGED <<call, payload>>
  /\ UNCHANGED <<buffer, head, tail, dataLen, wrapped, space, seg, meets, flocal,
                 written, read, room>>

Receive ==
  \/ RecvVideo \/ SpaceFull \/ SpaceCompare \/ SpaceCompute \/ SendPacket
  \/ CopySegment \/ AdvanceHead \/ CompareFull \/ StoreFull

-----------------------------------------------------------------------------
(* The fifo thread.                                                         *)

\* buffer_is_empty: get_space loads full; a full buffer has space 0 and is
\* not empty ...
EmptyFull ==
  /\ fpc = "empty_full"
  /\ fpc' = IF full THEN "read" ELSE "empty_cmp"
  /\ UNCHANGED <<shared, rlocal, fwrapped, readData, fifoLevel, history>>

\* ... then head, to compare it with tail ...
EmptyCompare ==
  /\ fpc = "empty_cmp"
  /\ fwrapped' = (head < tail)
  /\ fpc' = "empty_calc"
  /\ UNCHANGED <<shared, rlocal, readData, fifoLevel, history>>

\* Mutant of EmptyCompute: no space counts as empty.
EmptyComputeNever ==
  /\ fpc = "empty_calc"
  /\ fpc' = IF SpaceOf(fwrapped, head, tail) > Max THEN "empty_full" ELSE "read"
  /\ UNCHANGED <<shared, rlocal, fwrapped, readData, fifoLevel, history>>

\* Mutant of EmptyCompute: one byte left counts as empty.
EmptyComputeEarly ==
  /\ fpc = "empty_calc"
  /\ fpc' = IF SpaceOf(fwrapped, head, tail) >= Max - 1 THEN "empty_full" ELSE "read"
  /\ UNCHANGED <<shared, rlocal, fwrapped, readData, fifoLevel, history>>

\* ... and head once more.  An empty buffer is polled again after usleep.
EmptyCompute ==
  /\ fpc = "empty_calc"
  /\ fpc' = IF SpaceOf(fwrapped, head, tail) = Max THEN "empty_full" ELSE "read"
  /\ UNCHANGED <<shared, rlocal, fwrapped, readData, fifoLevel, history>>

\* read_data_buffer: takes the byte, ...
ReadByte ==
  /\ fpc = "read"
  /\ readData' = buffer[tail]
  /\ fpc' = "tail"
  /\ UNCHANGED <<shared, rlocal, fwrapped, fifoLevel, history>>

\* ... moves tail ...
AdvanceTail ==
  /\ fpc = "tail"
  /\ tail' = Step(tail, 1)
  /\ read' = read + 1
  /\ fpc' = "clear"
  /\ UNCHANGED <<buffer, head, full, rlocal, fwrapped, readData, fifoLevel,
                 written, room, falseFull>>

\* ... and clears full.
ClearFull ==
  /\ fpc = "clear"
  /\ full' = FALSE
  /\ fpc' = "write"
  /\ UNCHANGED <<buffer, head, tail, rlocal, fwrapped, readData, fifoLevel, history>>

\* write_fifo_blocking: waits until the FIFO has room, then writes the byte.
WriteFifo ==
  /\ fpc = "write"
  /\ fifoLevel < FifoDepth
  /\ fifoLevel' = fifoLevel + 1
  /\ fpc' = "empty_full"
  /\ UNCHANGED <<shared, rlocal, fwrapped, readData, history>>

FifoThread ==
  \/ EmptyFull \/ EmptyCompare \/ EmptyCompute
  \/ ReadByte \/ AdvanceTail \/ ClearFull \/ WriteFifo

\* The FPGA takes a byte out of its FIFO.
DrainFifo ==
  /\ fifoLevel > 0
  /\ fifoLevel' = fifoLevel - 1
  /\ UNCHANGED <<shared, rlocal, fpc, fwrapped, readData, history>>

-----------------------------------------------------------------------------
\* init_buffer, and both threads at the start of their loops.  Locals not yet
\* assigned are given a value no step reads.
Init ==
  /\ buffer = [i \in Index |-> Garbage]
  /\ head = 0 /\ tail = 0 /\ full = FALSE
  /\ rpc = "recv" /\ dataLen = 0 /\ wrapped = FALSE /\ space = 0
  /\ call = 0 /\ seg = 0 /\ payload = NoCall /\ meets = FALSE
  /\ fpc = "empty_full" /\ fwrapped = FALSE /\ readData = Garbage
  /\ fifoLevel = 0
  /\ written = 0 /\ read = 0 /\ room = Max /\ falseFull = FALSE

Next == Receive \/ FifoThread \/ DrainFifo

Spec == Init /\ [][Next]_vars

\* The scheduler runs both threads and the FPGA empties its FIFO.  Nothing
\* makes a datagram arrive.
FairSpec ==
  /\ Spec
  /\ WF_vars(Receive /\ rpc /= "recv")
  /\ WF_vars(FifoThread)
  /\ WF_vars(DrainFifo)

-----------------------------------------------------------------------------
(* Properties.                                                              *)

RPcs == {"recv", "space_full", "space_cmp", "space_calc", "room",
         "copy", "advance", "full_load", "full_store"}
FPcs == {"empty_full", "empty_cmp", "empty_calc", "read", "tail", "clear", "write"}

\* Every variable has its type; both cursors stay inside the array.
TypeOK ==
  /\ buffer \in [Index -> Int] /\ head \in Index /\ tail \in Index
  /\ full \in BOOLEAN
  /\ rpc \in RPcs /\ dataLen \in Nat /\ wrapped \in BOOLEAN /\ space \in Int
  /\ call \in Nat /\ seg \in Nat /\ payload \in Nat \cup {NoCall}
  /\ meets \in BOOLEAN
  /\ fpc \in FPcs /\ fwrapped \in BOOLEAN /\ readData \in Int
  /\ fifoLevel \in 0 .. FifoDepth
  /\ written \in Nat /\ read \in Nat /\ room \in Int /\ falseFull \in BOOLEAN

\* send_data_buffer never overwrites a byte the fifo thread has not taken: in
\* whatever order the two threads touch head, tail and full, every published
\* byte stays in its slot until tail has passed it.  (Once a false full has made
\* tail run ahead of head, read exceeds written and no byte is unread.)
UnreadIntact ==
  /\ Unread <= Max
  /\ \A k \in read .. written - 1 : buffer[Step(0, k)] = k

\* get_space, although it loads full and tail three times while the fifo thread
\* moves them, never reports more room than there is when send_packet_buffer
\* acts on the answer.  (Once tail has run ahead of head, Free exceeds Max and
\* the bound says little.)
SpaceNotOverstated == rpc = "room" => space <= Free

\* read_data_buffer takes the bytes in the order send_data_buffer put them,
\* none twice, none skipped, none that was not put, as long as full was never
\* set on a drained buffer.
StreamInOrder ==
  ~falseFull =>
    /\ Unread >= 0
    /\ fpc = "tail" => readData = read
    /\ fpc \in {"clear", "write"} => readData = read - 1

\* The buffer is never full: send_packet_buffer keeps a slot free, and the only
\* way for full to be set is that the fifo thread drains the buffer between the
\* store to head and the comparison of head with tail in send_data_buffer.
FullOnlyByRace == full => falseFull

-----------------------------------------------------------------------------
(* The inductive invariant behind UnreadIntact and SpaceNotOverstated.      *)

\* The cursors are the stream positions modulo the array.
CursorsTrackStream == head = Step(0, written) /\ tail = Step(0, read)

Sending == rpc \in {"copy", "advance", "full_load", "full_store"}

\* Bytes accepted by send_packet_buffer and not yet published.
Pending == call + seg + (IF payload = NoCall THEN 0 ELSE payload)

\* There is always a free slot more than the datagram in progress needs.
RoomKept == Unread < Max /\ (Sending => Unread + Pending < Max)

\* Published bytes and the segment just copied are in their slots.
BytesInPlace ==
  /\ \A k \in read .. written + seg - 1 : buffer[Step(0, k)] = k
  /\ rpc = "advance" => head + seg <= Max
  /\ rpc /= "advance" => seg = 0

\* The fifo thread found, or is about to find, the buffer not empty.
SawBytes == (fpc \in {"read", "tail"}) \/ (fpc = "empty_calc" /\ fwrapped)

\* It does so with head = tail only if full is set or about to be.
MeetsIsFull ==
  head = tail =>
    /\ SawBytes => \/ rpc = "full_load"
                   \/ rpc = "full_store" /\ meets
                   \/ rpc /= "full_store" /\ full
    /\ (rpc = "full_store" /\ ~meets /\ full) => fpc = "clear"

\* What get_space relies on between its loads.
SpaceLoads ==
  /\ rpc \in {"space_cmp", "space_calc"} => ~full
  /\ (rpc = "space_calc" /\ ~wrapped) => tail <= head

\* Until full is set on a drained buffer it is not set at all, and the fifo
\* thread is past its test only with a byte to take.
NeverRanAhead ==
  ~falseFull =>
    /\ Unread >= 0
    /\ ~full
    /\ SawBytes => Unread > 0
    /\ (rpc = "full_store" /\ meets) => Unread = 0

\* All of it: from it follow UnreadIntact and SpaceNotOverstated, and every
\* access of either thread to the buffer preserves it.
IInv ==
  /\ TypeOK /\ CursorsTrackStream /\ RoomKept /\ BytesInPlace
  /\ MeetsIsFull /\ SpaceLoads /\ SpaceNotOverstated

-----------------------------------------------------------------------------

\* WriteFifo has just written byte k of the stream.
InFifo(k) == fpc = "empty_full" /\ readData = k

\* Byte k is of a frame for which send_packet_buffer found room, and tail has
\* not passed it.
Accepted(k) == k \in read .. written + Pending - 1

\* Every byte of a frame for which send_packet_buffer found room is itself
\* written to the FIFO in the end, or full is set on a drained buffer; after
\* that, nothing is promised.
AcceptedReachesFifo ==
  \A k \in 0 .. ByteLimit - 1 : Accepted(k) ~> (InFifo(k) \/ falseFull)

\* "if the buffer is not empty, read one byte from it": the byte that
\* fifo_write_thread takes is one that was put and not yet taken.
ReadsOnlyUnread == fpc = "read" => Unread > 0

\* "if we have enough room in the buffer, put the received data in the
\* buffer": send_packet_buffer drops a datagram only if the room was missing
\* when it asked, as long as full was never set on a drained buffer.
DropsOnlyWithoutRoom ==
  (~falseFull /\ rpc = "room" /\ ~HasRoom) => room <= dataLen + HeaderLen
=============================================================================
