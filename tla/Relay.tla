------------------------------- MODULE Relay -------------------------------
(***************************************************************************)
(* The video client on its way from the hardware FIFO to UDP: empty_fifo,  *)
(* video_send_loop and the read choices of run_test_client.  At the other  *)
(* end of the FIFO the FPGA passes on what fifo_write_thread of the server *)
(* on the same board wrote: frames of a two-byte length and a payload.     *)
(* Nothing but the lengths tells where a frame begins.                     *)
(*                                                                         *)
(* A byte carries, besides its value, its position in its frame and the    *)
(* number of bytes that follow in it.  No guard of the program reads them: *)
(* they say whether the client is in step.                                 *)
(***************************************************************************)
EXTENDS Naturals, Sequences, FiniteSets

CONSTANTS
  Base,             \* the values of a byte (256)
  MAX_PACKET_SIZE,  \* the constant of that name (2000)
  MaxShort,         \* the largest short (32767)
  FifoDepth,        \* bytes the hardware FIFO holds (2048)
  Amounts,          \* answers to choice 3 of the menu
  MaxLosses         \* bound: bytes or ends of frames that are lost

ASSUME SizeAssumption == Base \in Nat \ {0} /\ MAX_PACKET_SIZE \in 1 .. Base * Base - 1
ASSUME ShortAssumption == MaxShort \in Nat /\ MAX_PACKET_SIZE <= MaxShort
ASSUME FifoAssumption == FifoDepth \in Nat \ {0}
ASSUME AmountsAssumption == Amounts \subseteq Nat
ASSUME LossesAssumption == MaxLosses \in Nat

VARIABLES
  rest,     \* bytes of the frame in hand the server still has to write
  fifo,     \* the hardware FIFO in front of the client
  pc,       \* where the client is
  debug,    \* RUN_DEBUG is set
  amount,   \* choice 3: the number of bytes to read
  taken,    \* pack_len, then dataBuffer up to currentSize; or fifoData
  \* history
  given,    \* the payload of the frame begun last
  sent,     \* the datagram sent last
  losses,   \* bytes or ends of frames lost so far
  failure,  \* turns over when a byte is lost, or either program stopped
  clean     \* empty_fifo ended between two frames, and since then no byte was
            \* lost, emptied away or taken by choice 3

client == <<pc, debug, amount, taken, sent>>
outside == <<given, losses, failure>>
vars == <<rest, fifo, client, outside, clean>>

Byte == 0 .. Base - 1

\* recv_video skips empty datagrams, so a frame has a payload.
Payloads == UNION {[1 .. n -> Byte] : n \in 1 .. MAX_PACKET_SIZE}

\* The bytes of a frame, the low byte of the length first.
Frame(payload) ==
  LET n == Len(payload)
      bytes == <<n % Base, n \div Base>> \o payload
  IN  [i \in 1 .. n + 2 |-> [val |-> bytes[i], pos |-> i - 1, left |-> n + 2 - i]]

Values(bytes) == [i \in DOMAIN bytes |-> bytes[i].val]

\* What an unread fifoData holds.
Garbage == [val |-> 0, pos |-> 0, left |-> 0]

-----------------------------------------------------------------------------
(* The other end of the FIFO.                                               *)

\* send_packet_buffer and fifo_write_thread: the server turns to a frame ...
BeginFrame ==
  /\ rest = <<>>
  /\ \E payload \in Payloads : rest' = Frame(payload) /\ given' = payload
  /\ UNCHANGED <<fifo, client, losses, failure, clean>>

\* ... and its bytes go through the FPGA into the FIFO one by one.
PassByte ==
  /\ rest /= <<>> /\ Len(fifo) < FifoDepth
  /\ fifo' = Append(fifo, Head(rest))
  /\ rest' = Tail(rest)
  /\ UNCHANGED <<client, outside, clean>>

Fault == failure' = ~failure /\ clean' = FALSE

Lose == Fault /\ losses < MaxLosses /\ losses' = losses + 1

\* The FIFO has no back pressure: a byte that meets it full may be lost.
Overflow ==
  /\ Lose
  /\ rest /= <<>> /\ Len(fifo) = FifoDepth
  /\ rest' = Tail(rest)
  /\ UNCHANGED <<fifo, client, given>>

\* The server is stopped in the middle of a frame.
ServerStops ==
  /\ Lose
  /\ rest /= <<>>
  /\ rest' = <<>>
  /\ UNCHANGED <<fifo, client, given>>

Source == BeginFrame \/ PassByte \/ Overflow \/ ServerStops

-----------------------------------------------------------------------------
(* The client.                                                              *)

\* A byte read from the FIFO; both ways to read one wait for, or test, its
\* status first.
ReadByte ==
  /\ fifo /= <<>>
  /\ fifo' = Tail(fifo)
  /\ UNCHANGED <<rest, debug, outside>>

\* Mutant of EmptyFifo: the loop reads on while the FIFO is empty.
EmptyFifoInverted ==
  /\ pc = "empty"
  /\ \/ ReadByte /\ pc' = "handshake" /\ clean' = (rest = <<>>) /\ UNCHANGED <<amount, taken, sent>>
     \/ fifo = <<>> /\ UNCHANGED vars

\* empty_fifo: reads until it meets the FIFO empty.
EmptyFifo ==
  /\ pc = "empty"
  /\ \/ ReadByte /\ clean' = FALSE /\ UNCHANGED <<pc, amount, taken, sent>>
     \/ /\ fifo = <<>>
        /\ pc' = IF debug THEN "menu" ELSE "handshake"
        /\ clean' = (rest = <<>>)
        /\ UNCHANGED <<rest, fifo, debug, amount, taken, sent, outside>>

\* run_client: INIT_ACK has come (module Handshake); video_send_loop begins.
Acknowledged ==
  /\ pc = "handshake"
  /\ pc' = "header"
  /\ UNCHANGED <<rest, fifo, debug, amount, taken, sent, outside, clean>>

\* Mutant of PacketLen: the bytes of the length swapped.
PacketLenSwapped(bytes) == bytes[2].val + Base * bytes[1].val

\* memcpy of pack_len into packet_len, on a machine that stores the low byte
\* first.
PacketLen(bytes) == bytes[1].val + Base * bytes[2].val

\* Mutant of InvalidLen: one byte too many is accepted.
InvalidLenLate(n) == n > MAX_PACKET_SIZE + 1

InvalidLen(n) == n > MAX_PACKET_SIZE

\* video_send_loop: the two bytes of the length; an invalid one is forgotten
\* and the next two bytes are taken for a length.
ReadHeader ==
  /\ pc = "header"
  /\ ReadByte
  /\ LET bytes == Append(taken, Head(fifo))
     IN  IF Len(bytes) = 2
         THEN IF InvalidLen(PacketLen(bytes))
              THEN taken' = <<>> /\ UNCHANGED pc
              ELSE taken' = bytes /\ pc' = "payload"
         ELSE taken' = bytes /\ UNCHANGED pc
  /\ UNCHANGED <<amount, sent, clean>>

CurrentSize == Len(taken) - 2

\* video_send_loop: the payload, byte by byte ...
ReadPayload ==
  /\ pc = "payload" /\ CurrentSize < PacketLen(taken)
  /\ ReadByte
  /\ taken' = Append(taken, Head(fifo))
  /\ UNCHANGED <<pc, amount, sent, clean>>

\* Mutant of SendVideoPacket: only a full dataBuffer is sent.
SendVideoPacketWhenFull ==
  /\ pc = "payload" /\ CurrentSize = PacketLen(taken) /\ CurrentSize = MAX_PACKET_SIZE
  /\ sent' = SubSeq(Values(taken), 3, Len(taken))
  /\ taken' = <<>>
  /\ pc' = "header"
  /\ UNCHANGED <<rest, fifo, debug, amount, outside, clean>>

\* ... which goes out as one datagram, also when it is empty.
SendVideoPacket ==
  /\ pc = "payload" /\ CurrentSize = PacketLen(taken)
  /\ sent' = SubSeq(Values(taken), 3, Len(taken))
  /\ taken' = <<>>
  /\ pc' = "header"
  /\ UNCHANGED <<rest, fifo, debug, amount, outside, clean>>

\* run_test_client, choices 3, 4 and 6.
Choose ==
  /\ pc = "menu"
  /\ \/ \E n \in Amounts : amount' = n /\ pc' = "amount" /\ clean' = FALSE
     \/ pc' \in {"header", "empty"} /\ UNCHANGED <<amount, clean>>
  /\ UNCHANGED <<rest, fifo, debug, taken, sent, outside>>

\* Choice 3 reads without waiting; what an empty FIFO leaves unread stays in
\* the datagram.
ReadAmount ==
  /\ pc = "amount" /\ Len(taken) < amount
  /\ \/ ReadByte /\ taken' = Append(taken, Head(fifo))
     \/ fifo = <<>> /\ taken' = Append(taken, Garbage)
                    /\ UNCHANGED <<rest, fifo, debug, outside>>
  /\ UNCHANGED <<pc, amount, sent, clean>>

\* send_video_packet's parameter is a short: the low bits of amount.
ShortBits(n) == n % (2 * (MaxShort + 1))

\* As a length those are the length of the datagram, or negative, and sendto
\* fails.  (The lengths of video_send_loop fit into a short.)
SendAmount ==
  /\ pc = "amount" /\ Len(taken) = amount
  /\ sent' = IF ShortBits(amount) <= MaxShort
             THEN SubSeq(Values(taken), 1, ShortBits(amount))
             ELSE sent
  /\ taken' = <<>> /\ amount' = 0
  /\ pc' = "menu"
  /\ UNCHANGED <<rest, fifo, debug, outside, clean>>

\* The program is stopped and started again, with or without -d.
Restart ==
  /\ Fault
  /\ debug' \in BOOLEAN
  /\ pc' = IF debug' THEN "menu" ELSE "empty"
  /\ taken' = <<>> /\ amount' = 0
  /\ UNCHANGED <<rest, fifo, given, sent, losses>>

Loop == ReadHeader \/ ReadPayload \/ SendVideoPacket
Client == EmptyFifo \/ Acknowledged \/ Loop \/ Choose \/ ReadAmount \/ SendAmount \/ Restart

-----------------------------------------------------------------------------
\* run_client starts; an earlier run may have left the end of a frame in the
\* FIFO.
Init ==
  /\ rest = <<>>
  /\ \E payload \in Payloads :
       \E n \in 0 .. Len(payload) + 2 :   \* bytes that were left
         /\ n <= FifoDepth
         /\ fifo = SubSeq(Frame(payload), Len(payload) + 3 - n, Len(payload) + 2)
  /\ debug \in BOOLEAN
  /\ pc = IF debug THEN "menu" ELSE "empty"
  /\ amount = 0 /\ taken = <<>>
  /\ given = <<>> /\ sent = <<>> /\ losses = 0 /\ failure = FALSE /\ clean = FALSE

Next == Source \/ Client

Spec == Init /\ [][Next]_vars

\* A frame once begun is passed on, and the send loop runs.  The source need
\* not begin another frame, and the handshake need not end.
FairSpec == Spec /\ WF_vars(PassByte) /\ WF_vars(Loop)

-----------------------------------------------------------------------------
(* Properties.                                                              *)

\* Every byte the client has in hand or is still to get, in their order.
Stream == taken \o fifo \o rest

\* The stream is a sequence of whole frames.
WholeFrames(s) ==
  s /= <<>> =>
    /\ s[1].pos = 0 /\ s[Len(s)].left = 0
    /\ \A i \in 1 .. Len(s) - 1 :
         IF s[i].left = 0 THEN s[i + 1].pos = 0
         ELSE s[i + 1].pos = s[i].pos + 1 /\ s[i + 1].left = s[i].left - 1

InStep == pc \in {"header", "payload"} /\ WholeFrames(Stream)

Starts(s) == {i \in DOMAIN s : s[i].pos = 0}

\* Where the k-th frame of a stream begins.
StartOf(s, k) == CHOOSE i \in Starts(s) : Cardinality({j \in Starts(s) : j <= i}) = k

PayloadAt(s, i) == [j \in 1 .. s[i].left - 1 |-> s[i + 1 + j].val]

\* The payloads of the frames in a stream of whole frames.
PayloadsOf(s) == [k \in 1 .. Cardinality(Starts(s)) |-> PayloadAt(s, StartOf(s, k))]

Pending == IF InStep THEN PayloadsOf(Stream) ELSE <<>>

Frames == INSTANCE FrameRelay WITH step <- InStep, queue <- Pending

\* Every variable has its type; what was read fits into dataBuffer.
TypeOK ==
  /\ rest \in Seq([val : Byte, pos : Nat, left : Nat])
  /\ fifo \in Seq([val : Byte, pos : Nat, left : Nat]) /\ Len(fifo) <= FifoDepth
  /\ pc \in {"empty", "handshake", "header", "payload", "menu", "amount"}
  /\ debug \in BOOLEAN /\ amount \in Amounts \cup {0}
  /\ taken \in Seq([val : Byte, pos : Nat, left : Nat])
  /\ pc \in {"header", "payload"} => Len(taken) <= MAX_PACKET_SIZE + 2
  /\ given \in Seq(Byte) /\ sent \in Seq(Byte)
  /\ losses \in 0 .. MaxLosses /\ failure \in BOOLEAN /\ clean \in BOOLEAN

\* video_send_loop, once it reads a length where a frame begins, sends every
\* frame as one datagram, whole, in order, and stays in step as long as no byte
\* is lost and neither program is restarted: whatever values the payloads have
\* and however reads and writes of the FIFO interleave.
IsFrameRelay == Frames!Spec

\* empty_fifo puts the client in step: if it ended while the server was between
\* two frames, then, although the FIFO fills again during the handshake or in
\* the menu, the stream the client goes on with begins with a frame.
EmptyingFindsStep == clean => WholeFrames(Stream)

\* A frame the client is in step with does not stay in the FIFO or in
\* dataBuffer: the loop keeps sending until none is left.
FramesAreSent ==
  \/ []<>(~InStep \/ Pending = <<>>)
  \/ []<><<SendVideoPacket>>_vars
=============================================================================
