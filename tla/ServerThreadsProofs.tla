------------------------- MODULE ServerThreadsProofs -------------------------
(***************************************************************************)
(* What holds of the two server threads for every size of the buffer,      *)
(* every set of datagram lengths and every depth of the FIFO.              *)
(***************************************************************************)
EXTENDS ServerThreads, BufferTheorems

-----------------------------------------------------------------------------
\* Typing is preserved by every step.
LEMMA TypeStep == TypeOK /\ [Next]_vars => TypeOK'
<1> SUFFICES ASSUME TypeOK, [Next]_vars
             PROVE  TypeOK'
  OBVIOUS
<1> USE DEF TypeOK, RPcs, FPcs, shared, rlocal, flocal, history
<1>1. CASE RecvVideo
  BY <1>1, LensAssumption DEF RecvVideo
<1>2. CASE SpaceFull
  BY <1>2, MaxAssumption DEF SpaceFull, Free, Unread
<1>3. CASE SpaceCompare
  BY <1>3 DEF SpaceCompare
<1>4. CASE SpaceCompute
  <2>1. SpaceOf(wrapped, head, tail) \in Int
    BY MaxAssumption DEF SpaceOf, Index
  <2>2. QED BY <1>4, <2>1 DEF SpaceCompute
<1>5. CASE SendPacket
  BY <1>5 DEF SendPacket, HeaderLen
<1>6. CASE CopySegment
  <2>1. Segment(head, call) \in Nat /\ call - Segment(head, call) \in Nat
    BY MaxAssumption DEF Segment, Index
  <2>2. Memcpy(Segment(head, call)) \in [Index -> Int]
    BY MaxAssumption DEF Memcpy, Index
  <2>3. QED BY <1>6, <2>1, <2>2 DEF CopySegment
<1>7. CASE AdvanceHead
  BY <1>7, StepInIndex DEF AdvanceHead, Index
<1>8. CASE CompareFull
  BY <1>8 DEF CompareFull
<1>9. CASE StoreFull
  BY <1>9 DEF StoreFull, NoCall
<1>10. CASE EmptyFull
  BY <1>10 DEF EmptyFull
<1>11. CASE EmptyCompare
  BY <1>11 DEF EmptyCompare
<1>12. CASE EmptyCompute
  BY <1>12 DEF EmptyCompute
<1>13. CASE ReadByte
  BY <1>13 DEF ReadByte
<1>14. CASE AdvanceTail
  BY <1>14, StepInIndex DEF AdvanceTail, Index
<1>15. CASE ClearFull
  BY <1>15 DEF ClearFull
<1>16. CASE WriteFifo
  BY <1>16, DepthAssumption DEF WriteFifo
<1>17. CASE DrainFifo
  BY <1>17, DepthAssumption DEF DrainFifo
<1>18. CASE UNCHANGED vars
  BY <1>18 DEF vars
<1>19. QED
  BY <1>1, <1>2, <1>3, <1>4, <1>5, <1>6, <1>7, <1>8, <1>9, <1>10, <1>11, <1>12,
     <1>13, <1>14, <1>15, <1>16, <1>17, <1>18 DEF Next, Receive, FifoThread

\* After init_buffer, with both threads at the start of their loops, every
\* variable has its type.
LEMMA TypeInit == Init => TypeOK
<1> SUFFICES ASSUME Init PROVE TypeOK
  OBVIOUS
<1>1. buffer \in [Index -> Int]
  BY DEF Init, Garbage
<1>2. head \in Index /\ tail \in Index /\ room \in Int
  BY MaxAssumption DEF Init, Index
<1>3. fifoLevel \in 0 .. FifoDepth
  BY DepthAssumption DEF Init
<1>4. rpc \in RPcs /\ fpc \in FPcs
  BY DEF Init, RPcs, FPcs
<1>5. full \in BOOLEAN /\ wrapped \in BOOLEAN /\ meets \in BOOLEAN
      /\ fwrapped \in BOOLEAN /\ falseFull \in BOOLEAN
  BY DEF Init
<1>6. QED
  BY <1>1, <1>2, <1>3, <1>4, <1>5 DEF Init, TypeOK, Garbage, NoCall

\* Both cursors stay inside the array and every variable keeps its type.
THEOREM TypeCorrect == Spec => []TypeOK
<1>1. QED BY TypeInit, TypeStep, PTL DEF Spec

-----------------------------------------------------------------------------
(* The inductive invariant, one lemma for each part that needs an argument  *)
(* of its own.                                                              *)

\* A step that leaves the cursors and the counts alone keeps them in step;
\* AdvanceHead and AdvanceTail move a cursor with its count.
LEMMA CursorsStep ==
  ASSUME TypeOK, CursorsTrackStream, [Next]_vars
  PROVE  CursorsTrackStream'
<1> USE DEF CursorsTrackStream
<1>1. CASE AdvanceHead
  <2>1. Step(head, seg) = Step(0, written + seg)
    BY StepFollows DEF TypeOK
  <2>2. QED BY <1>1, <2>1 DEF AdvanceHead
<1>2. CASE AdvanceTail
  <2>1. Step(tail, 1) = Step(0, read + 1)
    BY StepFollows DEF TypeOK
  <2>2. QED BY <1>2, <2>1 DEF AdvanceTail
<1>3. CASE UNCHANGED <<head, tail, written, read>>
  BY <1>3
<1>4. QED
  BY <1>1, <1>2, <1>3
     DEF Next, Receive, FifoThread, vars, shared, history, RecvVideo, SpaceFull,
         SpaceCompare, SpaceCompute, SendPacket, CopySegment, CompareFull,
         StoreFull, EmptyFull, EmptyCompare, EmptyCompute, ReadByte, ClearFull,
         WriteFifo, DrainFifo

\* send_packet_buffer accepts a datagram only if it fits with a slot to spare,
\* and the fifo thread can only add to the room.
LEMMA RoomStep ==
  ASSUME TypeOK, RoomKept, SpaceNotOverstated, BytesInPlace, [Next]_vars
  PROVE  RoomKept'
<1> USE DEF RoomKept, Pending, Sending, Unread
<1>1. CASE RecvVideo
  BY <1>1 DEF RecvVideo, shared, history
<1>2. CASE SpaceFull
  BY <1>2 DEF SpaceFull, shared
<1>3. CASE SpaceCompare
  BY <1>3 DEF SpaceCompare, shared, history
<1>4. CASE SpaceCompute
  BY <1>4 DEF SpaceCompute, shared, history
<1>5. CASE SendPacket
  <2>1. CASE HasRoom
    <3>1. dataLen + HeaderLen < Max - Unread
      BY <1>5, <2>1, MaxAssumption
         DEF SendPacket, HasRoom, SpaceNotOverstated, Free, TypeOK, HeaderLen
    <3>2. seg = 0
      BY <1>5 DEF SendPacket, BytesInPlace
    <3>3. /\ call' = HeaderLen /\ payload' = dataLen /\ seg' = 0
          /\ written' = written /\ read' = read
      BY <1>5, <2>1, <3>2 DEF SendPacket, history
    <3>4. payload' /= NoCall
      BY <3>3 DEF TypeOK, NoCall
    <3>5. QED BY <3>1, <3>3, <3>4, MaxAssumption DEF TypeOK, HeaderLen
  <2>2. CASE ~HasRoom
    BY <1>5, <2>2 DEF SendPacket, history
  <2>3. QED BY <2>1, <2>2
<1>6. CASE CopySegment
  <2>1. seg = 0
    BY <1>6 DEF CopySegment, BytesInPlace
  <2>2. call' + seg' = call + seg
    BY <1>6, <2>1, MaxAssumption DEF CopySegment, Segment, TypeOK, Index
  <2>3. QED BY <1>6, <2>2, MaxAssumption DEF CopySegment, history, TypeOK, NoCall, Segment, Index
<1>7. CASE AdvanceHead
  BY <1>7, MaxAssumption DEF AdvanceHead, TypeOK, NoCall
<1>8. CASE CompareFull
  BY <1>8 DEF CompareFull, history
<1>9. CASE StoreFull
  BY <1>9, MaxAssumption DEF StoreFull, TypeOK, NoCall
<1>10. CASE AdvanceTail
  BY <1>10, MaxAssumption DEF AdvanceTail, rlocal, TypeOK, NoCall
<1>11. CASE UNCHANGED <<rlocal, written, read>>
  BY <1>11 DEF rlocal
<1>12. QED
  BY <1>1, <1>2, <1>3, <1>4, <1>5, <1>6, <1>7, <1>8, <1>9, <1>10, <1>11
     DEF Next, Receive, FifoThread, vars, history, EmptyFull, EmptyCompare,
         EmptyCompute, ReadByte, ClearFull, WriteFifo, DrainFifo

\* A memcpy touches none of the unread bytes, and puts the new ones in the
\* slots their positions have.
LEMMA BytesStep ==
  ASSUME TypeOK, CursorsTrackStream, RoomKept, BytesInPlace, [Next]_vars
  PROVE  BytesInPlace'
<1> USE DEF BytesInPlace
<1>1. CASE CopySegment
  <2> DEFINE n == Segment(head, call)
  <2>1. /\ n \in Nat /\ n <= call /\ head + n <= Max /\ seg = 0
        /\ head \in 0 .. Max - 1
    BY <1>1, MaxAssumption DEF CopySegment, Segment, TypeOK, Index
  <2>2. written - read + n < Max
    BY <1>1, <2>1, MaxAssumption
       DEF CopySegment, RoomKept, Sending, Pending, Unread, TypeOK, NoCall
  <2>3. /\ buffer' = Memcpy(n) /\ seg' = n /\ rpc' = "advance"
        /\ UNCHANGED <<head, written, read>>
    BY <1>1 DEF CopySegment, history
  <2>4. ASSUME NEW k \in read .. written + n - 1
        PROVE  Memcpy(n)[Step(0, k)] = k
    <3> USE DEF TypeOK
    <3>1. k \in Int /\ Step(0, k) \in Index
      BY <2>1, StepInIndex
    <3>2. CASE k >= written
      <4>1. 0 <= head + (k - written) /\ head + (k - written) < Max
        BY <3>1, <3>2, <2>1, <2>4, MaxAssumption
      <4>2. Step(0, written + (k - written)) = head + (k - written)
        BY <3>1, <4>1, StepNear DEF CursorsTrackStream
      <4>3. Step(0, k) = head + (k - written)
        BY <3>1, <4>2
      <4>4. Step(0, k) \in head .. head + n - 1
        BY <3>1, <3>2, <2>1, <2>4, <4>3
      <4>5. Memcpy(n)[Step(0, k)] = written + (Step(0, k) - head)
        <5> HIDE DEF n
        <5> QED BY <3>1, <4>4 DEF Memcpy
      <4>6. QED BY <2>1, <3>1, <4>3, <4>5, MaxAssumption
    <3>3. CASE k < written
      <4>1. buffer[Step(0, k)] = k
        BY <3>1, <3>3, <2>1, <2>4
      <4>2. Step(0, k) \notin head .. head + n - 1
        <5> SUFFICES ASSUME Step(0, k) \in head .. head + n - 1
                     PROVE  FALSE
          OBVIOUS
        <5> DEFINE j == Step(0, k) - head
        <5>1. j \in Int /\ 0 <= j /\ j < n /\ Step(0, k) = head + j
          <6>1. head \in Int /\ n \in Int /\ Step(0, k) \in Int
            BY <2>1, <3>1, MaxAssumption DEF Index
          <6> HIDE DEF TypeOK, n
          <6>2. QED BY <6>1
        <5>2. Step(0, written + j) = head + j
          BY <5>1, <2>1, StepNear, MaxAssumption DEF CursorsTrackStream
        <5>3. k = written + j
          BY <5>1, <5>2, <3>1, <3>3, <2>1, <2>2, <2>4, StepInjective, MaxAssumption
        <5>4. QED BY <5>1, <5>3, <3>3, <3>1
      <4>3. QED BY <3>1, <4>1, <4>2 DEF Memcpy
    <3>4. QED BY <3>1, <3>2, <3>3
  <2>5. QED BY <2>1, <2>3, <2>4
<1>2. CASE AdvanceHead
  BY <1>2 DEF AdvanceHead, TypeOK
<1>3. CASE AdvanceTail
  BY <1>3 DEF AdvanceTail, rlocal, TypeOK
<1>4. CASE UNCHANGED <<buffer, seg, written, read>> /\ rpc' /= "advance" /\ rpc /= "advance"
  BY <1>4
<1>5. CASE UNCHANGED <<buffer, head, seg, written, read, rpc>>
  BY <1>5
<1>6. QED
  BY <1>1, <1>2, <1>3, <1>4, <1>5
     DEF Next, Receive, FifoThread, vars, shared, rlocal, history, RecvVideo,
         SpaceFull, SpaceCompare, SpaceCompute, SendPacket, CompareFull,
         StoreFull, EmptyFull, EmptyCompare, EmptyCompute, ReadByte, ClearFull,
         WriteFifo, DrainFifo

\* The fifo thread finds bytes at head = tail only while full accounts for it.
LEMMA MeetsStep ==
  ASSUME TypeOK, MeetsIsFull, [Next]_vars
  PROVE  MeetsIsFull'
<1> USE DEF MeetsIsFull, SawBytes
<1>1. CASE RecvVideo
  BY <1>1 DEF RecvVideo, shared, flocal
<1>2. CASE SpaceFull
  BY <1>2 DEF SpaceFull, shared, flocal
<1>3. CASE SpaceCompare
  BY <1>3 DEF SpaceCompare, shared, flocal
<1>4. CASE SpaceCompute
  BY <1>4 DEF SpaceCompute, shared, flocal
<1>5. CASE SendPacket
  BY <1>5 DEF SendPacket, shared, flocal
<1>6. CASE CopySegment
  BY <1>6 DEF CopySegment, flocal
<1>7. CASE AdvanceHead
  BY <1>7 DEF AdvanceHead, flocal
<1>8. CASE CompareFull
  BY <1>8 DEF CompareFull, shared, flocal
<1>9. CASE StoreFull
  BY <1>9 DEF StoreFull, flocal
<1>10. CASE EmptyFull
  BY <1>10 DEF EmptyFull, shared, rlocal
<1>11. CASE EmptyCompare
  BY <1>11 DEF EmptyCompare, shared, rlocal, TypeOK, Index
<1>12. CASE EmptyCompute
  <2>1. ASSUME head = tail, ~fwrapped
        PROVE  SpaceOf(fwrapped, head, tail) = Max
    BY <2>1, MaxAssumption DEF SpaceOf, TypeOK, Index
  <2>2. QED BY <1>12, <2>1 DEF EmptyCompute, shared, rlocal
<1>13. CASE ReadByte
  BY <1>13 DEF ReadByte, shared, rlocal
<1>14. CASE AdvanceTail
  BY <1>14 DEF AdvanceTail, rlocal
<1>15. CASE ClearFull
  BY <1>15 DEF ClearFull, rlocal
<1>16. CASE WriteFifo
  BY <1>16 DEF WriteFifo, shared, rlocal
<1>17. CASE DrainFifo
  BY <1>17 DEF DrainFifo, shared, rlocal
<1>18. CASE UNCHANGED vars
  BY <1>18 DEF vars, shared, rlocal, flocal
<1>19. QED
  BY <1>1, <1>2, <1>3, <1>4, <1>5, <1>6, <1>7, <1>8, <1>9, <1>10, <1>11, <1>12,
     <1>13, <1>14, <1>15, <1>16, <1>17, <1>18 DEF Next, Receive, FifoThread

\* While get_space is between its loads full stays FALSE, and a tail it saw
\* behind head cannot pass head.
LEMMA LoadsStep ==
  ASSUME TypeOK, MeetsIsFull, SpaceLoads, [Next]_vars
  PROVE  SpaceLoads'
<1> USE DEF SpaceLoads
<1>1. CASE SpaceFull
  BY <1>1 DEF SpaceFull, shared
<1>2. CASE SpaceCompare
  <2>1. rpc' = "space_calc" /\ ~full' /\ UNCHANGED <<head, tail>>
    BY <1>2 DEF SpaceCompare, shared
  <2>2. ASSUME ~wrapped' PROVE tail <= head
    <3>1. ~(head < tail)
      BY <1>2, <2>2 DEF SpaceCompare
    <3>2. QED BY <3>1, MaxAssumption DEF TypeOK, Index
  <2>3. QED BY <2>1, <2>2
<1>3. CASE AdvanceTail
  <2>1. CASE rpc = "space_calc" /\ ~wrapped
    <3>1. tail < head
      BY <1>3, <2>1 DEF AdvanceTail, MeetsIsFull, SawBytes, TypeOK, Index
    <3>2. (tail + 1) % Max = tail + 1
      <4>1. tail \in 0 .. Max - 1 /\ head \in 0 .. Max - 1
        BY DEF TypeOK, Index
      <4>2. tail + 1 \in 0 .. Max - 1
        BY <3>1, <4>1, MaxAssumption
      <4>3. QED BY <4>2, MaxAssumption
    <3>3. QED BY <1>3, <2>1, <3>1, <3>2 DEF AdvanceTail, rlocal, Step, TypeOK, Index
  <2>2. QED BY <1>3, <2>1 DEF AdvanceTail, rlocal
<1>4. CASE ClearFull
  BY <1>4 DEF ClearFull, rlocal
<1>5. CASE UNCHANGED <<head, tail, full, rpc, wrapped>>
  BY <1>5
<1>6. CASE rpc' \notin {"space_cmp", "space_calc"}
  BY <1>6
<1>7. QED
  BY <1>1, <1>2, <1>3, <1>4, <1>5, <1>6
     DEF Next, Receive, FifoThread, vars, shared, rlocal, RecvVideo, SpaceCompute,
         SendPacket, CopySegment, AdvanceHead, CompareFull, StoreFull, EmptyFull,
         EmptyCompare, EmptyCompute, ReadByte, WriteFifo, DrainFifo

\* The space get_space computes is there, and the fifo thread only adds to it.
LEMMA SpaceStep ==
  ASSUME TypeOK, CursorsTrackStream, RoomKept, SpaceLoads, SpaceNotOverstated,
         [Next]_vars
  PROVE  SpaceNotOverstated'
<1> USE DEF SpaceNotOverstated, Free, Unread
<1>1. CASE SpaceFull
  BY <1>1, MaxAssumption DEF SpaceFull, RoomKept, TypeOK
<1>2. CASE SpaceCompute
  <2>1. SpaceOf(wrapped, head, tail) <= Max - (written - read)
    <3>1. /\ written \in Int /\ read \in Int /\ written - read < Max
          /\ head = Step(0, written) /\ tail = Step(0, read)
      BY DEF CursorsTrackStream, RoomKept, TypeOK
    <3>2. CASE wrapped
      BY <3>1, <3>2, SpaceBound DEF SpaceOf
    <3>3. CASE ~wrapped
      <4>1. tail <= head
        BY <1>2, <3>3 DEF SpaceCompute, SpaceLoads
      <4>2. QED BY <3>1, <3>3, <4>1, SpaceBound DEF SpaceOf
    <3>4. QED BY <3>2, <3>3
  <2>2. QED BY <1>2, <2>1 DEF SpaceCompute, history
<1>3. CASE AdvanceTail
  BY <1>3, MaxAssumption DEF AdvanceTail, rlocal, TypeOK
<1>4. CASE UNCHANGED <<rpc, space, written, read>>
  BY <1>4
<1>5. CASE rpc' /= "room"
  BY <1>5
<1>6. QED
  BY <1>1, <1>2, <1>3, <1>4, <1>5
     DEF Next, Receive, FifoThread, vars, shared, rlocal, history, RecvVideo,
         SpaceCompare, SendPacket, CopySegment, AdvanceHead, CompareFull,
         StoreFull, EmptyFull, EmptyCompare, EmptyCompute, ReadByte, ClearFull,
         WriteFifo, DrainFifo

\* The inductive invariant holds when both threads start.
LEMMA InvInit == Init => IInv
<1> SUFFICES ASSUME Init PROVE IInv
  OBVIOUS
<1>1. Step(0, 0) = 0
  BY MaxAssumption DEF Step
<1>2. CursorsTrackStream
  BY <1>1 DEF Init, CursorsTrackStream
<1>3. RoomKept
  BY MaxAssumption DEF Init, RoomKept, Sending, Unread
<1>4. BytesInPlace
  BY DEF Init, BytesInPlace
<1>5. MeetsIsFull /\ SpaceLoads /\ SpaceNotOverstated
  BY DEF Init, MeetsIsFull, SawBytes, SpaceLoads, SpaceNotOverstated
<1>6. QED
  BY TypeInit, <1>2, <1>3, <1>4, <1>5 DEF IInv

\* Every access of either thread to the buffer preserves the invariant.
LEMMA InvStep == IInv /\ [Next]_vars => IInv'
  BY TypeStep, CursorsStep, RoomStep, BytesStep, MeetsStep, LoadsStep, SpaceStep
     DEF IInv

\* The cursors stay in step with the stream, the room send_packet_buffer asked
\* for stays there, and the bytes between the cursors are those of the stream.
THEOREM InvCorrect == Spec => []IInv
<1>1. QED BY InvInit, InvStep, PTL DEF Spec

\* The receive thread never overwrites a byte the fifo thread has not taken,
\* in spite of the unlocked accesses to head, tail and full.
THEOREM UnreadStaysIntact == Spec => []UnreadIntact
<1>1. IInv => UnreadIntact
  BY MaxAssumption
     DEF IInv, RoomKept, BytesInPlace, UnreadIntact, Unread, TypeOK
<1>2. QED BY <1>1, InvCorrect, PTL

\* get_space never reports more room to the receive thread than there is.
THEOREM SpaceIsNeverOverstated == Spec => []SpaceNotOverstated
<1>1. IInv => SpaceNotOverstated
  BY DEF IInv
<1>2. QED BY <1>1, InvCorrect, PTL

-----------------------------------------------------------------------------
(* The order of the stream.                                                 *)

\* head and tail meet with nothing unread, or else a lap behind.
LEMMA MeetsMeansDrained ==
  ASSUME TypeOK, CursorsTrackStream, RoomKept, Unread >= 0
  PROVE  head = tail <=> Unread = 0
<1>1. ASSUME head = tail PROVE Unread = 0
  <2>1. written = read
    BY <1>1, StepInjective, MaxAssumption
       DEF CursorsTrackStream, RoomKept, Unread, TypeOK
  <2>2. QED BY <2>1 DEF Unread, TypeOK
<1>2. ASSUME Unread = 0 PROVE head = tail
  <2>1. written = read
    BY <1>2 DEF Unread, TypeOK
  <2>2. QED BY <2>1 DEF CursorsTrackStream
<1>3. QED BY <1>1, <1>2

\* As long as send_data_buffer has not set full on a drained buffer, full stays
\* FALSE and the fifo thread passes its test only with a byte to take.
LEMMA AheadStep ==
  ASSUME IInv, NeverRanAhead, [Next]_vars
  PROVE  NeverRanAhead'
<1> SUFFICES ASSUME ~falseFull'
             PROVE  /\ Unread' >= 0 /\ ~full'
                    /\ SawBytes' => Unread' > 0
                    /\ (rpc' = "full_store" /\ meets') => Unread' = 0
  BY DEF NeverRanAhead
<1> USE DEF IInv, SawBytes
<1>0. ~falseFull
  BY DEF Next, Receive, FifoThread, vars, shared, rlocal, history, RecvVideo,
         SpaceFull, SpaceCompare, SpaceCompute, SendPacket, CopySegment,
         AdvanceHead, CompareFull, StoreFull, EmptyFull, EmptyCompare,
         EmptyCompute, ReadByte, AdvanceTail, ClearFull, WriteFifo, DrainFifo
<1>a. /\ Unread >= 0 /\ ~full /\ Unread \in Int
      /\ SawBytes => Unread > 0
      /\ (rpc = "full_store" /\ meets) => Unread = 0
      /\ head = tail <=> Unread = 0
  BY <1>0, MeetsMeansDrained DEF NeverRanAhead, Unread, TypeOK
<1>b. ASSUME UNCHANGED <<written, read>> PROVE Unread' = Unread
  BY <1>b DEF Unread
<1>1. CASE CompareFull
  BY <1>1, <1>a, <1>b DEF CompareFull, shared, flocal, history
<1>2. CASE StoreFull
  BY <1>2, <1>a, <1>b DEF StoreFull, flocal
<1>3. CASE AdvanceHead
  <2>1. Unread' >= Unread
    BY <1>3, MaxAssumption DEF AdvanceHead, Unread, TypeOK
  <2>2. Unread' \in Int
    BY <1>3 DEF AdvanceHead, Unread, TypeOK
  <2>3. QED BY <1>3, <1>a, <2>1, <2>2 DEF AdvanceHead, flocal
<1>4. CASE EmptyFull
  BY <1>4, <1>a, <1>b DEF EmptyFull, shared, rlocal, history
<1>5. CASE EmptyCompare
  <2>1. fwrapped' => head /= tail
    <3>1. fwrapped' = (head < tail)
      BY <1>5 DEF EmptyCompare
    <3>2. (head < tail) => head /= tail
      BY DEF TypeOK, Index
    <3>3. QED BY <3>1, <3>2, Zenon
  <2>2. QED BY <1>5, <2>1, <1>a, <1>b DEF EmptyCompare, shared, rlocal, history
<1>6. CASE EmptyCompute
  <2>1. ~fwrapped /\ head = tail => SpaceOf(fwrapped, head, tail) = Max
    BY MaxAssumption DEF SpaceOf, TypeOK, Index
  <2>2. QED BY <1>6, <2>1, <1>a, <1>b DEF EmptyCompute, shared, rlocal, history
<1>7. CASE AdvanceTail
  <2>1. Unread > 0 /\ Unread' = Unread - 1
    BY <1>7, <1>a DEF AdvanceTail, Unread, TypeOK
  <2>2. ~(rpc = "full_store" /\ meets)
    BY <1>a, <2>1
  <2>3. QED BY <1>7, <1>a, <2>1, <2>2 DEF AdvanceTail, rlocal
<1>8. CASE ClearFull
  BY <1>8, <1>a, <1>b DEF ClearFull, rlocal, history
<1>9. CASE /\ UNCHANGED <<full, written, read>>
           /\ rpc' /= "full_store" /\ UNCHANGED <<fpc, fwrapped>>
  BY <1>9, <1>a, <1>b
<1>10. CASE /\ UNCHANGED <<full, written, read, rpc, meets>>
            /\ SawBytes' => SawBytes
  BY <1>10, <1>a, <1>b
<1>11. QED
  BY <1>1, <1>2, <1>3, <1>4, <1>5, <1>6, <1>7, <1>8, <1>9, <1>10
     DEF Next, Receive, FifoThread, vars, shared, rlocal, flocal, history,
         RecvVideo, SpaceFull, SpaceCompare, SpaceCompute, SendPacket,
         CopySegment, ReadByte, WriteFifo, DrainFifo

\* ReadByte takes the next byte of the stream, and the byte stays in readData
\* until it is in the FIFO.
LEMMA OrderStep ==
  ASSUME IInv, NeverRanAhead, NeverRanAhead', StreamInOrder, [Next]_vars
  PROVE  StreamInOrder'
<1> SUFFICES ASSUME ~falseFull'
             PROVE  /\ fpc' = "tail" => readData' = read'
                    /\ fpc' \in {"clear", "write"} => readData' = read' - 1
  BY DEF StreamInOrder, NeverRanAhead
<1> USE DEF StreamInOrder
<1>0. ~falseFull
  BY DEF Next, Receive, FifoThread, vars, shared, rlocal, history, RecvVideo,
         SpaceFull, SpaceCompare, SpaceCompute, SendPacket, CopySegment,
         AdvanceHead, CompareFull, StoreFull, EmptyFull, EmptyCompare,
         EmptyCompute, ReadByte, AdvanceTail, ClearFull, WriteFifo, DrainFifo
<1>1. CASE ReadByte
  <2>1. Unread > 0
    BY <1>0, <1>1 DEF ReadByte, NeverRanAhead, SawBytes
  <2>2. read \in read .. written + seg - 1
    BY <2>1 DEF Unread, IInv, TypeOK
  <2>3. buffer[tail] = read
    BY <2>2 DEF IInv, BytesInPlace, CursorsTrackStream
  <2>4. QED BY <1>1, <2>3 DEF ReadByte, history
<1>2. CASE AdvanceTail
  BY <1>0, <1>2 DEF AdvanceTail, IInv, TypeOK
<1>3. CASE UNCHANGED <<fpc, readData, read>>
  BY <1>0, <1>3
<1>4. CASE ClearFull
  BY <1>0, <1>4 DEF ClearFull, history
<1>5. CASE fpc' \in {"empty_full", "empty_cmp", "empty_calc", "read"}
  BY <1>5
<1>6. QED
  BY <1>1, <1>2, <1>3, <1>4, <1>5
     DEF Next, Receive, FifoThread, vars, flocal, history, RecvVideo, SpaceFull,
         SpaceCompare, SpaceCompute, SendPacket, CopySegment, AdvanceHead,
         CompareFull, StoreFull, EmptyFull, EmptyCompare, EmptyCompute,
         WriteFifo, DrainFifo

\* The invariant of the order of the stream holds when both threads start.
LEMMA OrderInit == Init => NeverRanAhead /\ StreamInOrder
  BY DEF Init, NeverRanAhead, StreamInOrder, SawBytes, Unread

\* Every access of either thread preserves it.
LEMMA OrderInvStep ==
  IInv /\ NeverRanAhead /\ StreamInOrder /\ [Next]_vars
    => NeverRanAhead' /\ StreamInOrder'
  BY AheadStep, OrderStep

\* The fifo thread takes the bytes of the stream in order, each of them once,
\* for as long as full was never set on a drained buffer.
THEOREM StreamStaysInOrder == Spec => []StreamInOrder
<1>1. QED BY OrderInit, OrderInvStep, InvCorrect, PTL DEF Spec

\* full is set by nothing but the race of send_data_buffer with the fifo
\* thread draining the buffer.
THEOREM FullIsOnlyARace == Spec => []FullOnlyByRace
<1>1. IInv /\ NeverRanAhead => FullOnlyByRace
  BY DEF IInv, TypeOK, NeverRanAhead, FullOnlyByRace
<1>2. QED BY <1>1, OrderInit, OrderInvStep, InvCorrect, PTL DEF Spec
=============================================================================
