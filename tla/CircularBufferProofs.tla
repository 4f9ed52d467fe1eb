------------------------ MODULE CircularBufferProofs ------------------------
(***************************************************************************)
(* buffer.c in the hands of one caller is a bounded queue of bytes, for    *)
(* every size of the array and every set of byte values.                   *)
(***************************************************************************)
EXTENDS CircularBuffer, BufferTheorems

\* The bytes in the buffer.
Level == FillLevel(head, tail, full)

\* What the refinement needs of full: it is set only where the cursors meet.
Inv == TypeOK /\ (full => head = tail)

-----------------------------------------------------------------------------
(* get_space and fill_level.                                                *)

\* fill_level is the number of slots from tail on to head: a full lap if full
\* is set, and less than one if it is not.
LEMMA LevelReachesHead ==
  ASSUME NEW h \in Index, NEW t \in Index, NEW f \in BOOLEAN, f => h = t
  PROVE  /\ FillLevel(h, t, f) \in 0 .. Max
         /\ f <=> FillLevel(h, t, f) = Max
         /\ Step(t, FillLevel(h, t, f)) = h
<1> DEFINE L == FillLevel(h, t, f)
<1>1. /\ L \in 0 .. Max
      /\ f <=> L = Max
      /\ t + L = h \/ t + L = h + Max
  BY MaxAssumption DEF FillLevel, GetSpace, SpaceOf, Index
<1>2. (h + 0) % Max = h /\ (h + Max) % Max = h
  BY StepLap DEF Step
<1>3. h + 0 = h
  BY DEF Index
<1>4. (t + L) % Max = h
  BY <1>1, <1>2, <1>3
<1>5. QED BY <1>1, <1>4 DEF Step

\* No other number of slots leads from tail to head.
LEMMA LevelIsUnique ==
  ASSUME NEW h \in Index, NEW t \in Index, NEW f \in BOOLEAN, f => h = t,
         NEW n \in 0 .. Max, Step(t, n) = h, f <=> n = Max
  PROVE  FillLevel(h, t, f) = n
<1>1. PICK L \in 0 .. Max : L = FillLevel(h, t, f) /\ (f <=> L = Max) /\ Step(t, L) = h
  BY LevelReachesHead
<1>2. CASE f
  BY <1>1, <1>2
<1>3. CASE ~f
  <2>1. L - n < Max /\ n - L < Max /\ L \in Int /\ n \in Int /\ t \in Int
    BY <1>1, <1>3, MaxAssumption DEF Index
  <2>2. QED BY <1>1, <2>1, StepsDiffer
<1>4. QED BY <1>2, <1>3

\* get_space and fill_level are each other's complement.
LEMMA SpaceIsRest ==
  ASSUME Inv
  PROVE  /\ Space = Max - Level /\ Level \in 0 .. Max
         /\ BufferIsEmpty(head, tail, full) <=> Level = 0
<1>1. Space \in Int
  BY MaxAssumption DEF Inv, TypeOK
<1>2. QED
  BY <1>1, LevelReachesHead, MaxAssumption
     DEF Inv, TypeOK, Space, Level, FillLevel, BufferIsEmpty

-----------------------------------------------------------------------------
(* The two operations.                                                      *)

\* What send_data_buffer and read_data_buffer are given here.
Chunk(n) == [1 .. n -> Bytes]

\* A send moves head on by its length: the fill level grows by as much, and
\* full is set exactly when the last slot is taken.
LEMMA SendLevel ==
  ASSUME Inv, NEW n \in 1 .. Max, NEW chunk \in Chunk(n), SendData(chunk)
  PROVE  /\ Len(chunk) = n /\ Level + n <= Max
         /\ head' \in Index /\ full' \in BOOLEAN /\ (full' => head' = tail')
         /\ Level' = Level + n
<1> USE DEF Inv, TypeOK
<1>1. Len(chunk) = n
  BY MaxAssumption DEF Chunk
<1>2. Level \in 0 .. Max /\ Level + n <= Max
  BY <1>1, SpaceIsRest, MaxAssumption DEF SendData
<1>3. head' = Step(head, n) /\ head' \in Index /\ tail' = tail /\ full' = (head' = tail)
  BY <1>1, StepInIndex, MaxAssumption DEF SendData, Index
<1>4. Step(tail, Level) = head
  BY LevelReachesHead DEF Level
<1>5. Step(tail, Level + n) = head'
  <2>1. tail \in Int /\ Level \in Int /\ n \in Int
    BY <1>2 DEF Index
  <2>2. QED BY <1>3, <1>4, <2>1, StepTwice
<1>6. full' <=> Level + n = Max
  <2>1. Level + n \in 1 .. Max - 1 \/ Level + n = Max
    BY <1>2, MaxAssumption
  <2>2. ASSUME Level + n \in 1 .. Max - 1 PROVE head' /= tail
    BY <1>5, <2>2, StepLap
  <2>3. ASSUME Level + n = Max PROVE head' = tail
    BY <1>5, <2>3, StepLap
  <2>4. ~(Level + n \in 1 .. Max - 1 /\ Level + n = Max)
    BY MaxAssumption
  <2>5. QED BY <1>3, <2>1, <2>2, <2>3, <2>4, Zenon
<1>7. Level' = FillLevel(head', tail, full')
  BY <1>3 DEF Level
<1>8. Level' = Level + n
  <2>1. Level + n \in 0 .. Max
    BY <1>2
  <2>2. full' \in BOOLEAN /\ (full' => head' = tail) /\ tail \in Index
    BY <1>3, Zenon
  <2>3. FillLevel(head', tail, full') = Level + n
    <3> HIDE DEF Inv, TypeOK
    <3> DEFINE h == head'
               f == full'
               k == Level + n
    <3>1. /\ h \in Index /\ tail \in Index /\ f \in BOOLEAN /\ (f => h = tail)
          /\ k \in 0 .. Max /\ Step(tail, k) = h
      BY <1>3, <1>5, <2>1, <2>2, Zenon
    <3>2. f <=> k = Max
      BY <1>6, Zenon
    <3> HIDE DEF h, f, k
    <3>3. FillLevel(h, tail, f) = k
      BY <3>1, <3>2, LevelIsUnique, Zenon
    <3>4. QED BY <3>3, Zenon DEF h, f, k
  <2>4. QED BY <1>7, <2>3
<1>9. QED BY <1>1, <1>2, <1>3, <1>8, Zenon

\* The i-th slot from tail on.
Slot(i) == Step(tail, i - 1)

\* Every such slot is one of the array.
LEMMA SlotInIndex ==
  ASSUME Inv, NEW i \in Int
  PROVE  Slot(i) \in Index
<1>1. tail \in Int /\ i - 1 \in Int
  BY DEF Inv, TypeOK, Index
<1>2. QED BY <1>1, StepInIndex DEF Slot

\* Where a send puts a byte: a slot the m-th byte of the chunk belongs in gets
\* it, in whichever part of the split that byte is, and the slots of unread
\* bytes are left as they are.
LEMMA SendPlaces ==
  ASSUME Inv, NEW n \in 1 .. Max, NEW chunk \in Chunk(n), SendData(chunk)
  PROVE  /\ \A m \in 1 .. n : buffer'[Slot(Level + m)] = chunk[m]
         /\ \A i \in 1 .. Level : buffer'[Slot(i)] = buffer[Slot(i)]
         /\ buffer' \in [Index -> Bytes]
<1>1. Len(chunk) = n /\ Level + n <= Max
  BY SendLevel
<1>2. /\ Level \in 0 .. Max /\ Step(tail, Level) = head
      /\ head \in Index /\ tail \in Index /\ buffer \in [Index -> Bytes]
  BY LevelReachesHead DEF Inv, TypeOK, Level
<1>3. buffer' =
        [i \in Index |->
           IF i \in head .. head + n - 1 THEN chunk[i - head + 1]
           ELSE IF i + Max \in head .. head + n - 1 THEN chunk[i + Max - head + 1]
           ELSE buffer[i]]
  BY <1>1 DEF SendData, Copied
<1>4. ASSUME NEW m \in 1 .. n
      PROVE  \/ Slot(Level + m) = head + m - 1 /\ head + m - 1 < Max
             \/ Slot(Level + m) = head + m - 1 - Max /\ head + m - 1 >= Max
  <2>1. Slot(Level + m) = Step(head, m - 1)
    <3>1. tail \in Int /\ Level \in Int /\ m - 1 \in Int /\ (Level + m) - 1 = Level + (m - 1)
      BY <1>2 DEF Index
    <3>2. QED BY <1>2, <3>1, StepTwice DEF Slot
  <2>2. CASE head + m - 1 < Max
    <3>1. (head + (m - 1)) % Max = head + (m - 1)
      BY <1>2, <2>2, MaxAssumption DEF Index
    <3>2. QED BY <1>2, <2>1, <2>2, <3>1 DEF Step, Index
  <2>3. CASE head + m - 1 >= Max
    <3>1. head + m - 1 - Max \in 0 .. Max - 1
      BY <1>2, <2>3, MaxAssumption DEF Index
    <3>2. Step(head + m - 1 - Max, Max) = head + m - 1 - Max
      BY <3>1, StepLap DEF Index
    <3>3. (head + m - 1 - Max) + Max = head + (m - 1)
      BY <1>2, MaxAssumption DEF Index
    <3>4. QED BY <2>1, <2>3, <3>2, <3>3 DEF Step
  <2>4. QED BY <1>2, <2>2, <2>3, MaxAssumption DEF Index
<1>5. ASSUME NEW m \in 1 .. n
      PROVE  buffer'[Slot(Level + m)] = chunk[m]
  <2>1. Slot(Level + m) \in Index
    BY <1>2, <1>4, <1>5, MaxAssumption DEF Index
  <2> DEFINE a == Slot(Level + m)
  <2>2. head \in Int /\ a \in Int /\ Max \in Nat /\ n \in Int /\ n <= Max
    BY <1>2, <2>1, MaxAssumption DEF Index
  <2>3. \/ a = head + m - 1
        \/ a = head + m - 1 - Max
    BY <1>4
  <2>4. buffer'[a] =
          IF a \in head .. head + n - 1 THEN chunk[a - head + 1]
          ELSE IF a + Max \in head .. head + n - 1 THEN chunk[a + Max - head + 1]
          ELSE buffer[a]
    BY <1>3, <2>1
  <2> HIDE DEF a
  <2>5. CASE a = head + m - 1
    <3>1. a \in head .. head + n - 1 /\ a - head + 1 = m
      BY <2>2, <2>5
    <3>2. QED BY <2>4, <3>1 DEF a
  <2>6. CASE a = head + m - 1 - Max
    <3>1. /\ a \notin head .. head + n - 1
          /\ a + Max \in head .. head + n - 1 /\ a + Max - head + 1 = m
      BY <2>2, <2>6
    <3>2. QED BY <2>4, <3>1 DEF a
  <2>7. QED BY <2>3, <2>5, <2>6
<1>6. ASSUME NEW i \in 1 .. Level
      PROVE  buffer'[Slot(i)] = buffer[Slot(i)]
  <2>1. Slot(i) \in Index /\ Slot(i) \in Int
    BY SlotInIndex DEF Index
  <2>2. \A m \in 1 .. n : Slot(i) /= Slot(Level + m)
    <3>1. SUFFICES ASSUME NEW m \in 1 .. n, Slot(i) = Slot(Level + m) PROVE FALSE
      OBVIOUS
    <3>2. /\ tail \in Int /\ i - 1 \in Int /\ (Level + m) - 1 \in Int
          /\ (i - 1) - ((Level + m) - 1) < Max /\ ((Level + m) - 1) - (i - 1) < Max
      BY <1>1, <1>2, MaxAssumption DEF Index
    <3>3. i - 1 = (Level + m) - 1
      BY <3>1, <3>2, StepsDiffer DEF Slot
    <3>4. QED BY <1>2, <3>3
  <2>3. ~(Slot(i) \in head .. head + n - 1)
    <3>1. SUFFICES ASSUME Slot(i) \in head .. head + n - 1 PROVE FALSE
      OBVIOUS
    <3>2. PICK m \in 1 .. n : m = Slot(i) - head + 1
      BY <1>2, <2>1, <3>1, MaxAssumption DEF Index
    <3>3. head + m - 1 = Slot(i) /\ head + m - 1 < Max
      BY <1>2, <2>1, <3>2, MaxAssumption DEF Index
    <3>4. \/ Slot(Level + m) = head + m - 1 /\ head + m - 1 < Max
          \/ Slot(Level + m) = head + m - 1 - Max /\ head + m - 1 >= Max
      BY <1>4
    <3>5. head \in Int /\ m \in Int /\ Max \in Int
      BY <1>2, MaxAssumption DEF Index
    <3>6. Slot(i) = Slot(Level + m)
      BY <2>1, <3>3, <3>4, <3>5
    <3>7. QED BY <2>2, <3>6
  <2>4. ~(Slot(i) + Max \in head .. head + n - 1)
    <3>1. SUFFICES ASSUME Slot(i) + Max \in head .. head + n - 1 PROVE FALSE
      OBVIOUS
    <3>2. PICK m \in 1 .. n : m = Slot(i) + Max - head + 1
      BY <1>2, <2>1, <3>1, MaxAssumption DEF Index
    <3>3. head + m - 1 = Slot(i) + Max /\ head + m - 1 >= Max
      BY <1>2, <2>1, <3>2, MaxAssumption DEF Index
    <3>4. \/ Slot(Level + m) = head + m - 1 /\ head + m - 1 < Max
          \/ Slot(Level + m) = head + m - 1 - Max /\ head + m - 1 >= Max
      BY <1>4
    <3>5. head \in Int /\ m \in Int /\ Max \in Int
      BY <1>2, MaxAssumption DEF Index
    <3>6. Slot(i) = Slot(Level + m)
      BY <2>1, <3>3, <3>4, <3>5
    <3>7. QED BY <2>2, <3>6
  <2>5. QED BY <1>3, <2>1, <2>3, <2>4
<1>7. buffer' \in [Index -> Bytes]
  BY <1>2, <1>3, MaxAssumption DEF Chunk, Index
<1>8. QED BY <1>5, <1>6, <1>7

\* The bytes between the cursors, as many as fill_level says, are a sequence.
ContentsOK ==
  /\ Contents \in Seq(Bytes) /\ Len(Contents) = Level
  /\ \A i \in 1 .. Level : Contents[i] = buffer[Slot(i)]

\* So it is whenever full is set only where the cursors meet.
LEMMA ContentsType == Inv => ContentsOK
<1> SUFFICES ASSUME Inv PROVE ContentsOK
  OBVIOUS
<1>1. Level \in 0 .. Max
  BY SpaceIsRest
<1>2. Contents = [i \in 1 .. Level |-> buffer[Slot(i)]]
  BY DEF Contents, Level, Slot
<1>3. \A i \in 1 .. Level : buffer[Slot(i)] \in Bytes
  BY <1>1, SlotInIndex DEF Inv, TypeOK
<1>4. QED BY <1>1, <1>2, <1>3 DEF ContentsOK

\* And so it is after a step.
LEMMA ContentsTypeNext == Inv' => ContentsOK'
  BY ContentsType, PTL

\* A read takes the oldest byte and leaves one byte less, in the slots from the
\* next one on.
LEMMA ReadLevel ==
  ASSUME Inv, ReadData
  PROVE  /\ Level > 0 /\ Level' = Level - 1
         /\ data' = buffer[Slot(1)] /\ buffer' = buffer
         /\ tail' \in Index /\ full' = FALSE
         /\ \A i \in 1 .. Level - 1 : Slot(i)' = Slot(i + 1)
<1>1. /\ Level \in 0 .. Max /\ Step(tail, Level) = head /\ Level /= 0
      /\ head \in Index /\ tail \in Index /\ tail \in Int
  BY SpaceIsRest, LevelReachesHead DEF Inv, TypeOK, Level, ReadData, Index
<1>2. tail' = Step(tail, 1) /\ tail' \in Index /\ full' = FALSE /\ head' = head
  BY <1>1, StepInIndex DEF ReadData
<1>3. \A n \in Int : Step(tail', n) = Step(tail, 1 + n)
  BY <1>1, <1>2, StepTwice
<1>4. Level' = Level - 1
  <2>1. Level - 1 \in 0 .. Max /\ Level - 1 /= Max /\ 1 + (Level - 1) = Level
    BY <1>1, MaxAssumption
  <2>2. Step(tail', Level - 1) = head
    BY <1>1, <1>3, <2>1
  <2>3. FillLevel(head, tail', FALSE) = Level - 1
    BY <1>1, <1>2, <2>1, <2>2, LevelIsUnique
  <2>4. QED BY <1>2, <2>3 DEF Level
<1>5. \A i \in 1 .. Level - 1 : Slot(i)' = Slot(i + 1)
  <2>1. SUFFICES ASSUME NEW i \in 1 .. Level - 1 PROVE Step(tail', i - 1) = Step(tail, (i + 1) - 1)
    BY DEF Slot
  <2>2. i - 1 \in Int /\ 1 + (i - 1) = (i + 1) - 1
    BY <1>1
  <2>3. QED BY <1>3, <2>2
<1>6. data' = buffer[Slot(1)] /\ buffer' = buffer
  BY <1>1, StepLap DEF ReadData, Slot
<1>7. QED BY <1>1, <1>2, <1>4, <1>5, <1>6

-----------------------------------------------------------------------------
(* The invariant and the refinement.                                        *)

\* Whatever sets the cursors and full keeps get_space between 0 and max.
LEMMA SpaceInRange ==
  ASSUME NEW h \in Index, NEW t \in Index, NEW f \in BOOLEAN
  PROVE  GetSpace(h, t, f) \in 0 .. Max
  BY MaxAssumption DEF GetSpace, SpaceOf, Index

\* init_buffer leaves an empty buffer.
LEMMA InvInit == Init => Inv
<1> SUFFICES ASSUME Init PROVE Inv
  OBVIOUS
<1>1. head \in Index /\ tail \in Index /\ full = FALSE
  <2>1. head = 0 /\ tail = 0 /\ full = FALSE
    BY DEF Init
  <2>2. QED BY <2>1, MaxAssumption DEF Index
<1>2. Space \in 0 .. Max
  BY <1>1, SpaceInRange DEF Space
<1>3. sent \in Seq(Bytes)
  BY DEF Init
<1>4. full \in BOOLEAN /\ (full => head = tail)
  BY <1>1, Zenon
<1>5. buffer \in [Index -> Bytes] /\ data \in Bytes
  BY DEF Init
<1>6. QED BY <1>1, <1>2, <1>3, <1>4, <1>5, Zenon DEF Inv, TypeOK

\* Every call of either function preserves it.
LEMMA InvStep == Inv /\ [Next]_vars => Inv'
<1> SUFFICES ASSUME Inv, [Next]_vars PROVE Inv'
  OBVIOUS
<1>1. ASSUME ReadData PROVE Inv'
  <2>1. tail' \in Index /\ head' \in Index /\ full' \in BOOLEAN /\ full' = FALSE
    BY <1>1, ReadLevel DEF Inv, TypeOK, ReadData
  <2>2. Space' \in 0 .. Max
    BY <2>1, SpaceInRange DEF Space
  <2>3. data' \in Bytes
    BY <1>1 DEF ReadData, Inv, TypeOK
  <2>4. QED BY <1>1, <2>1, <2>2, <2>3 DEF ReadData, Inv, TypeOK
<1>2. ASSUME NEW n \in 1 .. Max, NEW chunk \in Chunk(n), SendData(chunk) PROVE Inv'
  <2>1. head' \in Index /\ full' \in BOOLEAN /\ (full' => head' = tail')
    BY <1>2, SendLevel, Zenon
  <2>2. tail' = tail /\ data' = data /\ sent' = chunk
    BY <1>2 DEF SendData
  <2>3. tail' \in Index /\ data' \in Bytes
    BY <2>2 DEF Inv, TypeOK
  <2>4. Space' \in 0 .. Max
    BY <2>1, <2>3, SpaceInRange DEF Space
  <2>5. buffer' \in [Index -> Bytes]
    BY <1>2, SendPlaces
  <2>6. sent' \in Seq(Bytes)
    BY <2>2, MaxAssumption DEF Chunk
  <2>7. QED BY <2>1, <2>3, <2>4, <2>5, <2>6, Zenon DEF Inv, TypeOK
<1>3. CASE UNCHANGED vars
  BY <1>3 DEF vars, Inv, TypeOK, Space
<1>4. QED BY <1>1, <1>2, <1>3 DEF Next, Chunk

\* Both cursors stay inside the array, and get_space between 0 and max.
THEOREM TypeCorrect == Spec => []TypeOK
<1>1. Inv => TypeOK
  BY DEF Inv
<1>2. QED BY <1>1, InvInit, InvStep, PTL DEF Spec

\* A send appends its bytes to the queue.
LEMMA SendIsPut ==
  ASSUME Inv, Inv', NEW n \in 1 .. Max, NEW chunk \in Chunk(n), SendData(chunk)
  PROVE  Queue!Put(chunk)
<1>1. /\ Contents \in Seq(Bytes) /\ Len(Contents) = Level
      /\ \A i \in 1 .. Level : Contents[i] = buffer[Slot(i)]
  BY ContentsType DEF ContentsOK
<1>2. /\ Contents' \in Seq(Bytes) /\ Len(Contents') = Level'
      /\ \A i \in 1 .. Level' : Contents'[i] = buffer'[Slot(i)']
  BY ContentsTypeNext DEF ContentsOK
<1>3. /\ Len(chunk) = n /\ Level + n <= Max /\ Level' = Level + n
      /\ Level \in 0 .. Max /\ chunk \in Seq(Bytes)
  BY SendLevel, SpaceIsRest, MaxAssumption DEF Chunk
<1>4. \A i : Slot(i)' = Slot(i)
  BY DEF SendData, Slot
<1>5. ASSUME NEW i \in 1 .. Level + n
      PROVE  Contents'[i] = (Contents \o chunk)[i]
  <2>1. Contents'[i] = buffer'[Slot(i)]
    BY <1>2, <1>3, <1>4
  <2>2. CASE i <= Level
    <3>1. i \in 1 .. Level
      BY <1>3, <2>2
    <3>2. buffer'[Slot(i)] = buffer[Slot(i)]
      BY <3>1, SendPlaces
    <3>3. (Contents \o chunk)[i] = Contents[i]
      BY <1>1, <1>3, <3>1
    <3>4. QED BY <1>1, <2>1, <3>1, <3>2, <3>3
  <2>3. CASE i > Level
    <3>1. PICK m \in 1 .. n : i = Level + m
      <4>1. i - Level \in 1 .. n /\ i = Level + (i - Level)
        BY <1>3, <2>3
      <4>2. QED BY <4>1
    <3>2. buffer'[Slot(Level + m)] = chunk[m]
      BY SendPlaces
    <3>3. (Contents \o chunk)[i] = chunk[m]
      BY <1>1, <1>3, <2>3, <3>1
    <3>4. QED BY <2>1, <3>1, <3>2, <3>3
  <2>4. i <= Level \/ i > Level
    BY <1>3
  <2>5. QED BY <2>2, <2>3, <2>4, Zenon
<1>6. Contents' = Contents \o chunk
  <2>1. Contents \o chunk \in Seq(Bytes) /\ Len(Contents \o chunk) = Level + n
    BY <1>1, <1>3
  <2>2. Len(Contents') = Level + n
    BY <1>2, <1>3
  <2>3. QED BY <1>2, <1>5, <2>1, <2>2
<1>7. QED BY <1>1, <1>3, <1>6 DEF Queue!Put, SendData

\* A read takes the head of the queue.
LEMMA ReadIsTake ==
  ASSUME Inv, Inv', ReadData
  PROVE  Queue!Take
<1>1. /\ Contents \in Seq(Bytes) /\ Len(Contents) = Level
      /\ \A i \in 1 .. Level : Contents[i] = buffer[Slot(i)]
  BY ContentsType DEF ContentsOK
<1>2. /\ Contents' \in Seq(Bytes) /\ Len(Contents') = Level'
      /\ \A i \in 1 .. Level' : Contents'[i] = buffer'[Slot(i)']
  BY ContentsTypeNext DEF ContentsOK
<1>3. /\ Level > 0 /\ Level \in 0 .. Max /\ Level' = Level - 1
      /\ data' = buffer[Slot(1)] /\ buffer' = buffer
      /\ \A i \in 1 .. Level - 1 : Slot(i)' = Slot(i + 1)
  BY ReadLevel, SpaceIsRest
<1>4. Contents /= <<>> /\ data' = Head(Contents)
  BY <1>1, <1>3
<1>5. Contents' = Tail(Contents)
  <2>1. Tail(Contents) \in Seq(Bytes) /\ Len(Tail(Contents)) = Level - 1
    BY <1>1, <1>3
  <2>2. ASSUME NEW i \in 1 .. Level - 1
        PROVE  Contents'[i] = Tail(Contents)[i]
    <3>1. i + 1 \in 1 .. Level
      BY <1>3
    <3>2. Tail(Contents)[i] = Contents[i + 1]
      BY <1>1, <1>3
    <3>3. Contents'[i] = buffer[Slot(i + 1)]
      BY <1>2, <1>3
    <3>4. QED BY <1>1, <3>1, <3>2, <3>3
  <2>3. QED BY <1>2, <1>3, <2>1, <2>2
<1>6. QED BY <1>4, <1>5 DEF Queue!Take, ReadData

\* What send_data_buffer is given comes out of read_data_buffer in the same
\* order, however it was split and wherever the cursors wrapped: the functions
\* of buffer.c implement a bounded queue.
THEOREM BufferIsByteQueue == Spec => IsByteQueue
<1>1. Init => Queue!Init
  <2>1. SUFFICES ASSUME Init PROVE Queue!Init
    OBVIOUS
  <2>2. Len(Contents) = Level /\ Contents \in Seq(Bytes)
    BY <2>1, InvInit, ContentsType DEF ContentsOK
  <2>3. Level = 0
    BY <2>1, MaxAssumption DEF Init, Level, FillLevel, GetSpace, SpaceOf
  <2>4. Contents = <<>>
    BY <2>2, <2>3
  <2>5. QED BY <2>1, <2>4 DEF Init, Queue!Init
<1>2. Inv /\ Inv' /\ [Next]_vars => [Queue!Next]_<<Contents, sent, data>>
  <2>1. SUFFICES ASSUME Inv, Inv', [Next]_vars
                 PROVE  Queue!Next \/ UNCHANGED <<Contents, sent, data>>
    OBVIOUS
  <2>2. ASSUME ReadData PROVE Queue!Next
    BY <2>1, <2>2, ReadIsTake DEF Queue!Next
  <2>3. ASSUME NEW n \in 1 .. Max, NEW chunk \in Chunk(n), SendData(chunk)
        PROVE  Queue!Next
    BY <2>1, <2>3, SendIsPut DEF Queue!Next, Queue!Chunks, Chunk
  <2>4. ASSUME UNCHANGED vars PROVE UNCHANGED <<Contents, sent, data>>
    BY <2>4 DEF vars, Contents
  <2>5. QED BY <2>1, <2>2, <2>3, <2>4 DEF Next, Chunk
<1>3. QED BY <1>1, <1>2, InvInit, InvStep, PTL DEF Spec, IsByteQueue, Queue!Spec
=============================================================================
