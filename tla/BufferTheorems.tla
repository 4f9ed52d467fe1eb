--------------------------- MODULE BufferTheorems ---------------------------
(***************************************************************************)
(* Facts about the index arithmetic of buffer.c, for every array size.     *)
(* The provers know little of % and \div by a number that is not written   *)
(* out; ModRange is the division theorem, and the rest follows from it and *)
(* from there being no multiple of Max strictly between -Max and Max but 0.*)
(***************************************************************************)
EXTENDS BufferIndex, TLAPS

\* Division: a is a multiple of Max and a remainder that is a slot.
LEMMA ModRange ==
  ASSUME NEW a \in Int
  PROVE  /\ a % Max \in Index
         /\ a = ((a \div Max) * Max) + (a % Max)
         /\ a \div Max \in Int
  BY MaxAssumption DEF Index

\* The only multiple of Max nearer to zero than Max is zero.
LEMMA SmallMultiple ==
  ASSUME NEW q \in Int, NEW d \in Int, d = q * Max, -Max < d, d < Max
  PROVE  d = 0
<1>1. CASE q >= 1
  <2>1. q * Max >= Max
    BY <1>1, MaxAssumption
  <2>2. QED BY <2>1, MaxAssumption
<1>2. CASE q <= -1
  <2>1. q * Max <= -Max
    BY <1>2, MaxAssumption
  <2>2. QED BY <2>1, MaxAssumption
<1>3. CASE q = 0
  BY <1>3, MaxAssumption
<1>4. QED BY <1>1, <1>2, <1>3

\* Two numbers in the same slot and less than one lap apart are equal.
LEMMA ModUnique ==
  ASSUME NEW a \in Int, NEW b \in Int, a % Max = b % Max,
         a - b < Max, b - a < Max
  PROVE  a = b
<1> DEFINE q == (a \div Max) - (b \div Max)
           d == a - b
<1>1. q \in Int /\ d \in Int /\ d = q * Max
  BY ModRange, MaxAssumption
<1>2. -Max < d /\ d < Max
  BY MaxAssumption
<1>3. d = 0
  <2> HIDE DEF q, d
  <2> QED BY <1>1, <1>2, SmallMultiple
<1>4. QED BY <1>3

\* Taking the remainder early changes nothing.
LEMMA ModOfSum ==
  ASSUME NEW a \in Int, NEW j \in Int
  PROVE  ((a % Max) + j) % Max = (a + j) % Max
<1> DEFINE b == (a % Max) + j
           q == (a \div Max) + (b \div Max) - ((a + j) \div Max)
           d == ((a + j) % Max) - (b % Max)
<1>1. b \in Int /\ a + j \in Int
  BY ModRange DEF Index
<1>2. q \in Int /\ d \in Int /\ d = q * Max
  <2>1. a = ((a \div Max) * Max) + (a % Max) /\ a \div Max \in Int /\ a % Max \in Int
    BY ModRange DEF Index
  <2>2. b = ((b \div Max) * Max) + (b % Max) /\ b \div Max \in Int /\ b % Max \in Int
    BY <1>1, ModRange DEF Index
  <2>3. /\ a + j = (((a + j) \div Max) * Max) + ((a + j) % Max)
        /\ (a + j) \div Max \in Int /\ (a + j) % Max \in Int
    BY <1>1, ModRange DEF Index
  <2>4. q * Max = ((a \div Max) * Max) + ((b \div Max) * Max) - (((a + j) \div Max) * Max)
    BY <2>1, <2>2, <2>3, MaxAssumption
  <2>5. d = (a + j) - b + ((b \div Max) * Max) - (((a + j) \div Max) * Max)
    BY <2>2, <2>3, MaxAssumption
  <2>6. (a + j) - b = (a \div Max) * Max
    BY <2>1, MaxAssumption
  <2>7. QED BY <2>1, <2>2, <2>3, <2>4, <2>5, <2>6, <1>1, MaxAssumption
<1>3. -Max < d /\ d < Max
  BY <1>1, ModRange, MaxAssumption DEF Index
<1>4. d = 0
  <2> HIDE DEF q, d
  <2> QED BY <1>2, <1>3, SmallMultiple
<1>5. QED BY <1>1, <1>4, ModRange DEF Index
-----------------------------------------------------------------------------
(* The same facts about stream positions: position a is in slot Step(0, a). *)

\* Cursors stay inside the array: head and tail after "% buf->max".
LEMMA StepInIndex ==
  ASSUME NEW i \in Int, NEW n \in Int
  PROVE  Step(i, n) \in Index
  BY ModRange DEF Step

\* Moving a cursor by n slots follows the stream by n positions.
LEMMA StepFollows ==
  ASSUME NEW a \in Int, NEW n \in Int
  PROVE  Step(Step(0, a), n) = Step(0, a + n)
  BY ModOfSum DEF Step

\* Positions less than a lap apart have slots of their own.
LEMMA StepInjective ==
  ASSUME NEW a \in Int, NEW b \in Int, a - b < Max, b - a < Max,
         Step(0, a) = Step(0, b)
  PROVE  a = b
  BY ModUnique DEF Step

\* Up to the end of the array consecutive positions have consecutive slots.
LEMMA StepNear ==
  ASSUME NEW a \in Int, NEW j \in Int,
         0 <= Step(0, a) + j, Step(0, a) + j < Max
  PROVE  Step(0, a + j) = Step(0, a) + j
<1> DEFINE x == Step(0, a) + j
<1>1. x \in 0 .. Max - 1
  BY ModRange, MaxAssumption DEF Step, Index
<1>2. x % Max = x
  BY <1>1, MaxAssumption
<1>3. QED BY <1>2, ModOfSum DEF Step

\* Two moves of a cursor are one.
LEMMA StepTwice ==
  ASSUME NEW i \in Int, NEW a \in Int, NEW b \in Int
  PROVE  Step(Step(i, a), b) = Step(i, a + b)
<1>1. i + a \in Int /\ (i + a) + b = i + (a + b)
  OBVIOUS
<1>2. (((i + a) % Max) + b) % Max = ((i + a) + b) % Max
  BY <1>1, ModOfSum
<1>3. QED BY <1>1, <1>2 DEF Step

\* A cursor is back after a lap, and not before.
LEMMA StepLap ==
  ASSUME NEW i \in Index
  PROVE  /\ Step(i, 0) = i /\ Step(i, Max) = i
         /\ \A n \in 1 .. Max - 1 : Step(i, n) /= i
<1>1. i \in Int /\ Max \in Int /\ 0 \in Int /\ i + 0 = i
  BY MaxAssumption DEF Index
<1>2. i % Max = i
  BY MaxAssumption DEF Index
<1>3. Max % Max = 0
  BY MaxAssumption
<1>4. Step(i, Max) = i
  <2>1. ((Max % Max) + i) % Max = (Max + i) % Max
    BY <1>1, ModOfSum
  <2>2. (Max % Max) + i = i /\ Max + i = i + Max
    BY <1>1, <1>3
  <2>3. QED BY <1>2, <2>1, <2>2 DEF Step
<1>5. ASSUME NEW n \in 1 .. Max - 1, Step(i, n) = i PROVE FALSE
  <2>1. (i + n) % Max = i % Max /\ i + n \in Int
    BY <1>1, <1>2, <1>5 DEF Step
  <2>2. (i + n) - i < Max /\ i - (i + n) < Max
    BY <1>1
  <2>3. i + n = i
    BY <1>1, <2>1, <2>2, ModUnique
  <2>4. QED BY <1>1, <2>3
<1>6. QED BY <1>1, <1>2, <1>4, <1>5 DEF Step

\* From one slot, moves that differ by less than a lap lead to different slots.
LEMMA StepsDiffer ==
  ASSUME NEW i \in Int, NEW a \in Int, NEW b \in Int, a - b < Max, b - a < Max,
         Step(i, a) = Step(i, b)
  PROVE  a = b
<1>1. /\ i + a \in Int /\ i + b \in Int
      /\ (i + a) - (i + b) < Max /\ (i + b) - (i + a) < Max
  BY MaxAssumption
<1>2. (i + a) % Max = (i + b) % Max
  BY DEF Step
<1>3. i + a = i + b
  BY <1>1, <1>2, ModUnique
<1>4. QED BY <1>3

\* A space computed by get_space from cursors at positions w and r is at most
\* the room there is: always with the formula for head < tail, and with the
\* other one if tail has not passed head.
LEMMA SpaceBound ==
  ASSUME NEW w \in Int, NEW r \in Int, w - r < Max
  PROVE  /\ SpaceOf(TRUE, Step(0, w), Step(0, r)) <= Max - (w - r)
         /\ Step(0, r) <= Step(0, w) =>
              SpaceOf(FALSE, Step(0, w), Step(0, r)) <= Max - (w - r)
<1> DEFINE h == w % Max
           t == r % Max
           q == (w \div Max) - (r \div Max)
           e == (t - h) + (w - r)
<1>1. h \in Index /\ t \in Index /\ q \in Int
  BY ModRange
<1>2. e = q * Max
  <2>1. w = ((w \div Max) * Max) + h /\ w \div Max \in Int
    BY ModRange
  <2>2. r = ((r \div Max) * Max) + t /\ r \div Max \in Int
    BY ModRange
  <2>3. e = ((w \div Max) * Max) - ((r \div Max) * Max)
    <3> HIDE DEF h, t
    <3> QED BY <1>1, <2>1, <2>2, MaxAssumption DEF Index
  <2>4. QED BY <2>1, <2>2, <2>3, MaxAssumption
<1>3. e < 2 * Max
  BY <1>1, MaxAssumption DEF Index
<1>4. q <= 1
  <2>1. SUFFICES ASSUME q >= 2 PROVE FALSE
    BY <1>1
  <2>2. q * Max >= 2 * Max
    <3> HIDE DEF q
    <3> QED BY <1>1, <2>1, MaxAssumption
  <2>3. QED BY <1>2, <1>3, <2>2, <1>1, MaxAssumption DEF Index
<1>5. e <= Max
  <2>1. q * Max <= Max
    <3> HIDE DEF q
    <3> QED BY <1>1, <1>4, MaxAssumption
  <2>2. QED BY <1>2, <2>1
<1>6. ASSUME t <= h PROVE e <= 0
  <2>1. e < Max
    BY <1>1, <1>6, MaxAssumption DEF Index
  <2>2. q <= 0
    <3>1. SUFFICES ASSUME q >= 1 PROVE FALSE
      BY <1>1
    <3>2. q * Max >= Max
      <4> HIDE DEF q
      <4> QED BY <1>1, <3>1, MaxAssumption
    <3>3. QED BY <1>2, <2>1, <3>2, <1>1, MaxAssumption DEF Index
  <2>3. q * Max <= 0
    <3> HIDE DEF q
    <3> QED BY <1>1, <2>2, MaxAssumption
  <2>4. QED BY <1>2, <2>3
<1>7. Step(0, w) = h /\ Step(0, r) = t
  BY DEF Step
<1>8. QED
  BY <1>1, <1>5, <1>6, <1>7, MaxAssumption DEF SpaceOf, Index
=============================================================================
