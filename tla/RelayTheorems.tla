--------------------------- MODULE RelayTheorems ---------------------------
(***************************************************************************)
(* What the operators of Relay give: the frames of a stream, counted by    *)
(* the places where they begin, and how a frame added at the end or taken  *)
(* from the front changes them.                                            *)
(***************************************************************************)
EXTENDS Relay, LeastNumber, SequenceTheorems

-----------------------------------------------------------------------------
(* Counting the members of a set up to one of them.                         *)

Upto(S, i) == {j \in S : j <= i}
Rank(S, i) == Cardinality(Upto(S, i))

\* Every such count is a number, up to the size of the set.
LEMMA RankType ==
  ASSUME NEW n \in Nat, NEW S, \A j \in S : j \in 1 .. n
  PROVE  /\ IsFiniteSet(S) /\ Cardinality(S) \in Nat
         /\ \A i : IsFiniteSet(Upto(S, i)) /\ Rank(S, i) \in Nat /\ Rank(S, i) <= Cardinality(S)
<1>1. IsFiniteSet(1 .. n)
  BY FS_Interval
<1>2. IsFiniteSet(S) /\ Cardinality(S) \in Nat
  <2>1. S \in SUBSET (1 .. n)
    OBVIOUS
  <2>2. QED BY <1>1, <2>1, FS_Subset, FS_CardinalityType
<1>3. ASSUME NEW i
      PROVE  IsFiniteSet(Upto(S, i)) /\ Rank(S, i) \in Nat /\ Rank(S, i) <= Cardinality(S)
  <2>1. Upto(S, i) \in SUBSET S
    BY DEF Upto
  <2>2. QED BY <1>2, <2>1, FS_Subset, FS_CardinalityType DEF Rank
<1>4. QED BY <1>2, <1>3

\* A later member has a higher count.
LEMMA RankGrows ==
  ASSUME NEW n \in Nat, NEW S, \A j \in S : j \in 1 .. n, NEW i \in S, NEW k \in S, i < k
  PROVE  Rank(S, i) < Rank(S, k)
<1>1. IsFiniteSet(Upto(S, k)) /\ Rank(S, i) \in Nat /\ Rank(S, k) \in Nat
  BY RankType
<1>2. Upto(S, i) \in SUBSET Upto(S, k) /\ k \in Upto(S, k) /\ k \notin Upto(S, i)
  BY DEF Upto
<1>3. Rank(S, i) <= Rank(S, k) /\ Rank(S, i) /= Rank(S, k)
  BY <1>1, <1>2, FS_Subset DEF Rank
<1>4. QED BY <1>1, <1>3

\* So no two members have the same.
LEMMA RankUnique ==
  ASSUME NEW n \in Nat, NEW S, \A j \in S : j \in 1 .. n, NEW i \in S, NEW k \in S,
         Rank(S, i) = Rank(S, k)
  PROVE  i = k
<1>1. i \in Int /\ k \in Int /\ Rank(S, i) \in Nat
  BY RankType
<1>2. ASSUME i < k
      PROVE  FALSE
  <2>1. Rank(S, i) < Rank(S, k)
    BY <1>2, RankGrows
  <2>2. QED BY <1>1, <2>1
<1>3. ASSUME k < i
      PROVE  FALSE
  <2>1. Rank(S, k) < Rank(S, i)
    BY <1>3, RankGrows
  <2>2. QED BY <1>1, <2>1
<1>4. QED BY <1>1, <1>2, <1>3

\* Every count up to the size of the set is that of a member: the first place
\* where it is reached.
LEMMA RankReached ==
  ASSUME NEW n \in Nat, NEW S, \A j \in S : j \in 1 .. n, NEW k \in 1 .. Cardinality(S)
  PROVE  \E i \in S : Rank(S, i) = k
<1> DEFINE T == {i \in 0 .. n : Rank(S, i) >= k}
<1>0. Cardinality(S) \in Nat /\ \A i : Rank(S, i) \in Nat /\ IsFiniteSet(Upto(S, i))
  BY RankType
<1>1. Rank(S, n) = Cardinality(S)
  <2>1. Upto(S, n) = S
    BY DEF Upto
  <2>2. QED BY <2>1 DEF Rank
<1>2. n \in T
  BY <1>0, <1>1
<1>3. Rank(S, 0) = 0
  <2>1. Upto(S, 0) = {}
    BY DEF Upto
  <2>2. QED BY <2>1, FS_EmptySet DEF Rank
<1>4. PICK m \in T : \A i \in T : m <= i
  <2>1. T \in SUBSET Nat /\ T /= {}
    BY <1>2
  <2> HIDE DEF T
  <2>2. QED BY <2>1, LeastNumber
<1>5. m \in 1 .. n /\ Rank(S, m) >= k
  BY <1>0, <1>3, <1>4
<1>6. Rank(S, m - 1) < k
  <2>1. m - 1 \in 0 .. n /\ m - 1 \notin T
    BY <1>4, <1>5
  <2>2. QED BY <1>0, <2>1
<1>7. CASE m \notin S
  <2>1. Upto(S, m) = Upto(S, m - 1)
    BY <1>5, <1>7 DEF Upto
  <2>2. QED BY <1>0, <1>5, <1>6, <2>1 DEF Rank
<1>8. CASE m \in S
  <2>0. m \in Int
    BY <1>5
  <2> HIDE DEF T
  <2>1. Upto(S, m) = Upto(S, m - 1) \cup {m}
    <3>1. \A j \in S : j <= m <=> (j <= m - 1 \/ j = m)
      BY <2>0
    <3>2. QED BY <1>8, <3>1, Zenon DEF Upto
  <2>2. m \notin Upto(S, m - 1)
    BY <2>0 DEF Upto
  <2>3. Rank(S, m) = Rank(S, m - 1) + 1
    BY <1>0, <2>1, <2>2, FS_AddElement DEF Rank
  <2>4. Rank(S, m) = k
    BY <1>0, <1>5, <1>6, <2>3
  <2>5. QED BY <1>8, <2>4
<1>9. QED BY <1>7, <1>8

\* Moving a set up does not change its size.
LEMMA ShiftedSize ==
  ASSUME NEW n \in Nat, NEW S, \A j \in S : j \in 1 .. n, NEW m \in Nat
  PROVE  Cardinality({i + m : i \in S}) = Cardinality(S)
<1> DEFINE U == {i + m : i \in S}
           f == [i \in S |-> i + m]
<1>1. IsFiniteSet(S)
  BY RankType
<1>2. f \in Bijection(S, U)
  BY DEF Bijection, Injection, Surjection, IsInjective
<1>3. QED
  <2> HIDE DEF U, f
  <2>1. ExistsBijection(S, U)
    BY <1>2 DEF ExistsBijection
  <2>2. Cardinality(U) = Cardinality(S)
    BY <1>1, <2>1, FS_Bijection
  <2>3. QED BY <2>2 DEF U

-----------------------------------------------------------------------------
(* Where frames begin.                                                      *)

FifoByte == [val : Byte, pos : Nat, left : Nat]
Streams == Seq(FifoByte)

\* A stream has a length and, at every place, a byte.
LEMMA StreamType ==
  ASSUME NEW s \in Streams
  PROVE  /\ Len(s) \in Nat /\ DOMAIN s = 1 .. Len(s)
         /\ \A i \in 1 .. Len(s) :
              s[i] \in FifoByte /\ s[i].val \in Byte /\ s[i].pos \in Nat /\ s[i].left \in Nat
<1>1. Len(s) \in Nat /\ DOMAIN s = 1 .. Len(s)
  BY LenProperties DEF Streams
<1>2. \A i \in 1 .. Len(s) : s[i] \in FifoByte
  BY ElementOfSeq DEF Streams
<1>3. \A b \in FifoByte : b.val \in Byte /\ b.pos \in Nat /\ b.left \in Nat
  BY DEF FifoByte
<1>4. QED BY <1>1, <1>2, <1>3

\* Two streams put together.
LEMMA ConcatType ==
  ASSUME NEW s \in Streams, NEW t \in Streams
  PROVE  /\ s \o t \in Streams /\ Len(s \o t) = Len(s) + Len(t)
         /\ \A i \in 1 .. Len(s) + Len(t) :
              (s \o t)[i] = IF i <= Len(s) THEN s[i] ELSE t[i - Len(s)]
  BY ConcatProperties DEF Streams

\* What of it comes from which.
LEMMA ConcatPlaces ==
  ASSUME NEW s \in Streams, NEW t \in Streams
  PROVE  /\ s \o t \in Streams /\ Len(s \o t) = Len(s) + Len(t)
         /\ \A i \in 1 .. Len(s) : (s \o t)[i] = s[i]
         /\ \A i \in 1 .. Len(t) : (s \o t)[Len(s) + i] = t[i]
<1>0. Len(s) \in Nat /\ Len(t) \in Nat
  BY StreamType
<1>1. \A i \in 1 .. Len(s) : (s \o t)[i] = s[i]
  BY <1>0, ConcatType
<1>2. ASSUME NEW i \in 1 .. Len(t)
      PROVE  (s \o t)[Len(s) + i] = t[i]
  <2>1. Len(s) + i \in 1 .. Len(s) + Len(t) /\ ~ (Len(s) + i <= Len(s)) /\ (Len(s) + i) - Len(s) = i
    BY <1>0
  <2>2. QED BY <2>1, ConcatType
<1>3. QED BY <1>1, <1>2, ConcatType

\* A frame begins at a place of the stream.
LEMMA StartsType ==
  ASSUME NEW s \in Streams
  PROVE  /\ Len(s) \in Nat
         /\ \A i \in Starts(s) : i \in 1 .. Len(s)
         /\ IsFiniteSet(Starts(s)) /\ Cardinality(Starts(s)) \in Nat
<1>1. Len(s) \in Nat /\ \A i \in Starts(s) : i \in 1 .. Len(s)
  BY DEF Streams, Starts
<1>2. QED BY <1>1, RankType

\* The count of a start finds it again.
LEMMA StartOfRank ==
  ASSUME NEW s \in Streams, NEW i \in Starts(s)
  PROVE  StartOf(s, Rank(Starts(s), i)) = i
<1>1. \A k \in Starts(s) : Rank(Starts(s), k) = Rank(Starts(s), i) => k = i
  <2>1. ASSUME NEW k \in Starts(s), Rank(Starts(s), k) = Rank(Starts(s), i)
        PROVE  k = i
    BY <2>1, StartsType, RankUnique
  <2>2. QED BY <2>1
<1>2. QED BY <1>1 DEF StartOf, Rank, Upto

\* There is a k-th start for every k up to their number.
LEMMA StartOfType ==
  ASSUME NEW s \in Streams, NEW k \in 1 .. Cardinality(Starts(s))
  PROVE  StartOf(s, k) \in Starts(s) /\ Rank(Starts(s), StartOf(s, k)) = k
<1>1. PICK i \in Starts(s) : Rank(Starts(s), i) = k
  BY StartsType, RankReached
<1>2. StartOf(s, k) = i
  BY <1>1, StartOfRank
<1>3. QED BY <1>1, <1>2

\* The starts of two streams put together.
LEMMA StartsConcat ==
  ASSUME NEW s \in Streams, NEW t \in Streams
  PROVE  /\ s \o t \in Streams
         /\ Starts(s \o t) = Starts(s) \cup {i + Len(s) : i \in Starts(t)}
<1>1. /\ s \o t \in Streams /\ Len(s) \in Nat /\ Len(t) \in Nat
      /\ DOMAIN s = 1 .. Len(s) /\ DOMAIN t = 1 .. Len(t)
      /\ DOMAIN (s \o t) = 1 .. Len(s) + Len(t)
      /\ \A i \in 1 .. Len(s) + Len(t) :
           (s \o t)[i] = IF i <= Len(s) THEN s[i] ELSE t[i - Len(s)]
  BY ConcatProperties, LenProperties DEF Streams
<1>2. ASSUME NEW i \in Starts(s)
      PROVE  i \in Starts(s \o t)
  BY <1>1 DEF Starts
<1>3. ASSUME NEW i \in Starts(t)
      PROVE  i + Len(s) \in Starts(s \o t)
  <2>1. i \in 1 .. Len(t) /\ t[i].pos = 0
    BY <1>1 DEF Starts
  <2>2. i + Len(s) \in 1 .. Len(s) + Len(t) /\ ~ (i + Len(s) <= Len(s)) /\ (i + Len(s)) - Len(s) = i
    BY <1>1, <2>1
  <2>3. (s \o t)[i + Len(s)] = t[i]
    BY <1>1, <2>2
  <2>4. QED BY <1>1, <2>1, <2>2, <2>3 DEF Starts
<1>4. ASSUME NEW i \in Starts(s \o t)
      PROVE  i \in Starts(s) \cup {k + Len(s) : k \in Starts(t)}
  <2>1. i \in 1 .. Len(s) + Len(t) /\ (s \o t)[i].pos = 0
    BY <1>1 DEF Starts
  <2>2. CASE i <= Len(s)
    BY <1>1, <2>1, <2>2 DEF Starts
  <2>3. CASE ~ (i <= Len(s))
    <3>1. i - Len(s) \in 1 .. Len(t) /\ i = (i - Len(s)) + Len(s)
      BY <1>1, <2>1, <2>3
    <3>2. t[i - Len(s)].pos = 0
      BY <1>1, <2>1, <2>3
    <3>3. i - Len(s) \in Starts(t)
      BY <1>1, <3>1, <3>2 DEF Starts
    <3>4. QED BY <3>1, <3>3
  <2>4. QED BY <2>2, <2>3
<1>5. QED BY <1>1, <1>2, <1>3, <1>4

-----------------------------------------------------------------------------
(* The payloads of a stream.                                                *)

\* The frame that begins at i lies in the stream with its last byte.
Fits(s) == \A i \in Starts(s) : i + s[i].left <= Len(s)

\* A stream of one frame.
OneFrame(f) == f \in Streams /\ Starts(f) = {1} /\ Fits(f)

\* A payload that lies in the first of two streams is read from it alone.
LEMMA PayloadInFirst ==
  ASSUME NEW s \in Streams, NEW t \in Streams, NEW i \in Starts(s), i + s[i].left <= Len(s)
  PROVE  PayloadAt(s \o t, i) = PayloadAt(s, i)
<1>1. /\ i \in 1 .. Len(s) /\ Len(s) \in Nat /\ Len(t) \in Nat /\ s[i].left \in Nat
      /\ \A k \in 1 .. Len(s) : (s \o t)[k] = s[k]
  <2>1. i \in 1 .. Len(s) /\ Len(s) \in Nat /\ Len(t) \in Nat
    BY StartsType
  <2>2. \A k \in 1 .. Len(s) : (s \o t)[k] = s[k]
    BY <2>1, ConcatType
  <2>3. QED BY <2>1, <2>2, StreamType
<1>2. \A j \in 1 .. s[i].left - 1 : i + 1 + j \in 1 .. Len(s)
  BY <1>1
<1>3. (s \o t)[i] = s[i]
  BY <1>1
<1>4. \A j \in 1 .. s[i].left - 1 : (s \o t)[i + 1 + j].val = s[i + 1 + j].val
  BY <1>1, <1>2
<1>5. QED BY <1>3, <1>4 DEF PayloadAt

\* One that lies in the second is read from it, further up.
LEMMA PayloadInSecond ==
  ASSUME NEW s \in Streams, NEW t \in Streams, NEW i \in Starts(t), i + t[i].left <= Len(t)
  PROVE  PayloadAt(s \o t, i + Len(s)) = PayloadAt(t, i)
<1>1. /\ i \in 1 .. Len(t) /\ Len(s) \in Nat /\ Len(t) \in Nat /\ t[i].left \in Nat
      /\ \A k \in 1 .. Len(s) + Len(t) :
           (s \o t)[k] = IF k <= Len(s) THEN s[k] ELSE t[k - Len(s)]
  BY ConcatType, StreamType, StartsType
<1>2. ASSUME NEW k \in 1 .. Len(t)
      PROVE  (s \o t)[k + Len(s)] = t[k]
  <2>1. k + Len(s) \in 1 .. Len(s) + Len(t) /\ ~ (k + Len(s) <= Len(s)) /\ (k + Len(s)) - Len(s) = k
    BY <1>1
  <2>2. QED BY <1>1, <2>1
<1>3. (s \o t)[i + Len(s)] = t[i]
  BY <1>1, <1>2
<1>4. ASSUME NEW j \in 1 .. t[i].left - 1
      PROVE  (s \o t)[i + Len(s) + 1 + j].val = t[i + 1 + j].val
  <2>1. i + 1 + j \in 1 .. Len(t) /\ i + Len(s) + 1 + j = (i + 1 + j) + Len(s)
    BY <1>1
  <2>2. QED BY <1>2, <2>1
<1>5. QED BY <1>3, <1>4 DEF PayloadAt

\* Payloads are sequences of bytes, as many as there are starts.
LEMMA PayloadsType ==
  ASSUME NEW s \in Streams, Fits(s)
  PROVE  /\ PayloadsOf(s) \in Seq(Seq(Byte))
         /\ Len(PayloadsOf(s)) = Cardinality(Starts(s))
<1> DEFINE n == Cardinality(Starts(s))
           p(k) == PayloadAt(s, StartOf(s, k))
<1>1. n \in Nat
  BY StartsType
<1>2. ASSUME NEW i \in Starts(s)
      PROVE  PayloadAt(s, i) \in Seq(Byte)
  <2>1. i \in 1 .. Len(s) /\ Len(s) \in Nat /\ s[i].left \in Nat /\ i + s[i].left <= Len(s)
    BY StartsType, StreamType DEF Fits
  <2>2. ASSUME NEW j \in 1 .. s[i].left - 1
        PROVE  s[i + 1 + j].val \in Byte
    <3>1. i + 1 + j \in 1 .. Len(s)
      BY <2>1
    <3>2. QED BY <3>1, StreamType
  <2>3. CASE s[i].left = 0
    <3>1. 1 .. s[i].left - 1 = 1 .. 0
      BY <2>3
    <3>2. PayloadAt(s, i) \in [1 .. 0 -> Byte]
      BY <2>2, <3>1 DEF PayloadAt
    <3>3. QED BY <3>2, SeqDef
  <2>4. CASE s[i].left /= 0
    <3>1. s[i].left - 1 \in Nat /\ PayloadAt(s, i) \in [1 .. s[i].left - 1 -> Byte]
      BY <2>1, <2>2, <2>4 DEF PayloadAt
    <3>2. QED BY <3>1, SeqDef
  <2>5. QED BY <2>3, <2>4
<1>3. PayloadsOf(s) \in [1 .. n -> Seq(Byte)]
  BY <1>2, StartOfType DEF PayloadsOf
<1>4. PayloadsOf(s) \in Seq(Seq(Byte)) /\ Len(PayloadsOf(s)) = n
  <2> HIDE DEF n
  <2>1. PayloadsOf(s) \in Seq(Seq(Byte))
    BY <1>1, <1>3, SeqDef
  <2>2. DOMAIN PayloadsOf(s) = 1 .. n
    BY <1>3
  <2>3. QED BY <1>1, <2>1, <2>2, LenProperties
<1>5. QED BY <1>4

\* The payload of a frame that a stream of one frame holds.
LEMMA OneFrameFits ==
  ASSUME NEW f, OneFrame(f)
  PROVE  /\ Len(f) \in Nat /\ f[1].left \in Nat /\ 1 + f[1].left <= Len(f)
         /\ Cardinality(Starts(f)) = 1 /\ 1 \in Starts(f)
         /\ PayloadAt(f, 1) \in Seq(Byte)
<1>1. f \in Streams /\ Starts(f) = {1} /\ Fits(f)
  BY DEF OneFrame
<1>2. Len(f) \in Nat /\ 1 \in 1 .. Len(f) /\ f[1].left \in Nat /\ 1 + f[1].left <= Len(f)
  BY <1>1, StartsType, StreamType DEF Fits
<1>3. Cardinality(Starts(f)) = 1
  BY <1>1, FS_Singleton
<1>4. StartOf(f, 1) = 1
  <2>1. 1 \in 1 .. Cardinality(Starts(f))
    BY <1>3
  <2>2. QED BY <1>1, <2>1, StartOfType
<1>5. PayloadsOf(f)[1] \in Seq(Byte) /\ PayloadsOf(f)[1] = PayloadAt(f, 1)
  <2>1. PayloadsOf(f) \in Seq(Seq(Byte)) /\ Len(PayloadsOf(f)) = 1
    BY <1>1, <1>3, PayloadsType
  <2>2. PayloadsOf(f)[1] = PayloadAt(f, 1)
    BY <1>3, <1>4 DEF PayloadsOf
  <2>3. QED BY <2>1, <2>2, ElementOfSeq
<1>6. QED BY <1>1, <1>2, <1>3, <1>5

\* A frame put at the end of a stream is one payload more.
LEMMA FrameAppended ==
  ASSUME NEW s \in Streams, Fits(s), NEW f, OneFrame(f)
  PROVE  PayloadsOf(s \o f) = Append(PayloadsOf(s), PayloadAt(f, 1))
<1> DEFINE n == Len(s)
           S == Starts(s)
           U == Starts(s \o f)
           m == Cardinality(S)
<1>1. /\ f \in Streams /\ Starts(f) = {1} /\ 1 + f[1].left <= Len(f)
      /\ n \in Nat /\ m \in Nat /\ IsFiniteSet(S)
      /\ \A i \in S : i \in 1 .. n
  BY OneFrameFits, StartsType DEF OneFrame
<1>2. s \o f \in Streams /\ U = S \cup {n + 1}
  BY <1>1, StartsConcat
<1>3. n + 1 \notin S
  BY <1>1
<1>4. Cardinality(U) = m + 1
  BY <1>1, <1>2, <1>3, FS_AddElement
<1>5. \A i \in S : Rank(U, i) = Rank(S, i)
  <2>1. ASSUME NEW i \in S
        PROVE  Upto(U, i) = Upto(S, i)
    <3>1. ~ (n + 1 <= i)
      BY <1>1
    <3>2. QED BY <1>2, <3>1 DEF Upto
  <2>2. QED BY <2>1 DEF Rank
<1>6. Rank(U, n + 1) = m + 1
  <2>1. \A i \in U : i <= n + 1
    BY <1>1, <1>2
  <2>2. Upto(U, n + 1) = U
    BY <2>1 DEF Upto
  <2>3. QED BY <1>4, <2>2 DEF Rank
<1>7. ASSUME NEW k \in 1 .. m
      PROVE  PayloadAt(s \o f, StartOf(s \o f, k)) = PayloadAt(s, StartOf(s, k))
  <2> DEFINE i == StartOf(s, k)
  <2>1. i \in S /\ Rank(S, i) = k
    BY StartOfType
  <2>2. i \in U /\ Rank(U, i) = k
    BY <1>2, <1>5, <2>1
  <2>3. StartOf(s \o f, k) = i
    BY <1>2, <2>2, StartOfRank
  <2>4. i + s[i].left <= Len(s)
    BY <2>1 DEF Fits
  <2>5. QED BY <1>1, <2>1, <2>3, <2>4, PayloadInFirst
<1>8. PayloadAt(s \o f, StartOf(s \o f, m + 1)) = PayloadAt(f, 1)
  <2>1. n + 1 \in U
    BY <1>2
  <2>2. StartOf(s \o f, m + 1) = n + 1
    BY <1>2, <1>6, <2>1, StartOfRank
  <2>3. n + 1 = 1 + Len(s) /\ 1 \in Starts(f)
    BY <1>1
  <2>4. QED BY <1>1, <2>2, <2>3, PayloadInSecond
<1>9. QED
  <2> DEFINE p == PayloadsOf(s)
             e == PayloadAt(f, 1)
             q(k) == PayloadAt(s \o f, StartOf(s \o f, k))
  <2>1. p \in Seq(Seq(Byte)) /\ Len(p) = m /\ e \in Seq(Byte)
    BY PayloadsType, OneFrameFits
  <2>2. PayloadsOf(s \o f) = [k \in 1 .. m + 1 |-> q(k)]
    BY <1>4 DEF PayloadsOf
  <2>3. \A k \in 1 .. m : q(k) = p[k]
    BY <1>7 DEF PayloadsOf
  <2>4. q(m + 1) = e
    BY <1>8
  <2>5. /\ Append(p, e) \in Seq(Seq(Byte)) /\ Len(Append(p, e)) = m + 1
        /\ Append(p, e)[m + 1] = e /\ \A k \in 1 .. m : Append(p, e)[k] = p[k]
    <3> HIDE DEF p, e
    <3>1. QED BY <2>1, AppendProperties
  <2>6. Append(p, e) = [k \in 1 .. m + 1 |-> Append(p, e)[k]]
    <3> HIDE DEF p, e
    <3>1. DOMAIN Append(p, e) = 1 .. m + 1 /\ Append(p, e) \in [1 .. m + 1 -> Seq(Byte)]
      BY <2>5, LenProperties
    <3>2. QED BY <3>1
  <2>7. \A k \in 1 .. m + 1 : q(k) = Append(p, e)[k]
    <3> HIDE DEF p, e, q, m
    <3>1. \A k \in 1 .. m + 1 : k \in 1 .. m \/ k = m + 1
      BY <1>1
    <3>2. QED BY <2>3, <2>4, <2>5, <3>1, Zenon
  <2>8. QED
    <3> HIDE DEF p, e, q, m
    <3>1. QED BY <2>2, <2>6, <2>7 DEF p, e

\* A frame put in front of a stream is a payload in front of the others.
LEMMA FrameInFront ==
  ASSUME NEW s \in Streams, Fits(s), NEW f, OneFrame(f)
  PROVE  /\ f \o s \in Streams /\ Fits(f \o s)
         /\ PayloadsOf(f \o s) /= <<>>
         /\ Head(PayloadsOf(f \o s)) = PayloadAt(f, 1)
         /\ Tail(PayloadsOf(f \o s)) = PayloadsOf(s)
<1> DEFINE n == Len(f)
           S == Starts(s)
           moved == {i + n : i \in S}
           U == Starts(f \o s)
           m == Cardinality(S)
<1>1. /\ f \in Streams /\ Starts(f) = {1} /\ 1 + f[1].left <= n /\ f[1].left \in Nat
      /\ n \in Nat \ {0} /\ m \in Nat /\ IsFiniteSet(S) /\ Len(s) \in Nat
      /\ \A i \in S : i \in 1 .. Len(s)
  BY OneFrameFits, StartsType DEF OneFrame
<1>2. f \o s \in Streams /\ U = {1} \cup moved
  BY <1>1, StartsConcat
<1>3. IsFiniteSet(U) /\ \A i \in U : i \in 1 .. Len(f \o s)
  BY <1>2, StartsType
<1>4. ASSUME NEW V \in SUBSET S
      PROVE  Cardinality({1} \cup {i + n : i \in V}) = Cardinality(V) + 1
  <2> DEFINE up == {i + n : i \in V}
  <2>1. \A i \in V : i \in 1 .. Len(s)
    BY <1>1
  <2>2. Cardinality(up) = Cardinality(V)
    BY <1>1, <2>1, ShiftedSize
  <2>3. 1 \notin up
    BY <1>1, <2>1
  <2>4. IsFiniteSet(up)
    <3>1. up \in SUBSET U
      BY <1>2
    <3>2. QED BY <1>3, <3>1, FS_Subset
  <2>5. Cardinality(up \cup {1}) = Cardinality(up) + 1
    <3> HIDE DEF up
    <3>1. QED BY <2>3, <2>4, FS_AddElement
  <2>6. up \cup {1} = {1} \cup up
    OBVIOUS
  <2>7. QED BY <2>2, <2>5, <2>6
<1>5. Cardinality(U) = m + 1
  BY <1>2, <1>4
<1>6. ASSUME NEW i \in S
      PROVE  i + n \in U /\ Rank(U, i + n) = Rank(S, i) + 1
  <2>1. Upto(S, i) \in SUBSET S
    BY DEF Upto
  <2>2. \A j \in S : j + n <= i + n <=> j <= i
    BY <1>1
  <2>3. 1 <= i + n
    BY <1>1
  <2>4. Upto(U, i + n) = {1} \cup {j + n : j \in Upto(S, i)}
    BY <1>2, <2>2, <2>3, Zenon DEF Upto
  <2>5. QED BY <1>2, <1>4, <2>1, <2>4 DEF Rank
<1>7. Rank(U, 1) = 1
  <2>1. \A i \in S : ~ (i + n <= 1)
    BY <1>1
  <2>2. 1 <= 1
    OBVIOUS
  <2>3. Upto(U, 1) = {1}
    BY <1>2, <2>1, <2>2, Zenon DEF Upto
  <2>4. QED BY <2>3, FS_Singleton DEF Rank
<1>8. Fits(f \o s)
  <2>1. Len(f \o s) = n + Len(s) /\ (f \o s)[1] = f[1]
    BY <1>1, ConcatType
  <2>2. 1 + (f \o s)[1].left <= Len(f \o s)
    BY <1>1, <2>1
  <2>3. ASSUME NEW i \in S
        PROVE  (i + n) + (f \o s)[i + n].left <= Len(f \o s)
    <3>1. i + n \in 1 .. n + Len(s) /\ ~ (i + n <= n) /\ (i + n) - n = i
      BY <1>1
    <3>2. (f \o s)[i + n] = s[i]
      BY <1>1, <3>1, ConcatType
    <3>3. i + s[i].left <= Len(s) /\ s[i].left \in Nat
      BY <1>1, StreamType DEF Fits
    <3>4. QED BY <1>1, <2>1, <3>2, <3>3
  <2>4. QED BY <1>2, <2>2, <2>3 DEF Fits
<1>9. PayloadAt(f \o s, StartOf(f \o s, 1)) = PayloadAt(f, 1)
  <2>1. 1 \in U
    BY <1>2
  <2>2. StartOf(f \o s, 1) = 1
    BY <1>2, <1>7, <2>1, StartOfRank
  <2>3. QED BY <1>1, <2>2, PayloadInFirst
<1>10. ASSUME NEW k \in 1 .. m
       PROVE  PayloadAt(f \o s, StartOf(f \o s, k + 1)) = PayloadAt(s, StartOf(s, k))
  <2> DEFINE i == StartOf(s, k)
  <2>1. i \in S /\ Rank(S, i) = k
    BY StartOfType
  <2>2. i + n \in U /\ Rank(U, i + n) = k + 1
    BY <1>6, <2>1
  <2>3. StartOf(f \o s, k + 1) = i + n
    BY <1>2, <2>2, StartOfRank
  <2>4. i + s[i].left <= Len(s)
    BY <2>1 DEF Fits
  <2>5. QED BY <1>1, <2>1, <2>3, <2>4, PayloadInSecond
<1>11. QED
  <2> DEFINE p == PayloadsOf(s)
             q == PayloadsOf(f \o s)
  <2>1. p \in Seq(Seq(Byte)) /\ Len(p) = m /\ q \in Seq(Seq(Byte)) /\ Len(q) = m + 1
    BY <1>2, <1>5, <1>8, PayloadsType
  <2>2. q[1] = PayloadAt(f, 1)
    BY <1>1, <1>5, <1>9 DEF PayloadsOf
  <2>3. \A k \in 1 .. m : q[k + 1] = p[k]
    <3>1. ASSUME NEW k \in 1 .. m
          PROVE  q[k + 1] = p[k]
      <4>1. k + 1 \in 1 .. m + 1
        BY <1>1
      <4>2. q[k + 1] = PayloadAt(f \o s, StartOf(f \o s, k + 1)) /\ p[k] = PayloadAt(s, StartOf(s, k))
        BY <1>5, <4>1 DEF PayloadsOf
      <4>3. QED BY <1>10, <4>2
    <3>2. QED BY <3>1
  <2>4. q /= <<>>
    <3> HIDE DEF p, q, m
    <3>1. QED BY <1>1, <2>1
  <2>5. Tail(q) \in Seq(Seq(Byte)) /\ Len(Tail(q)) = m /\ \A k \in 1 .. m : Tail(q)[k] = q[k + 1]
    <3> HIDE DEF p, q, m
    <3>1. QED BY <1>1, <2>1, <2>4, HeadTailProperties
  <2>6. Tail(q) = p
    <3> HIDE DEF p, q, m
    <3>1. \A k \in 1 .. Len(Tail(q)) : Tail(q)[k] = p[k]
      BY <2>3, <2>5
    <3>2. QED BY <2>1, <2>5, <3>1, SeqEqual
  <2>7. Head(q) = PayloadAt(f, 1)
    <3> HIDE DEF p, q, m
    <3>1. Head(q) = q[1]
      BY <2>1, <2>4
    <3>2. QED BY <2>2, <3>1
  <2>8. QED BY <1>2, <1>8, <2>4, <2>6, <2>7

-----------------------------------------------------------------------------
(* Streams of whole frames.                                                 *)

\* What a stream of whole frames says of one place and of the next.
LEMMA WholeStep ==
  ASSUME NEW s \in Streams, WholeFrames(s), NEW i \in 1 .. Len(s)
  PROVE  /\ s[1].pos = 0
         /\ i = Len(s) => s[i].left = 0
         /\ i < Len(s) /\ s[i].left = 0 => s[i + 1].pos = 0
         /\ i < Len(s) /\ s[i].left /= 0 =>
              s[i + 1].pos = s[i].pos + 1 /\ s[i + 1].left = s[i].left - 1
<1>1. Len(s) \in Nat /\ s /= <<>>
  BY StreamType
<1>2. /\ s[1].pos = 0 /\ s[Len(s)].left = 0
      /\ \A k \in 1 .. Len(s) - 1 :
           IF s[k].left = 0 THEN s[k + 1].pos = 0
           ELSE s[k + 1].pos = s[k].pos + 1 /\ s[k + 1].left = s[k].left - 1
  BY <1>1 DEF WholeFrames
<1>3. i < Len(s) => i \in 1 .. Len(s) - 1
  BY <1>1
<1>4. QED BY <1>2, <1>3

\* No frame runs over the end: go from the last byte backwards.
LEMMA WholeFits ==
  ASSUME NEW s \in Streams, WholeFrames(s), NEW i \in 1 .. Len(s)
  PROVE  i + s[i].left <= Len(s)
<1> DEFINE bad(d) == ~ ((Len(s) - d) + s[Len(s) - d].left <= Len(s))
           T == {d \in 0 .. Len(s) - 1 : bad(d)}
<1>0. Len(s) \in Nat
  BY StreamType
<1>1. ASSUME T /= {}
      PROVE  FALSE
  <2>1. PICK d \in T : \A e \in T : d <= e
    <3>1. T \in SUBSET Nat
      BY <1>0
    <3> HIDE DEF T
    <3>2. QED BY <1>1, <3>1, LeastNumber
  <2> DEFINE k == Len(s) - d
  <2>2. d \in 0 .. Len(s) - 1 /\ ~ (k + s[k].left <= Len(s))
    OBVIOUS
  <2>3. k \in 1 .. Len(s)
    BY <1>0, <2>2
  <2>4. s[k].left \in Nat
    BY <2>3, StreamType
  <2>5. k < Len(s) /\ s[k].left /= 0
    BY <1>0, <2>2, <2>3, <2>4, WholeStep
  <2>6. s[k + 1].left = s[k].left - 1
    BY <2>3, <2>5, WholeStep
  <2>7. d - 1 \in 0 .. Len(s) - 1 /\ Len(s) - (d - 1) = k + 1
    BY <1>0, <2>2, <2>5
  <2>8. bad(d - 1)
    BY <1>0, <2>2, <2>4, <2>5, <2>6, <2>7
  <2>9. d - 1 \in T
    BY <2>7, <2>8
  <2>10. d <= d - 1
    BY <2>1, <2>9
  <2>11. QED BY <2>2, <2>10
<1>2. Len(s) - i \in 0 .. Len(s) - 1 /\ Len(s) - (Len(s) - i) = i
  BY <1>0
<1>3. ~ bad(Len(s) - i)
  BY <1>1, <1>2
<1>4. QED BY <1>2, <1>3

\* In particular those that begin in it.
LEMMA WholeAreFit ==
  ASSUME NEW s \in Streams, WholeFrames(s)
  PROVE  Fits(s)
  BY WholeFits, StartsType DEF Fits

\* Up to the end of a frame the positions go up and the numbers left go down,
\* one by one.
LEMMA WholeRuns ==
  ASSUME NEW s \in Streams, WholeFrames(s), NEW i \in 1 .. Len(s), NEW j \in 0 .. s[i].left
  PROVE  /\ i + j \in 1 .. Len(s)
         /\ s[i + j].pos = s[i].pos + j /\ s[i + j].left = s[i].left - j
<1> DEFINE good(k) == s[i + k].pos = s[i].pos + k /\ s[i + k].left = s[i].left - k
           T == {k \in 0 .. s[i].left : ~ good(k)}
<1>0. /\ Len(s) \in Nat /\ s[i].left \in Nat /\ s[i].pos \in Nat
      /\ i + s[i].left <= Len(s)
  BY StreamType, WholeFits
<1>1. good(0)
  BY <1>0
<1>2. ASSUME T /= {}
      PROVE  FALSE
  <2>1. PICK k \in T : \A e \in T : k <= e
    <3>1. T \in SUBSET Nat
      BY <1>0
    <3> HIDE DEF T
    <3>2. QED BY <1>2, <3>1, LeastNumber
  <2>2. k \in 1 .. s[i].left /\ ~ good(k)
    BY <1>0, <1>1, <2>1
  <2>3. k - 1 \in 0 .. s[i].left /\ ~ (k <= k - 1)
    BY <1>0, <2>2
  <2>4. good(k - 1)
    <3> HIDE DEF good
    <3>1. QED BY <2>1, <2>3
  <2> DEFINE m == i + (k - 1)
  <2>5. m \in 1 .. Len(s) /\ m < Len(s) /\ m + 1 = i + k
    BY <1>0, <2>2
  <2>6. s[m].pos = s[i].pos + (k - 1) /\ s[m].left = s[i].left - (k - 1)
    BY <2>4
  <2>7. s[m].left /= 0
    BY <1>0, <2>2, <2>6
  <2>8. s[m + 1].pos = s[m].pos + 1 /\ s[m + 1].left = s[m].left - 1
    BY <2>5, <2>7, WholeStep
  <2>9. s[i + k].pos = s[i].pos + k /\ s[i + k].left = s[i].left - k
    <3>1. /\ s[i + k].pos = (s[i].pos + (k - 1)) + 1
          /\ s[i + k].left = (s[i].left - (k - 1)) - 1
      BY <2>5, <2>6, <2>8
    <3>2. k \in Int
      BY <1>0, <2>2
    <3>3. \A p \in Nat : (p + (k - 1)) + 1 = p + k /\ (p - (k - 1)) - 1 = p - k
      BY <3>2
    <3>4. QED BY <1>0, <3>1, <3>3
  <2>10. QED BY <2>2, <2>9
<1>3. good(j)
  BY <1>2
<1>4. QED BY <1>0, <1>3

\* Two streams of whole frames make one.
LEMMA WholeConcat ==
  ASSUME NEW s \in Streams, WholeFrames(s), NEW t \in Streams, WholeFrames(t)
  PROVE  WholeFrames(s \o t)
<1> DEFINE u == s \o t
<1>0. Len(s) \in Nat /\ Len(t) \in Nat
  BY StreamType
<1>1. /\ u \in Streams /\ Len(u) = Len(s) + Len(t)
      /\ \A i \in 1 .. Len(s) : u[i] = s[i]
      /\ \A i \in 1 .. Len(t) : u[Len(s) + i] = t[i]
  BY ConcatPlaces
<1> HIDE DEF u
<1>2. CASE Len(s) = 0
  <2>1. u = t
    <3>1. \A i \in 1 .. Len(u) : u[i] = t[i] /\ Len(u) = Len(t)
      BY <1>0, <1>1, <1>2
    <3>2. QED BY <1>0, <1>1, <1>2, <3>1, SeqEqual DEF Streams
  <2>2. QED BY <2>1 DEF u
<1>3. CASE Len(t) = 0
  <2>1. u = s
    <3>1. \A i \in 1 .. Len(u) : u[i] = s[i] /\ Len(u) = Len(s)
      BY <1>0, <1>1, <1>3
    <3>2. QED BY <1>0, <1>1, <1>3, <3>1, SeqEqual DEF Streams
  <2>2. QED BY <2>1 DEF u
<1>4. CASE Len(s) /= 0 /\ Len(t) /= 0
  <2>1. u[1].pos = 0
    <3>1. 1 \in 1 .. Len(s)
      BY <1>0, <1>4
    <3>2. QED BY <1>1, <3>1, WholeStep
  <2>2. u[Len(u)].left = 0
    <3>1. Len(t) \in 1 .. Len(t)
      BY <1>0, <1>4
    <3>2. QED BY <1>1, <3>1, WholeStep
  <2>3. ASSUME NEW i \in 1 .. Len(u) - 1
        PROVE  IF u[i].left = 0 THEN u[i + 1].pos = 0
               ELSE u[i + 1].pos = u[i].pos + 1 /\ u[i + 1].left = u[i].left - 1
    <3>1. CASE i < Len(s)
      <4>1. i \in 1 .. Len(s) /\ i + 1 \in 1 .. Len(s)
        BY <1>0, <1>1, <3>1
      <4>2. u[i] = s[i] /\ u[i + 1] = s[i + 1]
        BY <1>1, <4>1
      <4>3. QED BY <3>1, <4>1, <4>2, WholeStep
    <3>2. CASE i = Len(s)
      <4>1. i \in 1 .. Len(s) /\ 1 \in 1 .. Len(t) /\ i + 1 = Len(s) + 1
        BY <1>0, <1>4, <3>2
      <4>2. u[i] = s[i] /\ u[i + 1] = t[1]
        BY <1>1, <4>1
      <4>3. s[i].left = 0 /\ t[1].pos = 0
        BY <3>2, <4>1, WholeStep
      <4>4. QED BY <4>2, <4>3
    <3>3. CASE i > Len(s)
      <4> DEFINE k == i - Len(s)
      <4>1. /\ k \in 1 .. Len(t) /\ k + 1 \in 1 .. Len(t) /\ k < Len(t)
            /\ i = Len(s) + k /\ i + 1 = Len(s) + (k + 1)
        BY <1>0, <1>1, <3>3
      <4> HIDE DEF k
      <4>2. u[i] = t[k] /\ u[i + 1] = t[k + 1]
        BY <1>1, <4>1
      <4>3. QED BY <4>1, <4>2, WholeStep
    <3>4. QED BY <1>0, <3>1, <3>2, <3>3
  <2>4. WholeFrames(u)
    BY <2>1, <2>2, <2>3 DEF WholeFrames
  <2>5. QED BY <2>4 DEF u
<1>5. QED BY <1>2, <1>3, <1>4

\* What follows the end of a frame in such a stream is one.
LEMMA WholeSuffix ==
  ASSUME NEW s \in Streams, NEW t \in Streams, WholeFrames(s \o t),
         s = <<>> \/ s[Len(s)].left = 0
  PROVE  WholeFrames(t)
<1> DEFINE u == s \o t
<1>0. Len(s) \in Nat /\ Len(t) \in Nat
  BY StreamType
<1>1. /\ u \in Streams /\ WholeFrames(u) /\ Len(u) = Len(s) + Len(t)
      /\ \A i \in 1 .. Len(s) : u[i] = s[i]
      /\ \A i \in 1 .. Len(t) : u[Len(s) + i] = t[i]
  BY ConcatPlaces
<1> HIDE DEF u
<1>2. SUFFICES ASSUME t /= <<>>
               PROVE  WholeFrames(t)
  BY DEF WholeFrames
<1>3. Len(t) \in Nat \ {0}
  BY <1>2, EmptySeq DEF Streams
<1>4. t[1].pos = 0
  <2>1. u[Len(s) + 1] = t[1]
    <3>1. 1 \in 1 .. Len(t)
      BY <1>3
    <3>2. QED BY <1>1, <3>1
  <2>2. CASE Len(s) = 0
    <3>1. 1 \in 1 .. Len(u)
      BY <1>1, <1>3, <2>2
    <3>2. QED BY <1>1, <2>1, <2>2, <3>1, WholeStep
  <2>3. CASE Len(s) /= 0
    <3>1. Len(s) \in 1 .. Len(s) /\ Len(s) \in 1 .. Len(u) /\ Len(s) < Len(u)
      BY <1>0, <1>1, <1>3, <2>3
    <3>2. s[Len(s)].left = 0
      BY <2>3
    <3>3. u[Len(s)].left = 0
      BY <1>1, <3>1, <3>2
    <3>4. u[Len(s) + 1].pos = 0
      BY <1>1, <3>1, <3>3, WholeStep
    <3>5. QED BY <2>1, <3>4
  <2>4. QED BY <2>2, <2>3
<1>5. t[Len(t)].left = 0
  <2>1. Len(t) \in 1 .. Len(t) /\ Len(u) \in 1 .. Len(u)
    BY <1>0, <1>1, <1>3
  <2>2. u[Len(u)] = t[Len(t)]
    BY <1>1, <2>1
  <2>3. QED BY <1>1, <2>1, <2>2, WholeStep
<1>6. ASSUME NEW i \in 1 .. Len(t) - 1
      PROVE  IF t[i].left = 0 THEN t[i + 1].pos = 0
             ELSE t[i + 1].pos = t[i].pos + 1 /\ t[i + 1].left = t[i].left - 1
  <2> DEFINE k == Len(s) + i
  <2>1. /\ i \in 1 .. Len(t) /\ i + 1 \in 1 .. Len(t)
        /\ k \in 1 .. Len(u) /\ k < Len(u) /\ k + 1 = Len(s) + (i + 1)
    BY <1>0, <1>1, <1>3
  <2>2. u[k] = t[i] /\ u[k + 1] = t[i + 1]
    BY <1>1, <2>1
  <2> HIDE DEF k
  <2>3. /\ u[k].left = 0 => u[k + 1].pos = 0
        /\ u[k].left /= 0 => u[k + 1].pos = u[k].pos + 1 /\ u[k + 1].left = u[k].left - 1
    BY <1>1, <2>1, WholeStep
  <2>4. QED BY <2>2, <2>3
<1>7. QED BY <1>4, <1>5, <1>6 DEF WholeFrames

\* In such a stream a byte that is lost shows: what is left is none, provided
\* that the first byte of a frame is not its last.
LEMMA LossShows ==
  ASSUME NEW s \in Streams, NEW t \in Streams, t /= <<>>, WholeFrames(s \o t),
         \A i \in 1 .. Len(t) : t[i].pos = 0 => t[i].left /= 0
  PROVE  ~ WholeFrames(s \o Tail(t))
<1> SUFFICES ASSUME WholeFrames(s \o Tail(t))
             PROVE  FALSE
  OBVIOUS
<1> DEFINE u == s \o t
           r == Tail(t)
           v == s \o r
           n == Len(s)
<1>0. Len(s) \in Nat /\ Len(t) \in Nat \ {0}
  BY StreamType, EmptySeq DEF Streams
<1>1. r \in Streams /\ Len(r) = Len(t) - 1 /\ \A i \in 1 .. Len(r) : r[i] = t[i + 1]
  BY HeadTailProperties DEF Streams
<1>2. /\ u \in Streams /\ WholeFrames(u) /\ Len(u) = n + Len(t)
      /\ \A i \in 1 .. n : u[i] = s[i]
      /\ \A i \in 1 .. Len(t) : u[n + i] = t[i]
  BY ConcatPlaces
<1>3. /\ v \in Streams /\ WholeFrames(v) /\ Len(v) = n + Len(r)
      /\ \A i \in 1 .. n : v[i] = s[i]
      /\ \A i \in 1 .. Len(r) : v[n + i] = r[i]
  <2> HIDE DEF r
  <2>1. QED BY <1>1, ConcatPlaces DEF r
<1> HIDE DEF u, v, r
<1>4. t[1].pos \in Nat /\ t[1].left \in Nat /\ u[n + 1] = t[1]
  <2>1. 1 \in 1 .. Len(t)
    BY <1>0
  <2>2. QED BY <1>2, <2>1, StreamType
<1>5. CASE Len(t) = 1
  \* The byte before is the end of a frame, so the lost one began and ended one.
  <2>1. n + 1 \in 1 .. Len(u) /\ n + 1 = Len(u)
    BY <1>0, <1>2, <1>5
  <2>2. t[1].left = 0
    BY <1>2, <1>4, <2>1, WholeStep
  <2>3. t[1].pos = 0
    <3>1. CASE n = 0
      <4>1. u[1].pos = 0
        BY <1>2, <2>1, WholeStep
      <4>2. QED BY <1>4, <3>1, <4>1
    <3>2. CASE n /= 0
      <4>1. n \in 1 .. n /\ n \in 1 .. Len(u) /\ n < Len(u) /\ n \in 1 .. Len(v) /\ n = Len(v)
        BY <1>0, <1>1, <1>2, <1>3, <1>5, <3>2
      <4>2. v[n].left = 0
        BY <1>3, <4>1, WholeStep
      <4>3. u[n].left = 0
        BY <1>2, <1>3, <4>1, <4>2
      <4>4. u[n + 1].pos = 0
        BY <1>2, <4>1, <4>3, WholeStep
      <4>5. QED BY <1>4, <4>4
    <3>3. QED BY <3>1, <3>2
  <2>4. 1 \in 1 .. Len(t)
    BY <1>0
  <2>5. QED BY <2>2, <2>3, <2>4
<1>6. CASE Len(t) /= 1
  \* The byte after it has come to its place.
  <2>1. /\ 1 \in 1 .. Len(t) /\ 2 \in 1 .. Len(t) /\ 1 \in 1 .. Len(r)
        /\ n + 1 \in 1 .. Len(u) /\ n + 1 < Len(u) /\ n + 1 \in 1 .. Len(v)
        /\ (n + 1) + 1 = n + 2
    BY <1>0, <1>1, <1>2, <1>3, <1>6
  <2>2. u[n + 2] = t[2]
    BY <1>2, <2>1
  <2>3. v[n + 1] = t[2]
    <3>1. v[n + 1] = r[1] /\ r[1] = t[1 + 1]
      BY <1>1, <1>3, <2>1
    <3>2. QED BY <3>1
  <2>4. /\ t[1].left = 0 => t[2].pos = 0
        /\ t[1].left /= 0 => t[2].pos = t[1].pos + 1
    <3>1. /\ u[n + 1].left = 0 => u[(n + 1) + 1].pos = 0
          /\ u[n + 1].left /= 0 => u[(n + 1) + 1].pos = u[n + 1].pos + 1
      BY <1>2, <2>1, WholeStep
    <3>2. QED BY <1>4, <2>1, <2>2, <3>1
  <2>5. CASE n = 0
    <3>1. u[1].pos = 0 /\ v[1].pos = 0
      BY <1>2, <1>3, <2>1, WholeStep
    <3>2. t[1].pos = 0 /\ t[2].pos = 0
      BY <1>4, <2>3, <2>5, <3>1
    <3>3. t[1].left /= 0
      BY <2>1, <3>2
    <3>4. QED BY <1>4, <2>4, <3>2, <3>3
  <2>6. CASE n /= 0
    <3>1. n \in 1 .. n /\ n \in 1 .. Len(u) /\ n < Len(u) /\ n \in 1 .. Len(v) /\ n < Len(v)
      BY <1>0, <2>1, <2>6
    <3>2. u[n] = s[n] /\ v[n] = s[n] /\ s[n].pos \in Nat
      BY <1>2, <1>3, <3>1, StreamType
    <3>3. CASE s[n].left = 0
      <4>1. t[1].pos = 0 /\ t[2].pos = 0
        <5>1. u[n + 1].pos = 0 /\ v[n + 1].pos = 0
          BY <1>2, <1>3, <3>1, <3>2, <3>3, WholeStep
        <5>2. QED BY <1>4, <2>3, <5>1
      <4>2. t[1].left /= 0
        BY <2>1, <4>1
      <4>3. QED BY <1>4, <2>4, <4>1, <4>2
    <3>4. CASE s[n].left /= 0
      <4>1. t[1].pos = s[n].pos + 1 /\ t[2].pos = s[n].pos + 1
        <5>1. u[n + 1].pos = u[n].pos + 1 /\ v[n + 1].pos = v[n].pos + 1
          <6>1. u[n].left /= 0 /\ v[n].left /= 0
            BY <3>2, <3>4
          <6>2. u[n + 1].pos = u[n].pos + 1
            BY <1>2, <3>1, <6>1, WholeStep
          <6>3. v[n + 1].pos = v[n].pos + 1
            BY <1>3, <3>1, <6>1, WholeStep
          <6>4. QED BY <6>2, <6>3
        <5>2. QED BY <1>4, <2>3, <3>2, <5>1
      <4>2. QED BY <1>4, <2>4, <3>2, <4>1
    <3>5. QED BY <3>3, <3>4
  <2>7. QED BY <2>5, <2>6
<1>7. QED BY <1>5, <1>6

\* If a stream of whole frames begins with as many bytes as its first byte
\* announces, then these are one frame, and whole frames follow.
LEMMA FirstFrame ==
  ASSUME NEW f \in Streams, NEW s \in Streams, f /= <<>>, WholeFrames(f \o s),
         Len(f) = f[1].left + 1
  PROVE  OneFrame(f) /\ WholeFrames(s)
<1> DEFINE u == f \o s
<1>0. Len(f) \in Nat \ {0} /\ Len(s) \in Nat
  BY StreamType, EmptySeq DEF Streams
<1>1. /\ u \in Streams /\ WholeFrames(u) /\ Len(u) = Len(f) + Len(s)
      /\ \A i \in 1 .. Len(f) : u[i] = f[i]
  BY ConcatPlaces
<1> HIDE DEF u
<1>2. 1 \in 1 .. Len(f) /\ 1 \in 1 .. Len(u) /\ f[1].left \in Nat
  BY <1>0, <1>1, StreamType
<1>3. u[1] = f[1] /\ f[1].pos = 0
  BY <1>1, <1>2, WholeStep
<1>4. ASSUME NEW i \in 1 .. Len(f)
      PROVE  f[i].pos = i - 1 /\ f[i].left = f[1].left - (i - 1)
  <2>1. i - 1 \in 0 .. u[1].left /\ 1 + (i - 1) = i
    BY <1>2, <1>3
  <2>2. u[1 + (i - 1)].pos = u[1].pos + (i - 1) /\ u[1 + (i - 1)].left = u[1].left - (i - 1)
    BY <1>1, <1>2, <2>1, WholeRuns
  <2>3. u[i] = f[i]
    BY <1>1
  <2>4. QED BY <1>3, <2>1, <2>2, <2>3
<1>5. Starts(f) = {1}
  <2>1. \A i \in 1 .. Len(f) : f[i].pos = 0 <=> i = 1
    BY <1>4
  <2>2. DOMAIN f = 1 .. Len(f)
    BY StreamType
  <2>3. QED BY <1>2, <2>1, <2>2 DEF Starts
<1>6. Fits(f)
  BY <1>0, <1>2, <1>5 DEF Fits
<1>7. f[Len(f)].left = 0
  <2>1. Len(f) \in 1 .. Len(f)
    BY <1>0
  <2>2. f[Len(f)].left = f[1].left - (Len(f) - 1)
    BY <1>4, <2>1
  <2>3. QED BY <1>0, <1>2, <2>2
<1>8. WholeFrames(s)
  BY <1>1, <1>7, WholeSuffix DEF u
<1>9. QED BY <1>5, <1>6, <1>8 DEF OneFrame
=============================================================================
