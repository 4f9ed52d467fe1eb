---------------------------- MODULE RelayProofs ----------------------------
(***************************************************************************)
(* The client relay for any payloads, any size of a packet that the two    *)
(* bytes of a length can tell, and a FIFO of any depth.                    *)
(***************************************************************************)
EXTENDS RelayTheorems

-----------------------------------------------------------------------------
(* The inductive invariant.                                                 *)

\* The bytes of a length tell the length of the frame they are in.
TrueByte(b) ==
  LET n == b.pos + b.left - 1
  IN  /\ n \in 1 .. MAX_PACKET_SIZE
      /\ b.pos = 0 => b.val = n % Base
      /\ b.pos = 1 => b.val = n \div Base

TrueBytes(s) == \A i \in 1 .. Len(s) : TrueByte(s[i])

Looping == pc \in {"header", "payload"}

\* Choice 3 makes up bytes, but sends them before the loop can see them.
BytesTrue == TrueBytes(fifo) /\ TrueBytes(rest) /\ (Looping => TrueBytes(taken))

\* The end of a frame.
EndOfFrame(s) ==
  \A i \in 1 .. Len(s) : s[i].left = Len(s) - i /\ s[i].pos = s[1].pos + i - 1

\* What the client has in hand when it is where.
Phase ==
  /\ pc \in {"empty", "handshake", "menu"} => taken = <<>>
  /\ pc = "header" => Len(taken) <= 1
  /\ pc = "payload" =>
       Len(taken) >= 2 /\ CurrentSize <= PacketLen(taken) /\ ~ InvalidLen(PacketLen(taken))
  /\ pc = "amount" => ~clean

IInv == TypeOK /\ BytesTrue /\ EndOfFrame(rest) /\ Phase /\ EmptyingFindsStep

-----------------------------------------------------------------------------
(* Lengths of two bytes, and frames.                                        *)

\* Division with remainder.
LEMMA DivMod ==
  ASSUME NEW n \in Nat, NEW b \in Nat \ {0}
  PROVE  n % b \in 0 .. b - 1 /\ n \div b \in Nat /\ (n % b) + b * (n \div b) = n
  OBVIOUS

\* A number below the square of b has one digit above its lowest.
LEMMA TwoDigits ==
  ASSUME NEW n \in Nat, NEW b \in Nat \ {0}, n <= b * b - 1
  PROVE  n \div b \in 0 .. b - 1
<1> DEFINE q == n \div b
<1>1. q \in Nat /\ b * q <= n
  BY DivMod
<1>2. ASSUME q >= b
      PROVE  FALSE
  <2>1. b * q >= b * b
    <3> HIDE DEF q
    <3>1. QED BY <1>1, <1>2
  <2>2. QED BY <1>1, <2>1
<1>3. QED BY <1>1, <1>2

\* The lengths of payloads fit into the two bytes.
LEMMA LengthFits ==
  ASSUME NEW n \in 1 .. MAX_PACKET_SIZE
  PROVE  n % Base \in Byte /\ n \div Base \in Byte
<1>1. Base \in Nat \ {0} /\ MAX_PACKET_SIZE \in Nat /\ MAX_PACKET_SIZE <= Base * Base - 1
  BY SizeAssumption
<1>2. n \in Nat /\ n <= Base * Base - 1
  BY <1>1
<1>3. QED BY <1>1, <1>2, DivMod, TwoDigits DEF Byte

\* The bytes of a frame.
LEMMA FrameBytes ==
  ASSUME NEW payload \in Payloads
  PROVE  LET n == Len(payload)
         IN  /\ payload \in Seq(Byte) /\ n \in 1 .. MAX_PACKET_SIZE
             /\ Frame(payload) \in Streams /\ Len(Frame(payload)) = n + 2
             /\ \A i \in 1 .. n + 2 :
                  /\ Frame(payload)[i].pos = i - 1 /\ Frame(payload)[i].left = n + 2 - i
                  /\ i = 1 => Frame(payload)[i].val = n % Base
                  /\ i = 2 => Frame(payload)[i].val = n \div Base
                  /\ i > 2 => Frame(payload)[i].val = payload[i - 2]
<1> DEFINE n == Len(payload)
           head == <<n % Base, n \div Base>>
           bytes == head \o payload
           f == [i \in 1 .. n + 2 |-> [val |-> bytes[i], pos |-> i - 1, left |-> n + 2 - i]]
<1>1. payload \in Seq(Byte) /\ n \in 1 .. MAX_PACKET_SIZE
  <2>1. PICK m \in 1 .. MAX_PACKET_SIZE : payload \in [1 .. m -> Byte]
    BY DEF Payloads
  <2>2. m \in Nat
    BY SizeAssumption
  <2>3. payload \in Seq(Byte)
    BY <2>1, <2>2, SeqDef
  <2>4. Len(payload) = m
    BY <2>1, <2>2, <2>3, LenProperties
  <2>5. QED BY <2>1, <2>3, <2>4
<1>2. n \in Nat /\ n % Base \in Byte /\ n \div Base \in Byte
  BY <1>1, LengthFits
<1>3. /\ \A i \in 1 .. n + 2 : bytes[i] \in Byte
      /\ bytes[1] = n % Base /\ bytes[2] = n \div Base
      /\ \A i \in 1 .. n + 2 : i > 2 => bytes[i] = payload[i - 2]
  <2>1. head \in Seq(Byte) /\ Len(head) = 2 /\ head[1] = n % Base /\ head[2] = n \div Base
    BY <1>2
  <2> HIDE DEF head, n
  <2>2. /\ bytes \in Seq(Byte) /\ Len(bytes) = n + 2
        /\ \A i \in 1 .. n + 2 : bytes[i] = IF i <= 2 THEN head[i] ELSE payload[i - 2]
    <3>1. Len(payload) = n
      BY DEF n
    <3>2. /\ bytes \in Seq(Byte) /\ Len(bytes) = Len(head) + Len(payload)
          /\ \A i \in 1 .. Len(head) + Len(payload) :
               bytes[i] = IF i <= Len(head) THEN head[i] ELSE payload[i - Len(head)]
      BY <1>1, <2>1, ConcatProperties
    <3>3. Len(head) + Len(payload) = n + 2
      BY <1>2, <2>1, <3>1
    <3> HIDE DEF bytes
    <3>4. QED BY <2>1, <3>2, <3>3
  <2> HIDE DEF bytes
  <2>3. \A i \in 1 .. n + 2 : bytes[i] \in Byte
    BY <2>2, ElementOfSeq
  <2>4. 1 \in 1 .. n + 2 /\ 2 \in 1 .. n + 2
    BY <1>2
  <2>5. QED BY <2>1, <2>2, <2>3, <2>4
<1>4. Frame(payload) = f
  BY DEF Frame
<1> HIDE DEF n, head, bytes
<1>5. f \in [1 .. n + 2 -> FifoByte]
  BY <1>2, <1>3 DEF FifoByte
<1>6. f \in Streams /\ Len(f) = n + 2
  <2>1. n + 2 \in Nat /\ DOMAIN f = 1 .. n + 2
    BY <1>2
  <2> HIDE DEF f
  <2>2. f \in Seq(FifoByte)
    BY <1>5, <2>1, SeqDef
  <2>3. QED BY <2>1, <2>2, LenProperties DEF Streams
<1>7. \A i \in 1 .. n + 2 : f[i].val = bytes[i] /\ f[i].pos = i - 1 /\ f[i].left = n + 2 - i
  OBVIOUS
<1> HIDE DEF f
<1>8. QED BY <1>1, <1>3, <1>4, <1>6, <1>7 DEF n

\* The end of a frame that is all of it is a stream of one frame.
LEMMA EndIsFrame ==
  ASSUME NEW s \in Streams, s /= <<>>, EndOfFrame(s), s[1].pos = 0
  PROVE  OneFrame(s) /\ WholeFrames(s)
<1>0. Len(s) \in Nat \ {0}
  BY StreamType, EmptySeq DEF Streams
<1>1. \A i \in 1 .. Len(s) : s[i].left = Len(s) - i /\ s[i].pos = i - 1
  BY <1>0 DEF EndOfFrame
<1>2. Starts(s) = {1}
  <2>1. \A i \in 1 .. Len(s) : s[i].pos = 0 <=> i = 1
    BY <1>1
  <2>2. 1 \in 1 .. Len(s) /\ DOMAIN s = 1 .. Len(s)
    BY <1>0, StreamType
  <2>3. QED BY <2>1, <2>2 DEF Starts
<1>3. Fits(s)
  <2>1. 1 \in 1 .. Len(s)
    BY <1>0
  <2>2. s[1].left = Len(s) - 1
    BY <1>1, <2>1
  <2>3. QED BY <1>0, <1>2, <2>2 DEF Fits
<1>4. s[Len(s)].left = 0
  <2>1. Len(s) \in 1 .. Len(s)
    BY <1>0
  <2>2. s[Len(s)].left = Len(s) - Len(s)
    BY <1>1, <2>1
  <2>3. QED BY <1>0, <2>2
<1>5. ASSUME NEW i \in 1 .. Len(s) - 1
      PROVE  s[i].left /= 0 /\ s[i + 1].pos = s[i].pos + 1 /\ s[i + 1].left = s[i].left - 1
  <2>1. i \in 1 .. Len(s) /\ i + 1 \in 1 .. Len(s)
    BY <1>0
  <2>2. /\ s[i].left = Len(s) - i /\ s[i].pos = i - 1
        /\ s[i + 1].left = Len(s) - (i + 1) /\ s[i + 1].pos = (i + 1) - 1
    BY <1>1, <2>1
  <2>3. QED BY <1>0, <2>2
<1>6. WholeFrames(s)
  BY <1>4, <1>5 DEF WholeFrames
<1>7. QED BY <1>2, <1>3, <1>6 DEF OneFrame

\* The frame of a payload is one, tells its length and gives the payload back.
LEMMA FrameIsFrame ==
  ASSUME NEW payload \in Payloads
  PROVE  LET f == Frame(payload)
         IN  /\ f \in Streams /\ f /= <<>> /\ f[1].pos = 0
             /\ EndOfFrame(f) /\ TrueBytes(f) /\ OneFrame(f) /\ WholeFrames(f)
             /\ PayloadAt(f, 1) = payload
<1> DEFINE n == Len(payload)
           f == Frame(payload)
<1>1. /\ payload \in Seq(Byte) /\ n \in 1 .. MAX_PACKET_SIZE
      /\ f \in Streams /\ Len(f) = n + 2
      /\ \A i \in 1 .. n + 2 :
           /\ f[i].pos = i - 1 /\ f[i].left = n + 2 - i
           /\ i = 1 => f[i].val = n % Base
           /\ i = 2 => f[i].val = n \div Base
           /\ i > 2 => f[i].val = payload[i - 2]
  BY FrameBytes
<1>2. n \in Nat \ {0} /\ 1 \in 1 .. n + 2
  BY <1>1, SizeAssumption
<1> HIDE DEF n, f
<1>3. f /= <<>>
  <2>1. Len(<<>>) = 0
    OBVIOUS
  <2>2. QED BY <1>1, <1>2, <2>1
<1>4. f[1].pos = 0
  <2>1. f[1].pos = 1 - 1
    BY <1>1, <1>2
  <2>2. QED BY <2>1
<1>5. EndOfFrame(f)
  BY <1>1, <1>2, <1>4 DEF EndOfFrame
<1>6. TrueBytes(f)
  <2>1. ASSUME NEW i \in 1 .. n + 2
        PROVE  TrueByte(f[i])
    <3>1. f[i].pos = i - 1 /\ f[i].left = n + 2 - i
      BY <1>1
    <3>2. f[i].pos + f[i].left - 1 = n
      BY <1>2, <3>1
    <3>3. f[i].pos = 0 => i = 1
      BY <3>1
    <3>4. f[i].pos = 1 => i = 2
      BY <3>1
    <3>5. QED BY <1>1, <3>2, <3>3, <3>4 DEF TrueByte
  <2>2. QED BY <1>1, <2>1 DEF TrueBytes
<1>7. PayloadAt(f, 1) = payload
  <2>1. f[1].left - 1 = n
    <3>1. f[1].left = n + 2 - 1
      BY <1>1, <1>2
    <3>2. QED BY <1>2, <3>1
  <2>2. ASSUME NEW j \in 1 .. n
        PROVE  f[1 + 1 + j].val = payload[j]
    <3>1. 1 + 1 + j \in 1 .. n + 2 /\ 1 + 1 + j > 2 /\ (1 + 1 + j) - 2 = j
      BY <1>2
    <3>2. f[1 + 1 + j].val = payload[(1 + 1 + j) - 2]
      BY <1>1, <3>1
    <3>3. QED BY <3>1, <3>2
  <2>3. payload = [j \in 1 .. n |-> payload[j]]
    <3>1. DOMAIN payload = 1 .. n /\ payload \in [1 .. n -> Byte]
      BY <1>1, LenProperties DEF n
    <3>2. QED BY <3>1
  <2>4. QED BY <2>1, <2>2, <2>3 DEF PayloadAt
<1>8. QED BY <1>1, <1>3, <1>4, <1>5, <1>6, <1>7, EndIsFrame DEF f

-----------------------------------------------------------------------------
(* Bytes that move.                                                         *)

\* The first byte of one sequence goes to the end of the other.
LEMMA MoveByte ==
  ASSUME NEW s \in Streams, NEW t \in Streams, t /= <<>>
  PROVE  /\ Append(s, Head(t)) \in Streams /\ Tail(t) \in Streams
         /\ Append(s, Head(t)) \o Tail(t) = s \o t
<1> USE DEF Streams
<1>1. Head(t) \in FifoByte /\ Tail(t) \in Streams /\ Append(s, Head(t)) \in Streams
  BY HeadTailProperties, AppendProperties
<1>2. Append(s, Head(t)) = s \o <<Head(t)>> /\ <<Head(t)>> \in Streams
  BY <1>1, AppendIsConcat
<1>3. <<Head(t)>> \o Tail(t) = t
  <2>1. Len(t) \in Nat \ {0}
    BY EmptySeq
  <2>2. 1 \in 1 .. Len(t) /\ Len(t) \in 1 .. Len(t) /\ Head(t) = t[1]
    BY <2>1
  <2>3. SubSeq(t, 1, Len(t)) = <<t[1]>> \o SubSeq(t, 1 + 1, Len(t))
    BY <2>2, SubSeqRecursiveFirst
  <2>4. SubSeq(t, 1, Len(t)) = t /\ Tail(t) = SubSeq(t, 2, Len(t))
    BY SubSeqFull, TailIsSubSeq
  <2>5. QED BY <2>2, <2>3, <2>4
<1>4. (s \o <<Head(t)>>) \o Tail(t) = s \o (<<Head(t)>> \o Tail(t))
  BY <1>1, <1>2, ConcatAssociative
<1>5. QED BY <1>1, <1>2, <1>3, <1>4

\* Its place changes nothing about a byte.
LEMMA MoveTrue ==
  ASSUME NEW s \in Streams, NEW t \in Streams, t /= <<>>, TrueBytes(t)
  PROVE  TrueBytes(Tail(t)) /\ (TrueBytes(s) => TrueBytes(Append(s, Head(t))))
<1>0. Len(s) \in Nat /\ Len(t) \in Nat \ {0}
  BY StreamType, EmptySeq DEF Streams
<1>1. /\ Head(t) = t[1] /\ Head(t) \in FifoByte
      /\ Len(Tail(t)) = Len(t) - 1 /\ \A i \in 1 .. Len(Tail(t)) : Tail(t)[i] = t[i + 1]
  BY HeadTailProperties DEF Streams
<1>2. TrueBytes(Tail(t))
  <2>1. \A i \in 1 .. Len(Tail(t)) : i + 1 \in 1 .. Len(t)
    BY <1>0, <1>1
  <2>2. QED BY <1>1, <2>1 DEF TrueBytes
<1>3. ASSUME TrueBytes(s)
      PROVE  TrueBytes(Append(s, Head(t)))
  <2>1. /\ Len(Append(s, Head(t))) = Len(s) + 1
        /\ \A i \in 1 .. Len(s) : Append(s, Head(t))[i] = s[i]
        /\ Append(s, Head(t))[Len(s) + 1] = Head(t)
    BY <1>1, AppendProperties DEF Streams
  <2>2. TrueByte(Head(t))
    <3>1. 1 \in 1 .. Len(t)
      BY <1>0
    <3>2. QED BY <1>1, <3>1 DEF TrueBytes
  <2>3. \A i \in 1 .. Len(s) + 1 : i \in 1 .. Len(s) \/ i = Len(s) + 1
    BY <1>0
  <2>4. QED BY <1>3, <2>1, <2>2, <2>3, Zenon DEF TrueBytes
<1>4. QED BY <1>2, <1>3

\* Of the end of a frame there is less and less.
LEMMA EndShrinks ==
  ASSUME NEW s \in Streams, s /= <<>>, EndOfFrame(s)
  PROVE  EndOfFrame(Tail(s))
<1>0. Len(s) \in Nat \ {0}
  BY StreamType, EmptySeq DEF Streams
<1>1. Len(Tail(s)) = Len(s) - 1 /\ \A i \in 1 .. Len(Tail(s)) : Tail(s)[i] = s[i + 1]
  BY HeadTailProperties DEF Streams
<1>2. ASSUME NEW i \in 1 .. Len(Tail(s))
      PROVE  Tail(s)[i].left = Len(Tail(s)) - i /\ Tail(s)[i].pos = Tail(s)[1].pos + i - 1
  <2>1. i + 1 \in 1 .. Len(s) /\ 2 \in 1 .. Len(s) /\ 1 \in 1 .. Len(s) /\ 1 \in 1 .. Len(Tail(s))
    BY <1>0, <1>1
  <2>2. /\ s[i + 1].left = Len(s) - (i + 1) /\ s[i + 1].pos = s[1].pos + (i + 1) - 1
        /\ s[2].pos = s[1].pos + 2 - 1 /\ s[1].pos \in Nat
    BY <2>1, StreamType DEF EndOfFrame
  <2>3. Tail(s)[i] = s[i + 1] /\ Tail(s)[1] = s[2]
    <3>1. Tail(s)[1] = s[1 + 1]
      BY <1>1, <2>1
    <3>2. QED BY <1>1, <3>1
  <2>4. QED BY <1>0, <1>1, <2>2, <2>3
<1>3. QED BY <1>2 DEF EndOfFrame

\* In step the first two bytes tell how long the frame is that they begin.
LEMMA LengthTold ==
  ASSUME NEW s \in Streams, NEW t \in Streams, Len(s) >= 2,
         WholeFrames(s \o t), TrueBytes(s)
  PROVE  PacketLen(s) = s[1].left - 1 /\ ~ InvalidLen(PacketLen(s))
<1>1. /\ Len(s) \in Nat /\ Len(t) \in Nat /\ 1 \in 1 .. Len(s) /\ 2 \in 1 .. Len(s)
      /\ s \o t \in Streams /\ Len(s \o t) = Len(s) + Len(t)
  BY StreamType, ConcatType
<1>2. /\ s[1].val \in Nat /\ s[1].pos \in Nat /\ s[1].left \in Nat
      /\ s[2].val \in Nat /\ s[2].pos \in Nat /\ s[2].left \in Nat
  BY <1>1, StreamType, SizeAssumption DEF Byte
<1>3. (s \o t)[1] = s[1] /\ (s \o t)[1 + 1] = s[2]
  BY <1>1, ConcatPlaces
<1>4. /\ s[1].pos = 0
      /\ s[1].left /= 0 => s[2].pos = s[1].pos + 1 /\ s[2].left = s[1].left - 1
  <2>1. 1 \in 1 .. Len(s \o t) /\ 1 < Len(s \o t)
    BY <1>1
  <2>2. /\ (s \o t)[1].pos = 0
        /\ (s \o t)[1].left /= 0 => /\ (s \o t)[1 + 1].pos = (s \o t)[1].pos + 1
                                    /\ (s \o t)[1 + 1].left = (s \o t)[1].left - 1
    BY <1>1, <2>1, WholeStep
  <2>3. QED BY <1>3, <2>2
<1>5. TrueByte(s[1]) /\ TrueByte(s[2])
  BY <1>1 DEF TrueBytes
<1> DEFINE n == s[1].left - 1
<1>6. n \in 1 .. MAX_PACKET_SIZE /\ s[1].val = n % Base
  <2>1. s[1].pos + s[1].left - 1 = n
    BY <1>2, <1>4
  <2>2. QED BY <1>4, <1>5, <2>1 DEF TrueByte
<1>7. n \in Nat /\ n <= MAX_PACKET_SIZE /\ MAX_PACKET_SIZE \in Nat /\ Base \in Nat \ {0}
  BY <1>6, SizeAssumption
<1>8. s[2].pos = 1 /\ s[2].left = n
  <2>1. s[1].left /= 0
    BY <1>2, <1>6, SizeAssumption
  <2>2. QED BY <1>4, <2>1
<1>9. s[2].val = n \div Base
  <2>1. s[2].pos + s[2].left - 1 = n
    BY <1>7, <1>8
  <2>2. QED BY <1>5, <1>8, <2>1 DEF TrueByte
<1>10. PacketLen(s) = n
  <2>1. (n % Base) + Base * (n \div Base) = n
    BY <1>7, DivMod
  <2>2. QED BY <1>6, <1>9, <2>1 DEF PacketLen
<1>11. QED BY <1>7, <1>10 DEF InvalidLen

\* What the loop sends of a frame it has read to its end is the payload.
LEMMA FrameSent ==
  ASSUME NEW s \in Streams, s /= <<>>, Len(s) = s[1].left + 1
  PROVE  SubSeq(Values(s), 3, Len(s)) = PayloadAt(s, 1)
<1>1. Len(s) \in Nat \ {0} /\ DOMAIN s = 1 .. Len(s) /\ s[1].left - 1 = Len(s) - 2
  <2>1. Len(s) \in Nat \ {0} /\ DOMAIN s = 1 .. Len(s)
    BY StreamType, EmptySeq DEF Streams
  <2>2. s[1].left \in Nat
    BY <2>1, StreamType
  <2>3. QED BY <2>1, <2>2
<1> DEFINE n == Len(s)
           v == Values(s)
<1>2. v = [i \in 1 .. n |-> s[i].val]
  BY <1>1 DEF Values
<1> HIDE DEF n, v
<1>3. SubSeq(v, 3, n) = [j \in 1 .. n - 2 |-> s[1 + 1 + j].val]
  <2>1. SubSeq(v, 3, n) = [j \in 1 .. 1 + n - 3 |-> v[3 + j - 1]]
    BY <1>1 DEF n
  <2>2. 1 + n - 3 = n - 2
    BY <1>1 DEF n
  <2>3. ASSUME NEW j \in 1 .. n - 2
        PROVE  v[3 + j - 1] = s[1 + 1 + j].val
    <3>1. 3 + j - 1 \in 1 .. n /\ 3 + j - 1 = 1 + 1 + j
      BY <1>1 DEF n
    <3>2. QED BY <1>2, <3>1
  <2>4. QED BY <2>1, <2>2, <2>3
<1>4. QED BY <1>1, <1>3 DEF PayloadAt, n, v

-----------------------------------------------------------------------------
(* The invariant is inductive.                                              *)

\* What the variables hold are bytes of frames.
LEMMA StreamsHeld ==
  TypeOK => /\ rest \in Streams /\ fifo \in Streams /\ taken \in Streams
            /\ Len(fifo) \in Nat /\ Len(taken) \in Nat
            /\ taken \o fifo \in Streams /\ Stream \in Streams
<1> SUFFICES ASSUME TypeOK
             PROVE  /\ rest \in Streams /\ fifo \in Streams /\ taken \in Streams
                    /\ Len(fifo) \in Nat /\ Len(taken) \in Nat
                    /\ taken \o fifo \in Streams /\ Stream \in Streams
  OBVIOUS
<1>1. rest \in Streams /\ fifo \in Streams /\ taken \in Streams
  BY DEF TypeOK, Streams, FifoByte
<1>2. taken \o fifo \in Streams
  BY <1>1, ConcatType
<1>3. (taken \o fifo) \o rest \in Streams
  BY <1>1, <1>2, ConcatType
<1>4. QED BY <1>1, <1>2, <1>3, StreamType DEF Stream

\* Nothing is a stream of whole frames.
LEMMA NothingIsWhole == <<>> \in Streams /\ WholeFrames(<<>>)
BY DEF WholeFrames, Streams

\* What an earlier run left in the FIFO is the end of a frame.
LEMMA LeftOver ==
  ASSUME NEW payload \in Payloads, NEW n, n \in 0 .. Len(payload) + 2
  PROVE  LET s == SubSeq(Frame(payload), Len(payload) + 3 - n, Len(payload) + 2)
         IN  s \in Streams /\ Len(s) = n /\ TrueBytes(s)
<1> DEFINE m == Len(payload) + 2
           f == Frame(payload)
           s == SubSeq(f, m + 1 - n, m)
<1>1. m \in Nat /\ n \in Nat /\ n <= m /\ f \in Streams /\ Len(f) = m /\ TrueBytes(f)
  <2>1. Len(payload) \in 1 .. MAX_PACKET_SIZE
    BY FrameBytes
  <2>2. Len(payload) \in Nat
    BY <2>1, SizeAssumption
  <2>3. QED BY <2>2, FrameBytes, FrameIsFrame
<1>2. Len(payload) + 3 - n = m + 1 - n
  <2>1. Len(payload) \in 1 .. MAX_PACKET_SIZE
    BY FrameBytes
  <2>2. Len(payload) \in Nat
    BY <2>1, SizeAssumption
  <2>3. QED BY <1>1, <2>2
<1> HIDE DEF m, f
<1>3. /\ s \in Seq(FifoByte) /\ Len(s) = n
      /\ \A i \in 1 .. n : s[i] = f[(m + 1 - n) + i - 1]
  <2>1. /\ m + 1 - n \in Int /\ m \in Int /\ m - (m + 1 - n) + 1 = n
        /\ n /= 0 => m + 1 - n <= m
        /\ n = 0 => ~ (m + 1 - n <= m)
    BY <1>1
  <2>2. \A i \in m + 1 - n .. m : f[i] \in FifoByte
    <3>1. \A i \in m + 1 - n .. m : i \in 1 .. m
      BY <1>1
    <3>2. QED BY <1>1, <3>1, StreamType
  <2>3. /\ s \in Seq(FifoByte)
        /\ Len(s) = IF m + 1 - n <= m THEN m - (m + 1 - n) + 1 ELSE 0
        /\ \A i \in 1 .. m - (m + 1 - n) + 1 : s[i] = f[(m + 1 - n) + i - 1]
    <3> DEFINE a == m + 1 - n
    <3>1. a \in Int /\ m \in Int /\ \A i \in a .. m : f[i] \in FifoByte
      BY <2>1, <2>2
    <3> HIDE DEF a
    <3>2. /\ SubSeq(f, a, m) \in Seq(FifoByte)
          /\ Len(SubSeq(f, a, m)) = IF a <= m THEN m - a + 1 ELSE 0
          /\ \A i \in 1 .. m - a + 1 : SubSeq(f, a, m)[i] = f[a + i - 1]
      BY <3>1, SubSeqProperties
    <3>3. QED BY <3>2 DEF a
  <2> HIDE DEF s
  <2>4. QED BY <2>1, <2>3
<1>4. TrueBytes(s)
  <2>1. \A i \in 1 .. n : (m + 1 - n) + i - 1 \in 1 .. Len(f)
    BY <1>1
  <2>2. QED BY <1>1, <1>3, <2>1 DEF TrueBytes
<1>5. QED BY <1>2, <1>3, <1>4 DEF Streams, m, f

\* It holds when run_client starts.
LEMMA IInvInit == Init => IInv
<1> SUFFICES ASSUME Init
             PROVE  IInv
  OBVIOUS
<1>1. /\ rest = <<>> /\ taken = <<>> /\ given = <<>> /\ sent = <<>>
      /\ debug \in BOOLEAN /\ amount = 0 /\ losses = 0 /\ failure = FALSE /\ clean = FALSE
      /\ pc = "menu" \/ pc = "empty"
  BY DEF Init
<1>2. fifo \in Streams /\ Len(fifo) <= FifoDepth /\ TrueBytes(fifo)
  <2>1. PICK payload \in Payloads :
          \E n \in 0 .. Len(payload) + 2 :
            /\ n <= FifoDepth
            /\ fifo = SubSeq(Frame(payload), Len(payload) + 3 - n, Len(payload) + 2)
    BY DEF Init
  <2>2. PICK n \in 0 .. Len(payload) + 2 :
          /\ n <= FifoDepth
          /\ fifo = SubSeq(Frame(payload), Len(payload) + 3 - n, Len(payload) + 2)
    BY <2>1
  <2>3. QED BY <2>2, LeftOver
<1>3. TypeOK
  <2>1. losses \in 0 .. MaxLosses /\ amount \in Amounts \cup {0}
    BY <1>1, LossesAssumption
  <2>2. debug \in BOOLEAN /\ failure \in BOOLEAN /\ clean \in BOOLEAN
    BY <1>1
  <2>3. /\ rest \in Streams /\ taken \in Streams /\ given \in Seq(Byte) /\ sent \in Seq(Byte)
        /\ pc \notin {"header", "payload"}
    BY <1>1 DEF Streams
  <2>4. pc \in {"empty", "handshake", "header", "payload", "menu", "amount"}
    BY <1>1
  <2>5. QED BY <1>2, <2>1, <2>2, <2>3, <2>4, Zenon DEF TypeOK, Streams, FifoByte
<1>4. BytesTrue
  <2>1. TrueBytes(<<>>)
    BY DEF TrueBytes
  <2>2. QED BY <1>1, <1>2, <2>1 DEF BytesTrue
<1>5. EndOfFrame(rest)
  BY <1>1 DEF EndOfFrame
<1>6. Phase
  BY <1>1 DEF Phase
<1>7. EmptyingFindsStep
  BY <1>1 DEF EmptyingFindsStep
<1>8. QED BY <1>3, <1>4, <1>5, <1>6, <1>7 DEF IInv

\* A byte out of the FIFO is in the stream still, if it goes where it is read to.
LEMMA ByteRead ==
  TypeOK /\ BytesTrue /\ ReadByte =>
    /\ fifo' \in Streams /\ Len(fifo') <= FifoDepth /\ TrueBytes(fifo')
    /\ rest' = rest /\ debug' = debug
    /\ given' = given /\ losses' = losses /\ failure' = failure
    /\ Append(taken, Head(fifo)) \in Streams
    /\ Len(Append(taken, Head(fifo))) = Len(taken) + 1
    /\ TrueBytes(taken) => TrueBytes(Append(taken, Head(fifo)))
    /\ (Append(taken, Head(fifo)) \o fifo') \o rest = Stream
<1> SUFFICES ASSUME TypeOK, BytesTrue, ReadByte
             PROVE  /\ fifo' \in Streams /\ Len(fifo') <= FifoDepth /\ TrueBytes(fifo')
                    /\ rest' = rest /\ debug' = debug
                    /\ given' = given /\ losses' = losses /\ failure' = failure
                    /\ Append(taken, Head(fifo)) \in Streams
                    /\ Len(Append(taken, Head(fifo))) = Len(taken) + 1
                    /\ TrueBytes(taken) => TrueBytes(Append(taken, Head(fifo)))
                    /\ (Append(taken, Head(fifo)) \o fifo') \o rest = Stream
  OBVIOUS
<1>1. /\ fifo /= <<>> /\ fifo' = Tail(fifo) /\ rest' = rest /\ debug' = debug
      /\ given' = given /\ losses' = losses /\ failure' = failure
  BY DEF ReadByte, outside
<1>2. fifo \in Streams /\ taken \in Streams /\ Len(fifo) \in Nat /\ Len(taken) \in Nat
  BY StreamsHeld
<1>3. /\ fifo' \in Streams /\ Append(taken, Head(fifo)) \in Streams
      /\ Append(taken, Head(fifo)) \o fifo' = taken \o fifo
  BY <1>1, <1>2, MoveByte
<1>4. TrueBytes(fifo') /\ (TrueBytes(taken) => TrueBytes(Append(taken, Head(fifo))))
  BY <1>1, <1>2, MoveTrue DEF BytesTrue
<1>5. Len(fifo') <= FifoDepth
  <2>1. Len(fifo') = Len(fifo) - 1
    BY <1>1, <1>2, HeadTailProperties DEF Streams
  <2>2. Len(fifo) <= FifoDepth
    BY DEF TypeOK
  <2>3. QED BY <1>2, <2>1, <2>2, FifoAssumption
<1>6. Len(Append(taken, Head(fifo))) = Len(taken) + 1
  BY <1>1, <1>2, HeadTailProperties, AppendProperties DEF Streams
<1>7. QED BY <1>1, <1>3, <1>4, <1>5, <1>6 DEF Stream

\* The types, in the words of the streams.
LEMMA TypeAgain ==
  TypeOK <=> /\ rest \in Streams
             /\ fifo \in Streams /\ Len(fifo) <= FifoDepth
             /\ pc \in {"empty", "handshake", "header", "payload", "menu", "amount"}
             /\ debug \in BOOLEAN /\ amount \in Amounts \cup {0}
             /\ taken \in Streams /\ (Looping => Len(taken) <= MAX_PACKET_SIZE + 2)
             /\ given \in Seq(Byte) /\ sent \in Seq(Byte)
             /\ losses \in 0 .. MaxLosses /\ failure \in BOOLEAN /\ clean \in BOOLEAN
BY Zenon DEF TypeOK, Streams, FifoByte, Looping

\* The same of the state after a step.
LEMMA TypeAfter ==
  TypeOK' <=> /\ rest' \in Streams
              /\ fifo' \in Streams /\ Len(fifo') <= FifoDepth
              /\ pc' \in {"empty", "handshake", "header", "payload", "menu", "amount"}
              /\ debug' \in BOOLEAN /\ amount' \in Amounts \cup {0}
              /\ taken' \in Streams /\ (Looping' => Len(taken') <= MAX_PACKET_SIZE + 2)
              /\ given' \in Seq(Byte) /\ sent' \in Seq(Byte)
              /\ losses' \in 0 .. MaxLosses /\ failure' \in BOOLEAN /\ clean' \in BOOLEAN
BY Zenon DEF TypeOK, Streams, FifoByte, Looping

\* A byte that goes into the FIFO keeps its place in the stream.
LEMMA PassKeepsStream == TypeOK /\ PassByte => Stream' = Stream
<1> SUFFICES ASSUME TypeOK, PassByte
             PROVE  Stream' = Stream
  OBVIOUS
<1>1. rest /= <<>> /\ fifo' = Append(fifo, Head(rest)) /\ rest' = Tail(rest) /\ taken' = taken
  BY DEF PassByte, client
<1>2. rest \in Streams /\ fifo \in Streams /\ taken \in Streams
  BY StreamsHeld
<1>3. fifo' \in Streams /\ rest' \in Streams /\ fifo' \o rest' = fifo \o rest
  BY <1>1, <1>2, MoveByte
<1>4. (taken \o fifo) \o rest = taken \o (fifo \o rest)
  BY <1>2, ConcatAssociative DEF Streams
<1>5. (taken \o fifo') \o rest' = taken \o (fifo' \o rest')
  <2>1. taken \in Seq(FifoByte) /\ fifo' \in Seq(FifoByte) /\ rest' \in Seq(FifoByte)
    BY <1>2, <1>3 DEF Streams
  <2>2. QED BY <2>1, ConcatAssociative
<1>6. QED BY <1>1, <1>3, <1>4, <1>5 DEF Stream

\* A step of the server, or of the FPGA, keeps the invariant.
LEMMA SourceKeeps == IInv /\ Source => IInv'
<1> SUFFICES ASSUME IInv, Source
             PROVE  IInv'
  OBVIOUS
<1>1. TypeOK /\ BytesTrue /\ EndOfFrame(rest) /\ Phase /\ EmptyingFindsStep
  BY DEF IInv
<1>2. /\ rest \in Streams /\ fifo \in Streams /\ taken \in Streams
      /\ Len(fifo) \in Nat /\ taken \o fifo \in Streams
  BY <1>1, StreamsHeld
<1>3. UNCHANGED <<pc, debug, amount, taken, sent>>
  BY DEF Source, BeginFrame, PassByte, Overflow, ServerStops, client
<1>4. Phase' /\ (Looping' <=> Looping)
  <2>1. clean' => clean
    BY <1>1, Zenon DEF Source, BeginFrame, PassByte, Overflow, ServerStops, Lose, Fault, outside
  <2>2. QED BY <1>1, <1>3, <2>1 DEF Phase, CurrentSize, Looping
<1>5. CASE BeginFrame
  <2>1. PICK payload \in Payloads : rest' = Frame(payload) /\ given' = payload
    BY <1>5 DEF BeginFrame
  <2>2. rest = <<>> /\ fifo' = fifo /\ losses' = losses /\ failure' = failure /\ clean' = clean
    BY <1>5 DEF BeginFrame
  <2>3. /\ rest' \in Streams /\ given' \in Seq(Byte)
        /\ EndOfFrame(rest') /\ TrueBytes(rest') /\ WholeFrames(rest')
    BY <2>1, FrameBytes, FrameIsFrame
  <2>4. TypeOK'
    BY <1>1, <1>3, <1>4, <2>2, <2>3, TypeAgain, TypeAfter, Zenon
  <2>5. BytesTrue'
    BY <1>1, <1>3, <1>4, <2>2, <2>3, Zenon DEF BytesTrue
  <2>6. EmptyingFindsStep'
    <3>1. ASSUME WholeFrames(Stream)
          PROVE  WholeFrames((taken \o fifo) \o rest')
      <4>1. (taken \o fifo) \o <<>> = taken \o fifo
        BY <1>2, ConcatEmptySeq DEF Streams
      <4>2. WholeFrames(taken \o fifo)
        BY <2>2, <3>1, <4>1 DEF Stream
      <4>3. QED BY <1>2, <2>3, <4>2, WholeConcat
    <3>2. Stream' = (taken \o fifo) \o rest'
      BY <1>3, <2>2 DEF Stream
    <3>3. QED BY <1>1, <2>2, <3>1, <3>2, Zenon DEF EmptyingFindsStep
  <2>7. QED BY <1>4, <2>3, <2>4, <2>5, <2>6 DEF IInv
<1>6. CASE PassByte
  <2>1. /\ rest /= <<>> /\ Len(fifo) < FifoDepth
        /\ fifo' = Append(fifo, Head(rest)) /\ rest' = Tail(rest)
        /\ given' = given /\ losses' = losses /\ failure' = failure /\ clean' = clean
    BY <1>6 DEF PassByte, outside
  <2>2. /\ fifo' \in Streams /\ rest' \in Streams
        /\ fifo' \o rest' = fifo \o rest
    BY <1>2, <2>1, MoveByte
  <2>3. TrueBytes(rest') /\ TrueBytes(fifo')
    BY <1>1, <1>2, <2>1, MoveTrue DEF BytesTrue
  <2>4. EndOfFrame(rest')
    BY <1>1, <1>2, <2>1, EndShrinks
  <2>5. Len(fifo') <= FifoDepth
    <3>1. Len(fifo') = Len(fifo) + 1
      BY <1>2, <2>1, HeadTailProperties, AppendProperties DEF Streams
    <3>2. QED BY <1>2, <2>1, <3>1, FifoAssumption
  <2>6. TypeOK'
    BY <1>1, <1>3, <1>4, <2>1, <2>2, <2>5, TypeAgain, TypeAfter, Zenon
  <2>7. BytesTrue'
    BY <1>1, <1>3, <1>4, <2>3, Zenon DEF BytesTrue
  <2>8. EmptyingFindsStep'
    <3>1. Stream' = Stream
      BY <1>1, <1>6, PassKeepsStream
    <3>2. QED BY <1>1, <2>1, <3>1, Zenon DEF EmptyingFindsStep
  <2>9. QED BY <1>4, <2>4, <2>6, <2>7, <2>8 DEF IInv
<1>7. CASE Overflow \/ ServerStops
  <2>1. /\ rest /= <<>> /\ fifo' = fifo /\ given' = given
        /\ failure' = ~failure /\ clean' = FALSE
        /\ losses < MaxLosses /\ losses' = losses + 1
        /\ rest' = Tail(rest) \/ rest' = <<>>
    BY <1>7 DEF Overflow, ServerStops, Lose, Fault
  <2>2. rest' \in Streams /\ TrueBytes(rest') /\ EndOfFrame(rest')
    <3>1. CASE rest' = Tail(rest)
      <4>1. Tail(rest) \in Streams
        BY <1>2, <2>1, MoveByte
      <4>2. QED BY <1>1, <1>2, <2>1, <3>1, <4>1, MoveTrue, EndShrinks DEF BytesTrue
    <3>2. CASE rest' = <<>>
      BY <3>2 DEF Streams, TrueBytes, EndOfFrame
    <3>3. QED BY <2>1, <3>1, <3>2
  <2>3. TypeOK'
    <3>1. losses' \in 0 .. MaxLosses
      <4>1. losses \in 0 .. MaxLosses
        BY <1>1 DEF TypeOK
      <4>2. QED BY <2>1, <4>1, LossesAssumption
    <3>2. failure' \in BOOLEAN /\ clean' \in BOOLEAN
      BY <2>1
    <3>3. QED BY <1>1, <1>3, <1>4, <2>1, <2>2, <3>1, <3>2, TypeAgain, TypeAfter, Zenon
  <2>4. BytesTrue'
    BY <1>1, <1>3, <1>4, <2>1, <2>2, Zenon DEF BytesTrue
  <2>5. EmptyingFindsStep'
    BY <2>1 DEF EmptyingFindsStep
  <2>6. QED BY <1>4, <2>2, <2>3, <2>4, <2>5 DEF IInv
<1>8. QED BY <1>5, <1>6, <1>7 DEF Source

\* The values of bytes are bytes.
LEMMA ValuesType ==
  ASSUME NEW s \in Streams
  PROVE  /\ Values(s) \in Seq(Byte)
         /\ \A k \in 1 .. 3, m \in 0 .. Len(s) : SubSeq(Values(s), k, m) \in Seq(Byte)
<1>1. Len(s) \in Nat /\ DOMAIN s = 1 .. Len(s) /\ \A i \in 1 .. Len(s) : s[i].val \in Byte
  BY StreamType
<1>2. Values(s) = [i \in 1 .. Len(s) |-> s[i].val]
  BY <1>1 DEF Values
<1> DEFINE n == Len(s)
           v == Values(s)
<1>3. v \in Seq(Byte) /\ \A i \in 1 .. n : v[i] \in Byte
  <2>1. v \in [1 .. n -> Byte]
    BY <1>1, <1>2
  <2> HIDE DEF v
  <2>2. QED BY <1>1, <2>1, SeqDef
<1> HIDE DEF n, v
<1>4. n \in Nat
  BY <1>1 DEF n
<1>5. ASSUME NEW k \in 1 .. 3, NEW m \in 0 .. n
      PROVE  SubSeq(v, k, m) \in Seq(Byte)
  <2>1. k \in Int /\ m \in Int
    BY <1>4
  <2>2. \A i \in k .. m : v[i] \in Byte
    BY <1>3, <1>4
  <2>3. QED BY <2>1, <2>2, SubSeqProperties
<1>6. QED BY <1>3, <1>5 DEF n, v

\* A short keeps no more of a number than there is.
LEMMA ShortBitsBound ==
  ASSUME NEW n \in Nat
  PROVE  ShortBits(n) \in 0 .. n
<1> DEFINE b == 2 * (MaxShort + 1)
           q == n \div b
<1>1. b \in Nat \ {0}
  BY ShortAssumption
<1>2. n % b \in 0 .. b - 1 /\ q \in Nat /\ (n % b) + b * q = n
  <2> HIDE DEF b
  <2>1. QED BY <1>1, DivMod
<1> HIDE DEF b, q
<1>3. b * q >= 0
  BY <1>1, <1>2
<1>4. n % b \in 0 .. n
  <2> DEFINE r == n % b
             p == b * q
  <2>1. r \in Nat /\ p \in Int /\ p >= 0 /\ r + p = n
    BY <1>1, <1>2, <1>3
  <2> HIDE DEF r, p
  <2>2. r \in 0 .. n
    BY <2>1
  <2>3. QED BY <2>2 DEF r
<1>5. QED BY <1>4 DEF b, ShortBits

\* In step, the client never finds a length invalid, and keeps what it reads.
LEMMA HeaderInStep ==
  TypeOK /\ BytesTrue /\ Phase /\ ReadHeader /\ WholeFrames(Stream) =>
    /\ taken' = Append(taken, Head(fifo)) /\ Stream' = Stream
    /\ Looping'
<1> SUFFICES ASSUME TypeOK, BytesTrue, Phase, ReadHeader, WholeFrames(Stream)
             PROVE  taken' = Append(taken, Head(fifo)) /\ Stream' = Stream /\ Looping'
  OBVIOUS
<1> DEFINE bytes == Append(taken, Head(fifo))
<1>1. /\ pc = "header" /\ ReadByte
      /\ IF Len(bytes) = 2
         THEN IF InvalidLen(PacketLen(bytes))
              THEN taken' = <<>> /\ UNCHANGED pc
              ELSE taken' = bytes /\ pc' = "payload"
         ELSE taken' = bytes /\ UNCHANGED pc
  BY DEF ReadHeader
<1>2. /\ bytes \in Streams /\ fifo' \in Streams /\ rest \in Streams /\ rest' = rest
      /\ TrueBytes(bytes) /\ (bytes \o fifo') \o rest = Stream
  <2>1. TrueBytes(taken)
    BY <1>1 DEF BytesTrue, Looping
  <2>2. QED BY <1>1, <2>1, ByteRead, StreamsHeld
<1> HIDE DEF bytes
<1>3. taken' = bytes
  <2>1. ASSUME Len(bytes) = 2
        PROVE  ~ InvalidLen(PacketLen(bytes))
    <3>1. fifo' \o rest \in Streams /\ bytes \o (fifo' \o rest) = Stream
      <4>1. bytes \in Seq(FifoByte) /\ fifo' \in Seq(FifoByte) /\ rest \in Seq(FifoByte)
        BY <1>2 DEF Streams
      <4>2. (bytes \o fifo') \o rest = bytes \o (fifo' \o rest)
        BY <4>1, ConcatAssociative
      <4>3. QED BY <1>2, <4>2, ConcatType
    <3>2. WholeFrames(bytes \o (fifo' \o rest)) /\ Len(bytes) >= 2
      BY <2>1, <3>1
    <3>3. QED BY <1>2, <3>1, <3>2, LengthTold
  <2>2. QED BY <1>1, <2>1
<1>4. Looping'
  BY <1>1 DEF Looping
<1>5. Stream' = Stream
  BY <1>2, <1>3 DEF Stream
<1>6. QED BY <1>3, <1>4, <1>5 DEF bytes

\* A byte of a payload goes from the FIFO to dataBuffer.
LEMMA PayloadKeepsStream ==
  TypeOK /\ BytesTrue /\ ReadPayload => Stream' = Stream
<1> SUFFICES ASSUME TypeOK, BytesTrue, ReadPayload
             PROVE  Stream' = Stream
  OBVIOUS
<1>1. taken' = Append(taken, Head(fifo)) /\ ReadByte
  BY DEF ReadPayload
<1>2. (Append(taken, Head(fifo)) \o fifo') \o rest = Stream /\ rest' = rest
  BY <1>1, ByteRead
<1>3. QED BY <1>1, <1>2 DEF Stream

\* In step, what the client sends is the first frame of the stream, and the
\* rest of the stream is what it goes on with.
LEMMA SendInStep ==
  TypeOK /\ BytesTrue /\ Phase /\ SendVideoPacket /\ WholeFrames(Stream) =>
    /\ OneFrame(taken) /\ sent' = PayloadAt(taken, 1)
    /\ fifo \o rest \in Streams /\ WholeFrames(fifo \o rest)
    /\ Stream = taken \o (fifo \o rest) /\ Stream' = fifo \o rest
<1> SUFFICES ASSUME TypeOK, BytesTrue, Phase, SendVideoPacket, WholeFrames(Stream)
             PROVE  /\ OneFrame(taken) /\ sent' = PayloadAt(taken, 1)
                    /\ fifo \o rest \in Streams /\ WholeFrames(fifo \o rest)
                    /\ Stream = taken \o (fifo \o rest) /\ Stream' = fifo \o rest
  OBVIOUS
<1>1. /\ pc = "payload" /\ Len(taken) - 2 = PacketLen(taken)
      /\ sent' = SubSeq(Values(taken), 3, Len(taken))
      /\ taken' = <<>> /\ fifo' = fifo /\ rest' = rest
  BY DEF SendVideoPacket, CurrentSize
<1>2. /\ taken \in Streams /\ fifo \in Streams /\ rest \in Streams
      /\ Len(taken) \in Nat /\ fifo \o rest \in Streams
  BY StreamsHeld, ConcatType
<1>3. Len(taken) >= 2 /\ TrueBytes(taken)
  BY <1>1 DEF Phase, BytesTrue, Looping
<1>4. Stream = taken \o (fifo \o rest)
  <2>1. taken \in Seq(FifoByte) /\ fifo \in Seq(FifoByte) /\ rest \in Seq(FifoByte)
    BY <1>2 DEF Streams
  <2>2. (taken \o fifo) \o rest = taken \o (fifo \o rest)
    BY <2>1, ConcatAssociative
  <2>3. QED BY <2>2 DEF Stream
<1>5. WholeFrames(taken \o (fifo \o rest))
  BY <1>4
<1>6. PacketLen(taken) = taken[1].left - 1
  BY <1>2, <1>3, <1>5, LengthTold
<1>7. Len(taken) = taken[1].left + 1 /\ taken /= <<>>
  <2>1. 1 \in 1 .. Len(taken)
    BY <1>2, <1>3
  <2>2. taken[1].left \in Nat
    BY <1>2, <2>1, StreamType
  <2>3. Len(<<>>) = 0
    OBVIOUS
  <2>4. QED BY <1>1, <1>2, <1>3, <1>6, <2>2, <2>3
<1>8. OneFrame(taken) /\ WholeFrames(fifo \o rest)
  BY <1>2, <1>5, <1>7, FirstFrame
<1>9. sent' = PayloadAt(taken, 1)
  BY <1>1, <1>2, <1>7, FrameSent
<1>10. Stream' = fifo \o rest
  <2>1. <<>> \o fifo = fifo
    BY <1>2, ConcatEmptySeq DEF Streams
  <2>2. QED BY <1>1, <2>1 DEF Stream
<1>11. QED BY <1>2, <1>4, <1>8, <1>9, <1>10

\* A step of the client keeps the invariant.
LEMMA ClientKeeps == IInv /\ Client => IInv'
<1> SUFFICES ASSUME IInv, Client
             PROVE  IInv'
  OBVIOUS
<1>1. TypeOK /\ BytesTrue /\ EndOfFrame(rest) /\ Phase /\ EmptyingFindsStep
  BY DEF IInv
<1>2. /\ rest \in Streams /\ fifo \in Streams /\ taken \in Streams
      /\ Len(fifo) \in Nat /\ Len(taken) \in Nat
      /\ Len(<<>>) = 0 /\ <<>> \in Streams /\ TrueBytes(<<>>)
      /\ MAX_PACKET_SIZE \in Nat \ {0} /\ Len(<<>>) <= MAX_PACKET_SIZE + 2
  BY <1>1, StreamsHeld, SizeAssumption DEF Streams, TrueBytes
<1>3. rest' = rest /\ given' = given /\ losses' = losses
  BY DEF Client, Loop, EmptyFifo, Acknowledged, ReadHeader, ReadPayload, SendVideoPacket,
         Choose, ReadAmount, SendAmount, Restart, ReadByte, outside
<1>4. EndOfFrame(rest')
  BY <1>1, <1>3
<1> DEFINE SameOutside == failure' = failure /\ debug' = debug
<1>5. CASE EmptyFifo
  <2>1. /\ pc = "empty" /\ taken = <<>> /\ taken' = <<>> /\ amount' = amount /\ sent' = sent
        /\ SameOutside
        /\ \/ ReadByte /\ clean' = FALSE /\ pc' = "empty"
           \/ /\ fifo = <<>> /\ fifo' = fifo /\ clean' = (rest = <<>>)
              /\ pc' \in {"menu", "handshake"}
    BY <1>1, <1>5 DEF EmptyFifo, Phase, ReadByte, outside
  <2>2. fifo' \in Streams /\ Len(fifo') <= FifoDepth /\ TrueBytes(fifo')
    BY <1>1, <1>2, <2>1, ByteRead DEF TypeOK, BytesTrue
  <2>3. pc' \in {"empty", "menu", "handshake"} /\ clean' \in BOOLEAN
    BY <2>1
  <2>4. ~ Looping' /\ pc' \in {"empty", "handshake", "header", "payload", "menu", "amount"}
    BY <2>3 DEF Looping
  <2>5. TypeOK'
    BY <1>1, <1>2, <1>3, <2>1, <2>2, <2>3, <2>4, TypeAgain, TypeAfter, Zenon
  <2>6. BytesTrue'
    BY <1>1, <1>3, <2>2, <2>4, Zenon DEF BytesTrue
  <2>7. Phase'
    BY <2>1, <2>3 DEF Phase
  <2>8. EmptyingFindsStep'
    <3>1. ASSUME clean'
          PROVE  WholeFrames(Stream')
      <4>1. fifo' = <<>> /\ rest' = <<>> /\ taken' = <<>>
        BY <1>3, <2>1, <3>1
      <4>2. Stream' = <<>>
        BY <4>1 DEF Stream
      <4>3. QED BY <4>2, NothingIsWhole
    <3>2. QED BY <3>1 DEF EmptyingFindsStep
  <2>9. QED BY <1>4, <2>5, <2>6, <2>7, <2>8 DEF IInv
<1>6. CASE Acknowledged
  <2>1. /\ pc' = "header" /\ taken = <<>> /\ taken' = <<>> /\ fifo' = fifo
        /\ amount' = amount /\ sent' = sent /\ clean' = clean /\ SameOutside
    BY <1>1, <1>6 DEF Acknowledged, Phase, outside
  <2>2. pc' \in {"empty", "handshake", "header", "payload", "menu", "amount"}
    BY <2>1
  <2>3. TypeOK'
    BY <1>1, <1>2, <1>3, <2>1, <2>2, TypeAgain, TypeAfter, Zenon
  <2>4. BytesTrue'
    BY <1>1, <1>2, <1>3, <2>1, Zenon DEF BytesTrue
  <2>5. Phase'
    BY <1>2, <2>1 DEF Phase
  <2>6. EmptyingFindsStep'
    BY <1>1, <1>3, <2>1 DEF EmptyingFindsStep, Stream
  <2>7. QED BY <1>4, <2>3, <2>4, <2>5, <2>6 DEF IInv
<1>7. CASE ReadHeader
  <2> DEFINE bytes == Append(taken, Head(fifo))
  <2>1. /\ pc = "header" /\ ReadByte
        /\ amount' = amount /\ sent' = sent /\ clean' = clean /\ SameOutside
        /\ \/ /\ Len(bytes) = 2 /\ InvalidLen(PacketLen(bytes))
              /\ taken' = <<>> /\ pc' = "header"
           \/ /\ Len(bytes) = 2 /\ ~ InvalidLen(PacketLen(bytes))
              /\ taken' = bytes /\ pc' = "payload"
           \/ Len(bytes) /= 2 /\ taken' = bytes /\ pc' = "header"
    BY <1>7 DEF ReadHeader, ReadByte, outside
  <2>2. /\ fifo' \in Streams /\ Len(fifo') <= FifoDepth /\ TrueBytes(fifo')
        /\ bytes \in Streams /\ Len(bytes) = Len(taken) + 1 /\ TrueBytes(bytes)
    <3>1. TrueBytes(taken)
      BY <1>1, <2>1 DEF BytesTrue, Looping
    <3>2. QED BY <1>1, <2>1, <3>1, ByteRead
  <2>3. Len(taken) <= 1
    BY <1>1, <2>1 DEF Phase
  <2> HIDE DEF bytes
  <2>4. taken' \in Streams /\ TrueBytes(taken') /\ Len(taken') <= MAX_PACKET_SIZE + 2
    BY <1>2, <2>1, <2>2, <2>3
  <2>5. /\ pc' \in {"empty", "handshake", "header", "payload", "menu", "amount"}
        /\ pc' \in {"header", "payload"}
    BY <2>1
  <2>6. TypeOK'
    BY <1>1, <1>3, <2>1, <2>2, <2>4, <2>5, TypeAgain, TypeAfter, Zenon
  <2>7. BytesTrue'
    BY <1>1, <1>3, <2>2, <2>4, Zenon DEF BytesTrue
  <2>8. Phase'
    <3>1. CASE taken' = <<>> /\ pc' = "header"
      BY <1>2, <3>1 DEF Phase
    <3>2. CASE Len(bytes) /= 2 /\ taken' = bytes /\ pc' = "header"
      <4>1. Len(taken') <= 1
        BY <1>2, <2>2, <2>3, <3>2
      <4>2. QED BY <3>2, <4>1 DEF Phase
    <3>3. CASE Len(bytes) = 2 /\ ~ InvalidLen(PacketLen(bytes)) /\ taken' = bytes /\ pc' = "payload"
      <4>1. 1 \in 1 .. Len(bytes) /\ 2 \in 1 .. Len(bytes)
        BY <3>3
      <4>2. bytes[1].val \in Byte /\ bytes[2].val \in Byte
        BY <2>2, <4>1, StreamType
      <4>3. Base \in Nat /\ bytes[1].val \in Nat /\ bytes[2].val \in Nat
        BY <4>2, SizeAssumption DEF Byte
      <4>4. PacketLen(bytes) \in Nat
        BY <4>3 DEF PacketLen
      <4>5. Len(taken') >= 2 /\ CurrentSize' <= PacketLen(taken') /\ ~ InvalidLen(PacketLen(taken'))
        <5>1. Len(taken') = 2 /\ PacketLen(taken') = PacketLen(bytes)
          BY <3>3
        <5>2. CurrentSize' = 0
          BY <5>1 DEF CurrentSize
        <5>3. QED BY <3>3, <4>4, <5>1, <5>2
      <4>6. QED BY <3>3, <4>5 DEF Phase
    <3>4. QED BY <2>1, <3>1, <3>2, <3>3
  <2>9. EmptyingFindsStep'
    <3>1. ASSUME WholeFrames(Stream)
          PROVE  WholeFrames(Stream')
      <4>1. Stream' = Stream
        BY <1>1, <1>7, <3>1, HeaderInStep
      <4>2. QED BY <3>1, <4>1
    <3>2. QED BY <1>1, <2>1, <3>1, Zenon DEF EmptyingFindsStep
  <2>10. QED BY <1>4, <2>6, <2>7, <2>8, <2>9 DEF IInv
<1>8. CASE ReadPayload
  <2>1. /\ pc = "payload" /\ pc' = "payload" /\ ReadByte
        /\ Len(taken) - 2 < PacketLen(taken) /\ taken' = Append(taken, Head(fifo))
        /\ amount' = amount /\ sent' = sent /\ clean' = clean /\ SameOutside
    BY <1>8 DEF ReadPayload, ReadByte, CurrentSize, outside
  <2>2. /\ fifo' \in Streams /\ Len(fifo') <= FifoDepth /\ TrueBytes(fifo')
        /\ taken' \in Streams /\ Len(taken') = Len(taken) + 1 /\ TrueBytes(taken')
    <3>1. TrueBytes(taken)
      BY <1>1, <2>1 DEF BytesTrue, Looping
    <3>2. QED BY <1>1, <2>1, <3>1, ByteRead
  <2>3. Len(taken) >= 2 /\ ~ InvalidLen(PacketLen(taken))
    BY <1>1, <2>1 DEF Phase
  <2>4. PacketLen(taken') = PacketLen(taken) /\ PacketLen(taken) \in Nat
    <3>1. 1 \in 1 .. Len(taken) /\ 2 \in 1 .. Len(taken)
      BY <1>2, <2>3
    <3>2. taken'[1] = taken[1] /\ taken'[2] = taken[2]
      <4>1. Head(fifo) \in FifoByte
        BY <1>2, <2>1, HeadTailProperties DEF Streams, ReadByte
      <4>2. \A i \in 1 .. Len(taken) : Append(taken, Head(fifo))[i] = taken[i]
        BY <1>2, <4>1, AppendProperties DEF Streams
      <4>3. QED BY <2>1, <3>1, <4>2
    <3>3. taken[1].val \in Byte /\ taken[2].val \in Byte
      BY <1>2, <3>1, StreamType
    <3>4. Base \in Nat /\ taken[1].val \in Nat /\ taken[2].val \in Nat
      BY <3>3, SizeAssumption DEF Byte
    <3>5. QED BY <3>2, <3>4 DEF PacketLen
  <2>5. Len(taken') <= MAX_PACKET_SIZE + 2 /\ Len(taken') >= 2 /\ Len(taken') - 2 <= PacketLen(taken')
    <3>1. PacketLen(taken) <= MAX_PACKET_SIZE
      BY <1>2, <2>3, <2>4 DEF InvalidLen
    <3>2. QED BY <1>2, <2>1, <2>2, <2>3, <2>4, <3>1
  <2>6. pc' \in {"empty", "handshake", "header", "payload", "menu", "amount"}
    BY <2>1
  <2>7. TypeOK'
    BY <1>1, <1>3, <2>1, <2>2, <2>5, <2>6, TypeAgain, TypeAfter, Zenon
  <2>8. BytesTrue'
    BY <1>1, <1>3, <2>2, Zenon DEF BytesTrue
  <2>9. Phase'
    BY <2>1, <2>3, <2>4, <2>5 DEF Phase, CurrentSize
  <2>10. EmptyingFindsStep'
    <3>1. Stream' = Stream
      BY <1>1, <1>8, PayloadKeepsStream
    <3>2. QED BY <1>1, <2>1, <3>1, Zenon DEF EmptyingFindsStep
  <2>11. QED BY <1>4, <2>7, <2>8, <2>9, <2>10 DEF IInv
<1>9. CASE SendVideoPacket
  <2>1. /\ pc = "payload" /\ pc' = "header" /\ sent' = SubSeq(Values(taken), 3, Len(taken))
        /\ taken' = <<>> /\ fifo' = fifo
        /\ amount' = amount /\ clean' = clean /\ SameOutside
    BY <1>9 DEF SendVideoPacket, outside
  <2>2. sent' \in Seq(Byte)
    BY <1>2, <2>1, ValuesType
  <2>3. pc' \in {"empty", "handshake", "header", "payload", "menu", "amount"}
    BY <2>1
  <2>4. TypeOK'
    BY <1>1, <1>2, <1>3, <2>1, <2>2, <2>3, TypeAgain, TypeAfter, Zenon
  <2>5. BytesTrue'
    BY <1>1, <1>2, <1>3, <2>1, Zenon DEF BytesTrue
  <2>6. Phase'
    BY <1>2, <2>1 DEF Phase
  <2>7. EmptyingFindsStep'
    <3>1. ASSUME WholeFrames(Stream)
          PROVE  WholeFrames(Stream')
      <4>1. WholeFrames(fifo \o rest) /\ Stream' = fifo \o rest
        BY <1>1, <1>9, <3>1, SendInStep
      <4>2. QED BY <4>1
    <3>2. QED BY <1>1, <2>1, <3>1, Zenon DEF EmptyingFindsStep
  <2>8. QED BY <1>4, <2>4, <2>5, <2>6, <2>7 DEF IInv
<1>10. CASE Choose
  <2>1. /\ pc = "menu" /\ taken = <<>> /\ taken' = <<>> /\ fifo' = fifo /\ sent' = sent /\ SameOutside
        /\ \/ pc' = "amount" /\ amount' \in Amounts /\ clean' = FALSE
           \/ pc' \in {"header", "empty"} /\ amount' = amount /\ clean' = clean
    BY <1>1, <1>10 DEF Choose, Phase, outside
  <2>2. /\ pc' \in {"empty", "handshake", "header", "payload", "menu", "amount"}
        /\ pc' \in {"amount", "header", "empty"}
    BY <2>1
  <2>3. amount' \in Amounts \cup {0} /\ clean' \in BOOLEAN /\ (clean' => clean)
    <3>1. clean \in BOOLEAN /\ amount \in Amounts \cup {0}
      BY <1>1, Zenon DEF TypeOK
    <3>2. amount' \in Amounts \cup {0}
      BY <2>1, <3>1
    <3>3. (clean' \in BOOLEAN /\ ~ clean') \/ clean' = clean
      BY <2>1
    <3>4. clean' \in BOOLEAN
      <4>1. ASSUME clean' = clean
            PROVE  clean' \in BOOLEAN
        BY <3>1, <4>1
      <4>2. QED BY <3>3, <4>1
    <3>5. clean' => clean
      <4>1. ASSUME clean' = clean, clean'
            PROVE  clean
        BY <4>1
      <4>2. QED BY <3>3, <4>1
    <3>6. QED BY <3>2, <3>4, <3>5
  <2>4. TypeOK'
    BY <1>1, <1>2, <1>3, <2>1, <2>2, <2>3, TypeAgain, TypeAfter, Zenon
  <2>5. BytesTrue'
    BY <1>1, <1>2, <1>3, <2>1, Zenon DEF BytesTrue
  <2>6. Phase'
    BY <1>2, <2>1, <2>2 DEF Phase
  <2>7. EmptyingFindsStep'
    <3>1. Stream' = Stream
      BY <1>3, <2>1 DEF Stream
    <3>2. QED BY <1>1, <2>3, <3>1, Zenon DEF EmptyingFindsStep
  <2>8. QED BY <1>4, <2>4, <2>5, <2>6, <2>7 DEF IInv
<1>11. CASE ReadAmount
  <2>1. /\ pc = "amount" /\ pc' = "amount"
        /\ amount' = amount /\ sent' = sent /\ clean' = clean /\ SameOutside
        /\ \/ ReadByte /\ taken' = Append(taken, Head(fifo))
           \/ fifo' = fifo /\ taken' = Append(taken, Garbage)
    BY <1>11 DEF ReadAmount, ReadByte, outside
  <2>2. ~ clean'
    BY <1>1, <2>1 DEF Phase
  <2>3. /\ fifo' \in Streams /\ Len(fifo') <= FifoDepth /\ TrueBytes(fifo')
        /\ taken' \in Streams
    <3>1. CASE ReadByte /\ taken' = Append(taken, Head(fifo))
      BY <1>1, <3>1, ByteRead
    <3>2. CASE fifo' = fifo /\ taken' = Append(taken, Garbage)
      <4>1. Garbage \in FifoByte
        BY SizeAssumption DEF Garbage, FifoByte, Byte
      <4>2. taken' \in Streams
        BY <1>2, <3>2, <4>1, AppendProperties DEF Streams
      <4>3. Len(fifo) <= FifoDepth /\ TrueBytes(fifo)
        BY <1>1 DEF TypeOK, BytesTrue
      <4>4. QED BY <1>2, <3>2, <4>2, <4>3
    <3>3. QED BY <2>1, <3>1, <3>2
  <2>4. ~ Looping' /\ pc' \in {"empty", "handshake", "header", "payload", "menu", "amount"}
    BY <2>1 DEF Looping
  <2>5. TypeOK'
    BY <1>1, <1>3, <2>1, <2>3, <2>4, TypeAgain, TypeAfter, Zenon
  <2>6. BytesTrue'
    BY <1>1, <1>3, <2>3, <2>4, Zenon DEF BytesTrue
  <2>7. Phase'
    BY <2>1, <2>2 DEF Phase
  <2>8. EmptyingFindsStep'
    BY <2>2 DEF EmptyingFindsStep
  <2>9. QED BY <1>4, <2>5, <2>6, <2>7, <2>8 DEF IInv
<1>12. CASE SendAmount
  <2>1. /\ pc = "amount" /\ pc' = "menu" /\ Len(taken) = amount
        /\ sent' = sent \/ sent' = SubSeq(Values(taken), 1, ShortBits(amount))
        /\ taken' = <<>> /\ fifo' = fifo
        /\ amount' = 0 /\ clean' = clean /\ SameOutside
    BY <1>12 DEF SendAmount, outside
  <2>2. ~ clean'
    BY <1>1, <2>1 DEF Phase
  <2>3. sent' \in Seq(Byte) /\ amount' \in Amounts \cup {0}
    <3>1. sent \in Seq(Byte) /\ taken \in Streams /\ Len(taken) \in Nat
      BY <1>1, TypeAgain, StreamType
    <3>2. ShortBits(amount) \in 0 .. Len(taken)
      BY <2>1, <3>1, ShortBitsBound
    <3>3. SubSeq(Values(taken), 1, ShortBits(amount)) \in Seq(Byte)
      BY <3>1, <3>2, ValuesType
    <3>4. QED BY <2>1, <3>1, <3>3
  <2>4. ~ Looping' /\ pc' \in {"empty", "handshake", "header", "payload", "menu", "amount"}
    BY <2>1 DEF Looping
  <2>5. TypeOK'
    BY <1>1, <1>2, <1>3, <2>1, <2>3, <2>4, TypeAgain, TypeAfter, Zenon
  <2>6. BytesTrue'
    BY <1>1, <1>3, <2>1, <2>4, Zenon DEF BytesTrue
  <2>7. Phase'
    BY <2>1 DEF Phase
  <2>8. EmptyingFindsStep'
    BY <2>2 DEF EmptyingFindsStep
  <2>9. QED BY <1>4, <2>5, <2>6, <2>7, <2>8 DEF IInv
<1>13. CASE Restart
  <2>1. /\ pc' \in {"menu", "empty"} /\ debug' \in BOOLEAN
        /\ taken' = <<>> /\ fifo' = fifo /\ sent' = sent /\ amount' = 0
        /\ failure' = ~failure /\ clean' = FALSE
    BY <1>13 DEF Restart, Fault
  <2>2. ~ Looping' /\ pc' \in {"empty", "handshake", "header", "payload", "menu", "amount"}
    BY <2>1 DEF Looping
  <2>3. amount' \in Amounts \cup {0} /\ failure' \in BOOLEAN /\ clean' \in BOOLEAN
    BY <2>1
  <2>4. TypeOK'
    BY <1>1, <1>2, <1>3, <2>1, <2>2, <2>3, TypeAgain, TypeAfter, Zenon
  <2>5. BytesTrue'
    BY <1>1, <1>3, <2>1, <2>2, Zenon DEF BytesTrue
  <2>6. Phase'
    BY <2>1 DEF Phase
  <2>7. EmptyingFindsStep'
    BY <2>1 DEF EmptyingFindsStep
  <2>8. QED BY <1>4, <2>4, <2>5, <2>6, <2>7 DEF IInv
<1>14. QED
  BY <1>5, <1>6, <1>7, <1>8, <1>9, <1>10, <1>11, <1>12, <1>13 DEF Client, Loop

\* Every step keeps it.
LEMMA IInvStep == IInv /\ [Next]_vars => IInv'
<1>1. ASSUME IInv, UNCHANGED vars
      PROVE  IInv'
  <2>1. UNCHANGED <<rest, fifo, pc, debug, amount, taken, given, sent, losses, failure, clean>>
    BY <1>1 DEF vars, client, outside
  <2>2. TypeOK'
    BY <1>1, <2>1, Zenon DEF IInv, TypeOK
  <2>3. Phase' /\ EmptyingFindsStep'
    BY <1>1, <2>1 DEF IInv, Phase, CurrentSize, EmptyingFindsStep, Stream
  <2>4. BytesTrue' /\ EndOfFrame(rest')
    BY <1>1, <2>1, Zenon DEF IInv, BytesTrue, Looping
  <2>5. QED BY <2>2, <2>3, <2>4 DEF IInv
<1>2. QED BY <1>1, SourceKeeps, ClientKeeps DEF Next

\* It holds of every state of every run.
LEMMA IInvHolds == Spec => []IInv
BY IInvInit, IInvStep, PTL DEF Spec

-----------------------------------------------------------------------------
(* What follows from it.                                                    *)

\* Every variable has its type; above all, the loop never reads more into
\* dataBuffer than a packet holds (video_send_loop).
THEOREM TypeCorrect == Spec => []TypeOK
<1>1. IInv => TypeOK
  BY DEF IInv
<1>2. QED BY <1>1, IInvHolds, PTL

\* empty_fifo, if it ends between two frames, puts the client in step, and
\* nothing but a lost byte, a stopped program or choice 3 takes it out again.
THEOREM EmptyingStep == Spec => []EmptyingFindsStep
<1>1. IInv => EmptyingFindsStep
  BY DEF IInv
<1>2. QED BY <1>1, IInvHolds, PTL

-----------------------------------------------------------------------------
(* The client implements FrameRelay.                                        *)

\* The frame the server begins comes after all that is in the stream.
LEMMA BeginAppends ==
  TypeOK /\ BeginFrame /\ WholeFrames(Stream) =>
    /\ WholeFrames(Stream')
    /\ PayloadsOf(Stream') = Append(PayloadsOf(Stream), given')
<1> SUFFICES ASSUME TypeOK, BeginFrame, WholeFrames(Stream)
             PROVE  /\ WholeFrames(Stream')
                    /\ PayloadsOf(Stream') = Append(PayloadsOf(Stream), given')
  OBVIOUS
<1>1. PICK payload \in Payloads : rest' = Frame(payload) /\ given' = payload
  BY DEF BeginFrame
<1>2. rest = <<>> /\ fifo' = fifo /\ taken' = taken
  BY DEF BeginFrame, client
<1>3. taken \o fifo \in Streams /\ Stream \in Streams
  BY StreamsHeld
<1>4. Stream = taken \o fifo
  BY <1>2, <1>3, ConcatEmptySeq DEF Stream, Streams
<1>5. Stream' = Stream \o rest'
  BY <1>2, <1>4 DEF Stream
<1>6. /\ rest' \in Streams /\ OneFrame(rest') /\ WholeFrames(rest')
      /\ PayloadAt(rest', 1) = given'
  BY <1>1, FrameIsFrame
<1>7. WholeFrames(Stream \o rest')
  BY <1>3, <1>6, WholeConcat
<1>8. PayloadsOf(Stream \o rest') = Append(PayloadsOf(Stream), PayloadAt(rest', 1))
  BY <1>3, <1>6, WholeAreFit, FrameAppended
<1>9. QED BY <1>5, <1>6, <1>7, <1>8

\* A byte that is lost is missed.
LEMMA OverflowShows ==
  TypeOK /\ BytesTrue /\ Overflow /\ WholeFrames(Stream) => ~ WholeFrames(Stream')
<1> SUFFICES ASSUME TypeOK, BytesTrue, Overflow, WholeFrames(Stream)
             PROVE  ~ WholeFrames(Stream')
  OBVIOUS
<1>1. rest /= <<>> /\ rest' = Tail(rest) /\ fifo' = fifo /\ taken' = taken
  BY DEF Overflow, client
<1>2. taken \o fifo \in Streams /\ rest \in Streams
  BY StreamsHeld
<1>3. ASSUME NEW i \in 1 .. Len(rest), rest[i].pos = 0
      PROVE  rest[i].left /= 0
  <2>1. TrueByte(rest[i])
    BY DEF BytesTrue, TrueBytes
  <2>2. rest[i].pos + rest[i].left - 1 \in 1 .. MAX_PACKET_SIZE
    BY <2>1 DEF TrueByte
  <2>3. rest[i].left \in Nat
    BY <1>2, StreamType
  <2>4. QED BY <1>3, <2>2, <2>3, SizeAssumption
<1>4. WholeFrames((taken \o fifo) \o rest)
  BY DEF Stream
<1>5. ~ WholeFrames((taken \o fifo) \o Tail(rest))
  BY <1>1, <1>2, <1>3, <1>4, LossShows
<1>6. QED BY <1>1, <1>5 DEF Stream

\* If the stream is whole without the frame in hand, that was whole too.
LEMMA StopShortens ==
  TypeOK /\ EndOfFrame(rest) /\ ServerStops /\ WholeFrames(Stream) /\ WholeFrames(Stream') =>
    /\ PayloadsOf(Stream) /= <<>>
    /\ PayloadsOf(Stream') = SubSeq(PayloadsOf(Stream), 1, Len(PayloadsOf(Stream)) - 1)
<1> SUFFICES ASSUME TypeOK, EndOfFrame(rest), ServerStops,
                    WholeFrames(Stream), WholeFrames(Stream')
             PROVE  /\ PayloadsOf(Stream) /= <<>>
                    /\ PayloadsOf(Stream') =
                         SubSeq(PayloadsOf(Stream), 1, Len(PayloadsOf(Stream)) - 1)
  OBVIOUS
<1> DEFINE s == taken \o fifo
<1>1. rest /= <<>> /\ rest' = <<>> /\ fifo' = fifo /\ taken' = taken
  BY DEF ServerStops, client
<1>2. s \in Streams /\ rest \in Streams
  BY StreamsHeld
<1>3. Stream = s \o rest /\ Stream' = s \o <<>>
  BY <1>1 DEF Stream
<1> HIDE DEF s
<1>4. Stream' = s
  BY <1>2, <1>3, ConcatEmptySeq DEF Streams
<1>5. WholeFrames(s) /\ WholeFrames(s \o rest)
  BY <1>3, <1>4
<1>6. s = <<>> \/ s[Len(s)].left = 0
  BY <1>5 DEF WholeFrames
<1>7. WholeFrames(rest)
  BY <1>2, <1>5, <1>6, WholeSuffix
<1>8. rest[1].pos = 0
  BY <1>1, <1>7 DEF WholeFrames
<1>9. OneFrame(rest)
  BY <1>1, <1>2, <1>8, EndIsFrame
<1> DEFINE q == PayloadsOf(s)
           p == PayloadAt(rest, 1)
<1>10. PayloadsOf(Stream) = Append(q, p) /\ q \in Seq(Seq(Byte)) /\ p \in Seq(Byte)
  BY <1>2, <1>3, <1>5, <1>9, WholeAreFit, FrameAppended, PayloadsType, OneFrameFits
<1>11. PayloadsOf(Stream') = q
  BY <1>4
<1> HIDE DEF q, p
<1>12. /\ Len(q) \in Nat /\ Len(Append(q, p)) = Len(q) + 1
       /\ \A i \in 1 .. Len(q) : Append(q, p)[i] = q[i]
       /\ Append(q, p) \in Seq(Seq(Byte))
  BY <1>10, AppendProperties
<1>13. Append(q, p) /= <<>>
  BY <1>10, AppendProperties
<1>14. SubSeq(Append(q, p), 1, Len(Append(q, p)) - 1) = q
  <2>1. Len(Append(q, p)) - 1 = Len(q)
    BY <1>12
  <2>2. SubSeq(Append(q, p), 1, Len(q)) = q
    <3> DEFINE a == Append(q, p)
               n == Len(q)
               S == Seq(Byte)
    <3>1. n \in Nat /\ 1 \in Int /\ n \in Int /\ \A i \in 1 .. n : a[i] = q[i] /\ q[i] \in S
      BY <1>10, <1>12, ElementOfSeq
    <3> HIDE DEF a, n, S
    <3>2. \A i \in 1 .. n : a[i] \in S
      BY <3>1
    <3>3. /\ SubSeq(a, 1, n) \in Seq(S)
          /\ Len(SubSeq(a, 1, n)) = IF 1 <= n THEN n - 1 + 1 ELSE 0
          /\ \A i \in 1 .. n - 1 + 1 : SubSeq(a, 1, n)[i] = a[1 + i - 1]
      BY <3>1, <3>2, SubSeqProperties
    <3>4. Len(SubSeq(a, 1, n)) = n /\ n - 1 + 1 = n
      BY <3>1, <3>3
    <3>5. ASSUME NEW i \in 1 .. n
          PROVE  SubSeq(a, 1, n)[i] = q[i]
      <4>1. SubSeq(a, 1, n)[i] = a[1 + i - 1] /\ 1 + i - 1 = i
        BY <3>1, <3>3, <3>4
      <4>2. QED BY <3>1, <4>1
    <3>6. q \in Seq(S) /\ Len(q) = n
      BY <1>10 DEF n, S
    <3>7. SubSeq(a, 1, n) = q
      <4> DEFINE b == SubSeq(a, 1, n)
      <4>1. b \in Seq(S) /\ Len(b) = Len(q) /\ \A i \in 1 .. Len(b) : b[i] = q[i]
        BY <3>3, <3>4, <3>5, <3>6
      <4> HIDE DEF b
      <4>2. b = q
        BY <3>6, <4>1, SeqEqual
      <4>3. QED BY <4>2 DEF b
    <3>8. QED BY <3>7 DEF a, n
  <2>3. QED BY <2>1, <2>2
<1>15. QED BY <1>10, <1>11, <1>13, <1>14

\* Only a failure turns the history variable over, and it sends nothing.
LEMMA FailureTurns ==
  [Next]_vars =>
    failure' = failure \/ (failure' = ~failure /\ given' = given /\ sent' = sent)
<1>1. Source => failure' = failure \/ (failure' = ~failure /\ given' = given /\ sent' = sent)
  BY DEF Source, BeginFrame, PassByte, Overflow, ServerStops, Lose, Fault, client, outside
<1>2. Client => failure' = failure \/ (failure' = ~failure /\ given' = given /\ sent' = sent)
  BY DEF Client, Loop, EmptyFifo, Acknowledged, ReadHeader, ReadPayload, SendVideoPacket,
         Choose, ReadAmount, SendAmount, Restart, Fault, ReadByte, client, outside, vars
<1>3. UNCHANGED vars => failure' = failure
  BY DEF vars, outside
<1>4. QED BY <1>1, <1>2, <1>3 DEF Next

\* What is pending, in step and out of step.
LEMMA PendingNow ==
  /\ InStep => Pending = PayloadsOf(Stream) /\ Looping /\ WholeFrames(Stream)
  /\ ~ InStep => Pending = <<>>
  /\ Looping /\ WholeFrames(Stream) => InStep
BY DEF Pending, InStep, Looping

\* The same after a step.
LEMMA PendingThen ==
  /\ InStep' => Pending' = PayloadsOf(Stream') /\ Looping' /\ WholeFrames(Stream')
  /\ ~ InStep' => Pending' = <<>>
  /\ Looping' /\ WholeFrames(Stream') => InStep'
BY DEF Pending, InStep, Looping

FrameVars == <<InStep, Pending, given, sent, failure>>

\* Out of step anything goes, but nothing is pending.
LEMMA StepOutOfStep ==
  TypeOK' /\ ~ InStep /\ [Next]_vars => [Frames!Next]_FrameVars
<1> SUFFICES ASSUME TypeOK', ~ InStep, [Next]_vars
             PROVE  Frames!Next
  OBVIOUS
<1>1. Frames!OutOfStep
  BY PendingNow DEF Frames!OutOfStep
<1>2. CASE InStep'
  <2>1. failure' \in BOOLEAN
    BY Zenon DEF TypeOK
  <2>2. QED BY <1>1, <1>2, <2>1 DEF Frames!Next, Frames!CatchStep
<1>3. CASE ~ InStep'
  <2>1. Frames!OutOfStep'
    BY <1>3, PendingThen DEF Frames!OutOfStep
  <2>2. CASE failure' = failure
    BY <1>1, <2>1, <2>2 DEF Frames!Next, Frames!Drift
  <2>3. CASE failure' = ~failure /\ given' = given /\ sent' = sent
    BY <2>1, <2>3 DEF Frames!Next, Frames!Slip
  <2>4. QED BY <2>2, <2>3, FailureTurns
<1>4. QED BY <1>2, <1>3

\* In step a frame is begun, passed on inside, sent, or lost to a failure.
LEMMA StepInStep ==
  IInv /\ InStep /\ [Next]_vars => [Frames!Next]_FrameVars
<1> SUFFICES ASSUME IInv, InStep, [Next]_vars
             PROVE  [Frames!Next]_FrameVars
  OBVIOUS
<1>1. TypeOK /\ BytesTrue /\ Phase /\ EndOfFrame(rest)
  BY DEF IInv
<1>2. Pending = PayloadsOf(Stream) /\ Looping /\ WholeFrames(Stream)
  BY PendingNow
<1>3. ASSUME Stream' = Stream, Looping', given' = given, sent' = sent, failure' = failure
      PROVE  UNCHANGED FrameVars
  <2>1. InStep'
    BY <1>2, <1>3, PendingThen
  <2>2. Pending' = Pending
    BY <1>2, <1>3, <2>1, PendingThen
  <2>3. InStep' = InStep
    BY <2>1
  <2>4. QED BY <1>3, <2>2, <2>3 DEF FrameVars
<1>4. CASE BeginFrame
  <2>1. pc' = pc /\ sent' = sent /\ failure' = failure
    BY <1>4 DEF BeginFrame, client
  <2>2. /\ WholeFrames(Stream')
        /\ PayloadsOf(Stream') = Append(PayloadsOf(Stream), given')
    BY <1>1, <1>2, <1>4, BeginAppends
  <2>3. Looping'
    BY <1>2, <2>1 DEF Looping
  <2>4. InStep' /\ Pending' = Append(Pending, given')
    BY <1>2, <2>2, <2>3, PendingThen
  <2>5. InStep' = InStep
    BY <2>4
  <2>6. QED BY <2>1, <2>4, <2>5 DEF Frames!Next, Frames!Put
<1>5. CASE PassByte
  <2>1. Stream' = Stream
    BY <1>1, <1>5, PassKeepsStream
  <2>2. pc' = pc /\ given' = given /\ sent' = sent /\ failure' = failure
    BY <1>5 DEF PassByte, client, outside
  <2>3. Looping'
    BY <1>2, <2>2 DEF Looping
  <2>4. QED BY <1>3, <2>1, <2>2, <2>3
<1>6. CASE ReadHeader
  <2>1. Stream' = Stream /\ Looping'
    BY <1>1, <1>2, <1>6, HeaderInStep
  <2>2. given' = given /\ sent' = sent /\ failure' = failure
    BY <1>6 DEF ReadHeader, ReadByte, outside
  <2>3. QED BY <1>3, <2>1, <2>2
<1>7. CASE ReadPayload
  <2>1. Stream' = Stream
    BY <1>1, <1>7, PayloadKeepsStream
  <2>2. pc' = pc /\ given' = given /\ sent' = sent /\ failure' = failure
    BY <1>7 DEF ReadPayload, ReadByte, outside
  <2>3. Looping'
    BY <1>2, <2>2 DEF Looping
  <2>4. QED BY <1>3, <2>1, <2>2, <2>3
<1>8. CASE SendVideoPacket
  <2>1. /\ OneFrame(taken) /\ sent' = PayloadAt(taken, 1)
        /\ fifo \o rest \in Streams /\ WholeFrames(fifo \o rest)
        /\ Stream = taken \o (fifo \o rest) /\ Stream' = fifo \o rest
    BY <1>1, <1>2, <1>8, SendInStep
  <2>2. pc' = "header" /\ given' = given /\ failure' = failure
    BY <1>8 DEF SendVideoPacket, outside
  <2>3. Looping'
    BY <2>2 DEF Looping
  <2>4. InStep' /\ Pending' = PayloadsOf(fifo \o rest)
    BY <2>1, <2>3, PendingThen
  <2>5. Fits(fifo \o rest)
    BY <2>1, WholeAreFit
  <2>6. /\ PayloadsOf(taken \o (fifo \o rest)) /= <<>>
        /\ Head(PayloadsOf(taken \o (fifo \o rest))) = PayloadAt(taken, 1)
        /\ Tail(PayloadsOf(taken \o (fifo \o rest))) = PayloadsOf(fifo \o rest)
    BY <2>1, <2>5, FrameInFront
  <2>7. Pending /= <<>> /\ sent' = Head(Pending) /\ Pending' = Tail(Pending)
    BY <1>2, <2>1, <2>4, <2>6
  <2>8. InStep' = InStep
    BY <2>4
  <2>9. QED BY <2>2, <2>7, <2>8 DEF Frames!Next, Frames!Forward
<1>9. ASSUME ~ InStep', failure' = ~failure, given' = given, sent' = sent
      PROVE  Frames!Next
  BY <1>9, PendingThen DEF Frames!Next, Frames!Slip, Frames!OutOfStep
<1>10. CASE Overflow
  <2>1. ~ InStep'
    BY <1>1, <1>2, <1>10, OverflowShows, PendingThen
  <2>2. failure' = ~failure /\ given' = given /\ sent' = sent
    BY <1>10 DEF Overflow, Lose, Fault, client
  <2>3. QED BY <1>9, <2>1, <2>2
<1>11. CASE ServerStops
  <2>1. failure' = ~failure /\ given' = given /\ sent' = sent
    BY <1>11 DEF ServerStops, Lose, Fault, client
  <2>2. CASE InStep'
    <3>1. WholeFrames(Stream') /\ Pending' = PayloadsOf(Stream')
      BY <2>2, PendingThen
    <3>2. Pending /= <<>> /\ Pending' = SubSeq(Pending, 1, Len(Pending) - 1)
      BY <1>1, <1>2, <1>11, <3>1, StopShortens
    <3>3. InStep' = InStep
      BY <2>2
    <3>4. QED BY <2>1, <3>2, <3>3 DEF Frames!Next, Frames!Slip
  <2>3. QED BY <1>9, <2>1, <2>2
<1>12. CASE Restart
  <2>1. failure' = ~failure /\ given' = given /\ sent' = sent
    BY <1>12 DEF Restart, Fault
  <2>2. pc' \in {"menu", "empty"}
    BY <1>12 DEF Restart
  <2>3. ~ InStep'
    BY <2>2 DEF InStep
  <2>4. QED BY <1>9, <2>1, <2>3
<1>13. ~ (EmptyFifo \/ Acknowledged \/ Choose \/ ReadAmount \/ SendAmount)
  BY <1>2 DEF Looping, EmptyFifo, Acknowledged, Choose, ReadAmount, SendAmount
<1>14. CASE UNCHANGED vars
  <2>1. Stream' = Stream /\ pc' = pc /\ given' = given /\ sent' = sent /\ failure' = failure
    BY <1>14 DEF vars, client, outside, Stream
  <2>2. Looping'
    BY <1>2, <2>1 DEF Looping
  <2>3. QED BY <1>3, <2>1, <2>2
<1>15. QED
  BY <1>4, <1>5, <1>6, <1>7, <1>8, <1>10, <1>11, <1>12, <1>13, <1>14 DEF Next, Source, Client, Loop

\* The loop of video_send_loop, whatever the values of the payloads and the
\* order of reads and writes: once in step, every frame goes out whole, in
\* order, and once, until a byte is lost or a program stopped.
THEOREM RelayIsFrameRelay == Spec => IsFrameRelay
<1>1. Init => Frames!Init
  <2> SUFFICES ASSUME Init
               PROVE  Frames!Init
    OBVIOUS
  <2>1. pc \in {"menu", "empty"} /\ given = <<>> /\ sent = <<>> /\ failure = FALSE
    BY DEF Init
  <2>2. ~ InStep
    BY <2>1 DEF InStep
  <2>3. QED BY <2>1, <2>2, PendingNow DEF Frames!Init, Frames!OutOfStep
<1>2. IInv /\ IInv' /\ [Next]_vars => [Frames!Next]_FrameVars
  <2>1. IInv' => TypeOK'
    BY DEF IInv
  <2>2. QED BY <2>1, StepInStep, StepOutOfStep
<1>3. QED BY <1>1, <1>2, IInvHolds, PTL DEF Spec, IsFrameRelay, Frames!Spec, FrameVars
=============================================================================
