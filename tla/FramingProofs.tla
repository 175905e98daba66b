--------------------------- MODULE FramingProofs ----------------------------
(***************************************************************************)
(* Proofs about Framing: for any number of values of a byte and any        *)
(* payloads that fit into a length, the reader of a TCP stream stays in    *)
(* step with it, a datagram is read from its own bytes, and the events of  *)
(* all players are read back from the message that carries them.           *)
(***************************************************************************)
EXTENDS Framing, SequenceTheorems, WellFoundedInduction, Integers, TLAPS

\* The part of the stream that was not read.
Rest == arrived \o inFlight

\* Where the reader is, when the frame after got starts at the given place.
Place(start) == start + (IF reader = "message" THEN 2 ELSE 0)

\* offset[i] is where the frame of the i-th command ends in the stream.
Laid(offset) ==
  /\ offset \in [0..Len(sent) -> Nat]
  /\ \A i \in 1..Len(sent) : offset[i] = offset[i - 1] + Len(sent[i].data) + 3
  /\ \A i \in 0..Len(sent) : offset[i] <= offset[Len(sent)]

\* What was not read are the bytes of the frames that come, from there on.
InStep(offset) ==
  \A i \in (Len(got) + 1)..Len(sent) : \A k \in 1..(Len(sent[i].data) + 3) :
    LET j == offset[i - 1] + k - Place(offset[Len(got)])
    IN  j >= 1 => Rest[j] = TcpFrame(sent[i])[k]

\* The stream ends behind the last frame, or behind the message of no bytes.
Ends(offset) ==
  LET left == offset[Len(sent)] - Place(offset[Len(got)])
  IN  /\ left \in Nat
      /\ \/ Len(Rest) = left
         \/ ~up /\ Len(Rest) = left + 2 /\ Rest[left + 1] = 0 /\ Rest[left + 2] = 0

\* The commands taken so far, and the one whose length was read.
Taken ==
  /\ Len(got) <= Len(sent)
  /\ \A i \in 1..Len(got) : got[i] = sent[i]
  /\ reader = "message" =>
       Len(got) < Len(sent) /\ size = Len(sent[Len(got) + 1].data) + 1

Stream ==
  reader # "ended" => \E offset : Laid(offset) /\ InStep(offset) /\ Ends(offset)

\* The reader ends behind the last command, when no other can come.
Finished == reader = "ended" => ~up /\ Len(got) = Len(sent)

\* Datagrams are those of clients.
Sent == \A d \in datagrams : \E m \in Message : d = Datagram(m)

IInv == TypeOK /\ Taken /\ Stream /\ Sent /\ UdpPrefix

-----------------------------------------------------------------------------
(* Numbers in two bytes.                                                   *)

LEMMA Divided ==
  ASSUME NEW b \in Int, b > 1, NEW n \in Nat, n < b * b
  PROVE  /\ n \div b \in 0..(b - 1) /\ n % b \in 0..(b - 1)
         /\ (n % b) + b * (n \div b) = n
<1>1. n \div b \in Int
  OBVIOUS
<1>2. n % b \in 0..(b - 1)
  OBVIOUS
<1>3. (n \div b) * b + (n % b) = n
  BY SMTT(60)
<1>4. ASSUME NEW q \in Int, NEW r \in 0..(b - 1), q * b + r = n
      PROVE  q \in 0..(b - 1) /\ r + b * q = n
  <2>1. q < b
    BY <1>4, SMTT(30)
  <2>2. q >= 0
    BY <1>4, SMTT(30)
  <2>3. r + b * q = n
    BY <1>4
  <2> QED
    BY <2>1, <2>2, <2>3
<1> QED
  BY <1>1, <1>2, <1>3, <1>4, Zenon

LEMMA Remains ==
  ASSUME NEW b \in Nat, NEW n \in 0..(b - 1)
  PROVE  n % b = n
OBVIOUS

\* A number is read back as it was written.
LEMMA NumberOfTwoBytes ==
  ASSUME NEW n \in Nat, n < Base * Base, NEW t, t[1] = TwoBytes(n)[1], t[2] = TwoBytes(n)[2]
  PROVE  /\ Number(t) = n
         /\ TwoBytes(n) \in Seq(Byte) /\ Len(TwoBytes(n)) = 2
<1>1. /\ n \div Base \in Byte /\ n % Base \in Byte
      /\ (n % Base) + Base * (n \div Base) = n
  <2>1. Base \in Int /\ Base > 1
    BY FramingAssumption
  <2> QED
    BY <2>1, Divided, Zenon DEF Byte
<1>2. (n \div Base) % Base = n \div Base
  BY <1>1, Remains, FramingAssumption DEF Byte
<1>3. t[1] = n % Base /\ t[2] = n \div Base
  BY <1>2 DEF TwoBytes
<1>6. Number(t) = n
  BY <1>1, <1>3, Zenon DEF Number
<1>7. TwoBytes(n) \in Seq(Byte) /\ Len(TwoBytes(n)) = 2
  BY <1>1, <1>2 DEF TwoBytes
<1> QED
  BY <1>6, <1>7

-----------------------------------------------------------------------------
(* Frames and datagrams.                                                   *)

LEMMA PayloadTyped ==
  ASSUME NEW m \in Message
  PROVE  /\ m.command \in Byte /\ m.data \in Payloads /\ m.data \in Seq(Byte)
         /\ Len(m.data) \in Nat /\ Len(m.data) + 3 < Base * Base
         /\ m = [command |-> m.command, data |-> m.data]
BY FramingAssumption, LenProperties DEF Message

\* One byte in front.
LEMMA FirstAdded ==
  ASSUME NEW b \in Byte, NEW d \in Seq(Byte)
  PROVE  /\ AddFirst(b, d) \in Seq(Byte) /\ Len(AddFirst(b, d)) = Len(d) + 1
         /\ AddFirst(b, d)[1] = b
         /\ \A i \in 1..Len(d) : AddFirst(b, d)[i + 1] = d[i]
<1>1. <<b>> \in Seq(Byte) /\ Len(<<b>>) = 1 /\ <<b>>[1] = b /\ Len(d) \in Nat
  BY LenProperties
<1>2. /\ <<b>> \o d \in Seq(Byte) /\ Len(<<b>> \o d) = Len(<<b>>) + Len(d)
      /\ \A i \in 1..(Len(<<b>>) + Len(d)) :
           (<<b>> \o d)[i] = IF i <= Len(<<b>>) THEN <<b>>[i] ELSE d[i - Len(<<b>>)]
  BY <1>1, ConcatProperties
<1> QED
  BY <1>1, <1>2 DEF AddFirst

\* Two bytes in front.
LEMMA TwoAdded ==
  ASSUME NEW n \in Nat, n < Base * Base, NEW d \in Seq(Byte)
  PROVE  /\ TwoBytes(n) \o d \in Seq(Byte) /\ Len(TwoBytes(n) \o d) = Len(d) + 2
         /\ (TwoBytes(n) \o d)[1] = TwoBytes(n)[1] /\ (TwoBytes(n) \o d)[2] = TwoBytes(n)[2]
         /\ \A i \in 1..Len(d) : (TwoBytes(n) \o d)[i + 2] = d[i]
<1> DEFINE t == TwoBytes(n)
<1>1. t \in Seq(Byte) /\ Len(t) = 2 /\ Len(d) \in Nat
  BY NumberOfTwoBytes, LenProperties
<1> HIDE DEF t
<1>2. /\ t \o d \in Seq(Byte) /\ Len(t \o d) = Len(t) + Len(d)
      /\ \A i \in 1..(Len(t) + Len(d)) :
           (t \o d)[i] = IF i <= Len(t) THEN t[i] ELSE d[i - Len(t)]
  BY <1>1, ConcatProperties
<1>3. /\ Len(t \o d) = Len(d) + 2 /\ (t \o d)[1] = t[1] /\ (t \o d)[2] = t[2]
      /\ \A i \in 1..Len(d) : (t \o d)[i + 2] = d[i]
  BY <1>1, <1>2
<1> QED
  BY <1>2, <1>3 DEF t

LEMMA LengthAdded ==
  ASSUME NEW d \in Seq(Byte), Len(d) < Base * Base
  PROVE  /\ AddLength(d) \in Seq(Byte) /\ Len(AddLength(d)) = Len(d) + 2
         /\ AddLength(d)[1] = TwoBytes(Len(d))[1] /\ AddLength(d)[2] = TwoBytes(Len(d))[2]
         /\ \A i \in 1..Len(d) : AddLength(d)[i + 2] = d[i]
<1>1. Len(d) \in Nat
  BY LenProperties
<1> QED
  BY <1>1, TwoAdded DEF AddLength

LEMMA FrameShape ==
  ASSUME NEW m \in Message
  PROVE  /\ TcpFrame(m) \in Seq(Byte) /\ Len(TcpFrame(m)) = Len(m.data) + 3
         /\ TcpFrame(m)[1] = TwoBytes(Len(m.data) + 1)[1]
         /\ TcpFrame(m)[2] = TwoBytes(Len(m.data) + 1)[2]
         /\ TcpFrame(m)[3] = m.command
         /\ \A k \in 1..Len(m.data) : TcpFrame(m)[k + 3] = m.data[k]
<1> DEFINE f == AddFirst(m.command, m.data)
<1>1. /\ f \in Seq(Byte) /\ Len(f) = Len(m.data) + 1 /\ Len(m.data) \in Nat
      /\ f[1] = m.command /\ \A i \in 1..Len(m.data) : f[i + 1] = m.data[i]
  BY PayloadTyped, FirstAdded
<1>2. Len(f) \in Nat /\ Len(f) < Base * Base
  BY <1>1, PayloadTyped, FramingAssumption
<1>3. TcpFrame(m) = AddLength(f)
  BY DEF TcpFrame
<1> HIDE DEF f
<1>4. /\ TcpFrame(m) \in Seq(Byte) /\ Len(TcpFrame(m)) = Len(f) + 2
      /\ TcpFrame(m)[1] = TwoBytes(Len(f))[1] /\ TcpFrame(m)[2] = TwoBytes(Len(f))[2]
      /\ \A i \in 1..Len(f) : TcpFrame(m)[i + 2] = f[i]
  <2>1. /\ AddLength(f) \in Seq(Byte) /\ Len(AddLength(f)) = Len(f) + 2
        /\ AddLength(f)[1] = TwoBytes(Len(f))[1] /\ AddLength(f)[2] = TwoBytes(Len(f))[2]
        /\ \A i \in 1..Len(f) : AddLength(f)[i + 2] = f[i]
    BY <1>1, <1>2, LengthAdded, Zenon
  <2> QED
    BY <1>3, <2>1, SMT
<1>5. TcpFrame(m)[3] = m.command
  BY <1>1, <1>4
<1>6. ASSUME NEW k \in 1..Len(m.data) PROVE TcpFrame(m)[k + 3] = m.data[k]
  <2>1. k + 1 \in 1..Len(f) /\ (k + 1) + 2 = k + 3
    BY <1>1
  <2> QED
    BY <1>1, <1>4, <2>1
<1> QED
  BY <1>1, <1>4, <1>5, <1>6

LEMMA DatagramShape ==
  ASSUME NEW m \in Message
  PROVE  /\ Datagram(m) \in Seq(Byte) /\ Len(Datagram(m)) = Len(m.data) + 5
         /\ Datagram(m)[1] = TwoBytes(Len(m.data) + 3)[1]
         /\ Datagram(m)[2] = TwoBytes(Len(m.data) + 3)[2]
         /\ Datagram(m)[5] = m.command
         /\ \A k \in 1..Len(m.data) : Datagram(m)[k + 5] = m.data[k]
<1> DEFINE f == AddFirst(m.command, m.data)
           g == Add_UDP_ID(0, f)
<1>1. /\ f \in Seq(Byte) /\ Len(f) = Len(m.data) + 1 /\ Len(m.data) \in Nat
      /\ f[1] = m.command /\ \A i \in 1..Len(m.data) : f[i + 1] = m.data[i]
  BY PayloadTyped, FirstAdded
<1>2. g = TwoBytes(0) \o f /\ Datagram(m) = AddLength(g)
  BY DEF Datagram, Add_UDP_ID
<1> HIDE DEF f, g
<1>3. 0 \in Nat /\ 0 < Base * Base
  BY FramingAssumption
<1>4. /\ g \in Seq(Byte) /\ Len(g) = Len(f) + 2
      /\ \A i \in 1..Len(f) : g[i + 2] = f[i]
  BY <1>1, <1>2, <1>3, TwoAdded, ZenonT(30)
<1>5. Len(g) \in Nat /\ Len(g) < Base * Base /\ Len(g) = Len(m.data) + 3
  BY <1>1, <1>4, PayloadTyped
<1>6. /\ Datagram(m) \in Seq(Byte) /\ Len(Datagram(m)) = Len(g) + 2
      /\ Datagram(m)[1] = TwoBytes(Len(g))[1] /\ Datagram(m)[2] = TwoBytes(Len(g))[2]
      /\ \A i \in 1..Len(g) : Datagram(m)[i + 2] = g[i]
  <2>1. /\ AddLength(g) \in Seq(Byte) /\ Len(AddLength(g)) = Len(g) + 2
        /\ AddLength(g)[1] = TwoBytes(Len(g))[1] /\ AddLength(g)[2] = TwoBytes(Len(g))[2]
        /\ \A i \in 1..Len(g) : AddLength(g)[i + 2] = g[i]
    BY <1>4, <1>5, LengthAdded, Zenon
  <2> QED
    BY <1>2, <2>1, SMT
<1>7. Datagram(m)[5] = m.command
  <2>1. Datagram(m)[5] = g[3] /\ g[3] = f[1]
    BY <1>1, <1>4, <1>5, <1>6
  <2> QED
    BY <1>1, <2>1
<1>8. ASSUME NEW k \in 1..Len(m.data) PROVE Datagram(m)[k + 5] = m.data[k]
  <2>1. /\ k + 1 \in 1..Len(f) /\ (k + 1) + 2 = k + 3
        /\ k + 3 \in 1..Len(g) /\ (k + 3) + 2 = k + 5
    BY <1>1, <1>4
  <2> QED
    BY <1>1, <1>4, <1>6, <2>1
<1> QED
  BY <1>1, <1>5, <1>6, <1>7, <1>8

LEMMA EmptyFrame ==
  /\ AddLength(<<>>) \in Seq(Byte) /\ Len(AddLength(<<>>)) = 2
  /\ AddLength(<<>>)[1] = 0 /\ AddLength(<<>>)[2] = 0
<1>1. Base \in Int /\ Base > 1 /\ 0 \in Nat /\ 0 < Base * Base
  BY FramingAssumption
<1>2. /\ 0 \div Base \in 0..(Base - 1) /\ 0 % Base \in 0..(Base - 1)
      /\ (0 % Base) + Base * (0 \div Base) = 0
  BY <1>1, Divided, Zenon
<1>3. 0 % Base = 0
  BY <1>1, Remains, FramingAssumption
<1>4. ASSUME NEW q \in 0..(Base - 1), Base * q = 0 PROVE q = 0
  BY <1>1, <1>4, SMTT(30)
<1>5. 0 \div Base = 0
  <2>1. Base * (0 \div Base) = 0
    BY <1>1, <1>2, <1>3
  <2> QED
    BY <1>2, <1>4, <2>1, Zenon
<1>6. TwoBytes(0)[1] = 0 /\ TwoBytes(0)[2] = 0
  BY <1>3, <1>5, Zenon DEF TwoBytes
<1>7. <<>> \in Seq(Byte) /\ Len(<<>>) = 0
  BY EmptySeq
<1> QED
  <2>1. /\ AddLength(<<>>) \in Seq(Byte) /\ Len(AddLength(<<>>)) = Len(<<>>) + 2
        /\ AddLength(<<>>)[1] = TwoBytes(Len(<<>>))[1]
        /\ AddLength(<<>>)[2] = TwoBytes(Len(<<>>))[2]
    BY <1>1, <1>7, LengthAdded, Zenon
  <2>2. /\ AddLength(<<>>)[1] = TwoBytes(0)[1]
        /\ AddLength(<<>>)[2] = TwoBytes(0)[2]
    BY <1>7, <2>1, Zenon
  <2> QED
    BY <1>6, <1>7, <2>1, <2>2, SMT

-----------------------------------------------------------------------------
(* The stream.                                                             *)

LEMMA Sizes ==
  ASSUME TypeOK
  PROVE  /\ Len(sent) \in Nat /\ Len(got) \in Nat
         /\ Len(arrived) \in Nat /\ Len(inFlight) \in Nat
         /\ \A i \in 1..Len(sent) : sent[i] \in Message /\ Len(sent[i].data) \in Nat
         /\ Rest \in Seq(Byte) /\ Len(Rest) = Len(arrived) + Len(inFlight)
         /\ \A j \in 1..Len(arrived) : Rest[j] = arrived[j]
<1>1. /\ sent \in Seq(Message) /\ got \in Seq([command : Byte, data : Seq(Byte)])
      /\ arrived \in Seq(Byte) /\ inFlight \in Seq(Byte)
  BY DEF TypeOK
<1>2. /\ Len(sent) \in Nat /\ Len(got) \in Nat
      /\ Len(arrived) \in Nat /\ Len(inFlight) \in Nat
  BY <1>1, LenProperties
<1>3. \A i \in 1..Len(sent) : sent[i] \in Message /\ Len(sent[i].data) \in Nat
  BY <1>1, ElementOfSeq, PayloadTyped
<1>4. /\ Rest \in Seq(Byte) /\ Len(Rest) = Len(arrived) + Len(inFlight)
      /\ \A j \in 1..(Len(arrived) + Len(inFlight)) :
           Rest[j] = IF j <= Len(arrived) THEN arrived[j] ELSE inFlight[j - Len(arrived)]
  BY <1>1, ConcatProperties DEF Rest
<1>5. \A j \in 1..Len(arrived) : Rest[j] = arrived[j]
  BY <1>2, <1>4
<1> QED
  BY <1>2, <1>3, <1>4, <1>5

\* What the reader has taken is no longer there.
LEMMA Dropped ==
  ASSUME TypeOK, NEW n \in 0..Len(arrived),
         arrived' = RemoveFront(n, arrived), inFlight' = inFlight
  PROVE  /\ arrived' \in Seq(Byte)
         /\ Rest' \in Seq(Byte) /\ Len(Rest') = Len(Rest) - n
         /\ \A j \in 1..Len(Rest') : Rest'[j] = Rest[j + n]
<1>1. arrived \in Seq(Byte) /\ inFlight \in Seq(Byte)
  BY DEF TypeOK
<1>2. Len(arrived) \in Nat /\ Len(inFlight) \in Nat
  BY Sizes
<1>3. arrived' = SubSeq(arrived, n + 1, Len(arrived))
  BY <1>2 DEF RemoveFront
<1>4. \A i \in (n + 1)..Len(arrived) : arrived[i] \in Byte
  BY <1>1, <1>2, ElementOfSeq
<1>5. /\ arrived' \in Seq(Byte)
      /\ Len(arrived') = IF n + 1 <= Len(arrived) THEN Len(arrived) - (n + 1) + 1 ELSE 0
      /\ \A i \in 1..(Len(arrived) - (n + 1) + 1) : arrived'[i] = arrived[(n + 1) + i - 1]
  BY <1>2, <1>3, <1>4, SubSeqProperties
<1>6. /\ Len(arrived') = Len(arrived) - n
      /\ \A i \in 1..(Len(arrived) - n) : arrived'[i] = arrived[i + n]
  BY <1>2, <1>5
<1>7. /\ Rest' \in Seq(Byte) /\ Len(Rest') = Len(arrived') + Len(inFlight)
      /\ \A j \in 1..(Len(arrived') + Len(inFlight)) :
           Rest'[j] = IF j <= Len(arrived') THEN arrived'[j] ELSE inFlight[j - Len(arrived')]
  BY <1>1, <1>5, ConcatProperties DEF Rest
<1>8. /\ Len(Rest) = Len(arrived) + Len(inFlight)
      /\ \A j \in 1..(Len(arrived) + Len(inFlight)) :
           Rest[j] = IF j <= Len(arrived) THEN arrived[j] ELSE inFlight[j - Len(arrived)]
  BY <1>1, ConcatProperties DEF Rest
<1>9. ASSUME NEW j \in 1..Len(Rest') PROVE Rest'[j] = Rest[j + n]
  <2>1. CASE j <= Len(arrived) - n
    <3>1. j \in 1..(Len(arrived) - n) /\ j + n \in 1..Len(arrived)
      BY <1>2, <1>6, <1>7, <2>1
    <3>2. Rest'[j] = arrived'[j]
      BY <1>2, <1>6, <1>7, <3>1
    <3>3. Rest[j + n] = arrived[j + n]
      BY <1>2, <1>8, <3>1
    <3> QED
      BY <1>6, <3>1, <3>2, <3>3, Zenon
  <2>2. CASE ~(j <= Len(arrived) - n)
    <3>1. Rest'[j] = inFlight[j - (Len(arrived) - n)]
      BY <1>2, <1>6, <1>7, <2>2
    <3>2. Rest[j + n] = inFlight[(j + n) - Len(arrived)]
      BY <1>2, <1>6, <1>7, <1>8, <2>2
    <3> QED
      BY <1>2, <1>6, <1>7, <3>1, <3>2
  <2> QED
    BY <2>1, <2>2
<1> QED
  BY <1>2, <1>5, <1>6, <1>7, <1>8, <1>9

\* The client has added bytes to it.
LEMMA Extended ==
  ASSUME TypeOK, NEW f \in Seq(Byte), inFlight' = inFlight \o f, arrived' = arrived
  PROVE  /\ inFlight' \in Seq(Byte)
         /\ Rest' \in Seq(Byte) /\ Len(Rest') = Len(Rest) + Len(f) /\ Len(f) \in Nat
         /\ \A j \in 1..Len(Rest) : Rest'[j] = Rest[j]
         /\ \A k \in 1..Len(f) : Rest'[Len(Rest) + k] = f[k]
<1>1. arrived \in Seq(Byte) /\ inFlight \in Seq(Byte) /\ Rest \in Seq(Byte)
  BY Sizes DEF TypeOK
<1>2. Rest' = Rest \o f
  BY <1>1, ConcatAssociative DEF Rest
<1>3. Len(Rest) \in Nat /\ Len(f) \in Nat
  BY <1>1, LenProperties
<1>4. /\ Rest \o f \in Seq(Byte) /\ Len(Rest \o f) = Len(Rest) + Len(f)
      /\ \A j \in 1..(Len(Rest) + Len(f)) :
           (Rest \o f)[j] = IF j <= Len(Rest) THEN Rest[j] ELSE f[j - Len(Rest)]
  BY <1>1, ConcatProperties
<1>5. inFlight' \in Seq(Byte)
  BY <1>1, ConcatProperties
<1> HIDE DEF Rest
<1>6. \A j \in 1..Len(Rest) : Rest'[j] = Rest[j]
  BY <1>2, <1>3, <1>4
<1>7. ASSUME NEW k \in 1..Len(f) PROVE Rest'[Len(Rest) + k] = f[k]
  BY <1>2, <1>3, <1>4
<1> QED
  BY <1>2, <1>3, <1>4, <1>5, <1>6, <1>7

\* A frame that comes lies within what was not read.
LEMMA Within ==
  ASSUME TypeOK, NEW offset, Laid(offset), Ends(offset), Len(got) <= Len(sent),
         NEW i \in (Len(got) + 1)..Len(sent), NEW k \in 1..(Len(sent[i].data) + 3)
  PROVE  /\ offset[i - 1] \in Nat /\ offset[i] \in Nat /\ offset[Len(got)] \in Nat
         /\ Place(offset[Len(got)]) \in Nat
         /\ offset[i - 1] + k - Place(offset[Len(got)]) \in Int
         /\ offset[i - 1] + k - Place(offset[Len(got)]) <= Len(Rest)
<1>1. /\ Len(sent) \in Nat /\ Len(got) \in Nat /\ Len(sent[i].data) \in Nat /\ Len(Rest) \in Nat
      /\ i \in 1..Len(sent)
  BY Sizes, LenProperties
<1>2. /\ i - 1 \in 0..Len(sent) /\ i \in 0..Len(sent) /\ Len(got) \in 0..Len(sent)
      /\ Len(sent) \in 0..Len(sent)
  BY <1>1
<1>3. /\ offset[i - 1] \in Nat /\ offset[i] \in Nat /\ offset[Len(got)] \in Nat
      /\ offset[Len(sent)] \in Nat
      /\ offset[i] = offset[i - 1] + Len(sent[i].data) + 3 /\ offset[i] <= offset[Len(sent)]
  BY <1>1, <1>2 DEF Laid
<1>4. Place(offset[Len(got)]) \in Nat
  BY <1>3 DEF Place
<1>5. PICK at \in Nat, start \in Nat, end \in Nat, last \in Nat, len \in Nat :
        /\ at = Place(offset[Len(got)]) /\ start = offset[i - 1] /\ end = offset[i]
        /\ last = offset[Len(sent)] /\ len = Len(Rest)
  BY <1>1, <1>3, <1>4
<1>6. len = last - at \/ len = last - at + 2
  BY <1>5 DEF Ends
<1>7. end = start + Len(sent[i].data) + 3 /\ end <= last
  BY <1>3, <1>5
<1>8. start + k - at \in Int /\ start + k - at <= len
  BY <1>1, <1>6, <1>7
<1> QED
  BY <1>3, <1>5, <1>8

\* The client sends a command: its frame is behind all others.
LEMMA SendStream ==
  ASSUME IInv, NEW m \in Message, ClientSend(m)
  PROVE  Stream'
<1>1. /\ TypeOK /\ Taken /\ Stream /\ up
      /\ inFlight' = inFlight \o TcpFrame(m) /\ sent' = Append(sent, m)
      /\ arrived' = arrived /\ reader' = reader /\ got' = got /\ up' = up
  BY DEF IInv, ClientSend
<1> SUFFICES ASSUME reader # "ended"
             PROVE  \E offset : (Laid(offset) /\ InStep(offset) /\ Ends(offset))'
  BY <1>1 DEF Stream
<1> DEFINE n == Len(sent)
           g == Len(got)
           d == Len(m.data) + 3
<1>2. PICK old : Laid(old) /\ InStep(old) /\ Ends(old)
  BY <1>1 DEF Stream
<1>3. /\ n \in Nat /\ g \in Nat /\ g <= n /\ Len(Rest) \in Nat
      /\ \A i \in 1..n : sent[i] \in Message /\ Len(sent[i].data) \in Nat
  BY <1>1, Sizes, LenProperties DEF Taken
<1>4. d \in Nat /\ d = Len(TcpFrame(m)) /\ TcpFrame(m) \in Seq(Byte)
  BY FrameShape, PayloadTyped
<1>5. /\ Len(sent') = n + 1 /\ sent'[n + 1] = m
      /\ \A i \in 1..n : sent'[i] = sent[i]
  BY <1>1, AppendProperties DEF TypeOK
<1>6. /\ Len(Rest') = Len(Rest) + d
      /\ \A j \in 1..Len(Rest) : Rest'[j] = Rest[j]
      /\ \A k \in 1..d : Rest'[Len(Rest) + k] = TcpFrame(m)[k]
  BY <1>1, <1>4, Extended
<1>7. /\ old \in [0..n -> Nat] /\ old[n] \in Nat
      /\ \A i \in 1..n : old[i] = old[i - 1] + Len(sent[i].data) + 3
      /\ \A i \in 0..n : old[i] <= old[n]
  BY <1>2, <1>3 DEF Laid
<1>8. PICK new : new = [i \in 0..(n + 1) |-> IF i <= n THEN old[i] ELSE old[n] + d]
  OBVIOUS
<1> HIDE DEF n, g, d
<1>9. /\ new \in [0..(n + 1) -> Nat] /\ new[n + 1] = old[n] + d
      /\ \A i \in 0..n : new[i] = old[i] /\ old[i] \in Nat
  BY <1>3, <1>4, <1>7, <1>8
<1>10. Laid(new)'
  <2>1. ASSUME NEW i \in 1..(n + 1) PROVE new[i] = new[i - 1] + Len(sent'[i].data) + 3
    <3>1. CASE i \in 1..n
      <4>1. i - 1 \in 0..n /\ i \in 0..n
        BY <1>3, <3>1
      <4> QED
        BY <1>5, <1>7, <1>9, <3>1, <4>1
    <3>2. CASE i = n + 1
      <4>1. new[i - 1] = old[n] /\ new[i] = old[n] + d
        BY <1>3, <1>9, <3>2
      <4> QED
        BY <1>3, <1>4, <1>5, <1>7, <3>2, <4>1, PayloadTyped DEF d
    <3> QED
      BY <1>3, <3>1, <3>2
  <2>2. ASSUME NEW i \in 0..(n + 1) PROVE new[i] <= new[n + 1]
    BY <1>3, <1>4, <1>7, <1>9
  <2> QED
    BY <1>5, <1>9, <2>1, <2>2 DEF Laid
<1>11. PICK at \in Nat :
         /\ Place(new[Len(got)])' = at /\ Place(old[Len(got)]) = at
         /\ old[n] - at = Len(Rest)
  <2>1. new[g] = old[g] /\ old[g] \in Nat
    BY <1>3, <1>9
  <2>2. Place(new[Len(got)])' = Place(old[Len(got)]) /\ Place(old[Len(got)]) \in Nat
    BY <1>1, <2>1 DEF Place, g
  <2> QED
    BY <1>1, <1>2, <1>3, <1>7, <2>2 DEF Ends, n
<1>12. InStep(new)'
  <2> SUFFICES ASSUME NEW i \in (g + 1)..(n + 1), NEW k \in 1..(Len(sent'[i].data) + 3),
                      new[i - 1] + k - at >= 1
               PROVE  Rest'[new[i - 1] + k - at] = TcpFrame(sent'[i])[k]
    BY <1>1, <1>5, <1>11 DEF InStep, g
  <2>1. CASE i \in 1..n
    <3>1. /\ i \in (Len(got) + 1)..Len(sent) /\ i - 1 \in 0..n /\ sent'[i] = sent[i]
      BY <1>3, <1>5, <2>1 DEF g, n
    <3>2. k \in 1..(Len(sent[i].data) + 3) /\ new[i - 1] = old[i - 1]
      BY <1>9, <3>1
    <3>3. old[i - 1] + k - at \in Int /\ old[i - 1] + k - at <= Len(Rest)
      BY <1>1, <1>2, <1>3, <1>11, <3>1, <3>2, Within DEF g, n
    <3>4. PICK j \in Int : j = old[i - 1] + k - at
      BY <3>3
    <3>5. j >= 1 /\ j <= Len(Rest)
      BY <3>2, <3>3, <3>4
    <3>6. j >= 1 => Rest[j] = TcpFrame(sent[i])[k]
      BY <1>2, <1>11, <3>1, <3>2, <3>4, Zenon DEF InStep
    <3>7. Rest'[j] = Rest[j]
      BY <1>3, <1>6, <3>5
    <3> QED
      BY <3>1, <3>2, <3>4, <3>5, <3>6, <3>7, Zenon
  <2>2. CASE i = n + 1
    <3>1. new[i - 1] = old[n] /\ sent'[i] = m /\ k \in 1..d
      BY <1>3, <1>5, <1>9, <2>2 DEF d
    <3>2. PICK start \in Nat, len \in Nat : start = old[n] /\ len = Len(Rest)
      BY <1>3, <1>7
    <3>3. start - at = len
      BY <1>11, <3>2, Zenon
    <3>4. start + k - at = len + k
      BY <1>4, <3>1, <3>3
    <3> QED
      BY <1>6, <3>1, <3>2, <3>4, Zenon
  <2>3. g \in Nat /\ n \in Nat
    BY <1>3
  <2>4. i \in 1..n \/ i = n + 1
    BY <2>3
  <2> QED
    BY <2>1, <2>2, <2>4
<1>13. Ends(new)'
  <2>1. new[n + 1] = old[n] + d /\ old[n] \in Nat
    BY <1>7, <1>9
  <2>2. Len(Rest) \in Nat /\ Len(Rest') = Len(Rest) + d
    BY <1>3, <1>6
  <2>3. new[n + 1] - at = Len(Rest') /\ Len(Rest') \in Nat
    BY <1>4, <1>11, <2>1, <2>2, SMTT(30)
  <2> QED
    BY <1>1, <1>5, <1>11, <2>3 DEF Ends
<1> QED
  BY <1>10, <1>12, <1>13

\* The commands and the reader stay, and the stream, but that the message of no
\* bytes may have been added.
LEMMA QuietStream ==
  ASSUME IInv, reader' = reader, sent' = sent, got' = got,
         \A j \in 1..Len(Rest) : Rest'[j] = Rest[j],
         \/ Len(Rest') = Len(Rest) /\ (~up => ~up')
         \/ /\ up /\ ~up' /\ Len(Rest') = Len(Rest) + 2
            /\ Rest'[Len(Rest) + 1] = 0 /\ Rest'[Len(Rest) + 2] = 0
  PROVE  Stream'
<1>1. TypeOK /\ Taken /\ Stream
  BY DEF IInv
<1> SUFFICES ASSUME reader # "ended"
             PROVE  \E offset : (Laid(offset) /\ InStep(offset) /\ Ends(offset))'
  BY DEF Stream
<1>2. PICK offset : Laid(offset) /\ InStep(offset) /\ Ends(offset)
  BY <1>1 DEF Stream
<1>3. Laid(offset)'
  BY <1>2 DEF Laid
<1>4. Place(offset[Len(got)])' = Place(offset[Len(got)])
  BY DEF Place
<1>5. InStep(offset)'
  <2> SUFFICES ASSUME NEW i \in (Len(got) + 1)..Len(sent), NEW k \in 1..(Len(sent[i].data) + 3),
                      offset[i - 1] + k - Place(offset[Len(got)]) >= 1
               PROVE  Rest'[offset[i - 1] + k - Place(offset[Len(got)])] = TcpFrame(sent[i])[k]
    BY <1>4, SMTT(30) DEF InStep
  <2>1. /\ offset[i - 1] + k - Place(offset[Len(got)]) \in Int
        /\ offset[i - 1] + k - Place(offset[Len(got)]) <= Len(Rest)
    BY <1>1, <1>2, Within DEF Taken
  <2>2. PICK j \in Int : j = offset[i - 1] + k - Place(offset[Len(got)])
    BY <2>1
  <2>3. j >= 1 /\ j <= Len(Rest)
    BY <2>1, <2>2
  <2>4. j >= 1 => Rest[j] = TcpFrame(sent[i])[k]
    BY <1>2, <2>2, Zenon DEF InStep
  <2>5. Len(Rest) \in Nat
    BY <1>1, Sizes, LenProperties
  <2>6. Rest'[j] = Rest[j]
    BY <2>3, <2>5
  <2> QED
    BY <2>2, <2>3, <2>4, <2>6, Zenon
<1>6. Ends(offset)'
  <2> DEFINE left == offset[Len(sent)] - Place(offset[Len(got)])
  <2>1. /\ left \in Nat
        /\ \/ Len(Rest) = left
           \/ ~up /\ Len(Rest) = left + 2 /\ Rest[left + 1] = 0 /\ Rest[left + 2] = 0
    BY <1>2 DEF Ends
  <2>2. PICK l \in Nat : l = left
    BY <2>1
  <2> HIDE DEF left
  <2>3. Len(Rest') = l \/ (~up' /\ Len(Rest') = l + 2 /\ Rest'[l + 1] = 0 /\ Rest'[l + 2] = 0)
    <3>1. CASE Len(Rest) = l
      BY <3>1
    <3>2. CASE ~up /\ Len(Rest) = l + 2 /\ Rest[l + 1] = 0 /\ Rest[l + 2] = 0
      BY <3>2
    <3> QED
      BY <2>1, <2>2, <3>1, <3>2
  <2> QED
    BY <1>4, <2>1, <2>2, <2>3 DEF Ends, left
<1> QED
  BY <1>3, <1>5, <1>6

\* A length is read: the one of the frame that comes, or that of the message of
\* no bytes.
LEMMA ReadLengthStream ==
  ASSUME IInv, ReadLength
  PROVE  /\ Taken' /\ Stream' /\ arrived' \in Seq(Byte)
         /\ size' \in 0..(Base * Base - 1) /\ reader' \in {"message", "ended"}
         /\ Finished'
<1>1. /\ TypeOK /\ Taken /\ Stream /\ reader = "length" /\ Len(arrived) >= 2
      /\ size' = Number(SubSeq(arrived, 1, 2)) /\ arrived' = RemoveFront(2, arrived)
      /\ reader' = IF size' = 0 THEN "ended" ELSE "message"
      /\ inFlight' = inFlight /\ up' = up /\ sent' = sent /\ got' = got
  BY DEF IInv, ReadLength
<1>2. /\ Len(sent) \in Nat /\ Len(got) \in Nat /\ Len(arrived) \in Nat /\ Len(inFlight) \in Nat
      /\ Len(Rest) = Len(arrived) + Len(inFlight) /\ Len(got) <= Len(sent)
      /\ \A i \in 1..Len(sent) : sent[i] \in Message /\ Len(sent[i].data) \in Nat
      /\ \A i \in 1..Len(got) : got[i] = sent[i]
      /\ Rest[1] = arrived[1] /\ Rest[2] = arrived[2]
  BY <1>1, Sizes DEF Taken
<1>3. /\ arrived' \in Seq(Byte)
      /\ Len(Rest') = Len(Rest) - 2
      /\ \A j \in 1..Len(Rest') : Rest'[j] = Rest[j + 2]
  BY <1>1, <1>2, Dropped
<1>4. PICK offset : Laid(offset) /\ InStep(offset) /\ Ends(offset)
  BY <1>1 DEF Stream
<1>5. PICK at \in Nat, last \in Nat :
        /\ at = offset[Len(got)] /\ last = offset[Len(sent)] /\ at <= last
        /\ Place(offset[Len(got)]) = at
  <2>1. offset[Len(got)] \in Nat /\ offset[Len(sent)] \in Nat /\ offset[Len(got)] <= offset[Len(sent)]
    <3>1. Len(got) \in 0..Len(sent) /\ Len(sent) \in 0..Len(sent)
      BY <1>2
    <3> QED
      BY <1>4, <3>1 DEF Laid
  <2>2. Place(offset[Len(got)]) = offset[Len(got)]
    BY <1>1, <2>1 DEF Place
  <2> QED
    BY <2>1, <2>2
<1>6. SubSeq(arrived, 1, 2)[1] = arrived[1] /\ SubSeq(arrived, 1, 2)[2] = arrived[2]
  <2>1. \A i \in 1..2 : arrived[i] \in Byte
    BY <1>1, <1>2, ElementOfSeq DEF TypeOK
  <2>2. \A i \in 1..(2 - 1 + 1) : SubSeq(arrived, 1, 2)[i] = arrived[1 + i - 1]
    BY <2>1, SubSeqProperties
  <2> QED
    BY <2>2
<1>7. CASE Len(got) < Len(sent)
  <2> DEFINE c == sent[Len(got) + 1]
  <2>1. /\ Len(got) + 1 \in 1..Len(sent) /\ Len(got) + 1 \in (Len(got) + 1)..Len(sent)
        /\ (Len(got) + 1) - 1 = Len(got)
        /\ c \in Message /\ Len(c.data) \in Nat /\ Len(c.data) + 3 < Base * Base
    BY <1>2, <1>7, PayloadTyped
  <2>2. ASSUME NEW k \in 1..2 PROVE Rest[k] = TcpFrame(c)[k]
    <3>1. k \in 1..(Len(c.data) + 3)
      BY <2>1
    <3>2. offset[(Len(got) + 1) - 1] + k - Place(offset[Len(got)]) = k
      BY <1>5, <2>1
    <3>3. k >= 1 => Rest[k] = TcpFrame(c)[k]
      BY <1>4, <2>1, <3>1, <3>2, Zenon DEF InStep
    <3> QED
      BY <3>3
  <2>3. SubSeq(arrived, 1, 2)[1] = TwoBytes(Len(c.data) + 1)[1]
        /\ SubSeq(arrived, 1, 2)[2] = TwoBytes(Len(c.data) + 1)[2]
    BY <1>2, <1>6, <2>1, <2>2, FrameShape
  <2>4. Len(c.data) + 1 \in Nat /\ Len(c.data) + 1 < Base * Base
    BY <2>1, FramingAssumption
  <2>5. size' = Len(c.data) + 1
    BY <1>1, <2>3, <2>4, NumberOfTwoBytes, Zenon
  <2>6. reader' = "message" /\ size' \in 0..(Base * Base - 1)
    BY <1>1, <2>1, <2>4, <2>5, FramingAssumption
  <2>7. Taken'
    BY <1>1, <1>2, <1>7, <2>5 DEF Taken
  <2>8. Place(offset[Len(got)])' = at + 2
    BY <1>1, <1>5, <2>6 DEF Place
  <2>9. Laid(offset)'
    BY <1>1, <1>4 DEF Laid
  <2>10. /\ offset[Len(got) + 1] \in Nat /\ offset[Len(got) + 1] = at + Len(c.data) + 3
         /\ offset[Len(got) + 1] <= last
    <3>1. /\ offset \in [0..Len(sent) -> Nat]
          /\ offset[Len(got) + 1] = offset[(Len(got) + 1) - 1] + Len(c.data) + 3
          /\ offset[Len(got) + 1] <= offset[Len(sent)]
      BY <1>4, <1>2, <2>1 DEF Laid
    <3>2. offset[Len(got) + 1] = at + Len(c.data) + 3 /\ offset[Len(got) + 1] <= last
      BY <1>5, <2>1, <3>1, Zenon
    <3>3. at + Len(c.data) + 3 \in Nat
      BY <2>1
    <3> QED
      BY <3>2, <3>3, Zenon
  <2>11. InStep(offset)'
    <3> SUFFICES ASSUME NEW i \in (Len(got) + 1)..Len(sent), NEW k \in 1..(Len(sent[i].data) + 3),
                        offset[i - 1] + k - (at + 2) >= 1
                 PROVE  Rest'[offset[i - 1] + k - (at + 2)] = TcpFrame(sent[i])[k]
      BY <1>1, <2>8 DEF InStep
    <3>1. /\ offset[i - 1] \in Nat
          /\ offset[i - 1] + k - at <= Len(Rest)
      BY <1>1, <1>4, <1>5, Within DEF Taken
    <3>2. PICK start \in Nat : start = offset[i - 1]
      BY <3>1
    <3>3. k \in Nat
      BY <1>2
    <3>4. PICK j \in Int : j = start + k - at
      BY <3>3
    <3>5. offset[i - 1] + k - (at + 2) = j - 2 /\ j >= 3 /\ j <= Len(Rest)
      BY <3>1, <3>2, <3>3, <3>4
    <3>6. j >= 1 => Rest[j] = TcpFrame(sent[i])[k]
      BY <1>4, <1>5, <3>2, <3>4, Zenon DEF InStep
    <3>7. Rest'[j - 2] = Rest[(j - 2) + 2]
      BY <1>2, <1>3, <3>5
    <3>8. j >= 1 /\ (j - 2) + 2 = j
      BY <3>5
    <3> QED
      BY <3>5, <3>6, <3>7, <3>8, Zenon
  <2>12. Ends(offset)'
    <3>1. /\ last - at \in Nat
          /\ \/ Len(Rest) = last - at
             \/ /\ ~up /\ Len(Rest) = (last - at) + 2
                /\ Rest[(last - at) + 1] = 0 /\ Rest[(last - at) + 2] = 0
      BY <1>4, <1>5, Zenon DEF Ends
    <3>2. PICK l \in Nat : l = last - (at + 2)
      BY <2>1, <2>10
    <3>3. last - at = l + 2
      BY <3>2
    <3>4. \/ Len(Rest') = l
          \/ ~up /\ Len(Rest') = l + 2 /\ Rest'[l + 1] = 0 /\ Rest'[l + 2] = 0
      <4>1. CASE Len(Rest) = l + 2
        BY <1>3, <4>1
      <4>2. CASE ~up /\ Len(Rest) = (l + 2) + 2 /\ Rest[(l + 2) + 1] = 0 /\ Rest[(l + 2) + 2] = 0
        <5>1. Len(Rest') = l + 2 /\ (l + 1) + 2 = (l + 2) + 1 /\ (l + 2) + 2 = (l + 2) + 2
          BY <1>3, <4>2
        <5>2. Rest'[l + 1] = Rest[(l + 1) + 2] /\ Rest'[l + 2] = Rest[(l + 2) + 2]
          BY <1>3, <5>1
        <5> QED
          BY <4>2, <5>1, <5>2, Zenon
      <4> QED
        BY <3>1, <3>3, <4>1, <4>2, Zenon
    <3> QED
      BY <1>1, <1>5, <2>8, <3>2, <3>4, Zenon DEF Ends
  <2> QED
    BY <1>3, <2>6, <2>7, <2>9, <2>11, <2>12 DEF Stream, Finished
<1>8. CASE Len(got) = Len(sent)
  <2>1. last - at = 0
    BY <1>5, <1>8
  <2>2. Len(Rest) = 0 \/ (Rest[0 + 1] = 0 /\ Rest[0 + 2] = 0)
    BY <1>4, <1>5, <2>1, Zenon DEF Ends
  <2>3. arrived[1] = 0 /\ arrived[2] = 0
    BY <1>1, <1>2, <2>2
  <2>4. Base * 0 = 0 /\ 0 \in 0..(Base * Base - 1)
    BY FramingAssumption
  <2>5. size' = 0
    <3>1. size' = 0 + Base * 0
      BY <1>1, <1>6, <2>3, Zenon DEF Number
    <3> QED
      BY <2>4, <3>1
  <2>6. reader' = "ended"
    BY <1>1, <2>5
  <2>7. Taken' /\ Stream'
    BY <1>1, <1>2, <2>6 DEF Taken, Stream
  <2>8. Finished'
    <3>1. Len(Rest) # 0
      BY <1>1, <1>2
    <3>2. ~up
      BY <1>4, <1>5, <2>1, <3>1, Zenon DEF Ends
    <3> QED
      BY <1>1, <1>8, <3>2 DEF Finished
  <2> QED
    BY <1>3, <2>4, <2>5, <2>6, <2>7, <2>8
<1> QED
  BY <1>2, <1>7, <1>8

\* A message is read: the bytes of the frame that comes, behind its length, are the
\* command that was sent next.
LEMMA ReadMessageStream ==
  ASSUME IInv, ReadMessage
  PROVE  /\ Taken' /\ Stream' /\ arrived' \in Seq(Byte)
         /\ got' \in Seq([command : Byte, data : Seq(Byte)])
<1> DEFINE c == sent[Len(got) + 1]
           message == SubSeq(arrived, 1, size)
           taken == [command |-> message[1], data |-> RemoveFront(1, message)]
<1>1. /\ TypeOK /\ Taken /\ Stream /\ reader = "message" /\ Len(arrived) >= size
      /\ got' = Append(got, taken) /\ arrived' = RemoveFront(size, arrived)
      /\ reader' = "length"
      /\ inFlight' = inFlight /\ up' = up /\ sent' = sent /\ size' = size
  BY DEF IInv, ReadMessage
<1>2. /\ Len(sent) \in Nat /\ Len(got) \in Nat /\ Len(arrived) \in Nat /\ Len(inFlight) \in Nat
      /\ Len(Rest) = Len(arrived) + Len(inFlight) /\ Len(got) < Len(sent)
      /\ \A i \in 1..Len(sent) : sent[i] \in Message /\ Len(sent[i].data) \in Nat
      /\ \A i \in 1..Len(got) : got[i] = sent[i]
      /\ \A j \in 1..Len(arrived) : Rest[j] = arrived[j]
      /\ size = Len(c.data) + 1
  BY <1>1, Sizes DEF Taken
<1>3. /\ Len(got) + 1 \in 1..Len(sent) /\ Len(got) + 1 \in (Len(got) + 1)..Len(sent)
      /\ (Len(got) + 1) - 1 = Len(got)
      /\ c \in Message /\ Len(c.data) \in Nat /\ size \in Nat /\ size \in 0..Len(arrived)
  BY <1>1, <1>2
<1>4. /\ arrived' \in Seq(Byte)
      /\ Len(Rest') = Len(Rest) - size
      /\ \A j \in 1..Len(Rest') : Rest'[j] = Rest[j + size]
  BY <1>1, <1>3, Dropped
<1>5. PICK offset : Laid(offset) /\ InStep(offset) /\ Ends(offset)
  BY <1>1 DEF Stream
<1> HIDE DEF c
<1>6. /\ offset \in [0..Len(sent) -> Nat]
      /\ offset[Len(got) + 1] = offset[Len(got)] + Len(c.data) + 3
      /\ offset[Len(got) + 1] <= offset[Len(sent)]
  <2>1. /\ offset \in [0..Len(sent) -> Nat] /\ Len(got) + 1 \in 0..Len(sent)
        /\ offset[Len(got) + 1] = offset[(Len(got) + 1) - 1] + Len(c.data) + 3
        /\ offset[Len(got) + 1] <= offset[Len(sent)]
    BY <1>2, <1>3, <1>5 DEF Laid, c
  <2> QED
    BY <1>3, <2>1, Zenon
<1>7. PICK at \in Nat, last \in Nat :
        /\ at = offset[Len(got)] /\ last = offset[Len(sent)]
        /\ Place(offset[Len(got)]) = at + 2
        /\ offset[Len(got) + 1] = at + size + 2 /\ at + size + 2 <= last
  <2>1. Len(got) \in 0..Len(sent) /\ Len(sent) \in 0..Len(sent)
    BY <1>2
  <2>2. PICK at \in Nat, last \in Nat : at = offset[Len(got)] /\ last = offset[Len(sent)]
    BY <1>6, <2>1
  <2>3. Place(offset[Len(got)]) = at + 2
    BY <1>1, <2>2 DEF Place
  <2>4. offset[Len(got) + 1] = at + Len(c.data) + 3 /\ offset[Len(got) + 1] <= last
    BY <1>6, <2>2, Zenon
  <2>5. at + Len(c.data) + 3 = at + size + 2
    BY <1>2, <1>3
  <2> QED
    BY <2>2, <2>3, <2>4, <2>5, Zenon
<1>8. ASSUME NEW k \in 1..size PROVE arrived[k] = TcpFrame(c)[k + 2]
  <2>1. k + 2 \in 1..(Len(c.data) + 3) /\ k \in 1..Len(arrived) /\ k >= 1
    BY <1>2, <1>3
  <2>2. offset[(Len(got) + 1) - 1] + (k + 2) - Place(offset[Len(got)]) = k
    <3>1. offset[(Len(got) + 1) - 1] = at
      BY <1>3, <1>7, Zenon
    <3>2. at + (k + 2) - (at + 2) = k
      BY <1>3
    <3> QED
      BY <1>7, <3>1, <3>2, Zenon
  <2>3. k >= 1 => Rest[k] = TcpFrame(c)[k + 2]
    BY <1>3, <1>5, <2>1, <2>2, Zenon DEF InStep, c
  <2> QED
    BY <1>2, <2>1, <2>3
<1>9. /\ message \in Seq(Byte) /\ Len(message) = size
      /\ \A k \in 1..size : message[k] = arrived[k]
  <2>1. \A i \in 1..size : arrived[i] \in Byte
    BY <1>1, <1>2, <1>3, ElementOfSeq DEF TypeOK
  <2>2. /\ message \in Seq(Byte)
        /\ Len(message) = IF 1 <= size THEN size - 1 + 1 ELSE 0
        /\ \A i \in 1..(size - 1 + 1) : message[i] = arrived[1 + i - 1]
    BY <1>3, <2>1, SubSeqProperties
  <2> HIDE DEF message
  <2> QED
    BY <1>3, <2>2
<1> HIDE DEF message
<1>10. message[1] = c.command
  <2>1. 1 \in 1..size /\ 1 + 2 = 3
    BY <1>2, <1>3
  <2>2. message[1] = TcpFrame(c)[1 + 2]
    BY <1>8, <1>9, <2>1, Zenon
  <2> QED
    BY <1>3, <2>1, <2>2, FrameShape, Zenon
<1>11. RemoveFront(1, message) = c.data
  <2>1. RemoveFront(1, message) = SubSeq(message, 2, size)
    BY <1>2, <1>3, <1>9 DEF RemoveFront
  <2>2. \A i \in 2..size : message[i] \in Byte
    BY <1>3, <1>9, ElementOfSeq
  <2>3. /\ SubSeq(message, 2, size) \in Seq(Byte)
        /\ Len(SubSeq(message, 2, size)) = IF 2 <= size THEN size - 2 + 1 ELSE 0
        /\ \A i \in 1..(size - 2 + 1) : SubSeq(message, 2, size)[i] = message[2 + i - 1]
    BY <1>3, <2>2, SubSeqProperties
  <2>4. Len(SubSeq(message, 2, size)) = Len(c.data)
    BY <1>2, <1>3, <2>3
  <2>5. ASSUME NEW i \in 1..Len(c.data) PROVE SubSeq(message, 2, size)[i] = c.data[i]
    <3>1. i \in 1..(size - 2 + 1) /\ i + 1 \in 1..size /\ 2 + i - 1 = i + 1 /\ (i + 1) + 2 = i + 3
      BY <1>2, <1>3
    <3>2. SubSeq(message, 2, size)[i] = message[i + 1]
      BY <2>3, <3>1
    <3>3. message[i + 1] = TcpFrame(c)[i + 3]
      BY <1>8, <1>9, <3>1
    <3> QED
      BY <1>3, <3>2, <3>3, FrameShape
  <2>6. c.data \in Seq(Byte)
    BY <1>3, PayloadTyped
  <2> QED
    BY <2>1, <2>3, <2>4, <2>5, <2>6, SeqEqual
<1>12. taken = c /\ c \in [command : Byte, data : Seq(Byte)]
  <2>1. c = [command |-> c.command, data |-> c.data] /\ c.command \in Byte /\ c.data \in Seq(Byte)
    BY <1>3, PayloadTyped
  <2> QED
    BY <1>10, <1>11, <2>1
<1> HIDE DEF taken
<1>13. /\ got' \in Seq([command : Byte, data : Seq(Byte)]) /\ Len(got') = Len(got) + 1
       /\ \A i \in 1..Len(got) : got'[i] = got[i]
       /\ got'[Len(got) + 1] = c
  BY <1>1, <1>12, AppendProperties DEF TypeOK
<1>14. Taken'
  <2>1. Len(got') <= Len(sent)
    BY <1>2, <1>13
  <2>2. \A i \in 1..Len(got') : got'[i] = sent[i]
    <3> SUFFICES ASSUME NEW i \in 1..Len(got') PROVE got'[i] = sent[i]
      OBVIOUS
    <3>1. i \in 1..Len(got) \/ i = Len(got) + 1
      BY <1>2, <1>13
    <3> QED
      BY <1>2, <1>13, <3>1, Zenon DEF c
  <2> QED
    BY <1>1, <2>1, <2>2 DEF Taken
<1>15. Place(offset[Len(got)])' = at + size + 2
  <2>1. Place(offset[Len(got)])' = offset[Len(got) + 1] + 0
    BY <1>1, <1>13 DEF Place
  <2>2. at + size + 2 + 0 = at + size + 2
    BY <1>3
  <2> QED
    BY <1>7, <2>1, <2>2, Zenon
<1>16. Laid(offset)'
  BY <1>1, <1>5 DEF Laid
<1>17. InStep(offset)'
  <2> SUFFICES ASSUME NEW i \in (Len(got) + 2)..Len(sent), NEW k \in 1..(Len(sent[i].data) + 3),
                      offset[i - 1] + k - (at + size + 2) >= 1
               PROVE  Rest'[offset[i - 1] + k - (at + size + 2)] = TcpFrame(sent[i])[k]
    <3>1. Len(got') + 1 = Len(got) + 2
      BY <1>2, <1>13
    <3> QED
      BY <1>1, <1>15, <3>1 DEF InStep
  <2>1. i \in (Len(got) + 1)..Len(sent)
    BY <1>2
  <2>2. offset[i - 1] \in Nat /\ offset[i - 1] + k - (at + 2) <= Len(Rest)
    BY <1>1, <1>5, <1>7, <2>1, Within DEF Taken
  <2>3. PICK start \in Nat : start = offset[i - 1]
    BY <2>2
  <2>4. k \in Nat
    BY <1>2
  <2>5. PICK j \in Int : j = start + k - (at + 2)
    BY <2>4
  <2>6. offset[i - 1] + k - (at + size + 2) = j - size /\ j >= size + 1 /\ j <= Len(Rest)
    <3>1. /\ start + k - (at + size + 2) = j - size
          /\ start + k - (at + size + 2) >= 1 => j >= size + 1
      BY <1>3, <2>4, <2>5
    <3> QED
      BY <2>2, <2>3, <2>5, <3>1, Zenon
  <2>7. j >= 1 => Rest[j] = TcpFrame(sent[i])[k]
    BY <1>5, <1>7, <2>1, <2>3, <2>5, Zenon DEF InStep
  <2>8. Rest'[j - size] = Rest[(j - size) + size]
    <3>1. Len(Rest') = Len(Rest) - size /\ Len(Rest) \in Nat
      BY <1>2, <1>4
    <3>2. j - size \in 1..Len(Rest')
      BY <1>3, <2>6, <3>1
    <3> QED
      BY <1>4, <3>2
  <2>9. j >= 1 /\ (j - size) + size = j
    BY <1>3, <2>6
  <2> QED
    BY <2>6, <2>7, <2>8, <2>9, Zenon
<1>18. Ends(offset)'
  <2>1. /\ last - (at + 2) \in Nat
        /\ \/ Len(Rest) = last - (at + 2)
           \/ /\ ~up /\ Len(Rest) = (last - (at + 2)) + 2
              /\ Rest[(last - (at + 2)) + 1] = 0 /\ Rest[(last - (at + 2)) + 2] = 0
    BY <1>5, <1>7, Zenon DEF Ends
  <2>2. PICK l \in Nat : l = last - (at + size + 2)
    BY <1>3, <1>7
  <2>3. last - (at + 2) = l + size
    BY <1>3, <2>2
  <2>4. \/ Len(Rest') = l
        \/ ~up /\ Len(Rest') = l + 2 /\ Rest'[l + 1] = 0 /\ Rest'[l + 2] = 0
    <3>1. CASE Len(Rest) = l + size
      BY <1>3, <1>4, <3>1
    <3>2. CASE /\ ~up /\ Len(Rest) = (l + size) + 2
               /\ Rest[(l + size) + 1] = 0 /\ Rest[(l + size) + 2] = 0
      <4>1. /\ Len(Rest') = l + 2
            /\ (l + 1) + size = (l + size) + 1 /\ (l + 2) + size = (l + size) + 2
        BY <1>3, <1>4, <3>2
      <4>2. Rest'[l + 1] = Rest[(l + 1) + size] /\ Rest'[l + 2] = Rest[(l + 2) + size]
        BY <1>4, <4>1
      <4> QED
        BY <3>2, <4>1, <4>2, Zenon
    <3> QED
      BY <2>1, <2>3, <3>1, <3>2, Zenon
  <2> QED
    BY <1>1, <1>7, <1>15, <2>2, <2>4, Zenon DEF Ends
<1> QED
  BY <1>1, <1>4, <1>13, <1>14, <1>16, <1>17, <1>18 DEF Stream

\* The stream arrives: nothing changes but how much of it is there.
LEMMA ArriveStream ==
  ASSUME TypeOK, Arrive
  PROVE  Rest' = Rest /\ arrived' \in Seq(Byte) /\ inFlight' \in Seq(Byte)
<1>1. arrived \in Seq(Byte) /\ inFlight \in Seq(Byte) /\ Len(inFlight) \in Nat
  BY Sizes DEF TypeOK
<1>2. PICK n \in 1..Len(inFlight) :
        /\ arrived' = arrived \o SubSeq(inFlight, 1, n)
        /\ inFlight' = RemoveFront(n, inFlight)
  BY DEF Arrive
<1>3. inFlight' = SubSeq(inFlight, n + 1, Len(inFlight))
  BY <1>1, <1>2 DEF RemoveFront
<1>4. SubSeq(inFlight, 1, n) \in Seq(Byte) /\ inFlight' \in Seq(Byte)
  <2>1. \A i \in 1..Len(inFlight) : inFlight[i] \in Byte
    BY <1>1, ElementOfSeq
  <2>2. /\ \A i \in 1..n : inFlight[i] \in Byte
        /\ \A i \in (n + 1)..Len(inFlight) : inFlight[i] \in Byte
    BY <1>1, <2>1
  <2> QED
    BY <1>1, <1>3, <2>2, SubSeqProperties
<1>5. SubSeq(inFlight, 1, n) \o SubSeq(inFlight, n + 1, Len(inFlight)) = inFlight
  <2>1. 1 \in 1..(Len(inFlight) + 1) /\ n \in (1 - 1)..Len(inFlight) /\ Len(inFlight) \in n..Len(inFlight)
    BY <1>1
  <2>2. SubSeq(inFlight, 1, n) \o SubSeq(inFlight, n + 1, Len(inFlight))
          = SubSeq(inFlight, 1, Len(inFlight))
    BY <1>1, <2>1, ConcatAdjacentSubSeq
  <2> QED
    BY <1>1, <2>2, SubSeqFull
<1>6. (arrived \o SubSeq(inFlight, 1, n)) \o inFlight'
        = arrived \o (SubSeq(inFlight, 1, n) \o inFlight')
  BY <1>1, <1>4, ConcatAssociative
<1>7. Rest' = Rest
  BY <1>2, <1>3, <1>5, <1>6 DEF Rest
<1>8. arrived' \in Seq(Byte)
  BY <1>1, <1>2, <1>4, ConcatProperties
<1> QED
  BY <1>4, <1>7, <1>8

-----------------------------------------------------------------------------
(* Datagrams.                                                              *)

\* There is a longest payload, as they all fit into a length: m_recv_buff holds it.
LEMMA Longest ==
  ASSUME NEW p \in Payloads
  PROVE  BuffSize \in Nat /\ Len(p) + 8 <= BuffSize
<1> DEFINE T == {Base * Base - Len(d) : d \in Payloads}
<1>1. \A d \in Payloads : Len(d) \in Nat /\ Len(d) + 3 < Base * Base
  BY FramingAssumption, LenProperties
<1>2. T \subseteq Nat /\ T # {}
  BY <1>1, FramingAssumption
<1>3. PICK x \in T : \A y \in T : ~(<<y, x>> \in OpToRel(<, Nat))
  BY <1>2, NatLessThanWellFounded, WFMin
<1>4. \A y \in T : ~(y < x)
  BY <1>2, <1>3 DEF OpToRel
<1>5. PICK d \in Payloads : x = Base * Base - Len(d)
  OBVIOUS
<1>6. \A e \in Payloads : Len(d) >= Len(e)
  <2> SUFFICES ASSUME NEW e \in Payloads PROVE Len(d) >= Len(e)
    OBVIOUS
  <2>1. ~(Base * Base - Len(e) < Base * Base - Len(d))
    BY <1>4, <1>5
  <2>2. Base * Base \in Nat
    BY FramingAssumption
  <2> HIDE DEF T
  <2> QED
    BY <1>1, <2>1, <2>2
<1> DEFINE longest == CHOOSE d0 \in Payloads : \A e \in Payloads : Len(d0) >= Len(e)
<1>7. longest \in Payloads /\ \A e \in Payloads : Len(longest) >= Len(e)
  BY <1>6
<1>8. BuffSize = 8 + Len(longest)
  BY DEF BuffSize
<1> HIDE DEF longest, T
<1> QED
  BY <1>1, <1>7, <1>8

\* A datagram is read from the front of the buffer, and its data with it.
LEMMA ReceivedWhole ==
  ASSUME IInv, NEW d \in datagrams, UdpReceive(d)
  PROVE  /\ recvBuff' \in [1..BuffSize -> Byte]
         /\ \A g \in gotUdp' : g.of \in datagrams /\ g.data \in Seq(Byte)
         /\ UdpPrefix'
<1> DEFINE data == Payload(recvBuff', Number(recvBuff'))
           new == [of |-> d, command |-> recvBuff'[5], data |-> data]
<1>1. /\ recvBuff \in [1..BuffSize -> Byte]
      /\ recvBuff' = [i \in 1..BuffSize |-> IF i <= Len(d) THEN d[i] ELSE recvBuff[i]]
      /\ gotUdp' = gotUdp \cup {new}
      /\ \A g \in gotUdp : g.of \in datagrams /\ g.data \in Seq(Byte)
      /\ UdpPrefix
  BY DEF IInv, TypeOK, UdpReceive
<1>2. PICK m \in Message : d = Datagram(m)
  BY DEF IInv, Sent
<1> DEFINE l == Len(m.data)
<1>3. /\ l \in Nat /\ m.data \in Seq(Byte) /\ l + 3 < Base * Base
      /\ BuffSize \in Nat /\ l + 8 <= BuffSize
  BY PayloadTyped, Longest
<1>4. /\ d \in Seq(Byte) /\ Len(d) = l + 5
      /\ d[1] = TwoBytes(l + 3)[1] /\ d[2] = TwoBytes(l + 3)[2] /\ d[5] = m.command
      /\ \A k \in 1..l : d[k + 5] = m.data[k]
  BY <1>2, DatagramShape
<1> HIDE DEF l
<1>5. \A i \in 1..Len(d) : d[i] \in Byte /\ i \in 1..BuffSize /\ i <= Len(d)
  <2>1. \A i \in 1..Len(d) : d[i] \in Byte
    BY <1>4, ElementOfSeq
  <2> QED
    BY <1>3, <1>4, <2>1
<1>6. recvBuff' \in [1..BuffSize -> Byte] /\ \A i \in 1..Len(d) : recvBuff'[i] = d[i]
  <2>1. ASSUME NEW i \in 1..BuffSize PROVE (IF i <= Len(d) THEN d[i] ELSE recvBuff[i]) \in Byte
    <3>1. CASE i <= Len(d)
      BY <1>3, <1>4, <1>5, <3>1
    <3>2. CASE ~(i <= Len(d))
      BY <1>1, <3>2
    <3> QED
      BY <3>1, <3>2
  <2>2. recvBuff' \in [1..BuffSize -> Byte]
    BY <1>1, <2>1, Zenon
  <2>3. \A i \in 1..Len(d) : recvBuff'[i] = d[i]
    BY <1>1, <1>5, Zenon
  <2> QED
    BY <2>2, <2>3
<1>7. Number(recvBuff') = l + 3
  <2>1. recvBuff'[1] = TwoBytes(l + 3)[1] /\ recvBuff'[2] = TwoBytes(l + 3)[2]
    BY <1>3, <1>4, <1>6
  <2>2. l + 3 \in Nat
    BY <1>3
  <2> QED
    BY <1>3, <2>1, <2>2, NumberOfTwoBytes, Zenon
<1>8. /\ data \in Seq(Byte) /\ Len(data) = l + 3
      /\ \A k \in 1..l : data[k] = m.data[k]
  <2>1. data = SubSeq(recvBuff', 6, 5 + (l + 3))
    BY <1>7 DEF Payload
  <2>2. PICK n \in Int : n = 5 + (l + 3)
    BY <1>3
  <2>3. PICK b : b = recvBuff'
    OBVIOUS
  <2>4. \A i \in 6..n : b[i] \in Byte
    BY <1>3, <1>6, <2>2, <2>3
  <2>5. /\ SubSeq(b, 6, n) \in Seq(Byte)
        /\ Len(SubSeq(b, 6, n)) = IF 6 <= n THEN n - 6 + 1 ELSE 0
        /\ \A k \in 1..(n - 6 + 1) : SubSeq(b, 6, n)[k] = b[6 + k - 1]
    BY <2>4, SubSeqProperties
  <2>6. data = SubSeq(b, 6, n)
    BY <2>1, <2>2, <2>3, Zenon
  <2> HIDE DEF data
  <2>7. Len(data) = l + 3
    BY <1>3, <2>2, <2>5, <2>6
  <2>8. ASSUME NEW k \in 1..l PROVE data[k] = m.data[k]
    <3>1. k \in 1..(n - 6 + 1) /\ 6 + k - 1 = k + 5 /\ k + 5 \in 1..Len(d)
      BY <1>3, <1>4, <2>2
    <3>2. data[k] = b[k + 5]
      BY <2>5, <2>6, <3>1
    <3>3. b[k + 5] = d[k + 5]
      BY <1>6, <2>3, <3>1, Zenon
    <3> QED
      BY <1>4, <3>2, <3>3
  <2> QED
    BY <2>5, <2>6, <2>7, <2>8
<1>9. recvBuff'[5] = m.command
  BY <1>3, <1>4, <1>6
<1> HIDE DEF data
<1>10. IsPrefix(m.data, data)
  <2>1. SubSeq(m.data, 1, l) = m.data
    BY <1>3, SubSeqFull DEF l
  <2>2. \A k \in 1..l : data[k] \in Byte
    BY <1>3, <1>8, ElementOfSeq DEF l
  <2>3. /\ SubSeq(data, 1, l) \in Seq(Byte)
        /\ Len(SubSeq(data, 1, l)) = IF 1 <= l THEN l - 1 + 1 ELSE 0
        /\ \A k \in 1..(l - 1 + 1) : SubSeq(data, 1, l)[k] = data[1 + k - 1]
    BY <1>3, <2>2, SubSeqProperties
  <2>4. Len(SubSeq(data, 1, l)) = l /\ \A k \in 1..l : SubSeq(data, 1, l)[k] = m.data[k]
    BY <1>3, <1>8, <2>3
  <2>5. SubSeq(data, 1, l) = m.data
    BY <1>3, <2>3, <2>4, SeqEqual DEF l
  <2> QED
    BY <1>3, <1>8, <2>1, <2>5 DEF IsPrefix, l
<1>11. UdpPrefix'
  <2> SUFFICES ASSUME NEW g \in gotUdp'
               PROVE  \E n \in Message :
                        /\ g.of = Datagram(n) /\ g.command = n.command
                        /\ IsPrefix(n.data, g.data) /\ Len(g.data) = Len(n.data) + 3
    BY DEF UdpPrefix
  <2>1. CASE g \in gotUdp
    BY <1>1, <2>1, Zenon DEF UdpPrefix
  <2>2. CASE g = new
    <3>1. g.of = d /\ g.command = m.command /\ g.data = data
      BY <1>9, <2>2
    <3> QED
      BY <1>2, <1>8, <1>10, <3>1, Zenon DEF l
  <2> QED
    BY <1>1, <2>1, <2>2
<1>12. ASSUME NEW g \in gotUdp' PROVE g.of \in datagrams /\ g.data \in Seq(Byte)
  <2>1. CASE g \in gotUdp
    BY <1>1, <2>1
  <2>2. CASE g = new
    BY <1>8, <2>2
  <2> QED
    BY <1>1, <2>1, <2>2
<1> QED
  BY <1>6, <1>11, <1>12

-----------------------------------------------------------------------------
(* The invariant.                                                          *)

LEMMA InitIInv == Init => IInv
<1> SUFFICES ASSUME Init PROVE IInv
  OBVIOUS
<1>1. /\ inFlight = <<>> /\ arrived = <<>> /\ up = TRUE /\ reader = "length" /\ size = 0
      /\ sent = <<>> /\ got = <<>> /\ datagrams = {}
      /\ received = 0 /\ gotUdp = {} /\ events = [p \in Players |-> <<>>]
      /\ recvBuff \in [1..BuffSize -> Byte]
  BY DEF Init
<1>2. Len(sent) = 0 /\ Len(got) = 0 /\ Len(Rest) = 0
  <2>1. Len(<<>>) = 0 /\ <<>> \o <<>> = <<>>
    BY EmptySeq, ConcatEmptySeq
  <2> QED
    BY <1>1, <2>1 DEF Rest
<1>3. TypeOK
  <2>1. 0 \in 0..(Base * Base - 1) /\ 0 \in 0..MaxReceived
    BY FramingAssumption
  <2>2. events \in [Players -> Seq(Message)]
    BY <1>1
  <2> QED
    BY <1>1, <2>1, <2>2 DEF TypeOK
<1>4. Taken /\ Sent /\ UdpPrefix
  BY <1>1, <1>2 DEF Taken, Sent, UdpPrefix
<1>5. Stream
  <2>1. PICK offset : offset = [i \in 0..0 |-> 0]
    OBVIOUS
  <2>2. offset \in [0..0 -> Nat] /\ offset[0] = 0
    BY <2>1
  <2>3. Laid(offset) /\ InStep(offset)
    BY <1>2, <2>2 DEF Laid, InStep
  <2>4. Place(offset[Len(got)]) = 0
    BY <1>1, <1>2, <2>2 DEF Place
  <2>5. Ends(offset)
    BY <1>2, <2>2, <2>4 DEF Ends
  <2> QED
    BY <2>3, <2>5 DEF Stream
<1> QED
  BY <1>3, <1>4, <1>5 DEF IInv

\* What the steps of the stream leave alone.
LEMMA UdpSame ==
  ASSUME IInv, UNCHANGED <<udpVars, events>>
  PROVE  /\ Sent' /\ UdpPrefix'
         /\ recvBuff' \in [1..BuffSize -> Byte] /\ datagrams' \subseteq Seq(Byte)
         /\ received' \in 0..MaxReceived /\ events' \in [Players -> Seq(Message)]
         /\ \A g \in gotUdp' : g.of \in datagrams' /\ g.data \in Seq(Byte)
BY DEF IInv, TypeOK, Sent, UdpPrefix, udpVars

\* And those that are not of the stream leave it alone.
LEMMA TcpSame ==
  ASSUME IInv, UNCHANGED tcpVars
  PROVE  /\ Taken' /\ Stream'
         /\ inFlight' \in Seq(Byte) /\ arrived' \in Seq(Byte) /\ up' \in BOOLEAN
         /\ reader' \in {"length", "message", "ended"} /\ size' \in 0..(Base * Base - 1)
         /\ sent' \in Seq(Message) /\ got' \in Seq([command : Byte, data : Seq(Byte)])
<1>1. /\ inFlight' = inFlight /\ arrived' = arrived /\ up' = up /\ reader' = reader
      /\ size' = size /\ sent' = sent /\ got' = got
  BY DEF tcpVars
<1>2. Rest' = Rest /\ up \in BOOLEAN
  BY <1>1 DEF Rest, IInv, TypeOK
<1>3. Stream'
  BY <1>1, <1>2, QuietStream
<1>4. Taken'
  BY <1>1 DEF IInv, Taken
<1> QED
  BY <1>1, <1>3, <1>4 DEF IInv, TypeOK

LEMMA SendKeeps ==
  ASSUME IInv, NEW m \in Message, ClientSend(m)
  PROVE  IInv'
<1>1. /\ TypeOK /\ Taken
      /\ inFlight' = inFlight \o TcpFrame(m) /\ sent' = Append(sent, m)
      /\ arrived' = arrived /\ up' = up /\ reader' = reader /\ size' = size /\ got' = got
      /\ UNCHANGED <<udpVars, events>>
  BY DEF IInv, ClientSend
<1>2. inFlight' \in Seq(Byte)
  BY <1>1, FrameShape, Extended
<1>3. /\ sent' \in Seq(Message) /\ Len(sent') = Len(sent) + 1
      /\ \A i \in 1..Len(sent) : sent'[i] = sent[i]
  BY <1>1, AppendProperties DEF TypeOK
<1>4. Taken'
  <2>1. Len(sent) \in Nat /\ Len(got) \in Nat /\ Len(got) <= Len(sent)
    BY <1>1, Sizes DEF Taken
  <2>2. Len(got) <= Len(sent') /\ \A i \in 1..Len(got) : got[i] = sent'[i]
    BY <1>1, <1>3, <2>1 DEF Taken
  <2>3. ASSUME reader = "message"
        PROVE  Len(got) < Len(sent') /\ sent'[Len(got) + 1] = sent[Len(got) + 1]
    BY <1>1, <1>3, <2>1, <2>3 DEF Taken
  <2> QED
    BY <1>1, <2>2, <2>3 DEF Taken
<1> QED
  BY <1>1, <1>2, <1>3, <1>4, SendStream, UdpSame DEF IInv, TypeOK

LEMMA SendEmptyKeeps ==
  ASSUME IInv, ClientSendEmpty
  PROVE  IInv'
<1>1. /\ TypeOK /\ up /\ ~up' /\ up' = FALSE /\ inFlight' = inFlight \o AddLength(<<>>)
      /\ arrived' = arrived /\ reader' = reader /\ size' = size /\ sent' = sent /\ got' = got
      /\ UNCHANGED <<udpVars, events>>
  BY DEF IInv, ClientSendEmpty
<1>2. /\ inFlight' \in Seq(Byte) /\ Len(Rest') = Len(Rest) + 2
      /\ \A j \in 1..Len(Rest) : Rest'[j] = Rest[j]
      /\ Rest'[Len(Rest) + 1] = 0 /\ Rest'[Len(Rest) + 2] = 0
  <2>1. /\ inFlight' \in Seq(Byte) /\ Len(Rest') = Len(Rest) + Len(AddLength(<<>>))
        /\ \A j \in 1..Len(Rest) : Rest'[j] = Rest[j]
        /\ \A k \in 1..Len(AddLength(<<>>)) : Rest'[Len(Rest) + k] = AddLength(<<>>)[k]
    BY <1>1, EmptyFrame, Extended
  <2>2. 1 \in 1..2 /\ 2 \in 1..2
    OBVIOUS
  <2> QED
    BY <2>1, <2>2, EmptyFrame, Zenon
<1>3. Stream'
  BY <1>1, <1>2, QuietStream
<1>4. Taken'
  BY <1>1 DEF IInv, Taken
<1> QED
  BY <1>1, <1>2, <1>3, <1>4, UdpSame DEF IInv, TypeOK

LEMMA GoneKeeps ==
  ASSUME IInv, ClientGone
  PROVE  IInv'
<1>1. /\ TypeOK /\ up /\ up' = FALSE /\ inFlight' = inFlight
      /\ arrived' = arrived /\ reader' = reader /\ size' = size /\ sent' = sent /\ got' = got
      /\ UNCHANGED <<udpVars, events>>
  BY DEF IInv, ClientGone
<1>2. Rest' = Rest
  BY <1>1 DEF Rest
<1>3. Stream'
  BY <1>1, <1>2, QuietStream
<1>4. Taken'
  BY <1>1 DEF IInv, Taken
<1> QED
  BY <1>1, <1>3, <1>4, UdpSame DEF IInv, TypeOK

LEMMA ArriveKeeps ==
  ASSUME IInv, Arrive
  PROVE  IInv'
<1>1. /\ TypeOK /\ up' = up /\ up \in BOOLEAN
      /\ reader' = reader /\ size' = size /\ sent' = sent /\ got' = got
      /\ UNCHANGED <<udpVars, events>>
  BY DEF IInv, TypeOK, Arrive
<1>2. Rest' = Rest /\ arrived' \in Seq(Byte) /\ inFlight' \in Seq(Byte)
  BY <1>1, ArriveStream
<1>3. Stream'
  BY <1>1, <1>2, QuietStream
<1>4. Taken'
  BY <1>1 DEF IInv, Taken
<1> QED
  BY <1>1, <1>2, <1>3, <1>4, UdpSame DEF IInv, TypeOK

LEMMA ReadKeeps ==
  ASSUME IInv, ReadLength \/ ReadMessage \/ ReadFails
  PROVE  IInv'
<1>1. /\ TypeOK /\ inFlight' = inFlight /\ up' = up /\ sent' = sent
      /\ UNCHANGED <<udpVars, events>>
  BY DEF IInv, ReadLength, ReadMessage, ReadFails
<1>2. CASE ReadLength
  <2>1. /\ Taken' /\ Stream' /\ arrived' \in Seq(Byte) /\ got' = got
        /\ size' \in 0..(Base * Base - 1) /\ reader' \in {"message", "ended"}
    BY <1>2, ReadLengthStream DEF ReadLength
  <2> QED
    BY <1>1, <2>1, UdpSame DEF IInv, TypeOK
<1>3. CASE ReadMessage
  <2>1. /\ Taken' /\ Stream' /\ arrived' \in Seq(Byte) /\ size' = size /\ reader' = "length"
        /\ got' \in Seq([command : Byte, data : Seq(Byte)])
    BY <1>3, ReadMessageStream DEF ReadMessage
  <2> QED
    BY <1>1, <2>1, UdpSame DEF IInv, TypeOK
<1>4. CASE ReadFails
  <2>1. arrived' = arrived /\ size' = size /\ reader' = "ended" /\ got' = got
    BY <1>4 DEF ReadFails
  <2>2. Taken' /\ Stream'
    BY <1>1, <2>1 DEF IInv, Taken, Stream
  <2> QED
    BY <1>1, <2>1, <2>2, UdpSame DEF IInv, TypeOK
<1> QED
  BY <1>2, <1>3, <1>4

LEMMA SendUdpKeeps ==
  ASSUME IInv, NEW m \in Message, ClientSendUdp(m)
  PROVE  IInv'
<1>1. /\ TypeOK /\ Sent /\ UdpPrefix /\ datagrams' = datagrams \cup {Datagram(m)}
      /\ recvBuff' = recvBuff /\ received' = received /\ gotUdp' = gotUdp /\ events' = events
      /\ UNCHANGED tcpVars
  BY DEF IInv, ClientSendUdp
<1>2. datagrams' \subseteq Seq(Byte)
  BY <1>1, DatagramShape DEF TypeOK
<1>3. Sent' /\ UdpPrefix'
  BY <1>1 DEF Sent, UdpPrefix
<1> QED
  BY <1>1, <1>2, <1>3, TcpSame DEF IInv, TypeOK

LEMMA UdpReceiveKeeps ==
  ASSUME IInv, NEW d \in datagrams, UdpReceive(d)
  PROVE  IInv'
<1>1. /\ TypeOK /\ Sent /\ datagrams' = datagrams /\ events' = events
      /\ received' = received + 1 /\ received < MaxReceived
      /\ UNCHANGED tcpVars
  BY DEF IInv, UdpReceive
<1>2. received' \in 0..MaxReceived
  BY <1>1, FramingAssumption DEF TypeOK
<1>3. /\ recvBuff' \in [1..BuffSize -> Byte]
      /\ \A g \in gotUdp' : g.of \in datagrams' /\ g.data \in Seq(Byte)
      /\ UdpPrefix'
  BY <1>1, ReceivedWhole
<1>4. Sent'
  BY <1>1 DEF Sent
<1> QED
  BY <1>1, <1>2, <1>3, <1>4, TcpSame DEF IInv, TypeOK

LEMMA EventKeeps ==
  ASSUME IInv, NEW m \in Message, NEW p \in Players, AddEvent(p, m)
  PROVE  IInv'
<1>1. /\ TypeOK /\ Sent /\ UdpPrefix /\ events' = [events EXCEPT ![p] = Append(@, m)]
      /\ UNCHANGED tcpVars /\ UNCHANGED udpVars
  BY DEF IInv, AddEvent
<1>2. events' \in [Players -> Seq(Message)]
  BY <1>1, AppendProperties DEF TypeOK
<1>3. Sent' /\ UdpPrefix'
  BY <1>1 DEF Sent, UdpPrefix, udpVars
<1> QED
  BY <1>1, <1>2, <1>3, TcpSame DEF IInv, TypeOK, udpVars

-----------------------------------------------------------------------------
\* The inductive invariant: what was not read of the stream are the frames of the
\* commands not taken yet, and every datagram is one of a client's.
THEOREM Invariance == Spec => []IInv
<1>1. IInv /\ [Next]_vars => IInv'
  <2> SUFFICES ASSUME IInv, [Next]_vars PROVE IInv'
    OBVIOUS
  <2>1. ASSUME NEW m \in Message, ClientSend(m) PROVE IInv'
    BY <2>1, SendKeeps
  <2>2. ASSUME NEW m \in Message, ClientSendUdp(m) PROVE IInv'
    BY <2>2, SendUdpKeeps
  <2>3. ASSUME NEW m \in Message, NEW p \in Players, AddEvent(p, m) PROVE IInv'
    BY <2>3, EventKeeps
  <2>4. CASE ClientSendEmpty
    BY <2>4, SendEmptyKeeps
  <2>5. CASE ClientGone
    BY <2>5, GoneKeeps
  <2>6. CASE Arrive
    BY <2>6, ArriveKeeps
  <2>7. CASE ReadLength \/ ReadMessage \/ ReadFails
    BY <2>7, ReadKeeps
  <2>8. ASSUME NEW d \in datagrams, UdpReceive(d) PROVE IInv'
    BY <2>8, UdpReceiveKeeps
  <2>9. CASE UNCHANGED vars
    <3>1. UNCHANGED tcpVars /\ UNCHANGED udpVars /\ UNCHANGED events
      BY <2>9 DEF vars
    <3> QED
      BY <3>1, TcpSame, UdpSame DEF IInv, TypeOK
  <2> QED
    BY <2>1, <2>2, <2>3, <2>4, <2>5, <2>6, <2>7, <2>8, <2>9 DEF Next
<1> QED
  BY InitIInv, <1>1, PTL DEF Spec

\* While a command is to come, its bytes are: the reader waits for none that nobody
\* sent.
LEMMA NothingLeft ==
  ASSUME IInv, inFlight = <<>>, reader # "ended",
         ~ (reader = "length" /\ Len(arrived) >= 2),
         ~ (reader = "message" /\ Len(arrived) >= size)
  PROVE  Len(got) = Len(sent)
<1>1. /\ TypeOK /\ Taken /\ Stream /\ Len(sent) \in Nat /\ Len(got) \in Nat
      /\ Len(got) <= Len(sent) /\ Len(arrived) \in Nat
      /\ reader = "length" \/ reader = "message"
      /\ \A i \in 1..Len(sent) : Len(sent[i].data) \in Nat
  BY Sizes DEF IInv, Taken, TypeOK
<1>2. Len(Rest) = Len(arrived)
  <2>1. Len(Rest) = Len(arrived) + Len(inFlight) /\ Len(inFlight) = 0
    BY <1>1, Sizes, EmptySeq
  <2> QED
    BY <1>1, <2>1
<1>3. PICK offset : Laid(offset) /\ Ends(offset)
  BY <1>1 DEF Stream
<1> SUFFICES ASSUME Len(got) < Len(sent) PROVE FALSE
  BY <1>1
<1>4. /\ Len(got) + 1 \in 1..Len(sent) /\ (Len(got) + 1) - 1 = Len(got)
      /\ Len(got) \in 0..Len(sent) /\ Len(sent) \in 0..Len(sent)
  BY <1>1
<1>5. PICK n \in Nat : n = Len(sent[Len(got) + 1].data)
  BY <1>1, <1>4
<1>6. PICK at \in Nat, last \in Nat :
        /\ at = offset[Len(got)] /\ last = offset[Len(sent)]
        /\ offset[Len(got) + 1] = at + n + 3 /\ offset[Len(got) + 1] <= last
  <2>1. /\ offset[Len(got)] \in Nat /\ offset[Len(sent)] \in Nat
        /\ offset[Len(got) + 1] <= offset[Len(sent)]
    BY <1>1, <1>3, <1>4 DEF Laid
  <2>2. offset[Len(got) + 1] = offset[Len(got)] + n + 3
    BY <1>3, <1>4, <1>5, Zenon DEF Laid
  <2> QED
    BY <2>1, <2>2
<1>7. at + n + 3 <= last
  BY <1>6
<1>8. PICK left \in Nat : left = last - Place(at) /\ (Len(Rest) = left \/ Len(Rest) = left + 2)
  BY <1>3, <1>6, Zenon DEF Ends
<1>9. CASE reader = "length"
  <2>1. Place(at) = at
    BY <1>6, <1>9 DEF Place
  <2> QED
    BY <1>1, <1>2, <1>7, <1>8, <1>9, <2>1
<1>10. CASE reader = "message"
  <2>1. Place(at) = at + 2
    BY <1>10 DEF Place
  <2>2. size = n + 1
    BY <1>1, <1>5, <1>10 DEF Taken
  <2> QED
    BY <1>1, <1>2, <1>7, <1>8, <1>10, <2>1, <2>2
<1> QED
  BY <1>1, <1>9, <1>10

\* The reader ends at the message of no bytes, or where the stream has broken off:
\* either way no command is left.
LEMMA FinishedKeeps ==
  ASSUME IInv, Finished, [Next]_vars
  PROVE  Finished'
<1>1. ASSUME UNCHANGED <<reader, got, sent>>, up' = up \/ up' = FALSE PROVE Finished'
  BY <1>1 DEF Finished
<1>2. ASSUME NEW m \in Message, ClientSend(m) PROVE Finished'
  BY <1>2 DEF ClientSend, Finished
<1>3. ASSUME NEW m \in Message, ClientSendUdp(m) PROVE Finished'
  BY <1>1, <1>3 DEF ClientSendUdp, tcpVars
<1>4. ASSUME NEW m \in Message, NEW p \in Players, AddEvent(p, m) PROVE Finished'
  BY <1>1, <1>4 DEF AddEvent, tcpVars
<1>5. CASE ClientSendEmpty \/ ClientGone \/ Arrive
  BY <1>1, <1>5 DEF ClientSendEmpty, ClientGone, Arrive
<1>6. CASE ReadLength
  BY <1>6, ReadLengthStream
<1>7. CASE ReadMessage
  BY <1>7 DEF ReadMessage, Finished
<1>8. CASE ReadFails
  <2>1. /\ ~up /\ inFlight = <<>> /\ UNCHANGED <<up, sent, got>>
        /\ \/ reader = "length" /\ Len(arrived) < 2
           \/ reader = "message" /\ Len(arrived) < size
    BY <1>8 DEF ReadFails
  <2>2. Len(arrived) \in Nat /\ size \in Nat
    BY Sizes DEF IInv, TypeOK
  <2>3. Len(got) = Len(sent)
    BY <2>1, <2>2, NothingLeft
  <2> QED
    BY <2>1, <2>3 DEF Finished
<1>9. ASSUME NEW d \in datagrams, UdpReceive(d) PROVE Finished'
  BY <1>1, <1>9 DEF UdpReceive, tcpVars
<1>10. CASE UNCHANGED vars
  BY <1>1, <1>10 DEF vars, tcpVars
<1> QED
  BY <1>2, <1>3, <1>4, <1>5, <1>6, <1>7, <1>8, <1>9, <1>10 DEF Next

\* The server takes from the stream the commands the client sent, whole and in
\* order, wherever it was cut, and leaves none of them behind (Framing.TcpInOrder).
THEOREM TakenInOrder == Spec => []TcpInOrder
<1>1. IInv => IsPrefix(got, sent)
  <2> SUFFICES ASSUME IInv PROVE IsPrefix(got, sent)
    OBVIOUS
  <2> DEFINE R == [command : Byte, data : Seq(Byte)]
             g == Len(got)
  <2>1. /\ TypeOK /\ g \in Nat /\ Len(sent) \in Nat /\ g <= Len(sent)
        /\ \A i \in 1..g : got[i] = sent[i]
    BY Sizes DEF IInv, Taken
  <2>2. \A i \in 1..g : got[i] \in R /\ sent[i] \in R
    BY <2>1, ElementOfSeq DEF TypeOK
  <2> HIDE DEF R, g
  <2>3. /\ SubSeq(got, 1, g) \in Seq(R) /\ SubSeq(sent, 1, g) \in Seq(R)
        /\ Len(SubSeq(got, 1, g)) = g /\ Len(SubSeq(sent, 1, g)) = g
        /\ \A i \in 1..g : SubSeq(got, 1, g)[i] = got[i] /\ SubSeq(sent, 1, g)[i] = sent[i]
    <3>1. /\ SubSeq(got, 1, g) \in Seq(R)
          /\ Len(SubSeq(got, 1, g)) = IF 1 <= g THEN g - 1 + 1 ELSE 0
          /\ \A i \in 1..(g - 1 + 1) : SubSeq(got, 1, g)[i] = got[1 + i - 1]
      BY <2>1, <2>2, SubSeqProperties
    <3>2. /\ SubSeq(sent, 1, g) \in Seq(R)
          /\ Len(SubSeq(sent, 1, g)) = IF 1 <= g THEN g - 1 + 1 ELSE 0
          /\ \A i \in 1..(g - 1 + 1) : SubSeq(sent, 1, g)[i] = sent[1 + i - 1]
      BY <2>1, <2>2, SubSeqProperties
    <3> QED
      BY <2>1, <3>1, <3>2
  <2>4. SubSeq(got, 1, g) = SubSeq(sent, 1, g)
    BY <2>1, <2>3, SeqEqual
  <2> QED
    BY <2>1, <2>4 DEF IsPrefix, g
<1>2. ASSUME IInv, Len(got) = Len(sent) PROVE got = sent
  <2> DEFINE R == [command : Byte, data : Seq(Byte)]
  <2>1. /\ got \in Seq(R) /\ sent \in Seq(Message) /\ Len(sent) \in Nat
        /\ \A i \in 1..Len(got) : got[i] = sent[i]
    BY <1>2, LenProperties DEF IInv, TypeOK, Taken
  <2>2. sent \in Seq(R)
    <3>1. \A i \in 1..Len(sent) : sent[i] = got[i] /\ got[i] \in R
      BY <1>2, <2>1, ElementOfSeq
    <3> HIDE DEF R
    <3>2. DOMAIN sent = 1..Len(sent)
      BY <2>1, LenProperties
    <3> QED
      BY <2>1, <3>1, <3>2, IsASeq, LenProperties
  <2> QED
    BY <1>2, <2>1, <2>2, SeqEqual
<1>3. IInv /\ Finished => TcpInOrder
  <2> SUFFICES ASSUME IInv, Finished, inFlight = <<>>,
                      ~ (reader = "length" /\ Len(arrived) >= 2),
                      ~ (reader = "message" /\ Len(arrived) >= size)
               PROVE  Len(got) = Len(sent)
    BY <1>1, <1>2 DEF TcpInOrder
  <2> QED
    BY NothingLeft DEF Finished
<1>4. Init => Finished
  BY DEF Init, Finished
<1> QED
  BY <1>3, <1>4, FinishedKeeps, Invariance, PTL DEF Spec

\* A datagram gives its command and its data, whatever was in the buffer before it,
\* and three bytes of what was (Framing.UdpPrefix).
THEOREM DatagramsHold == Spec => []UdpPrefix
<1>1. IInv => UdpPrefix
  BY DEF IInv
<1> QED
  BY <1>1, Invariance, PTL

-----------------------------------------------------------------------------
(* Induction over the numbers of a set, and functions defined by           *)
(* recursion.                                                              *)

\* The pairs of numbers of which the first is the smaller.
Below == {pair \in Nat \X Nat : pair[1] < pair[2]}

\* A set of numbers that is not empty has a least one.
LEMMA LeastNumber ==
  ASSUME NEW T, T \subseteq Nat, T # {}
  PROVE  \E m \in T : \A n \in T : m <= n
<1>1. IsWellFoundedOn(Below, Nat)
  BY NatLessThanWellFounded DEF Below, OpToRel
<1>2. PICK m \in T : \A n \in T : ~ (<<n, m>> \in Below)
  BY <1>1, WFMin
<1>3. ASSUME NEW n \in T PROVE m <= n
  <2>1. <<n, m>> \in Nat \X Nat /\ <<n, m>>[1] = n /\ <<n, m>>[2] = m
    OBVIOUS
  <2>2. ~ (n < m)
    BY <1>2, <2>1 DEF Below
  <2> QED
    BY <2>2
<1> QED
  BY <1>3

\* Induction, for the set of the numbers that have a property.
LEMMA Induction ==
  ASSUME NEW T, 0 \in T, \A n \in Nat : n \in T => n + 1 \in T
  PROVE  \A n \in Nat : n \in T
<1> SUFFICES ASSUME Nat \ T # {} PROVE FALSE
  OBVIOUS
<1>1. PICK m \in Nat \ T : \A n \in Nat \ T : m <= n
  BY LeastNumber
<1>2. m - 1 \in Nat /\ m = (m - 1) + 1
  BY <1>1
<1>3. m - 1 \in T
  BY <1>1, <1>2
<1> QED
  BY <1>1, <1>2, <1>3

\* A value of X for each number up to N from the one before, the first being b.
Steps(step, X, N) == step \in [1..N -> [X -> X]]
Follows(f, X, N, b, step) ==
  /\ f \in [0..N -> X]
  /\ f[0] = b
  /\ \A n \in 1..N : f[n] = step[n][f[n - 1]]

LEMMA Recursion ==
  ASSUME NEW X, NEW N \in Nat, NEW b \in X, NEW step, Steps(step, X, N)
  PROVE  \E f : Follows(f, X, N, b, step)
<1> USE DEF Steps
<1> DEFINE Defined(f, n) == f[0] = b /\ \A i \in 1..n : f[i] = step[i][f[i - 1]]
           T == {n \in Nat : n <= N => \E f \in [0..n -> X] : Defined(f, n)}
<1>1. 0 \in T
  <2>1. PICK f : f = [i \in 0..0 |-> b]
    OBVIOUS
  <2>2. f \in [0..0 -> X] /\ Defined(f, 0)
    BY <2>1
  <2> QED
    BY <2>2
<1>2. ASSUME NEW n \in Nat, n \in T PROVE n + 1 \in T
  <2> SUFFICES ASSUME n + 1 <= N
               PROVE  \E f \in [0..(n + 1) -> X] : Defined(f, n + 1)
    OBVIOUS
  <2>1. PICK f \in [0..n -> X] : Defined(f, n)
    BY <1>2
  <2>2. PICK g : g = [i \in 0..(n + 1) |-> IF i = n + 1 THEN step[n + 1][f[n]] ELSE f[i]]
    OBVIOUS
  <2>3. /\ g[n + 1] = step[n + 1][f[n]] /\ step[n + 1][f[n]] \in X
        /\ \A i \in 0..n : g[i] = f[i] /\ f[i] \in X
    BY <2>1, <2>2
  <2>4. g \in [0..(n + 1) -> X]
    BY <2>2, <2>3
  <2>5. g[0] = b
    BY <2>1, <2>3
  <2>6. ASSUME NEW i \in 1..(n + 1) PROVE g[i] = step[i][g[i - 1]]
    BY <2>1, <2>3
  <2> QED
    BY <2>4, <2>5, <2>6
<1>3. N \in T
  <2> HIDE DEF T
  <2> QED
    BY <1>1, <1>2, Induction
<1> QED
  BY <1>3 DEF Follows

-----------------------------------------------------------------------------
(* The entries of a Player_Events message.                                 *)

Item == [instance : Byte, command : Byte, data : Seq(Byte)]

\* An event with its player.
Tag(p, e) == [instance |-> p, command |-> e.command, data |-> e.data]

\* The bytes of an event lie from there on.
EntryAt(bytes, start, item) ==
  /\ start + Len(item.data) + 3 <= Len(bytes)
  /\ bytes[start + 1] = item.instance
  /\ bytes[start + 2] = item.command
  /\ bytes[start + 3] = Len(item.data) % Base
  /\ \A k \in 1..Len(item.data) : bytes[start + 3 + k] = item.data[k]

\* The entries of the events lie behind one another, and are all there is.
Encodes(bytes, items) ==
  /\ bytes \in Seq(Byte) /\ items \in Seq(Item)
  /\ \E at \in [0..Len(items) -> Nat] :
       /\ at[0] = 0 /\ at[Len(items)] = Len(bytes)
       /\ \A i \in 1..Len(items) : /\ at[i] = at[i - 1] + Len(items[i].data) + 3
                                   /\ EntryAt(bytes, at[i - 1], items[i])

LEMMA Remainder ==
  ASSUME NEW b \in Nat, b > 0, NEW n \in Nat
  PROVE  n % b \in 0..(b - 1)
OBVIOUS

\* The bytes of one entry.
LEMMA EntryShape ==
  ASSUME NEW p \in Byte, NEW e \in Message
  PROVE  /\ Entry(p, e) \in Seq(Byte) /\ Len(Entry(p, e)) = Len(e.data) + 3
         /\ Entry(p, e)[1] = p /\ Entry(p, e)[2] = e.command
         /\ Entry(p, e)[3] = Len(e.data) % Base
         /\ \A k \in 1..Len(e.data) : Entry(p, e)[3 + k] = e.data[k]
<1> DEFINE head == <<p, e.command, Len(e.data) % Base>>
<1>1. /\ e.command \in Byte /\ e.data \in Seq(Byte)
      /\ Len(e.data) \in Nat /\ Len(e.data) % Base \in Byte
  <2>1. e.command \in Byte /\ e.data \in Seq(Byte) /\ Len(e.data) \in Nat
    BY PayloadTyped
  <2>2. Len(e.data) % Base \in 0..(Base - 1)
    <3>1. Base \in Nat /\ Base > 0
      BY FramingAssumption
    <3> QED
      BY <2>1, <3>1, Remainder, Zenon
  <2> QED
    BY <2>1, <2>2 DEF Byte
<1>2. /\ head \in Seq(Byte) /\ Len(head) = 3
      /\ head[1] = p /\ head[2] = e.command /\ head[3] = Len(e.data) % Base
  BY <1>1
<1> HIDE DEF head
<1>3. /\ head \o e.data \in Seq(Byte) /\ Len(head \o e.data) = Len(head) + Len(e.data)
      /\ \A i \in 1..(Len(head) + Len(e.data)) :
           (head \o e.data)[i] = IF i <= Len(head) THEN head[i] ELSE e.data[i - Len(head)]
  BY <1>1, <1>2, ConcatProperties
<1>4. Entry(p, e) = head \o e.data
  BY DEF Entry, head
<1> QED
  BY <1>1, <1>2, <1>3, <1>4

\* An empty buffer is what becomes of no events.
LEMMA NothingEncoded == Encodes(<<>>, <<>>)
<1>1. <<>> \in Seq(Byte) /\ <<>> \in Seq(Item) /\ Len(<<>>) = 0
  BY EmptySeq
<1>2. PICK at : at = [i \in 0..0 |-> 0]
  OBVIOUS
<1>3. at \in [0..0 -> Nat] /\ at[0] = 0
  BY <1>2
<1> QED
  BY <1>1, <1>3 DEF Encodes

\* One more event behind what is in the buffer.
LEMMA OneEncoded ==
  ASSUME NEW bytes, NEW items, Encodes(bytes, items), NEW p \in Byte, NEW e \in Message
  PROVE  Encodes(bytes \o Entry(p, e), Append(items, Tag(p, e)))
<1> DEFINE n == Len(items)
           item == Tag(p, e)
           d == Len(item.data) + 3
           new == Entry(p, e)
           longer == bytes \o new
           more == Append(items, item)
<1>1. PICK at \in [0..n -> Nat] :
        /\ at[0] = 0 /\ at[n] = Len(bytes)
        /\ \A i \in 1..n : /\ at[i] = at[i - 1] + Len(items[i].data) + 3
                           /\ EntryAt(bytes, at[i - 1], items[i])
  BY DEF Encodes
<1>2. /\ bytes \in Seq(Byte) /\ items \in Seq(Item) /\ n \in Nat /\ Len(bytes) \in Nat
      /\ Len(item.data) \in Nat /\ item \in Item
      /\ \A i \in 1..n : items[i] \in Item /\ Len(items[i].data) \in Nat
  <2>1. bytes \in Seq(Byte) /\ items \in Seq(Item)
    BY DEF Encodes
  <2>2. n \in Nat /\ Len(bytes) \in Nat
    BY <2>1, LenProperties
  <2>3. ASSUME NEW one \in Item
        PROVE  /\ one.instance \in Byte /\ one.command \in Byte /\ one.data \in Seq(Byte)
               /\ Len(one.data) \in Nat
    BY LenProperties DEF Item
  <2>4. \A i \in 1..n : items[i] \in Item
    BY <2>1, ElementOfSeq
  <2>5. item \in Item
    BY PayloadTyped DEF Tag, Item
  <2> QED
    BY <2>1, <2>2, <2>3, <2>4, <2>5
<1> HIDE DEF new, more, longer, d, n, item
<1>3. /\ new \in Seq(Byte) /\ Len(new) = d /\ d = Len(item.data) + 3 /\ d \in Nat
      /\ new[1] = item.instance /\ new[2] = item.command /\ new[3] = Len(item.data) % Base
      /\ \A k \in 1..Len(item.data) : new[3 + k] = item.data[k]
  <2>1. item.instance = p /\ item.command = e.command /\ item.data = e.data
    BY DEF Tag, item
  <2>2. /\ new \in Seq(Byte) /\ Len(new) = Len(e.data) + 3
        /\ new[1] = p /\ new[2] = e.command /\ new[3] = Len(e.data) % Base
        /\ \A k \in 1..Len(e.data) : new[3 + k] = e.data[k]
    BY EntryShape DEF new
  <2> QED
    BY <1>2, <2>1, <2>2 DEF d
<1>4. /\ more \in Seq(Item) /\ Len(more) = n + 1 /\ more[n + 1] = item
      /\ \A i \in 1..n : more[i] = items[i]
  BY <1>2, AppendProperties DEF more, n
<1>5. /\ longer \in Seq(Byte) /\ Len(longer) = Len(bytes) + d
      /\ \A j \in 1..Len(bytes) : longer[j] = bytes[j]
      /\ \A k \in 1..d : longer[Len(bytes) + k] = new[k]
  <2>1. /\ longer \in Seq(Byte) /\ Len(longer) = Len(bytes) + Len(new)
        /\ \A i \in 1..(Len(bytes) + Len(new)) :
             longer[i] = IF i <= Len(bytes) THEN bytes[i] ELSE new[i - Len(bytes)]
    BY <1>2, <1>3, ConcatProperties DEF longer
  <2>2. ASSUME NEW k \in 1..d PROVE longer[Len(bytes) + k] = new[k]
    <3>1. Len(bytes) + k \in 1..(Len(bytes) + Len(new)) /\ ~(Len(bytes) + k <= Len(bytes))
          /\ Len(bytes) + k - Len(bytes) = k
      BY <1>2, <1>3
    <3> QED
      BY <2>1, <3>1
  <2>3. ASSUME NEW j \in 1..Len(bytes) PROVE longer[j] = bytes[j]
    <3>1. j \in 1..(Len(bytes) + Len(new)) /\ j <= Len(bytes)
      BY <1>2, <1>3
    <3> QED
      BY <2>1, <3>1
  <2> QED
    BY <1>3, <2>1, <2>2, <2>3
<1>6. PICK all : all = [i \in 0..(n + 1) |-> IF i <= n THEN at[i] ELSE Len(bytes) + d]
  OBVIOUS
<1>7. /\ all \in [0..(n + 1) -> Nat] /\ all[n + 1] = Len(bytes) + d
      /\ \A i \in 0..n : all[i] = at[i] /\ at[i] \in Nat
  BY <1>1, <1>2, <1>3, <1>6
<1>8. ASSUME NEW i \in 1..(n + 1)
      PROVE  /\ all[i] = all[i - 1] + Len(more[i].data) + 3
             /\ EntryAt(longer, all[i - 1], more[i])
  <2>1. CASE i \in 1..n
    <3>1. /\ all[i] = at[i] /\ all[i - 1] = at[i - 1] /\ at[i - 1] \in Nat
          /\ more[i] = items[i] /\ Len(items[i].data) \in Nat
      BY <1>2, <1>4, <1>7, <2>1
    <3>2. at[i] = at[i - 1] + Len(items[i].data) + 3 /\ EntryAt(bytes, at[i - 1], items[i])
      BY <1>1, <2>1
    <3>3. EntryAt(longer, at[i - 1], items[i])
      <4> DEFINE start == at[i - 1]
                 one == items[i]
      <4>1. /\ start \in Nat /\ Len(one.data) \in Nat
            /\ start + Len(one.data) + 3 <= Len(bytes)
        BY <3>1, <3>2 DEF EntryAt
      <4> HIDE DEF start, one
      <4>2. ASSUME NEW j \in 1..(Len(one.data) + 3)
            PROVE  start + j \in 1..Len(bytes) /\ longer[start + j] = bytes[start + j]
        <5>1. start + j \in 1..Len(bytes)
          BY <1>2, <4>1
        <5> QED
          BY <1>5, <5>1
      <4>3. /\ longer[start + 1] = bytes[start + 1] /\ longer[start + 2] = bytes[start + 2]
            /\ longer[start + 3] = bytes[start + 3]
        <5>1. 1 \in 1..(Len(one.data) + 3) /\ 2 \in 1..(Len(one.data) + 3)
              /\ 3 \in 1..(Len(one.data) + 3)
          BY <4>1
        <5> QED
          BY <4>2, <5>1
      <4>4. ASSUME NEW k \in 1..Len(one.data) PROVE longer[start + 3 + k] = bytes[start + 3 + k]
        <5>1. 3 + k \in 1..(Len(one.data) + 3) /\ start + (3 + k) = start + 3 + k
          BY <4>1
        <5> QED
          BY <4>2, <5>1
      <4>5. start + Len(one.data) + 3 <= Len(longer)
        <5>1. Len(longer) = Len(bytes) + d /\ d \in Nat /\ Len(bytes) \in Nat
          BY <1>2, <1>3, <1>5
        <5> QED
          BY <4>1, <5>1
      <4> QED
        BY <3>2, <4>3, <4>4, <4>5 DEF EntryAt, start, one
    <3> QED
      BY <3>1, <3>2, <3>3
  <2>2. CASE i = n + 1
    <3>1. all[i - 1] = Len(bytes) /\ more[i] = item /\ all[i] = Len(bytes) + d
      BY <1>1, <1>2, <1>4, <1>7, <2>2
    <3>2. EntryAt(longer, Len(bytes), item)
      <4>1. /\ longer[Len(bytes) + 1] = new[1] /\ longer[Len(bytes) + 2] = new[2]
            /\ longer[Len(bytes) + 3] = new[3]
        <5>1. 1 \in 1..d /\ 2 \in 1..d /\ 3 \in 1..d
          BY <1>2, <1>3
        <5> QED
          BY <1>5, <5>1
      <4>2. ASSUME NEW k \in 1..Len(item.data)
            PROVE  longer[Len(bytes) + 3 + k] = item.data[k]
        <5>1. 3 + k \in 1..d /\ Len(bytes) + (3 + k) = Len(bytes) + 3 + k
          BY <1>2, <1>3
        <5> QED
          BY <1>3, <1>5, <5>1
      <4> QED
        BY <1>2, <1>3, <1>5, <4>1, <4>2 DEF EntryAt
    <3> QED
      BY <1>2, <1>3, <3>1, <3>2
  <2> QED
    BY <1>2, <2>1, <2>2
<1>9. all[0] = 0
  BY <1>1, <1>2, <1>7
<1> QED
  BY <1>4, <1>5, <1>7, <1>8, <1>9 DEF Encodes, longer, more, new, n, item

\* Append behind what was put together from the first n.
LEMMA OneTagged ==
  ASSUME NEW items \in Seq(Item), NEW p \in Byte, NEW queue \in Seq(Message),
         NEW n \in Nat, n + 1 <= Len(queue)
  PROVE  /\ items \o [i \in 1..n |-> Tag(p, queue[i])] \in Seq(Item)
         /\ Append(items \o [i \in 1..n |-> Tag(p, queue[i])], Tag(p, queue[n + 1]))
              = items \o [i \in 1..(n + 1) |-> Tag(p, queue[i])]
<1> DEFINE tags(k) == [i \in 1..k |-> Tag(p, queue[i])]
<1>1. \A i \in 1..Len(queue) : Tag(p, queue[i]) \in Item
  BY ElementOfSeq, PayloadTyped DEF Tag, Item
<1>2. ASSUME NEW k \in Nat, k <= Len(queue)
      PROVE  /\ tags(k) \in Seq(Item) /\ Len(tags(k)) = k
             /\ \A i \in 1..k : tags(k)[i] = Tag(p, queue[i])
  <2>1. \A i \in 1..k : Tag(p, queue[i]) \in Item
    BY <1>1, <1>2, LenProperties
  <2> QED
    BY <2>1
<1> HIDE DEF tags
<1>3. Len(queue) \in Nat /\ n <= Len(queue) /\ n + 1 \in Nat /\ n + 1 \in 1..Len(queue)
  BY LenProperties
<1>4. /\ tags(n) \in Seq(Item) /\ Len(tags(n)) = n /\ tags(n + 1) \in Seq(Item)
      /\ Len(tags(n + 1)) = n + 1 /\ Tag(p, queue[n + 1]) \in Item
      /\ \A i \in 1..n : tags(n)[i] = Tag(p, queue[i])
      /\ \A i \in 1..(n + 1) : tags(n + 1)[i] = Tag(p, queue[i])
  BY <1>1, <1>2, <1>3
<1>5. Append(tags(n), Tag(p, queue[n + 1])) = tags(n + 1)
  <2> DEFINE one == Tag(p, queue[n + 1])
             more == Append(tags(n), one)
  <2>1. /\ more \in Seq(Item) /\ Len(more) = n + 1 /\ more[n + 1] = one
        /\ \A i \in 1..n : more[i] = tags(n)[i]
    BY <1>4, AppendProperties
  <2> HIDE DEF more
  <2>2. ASSUME NEW i \in 1..(n + 1) PROVE more[i] = tags(n + 1)[i]
    <3>1. i \in 1..n \/ i = n + 1
      BY <1>3
    <3> QED
      BY <1>4, <2>1, <3>1
  <2>3. more = tags(n + 1)
    BY <1>4, <2>1, <2>2, SeqEqual
  <2> QED
    BY <2>3 DEF more
<1>6. items \o tags(n) \in Seq(Item)
  BY <1>4, ConcatProperties
<1>7. Append(items \o tags(n), Tag(p, queue[n + 1])) = items \o tags(n + 1)
  <2> DEFINE one == Tag(p, queue[n + 1])
  <2>1. one \in Item /\ <<one>> \in Seq(Item)
    BY <1>4
  <2>2. /\ Append(items \o tags(n), one) = (items \o tags(n)) \o <<one>>
        /\ Append(tags(n), one) = tags(n) \o <<one>>
    BY <1>4, <1>6, <2>1, AppendIsConcat
  <2>3. (items \o tags(n)) \o <<one>> = items \o (tags(n) \o <<one>>)
    BY <1>4, <2>1, ConcatAssociative
  <2> QED
    BY <1>5, <2>2, <2>3
<1> QED
  BY <1>6, <1>7 DEF tags

\* SerializePlayerEvents puts the entries of a queue behind those in the buffer.
LEMMA QueueEncoded ==
  ASSUME NEW buff, NEW items, Encodes(buff, items), NEW p \in Byte, NEW queue \in Seq(Message)
  PROVE  Encodes(SerializePlayerEvents(buff, p, queue),
                 items \o [i \in 1..Len(queue) |-> Tag(p, queue[i])])
<1> DEFINE N == Len(queue)
           Eq(f) == f = [n \in 0..N |-> IF n = 0 THEN buff ELSE f[n - 1] \o Entry(p, queue[n])]
           after == CHOOSE f : Eq(f)
           step == [n \in 1..N |-> [b \in Seq(Byte) |-> b \o Entry(p, queue[n])]]
           tagged(n) == items \o [i \in 1..n |-> Tag(p, queue[i])]
<1>1. N \in Nat /\ buff \in Seq(Byte) /\ items \in Seq(Item)
  BY LenProperties DEF Encodes
<1>2. \A n \in 1..N : queue[n] \in Message /\ Entry(p, queue[n]) \in Seq(Byte)
  BY <1>1, ElementOfSeq, EntryShape
<1>3. \E f : Eq(f)
  <2>1. Steps(step, Seq(Byte), N)
    <3>1. \A n \in 1..N, b \in Seq(Byte) : b \o Entry(p, queue[n]) \in Seq(Byte)
      BY <1>2, ConcatProperties
    <3> QED
      BY <3>1 DEF Steps
  <2>2. \A n \in 1..N, b \in Seq(Byte) : step[n][b] = b \o Entry(p, queue[n])
    OBVIOUS
  <2> HIDE DEF step, N
  <2>3. PICK f : Follows(f, Seq(Byte), N, buff, step)
    BY <1>1, <2>1, Recursion, Zenon
  <2> USE DEF Follows
  <2>4. ASSUME NEW n \in 0..N
        PROVE  f[n] = IF n = 0 THEN buff ELSE f[n - 1] \o Entry(p, queue[n])
    <3>1. CASE n = 0
      BY <2>3, <3>1
    <3>2. CASE n # 0
      <4>1. n \in 1..N /\ n - 1 \in 0..N
        BY <1>1, <3>2
      <4>2. f[n - 1] \in Seq(Byte)
        BY <2>3, <4>1
      <4> QED
        BY <2>2, <2>3, <3>2, <4>1, <4>2
    <3> QED
      BY <3>1, <3>2
  <2>5. Eq(f)
    BY <2>3, <2>4
  <2> QED
    BY <2>5
<1>4. Eq(after)
  <2> HIDE DEF Eq
  <2> QED
    BY <1>3, Zenon
<1>5. SerializePlayerEvents(buff, p, queue) = after[N]
  BY Zenon DEF SerializePlayerEvents
<1> HIDE DEF after, N
<1>6. after[0] = buff /\ \A m \in 1..N : after[m] = after[m - 1] \o Entry(p, queue[m])
  <2>1. \A n \in 0..N : after[n] = IF n = 0 THEN buff ELSE after[n - 1] \o Entry(p, queue[n])
    BY <1>4
  <2>2. 0 \in 0..N /\ \A m \in 1..N : m \in 0..N /\ m # 0
    BY <1>1
  <2> QED
    BY <2>1, <2>2
<1> DEFINE T == {n \in Nat : n <= N => Encodes(after[n], tagged(n))}
<1>7. 0 \in T
  <2>1. tagged(0) = items
    <3>1. [i \in 1..0 |-> Tag(p, queue[i])] = <<>>
      OBVIOUS
    <3> QED
      BY <1>1, <3>1, ConcatEmptySeq
  <2> QED
    BY <1>6, <2>1
<1>8. ASSUME NEW n \in Nat, n \in T PROVE n + 1 \in T
  <2> SUFFICES ASSUME n + 1 <= N PROVE Encodes(after[n + 1], tagged(n + 1))
    OBVIOUS
  <2>1. Encodes(after[n], tagged(n))
    BY <1>1, <1>8
  <2>2. queue[n + 1] \in Message
    BY <1>1, <1>2
  <2>3. Append(tagged(n), Tag(p, queue[n + 1])) = tagged(n + 1)
    BY <1>1, OneTagged DEF N
  <2> HIDE DEF tagged
  <2>4. Encodes(after[n] \o Entry(p, queue[n + 1]), Append(tagged(n), Tag(p, queue[n + 1])))
    BY <2>1, <2>2, OneEncoded
  <2>5. PICK m \in 1..N : m = n + 1 /\ m - 1 = n
    BY <1>1
  <2> QED
    BY <1>6, <2>3, <2>4, <2>5
<1>9. N \in T
  <2> HIDE DEF T
  <2> QED
    BY <1>1, <1>7, <1>8, Induction
<1>10. Encodes(after[N], tagged(N))
  BY <1>1, <1>9
<1> QED
  BY <1>5, <1>10 DEF N

\* The queues of the players, one behind the other.
LEMMA QueuedUpTo ==
  ASSUME NEW queues \in [Players -> Seq(Message)]
  PROVE  \E upTo : /\ upTo \in [0..MaxPlayers -> Seq(Item)]
                   /\ upTo[0] = <<>> /\ upTo[MaxPlayers] = Queued(queues)
                   /\ \A p \in Players :
                        upTo[p] = upTo[p - 1] \o [i \in 1..Len(queues[p]) |-> Tag(p, queues[p][i])]
<1> DEFINE tags(p) == [i \in 1..Len(queues[p]) |-> Tag(p, queues[p][i])]
           Eq(f) == f = [p \in 0..MaxPlayers |-> IF p = 0 THEN <<>> ELSE f[p - 1] \o tags(p)]
           upTo == CHOOSE f : Eq(f)
           step == [p \in Players |-> [s \in Seq(Item) |-> s \o tags(p)]]
<1>1. /\ MaxPlayers \in Nat /\ Players = 1..MaxPlayers /\ <<>> \in Seq(Item)
      /\ \A p \in Players : p \in Byte
  BY FramingAssumption DEF Players, Byte
<1>2. ASSUME NEW p \in Players PROVE tags(p) \in Seq(Item)
  <2>1. queues[p] \in Seq(Message) /\ Len(queues[p]) \in Nat
    BY LenProperties
  <2>2. ASSUME NEW i \in 1..Len(queues[p]) PROVE Tag(p, queues[p][i]) \in Item
    <3>1. queues[p][i] \in Message
      BY <2>1, ElementOfSeq
    <3> QED
      BY <1>1, <3>1, PayloadTyped DEF Tag, Item
  <2> QED
    BY <2>1, <2>2
<1> HIDE DEF tags
<1>3. PICK f : Follows(f, Seq(Item), MaxPlayers, <<>>, step)
  <2>1. Steps(step, Seq(Item), MaxPlayers)
    <3>1. \A p \in Players, s \in Seq(Item) : s \o tags(p) \in Seq(Item)
      BY <1>2, ConcatProperties
    <3> QED
      BY <1>1, <3>1 DEF Steps
  <2> HIDE DEF step
  <2> QED
    BY <1>1, <2>1, Recursion, Zenon
<1>4. /\ f \in [0..MaxPlayers -> Seq(Item)] /\ f[0] = <<>>
      /\ \A p \in Players : f[p] = f[p - 1] \o tags(p)
  <2>1. \A p \in Players, s \in Seq(Item) : step[p][s] = s \o tags(p)
    OBVIOUS
  <2> HIDE DEF step
  <2>2. \A p \in Players : p - 1 \in 0..MaxPlayers
    BY <1>1
  <2> QED
    BY <1>1, <1>3, <2>1, <2>2 DEF Follows
<1>5. Eq(f)
  <2>1. ASSUME NEW p \in 0..MaxPlayers
        PROVE  f[p] = IF p = 0 THEN <<>> ELSE f[p - 1] \o tags(p)
    <3>1. p = 0 \/ (p \in Players /\ p # 0)
      BY <1>1
    <3> QED
      BY <1>4, <3>1
  <2> QED
    BY <1>4, <2>1
<1>6. Eq(upTo)
  <2> HIDE DEF Eq
  <2> QED
    BY <1>5, Zenon
<1>7. Queued(queues) = upTo[MaxPlayers]
  BY Zenon DEF Queued, tags, Tag
<1> HIDE DEF upTo
<1>8. upTo[0] = <<>> /\ \A p \in Players : upTo[p] = upTo[p - 1] \o tags(p)
  <2>1. \A p \in 0..MaxPlayers : upTo[p] = IF p = 0 THEN <<>> ELSE upTo[p - 1] \o tags(p)
    BY <1>6
  <2>2. 0 \in 0..MaxPlayers /\ \A p \in Players : p \in 0..MaxPlayers /\ p # 0
    BY <1>1
  <2> QED
    BY <2>1, <2>2
<1> DEFINE T == {n \in Nat : n <= MaxPlayers => upTo[n] = f[n]}
<1>9. 0 \in T
  BY <1>4, <1>8
<1>10. ASSUME NEW n \in Nat, n \in T PROVE n + 1 \in T
  <2> SUFFICES ASSUME n + 1 <= MaxPlayers PROVE upTo[n + 1] = f[n + 1]
    OBVIOUS
  <2>1. PICK p \in Players : p = n + 1 /\ p - 1 = n
    BY <1>1
  <2>2. upTo[n] = f[n]
    BY <1>1, <1>10
  <2> QED
    BY <1>4, <1>8, <2>1, <2>2
<1>11. MaxPlayers \in T
  <2> HIDE DEF T
  <2> QED
    BY <1>1, <1>9, <1>10, Induction
<1>12. f[MaxPlayers] = Queued(queues)
  BY <1>1, <1>7, <1>11
<1> QED
  BY <1>4, <1>12 DEF tags

\* The message: the buffer and the number, player by player.
LEMMA MessageParts ==
  ASSUME NEW queues \in [Players -> Seq(Message)]
  PROVE  \E buff, num : /\ EventsMessage(queues) = AddFirst(num[MaxPlayers] % Base, buff[MaxPlayers])
                        /\ buff[0] = <<>> /\ num[0] = 0
                        /\ \A p \in Players :
                             /\ buff[p] = SerializePlayerEvents(buff[p - 1], p, queues[p])
                             /\ num[p] = num[p - 1] + Len(queues[p])
<1> DEFINE EqB(f) == f = [p \in 0..MaxPlayers |->
                           IF p = 0 THEN <<>> ELSE SerializePlayerEvents(f[p - 1], p, queues[p])]
           EqN(f) == f = [p \in 0..MaxPlayers |-> IF p = 0 THEN 0 ELSE f[p - 1] + Len(queues[p])]
           buff == CHOOSE f : EqB(f)
           num == CHOOSE f : EqN(f)
           X == {b \in Seq(Byte) : \E items : Encodes(b, items)}
           stepB == [p \in Players |-> [b \in X |-> SerializePlayerEvents(b, p, queues[p])]]
           stepN == [p \in Players |-> [n \in Nat |-> n + Len(queues[p])]]
<1>1. /\ MaxPlayers \in Nat /\ Players = 1..MaxPlayers
      /\ \A p \in Players : p \in Byte /\ queues[p] \in Seq(Message)
                           /\ Len(queues[p]) \in Nat /\ p - 1 \in 0..MaxPlayers
      /\ \A p \in 0..MaxPlayers : p = 0 \/ (p \in Players /\ p # 0)
  <2>1. MaxPlayers \in Nat /\ Players = 1..MaxPlayers
    BY FramingAssumption DEF Players
  <2>2. \A p \in Players : p \in Byte /\ p - 1 \in 0..MaxPlayers
    BY <2>1, FramingAssumption DEF Byte
  <2>3. \A p \in Players : queues[p] \in Seq(Message) /\ Len(queues[p]) \in Nat
    BY LenProperties
  <2> QED
    BY <2>1, <2>2, <2>3
<1>2. EventsMessage(queues) = AddFirst(num[MaxPlayers] % Base, buff[MaxPlayers])
  BY Zenon DEF EventsMessage
<1>3. EqB(buff)
  <2>1. <<>> \in X
    BY NothingEncoded DEF Encodes
  <2>2. ASSUME NEW p \in Players, NEW b \in X PROVE SerializePlayerEvents(b, p, queues[p]) \in X
    <3>1. PICK items : Encodes(b, items)
      OBVIOUS
    <3>2. PICK more : Encodes(SerializePlayerEvents(b, p, queues[p]), more)
      BY <1>1, <3>1, QueueEncoded, Zenon
    <3> QED
      BY <3>2 DEF Encodes
  <2> HIDE DEF X
  <2>3. Steps(stepB, X, MaxPlayers)
    BY <1>1, <2>2 DEF Steps
  <2>4. \A p \in Players, b \in X : stepB[p][b] = SerializePlayerEvents(b, p, queues[p])
    OBVIOUS
  <2> HIDE DEF stepB
  <2>5. PICK f : Follows(f, X, MaxPlayers, <<>>, stepB)
    BY <1>1, <2>1, <2>3, Recursion, Zenon
  <2>6. ASSUME NEW p \in 0..MaxPlayers
        PROVE  f[p] = IF p = 0 THEN <<>> ELSE SerializePlayerEvents(f[p - 1], p, queues[p])
    <3>1. CASE p = 0
      BY <2>5, <3>1 DEF Follows
    <3>2. CASE p \in Players /\ p # 0
      BY <1>1, <2>4, <2>5, <3>2 DEF Follows
    <3> QED
      BY <1>1, <3>1, <3>2
  <2>7. EqB(f)
    BY <2>5, <2>6 DEF Follows
  <2> HIDE DEF EqB
  <2> QED
    BY <2>7, Zenon
<1>4. EqN(num)
  <2>1. Steps(stepN, Nat, MaxPlayers)
    BY <1>1 DEF Steps
  <2>2. \A p \in Players, n \in Nat : stepN[p][n] = n + Len(queues[p])
    OBVIOUS
  <2> HIDE DEF stepN
  <2>3. 0 \in Nat
    OBVIOUS
  <2>4. PICK f : Follows(f, Nat, MaxPlayers, 0, stepN)
    BY <1>1, <2>1, <2>3, Recursion, Zenon
  <2>5. ASSUME NEW p \in 0..MaxPlayers
        PROVE  f[p] = IF p = 0 THEN 0 ELSE f[p - 1] + Len(queues[p])
    <3>1. CASE p = 0
      BY <2>4, <3>1 DEF Follows
    <3>2. CASE p \in Players /\ p # 0
      BY <1>1, <2>2, <2>4, <3>2 DEF Follows
    <3> QED
      BY <1>1, <3>1, <3>2
  <2>6. EqN(f)
    BY <2>4, <2>5 DEF Follows
  <2> HIDE DEF EqN
  <2> QED
    BY <2>6, Zenon
<1> HIDE DEF buff, num
<1>5. 0 \in 0..MaxPlayers /\ \A p \in Players : p \in 0..MaxPlayers /\ p # 0
  BY <1>1
<1>6. buff[0] = <<>> /\ \A p \in Players : buff[p] = SerializePlayerEvents(buff[p - 1], p, queues[p])
  <2>1. \A p \in 0..MaxPlayers :
          buff[p] = IF p = 0 THEN <<>> ELSE SerializePlayerEvents(buff[p - 1], p, queues[p])
    BY <1>3
  <2> QED
    BY <1>5, <2>1
<1>7. num[0] = 0 /\ \A p \in Players : num[p] = num[p - 1] + Len(queues[p])
  <2>1. \A p \in 0..MaxPlayers : num[p] = IF p = 0 THEN 0 ELSE num[p - 1] + Len(queues[p])
    BY <1>4
  <2> QED
    BY <1>5, <2>1
<1> QED
  BY <1>2, <1>6, <1>7

\* The message is the number of the events and their entries.
LEMMA AllEncoded ==
  ASSUME NEW queues \in [Players -> Seq(Message)]
  PROVE  \E bytes : /\ Encodes(bytes, Queued(queues))
                    /\ EventsMessage(queues) = AddFirst(Len(Queued(queues)) % Base, bytes)
<1>1. PICK upTo : /\ upTo \in [0..MaxPlayers -> Seq(Item)]
                  /\ upTo[0] = <<>> /\ upTo[MaxPlayers] = Queued(queues)
                  /\ \A p \in Players :
                       upTo[p] = upTo[p - 1] \o [i \in 1..Len(queues[p]) |-> Tag(p, queues[p][i])]
  BY QueuedUpTo, Zenon
<1>2. PICK buff, num : /\ EventsMessage(queues) = AddFirst(num[MaxPlayers] % Base, buff[MaxPlayers])
                       /\ buff[0] = <<>> /\ num[0] = 0
                       /\ \A p \in Players :
                            /\ buff[p] = SerializePlayerEvents(buff[p - 1], p, queues[p])
                            /\ num[p] = num[p - 1] + Len(queues[p])
  BY MessageParts, Zenon
<1>3. /\ MaxPlayers \in Nat /\ Players = 1..MaxPlayers
      /\ \A p \in Players : p \in Byte /\ p - 1 \in 0..MaxPlayers
  BY FramingAssumption DEF Players, Byte
<1> DEFINE Upto(n) == Encodes(buff[n], upTo[n]) /\ num[n] = Len(upTo[n])
           T == {n \in Nat : n <= MaxPlayers => Upto(n)}
<1>4. 0 \in T
  BY <1>1, <1>2, NothingEncoded, EmptySeq
<1>5. ASSUME NEW n \in Nat, n \in T PROVE n + 1 \in T
  <2> SUFFICES ASSUME n + 1 <= MaxPlayers PROVE Upto(n + 1)
    OBVIOUS
  <2>1. PICK p \in Players : p = n + 1 /\ p - 1 = n
    BY <1>3
  <2> DEFINE queue == queues[p]
             tags == [i \in 1..Len(queue) |-> Tag(p, queue[i])]
  <2>2. Encodes(buff[n], upTo[n]) /\ num[n] = Len(upTo[n]) /\ upTo[n] \in Seq(Item)
    BY <1>1, <1>3, <1>5
  <2>3. /\ queue \in Seq(Message) /\ Len(queue) \in Nat /\ p \in Byte
    BY <1>3, LenProperties
  <2>4. tags \in Seq(Item) /\ Len(tags) = Len(queue)
    <3>1. ASSUME NEW i \in 1..Len(queue) PROVE Tag(p, queue[i]) \in Item
      <4>1. queue[i] \in Message
        BY <2>3, ElementOfSeq
      <4> QED
        BY <2>3, <4>1, PayloadTyped DEF Tag, Item
    <3> QED
      BY <2>3, <3>1
  <2>5. /\ buff[p] = SerializePlayerEvents(buff[n], p, queue)
        /\ upTo[p] = upTo[n] \o tags
        /\ num[p] = num[n] + Len(queue)
    BY <1>1, <1>2, <2>1
  <2>6. Encodes(SerializePlayerEvents(buff[n], p, queue), upTo[n] \o tags)
    BY <2>2, <2>3, QueueEncoded, Zenon
  <2> HIDE DEF tags, queue
  <2>7. Len(upTo[n] \o tags) = Len(upTo[n]) + Len(tags)
    BY <2>2, <2>4, ConcatProperties
  <2> QED
    BY <2>1, <2>2, <2>4, <2>5, <2>6, <2>7
<1>6. MaxPlayers \in T
  <2> HIDE DEF T
  <2> QED
    BY <1>3, <1>4, <1>5, Induction
<1>7. Encodes(buff[MaxPlayers], Queued(queues)) /\ num[MaxPlayers] = Len(Queued(queues))
  BY <1>1, <1>3, <1>6
<1> QED
  BY <1>2, <1>7

\* A client takes the entries apart again.
LEMMA ParseReads ==
  ASSUME NEW bytes, NEW items, Encodes(bytes, items), NEW count \in Byte,
         \A i \in 1..Len(items) : Len(items[i].data) < Base
  PROVE  ParseEvents(AddFirst(count, bytes)) = [count |-> count, events |-> items]
<1> DEFINE message == AddFirst(count, bytes)
           n == Len(items)
           size0 == Len(message)
           top == size0 + Base + 3
           one(k) == [instance |-> message[k], command |-> message[k + 1],
                      data |-> SubSeq(message, k + 3, k + 2 + message[k + 2])]
           rest(f, k) == IF k + 2 > size0 THEN <<>>
                         ELSE <<one(k)>> \o f[k + 3 + message[k + 2]]
           Eq(f) == f = [k \in 2..top |-> rest(f, k)]
           entry == CHOOSE f : Eq(f)
<1>1. /\ bytes \in Seq(Byte) /\ Len(bytes) \in Nat /\ items \in Seq(Item) /\ n \in Nat
      /\ Base \in Nat /\ Base > 1
  BY LenProperties, FramingAssumption DEF Encodes
<1>2. /\ size0 = Len(bytes) + 1 /\ message[1] = count
      /\ \A i \in 1..Len(bytes) : message[i + 1] = bytes[i]
      /\ \A i \in 1..size0 : message[i] \in Byte
  <2>1. /\ message \in Seq(Byte) /\ size0 = Len(bytes) + 1 /\ message[1] = count
        /\ \A i \in 1..Len(bytes) : message[i + 1] = bytes[i]
    BY <1>1, FirstAdded
  <2> QED
    BY <2>1, ElementOfSeq
<1>3. ParseEvents(message) = [count |-> message[1], events |-> entry[2]]
  BY Zenon DEF ParseEvents
<1> HIDE DEF message
<1>4. top \in Nat /\ top >= 2 /\ size0 \in Nat /\ size0 + 2 <= top
  BY <1>1, <1>2
<1>5. ASSUME NEW k \in 2..top, ~(k + 2 > size0)
      PROVE  k + 3 + message[k + 2] \in (k + 1)..top
  <2>1. message[k + 2] \in 0..(Base - 1)
    BY <1>2, <1>4, <1>5 DEF Byte
  <2> QED
    BY <1>1, <1>4, <1>5, <2>1
<1> HIDE DEF top, size0, one
\* The functions that are right from some place on.
<1>6. \E f : Eq(f)
  <2> DEFINE T == {j \in Nat : j <= top - 2 => \E f : \A k \in (top - j)..top : f[k] = rest(f, k)}
  <2>1. 0 \in T
    <3>1. PICK f : f = [k \in 2..top |-> <<>>]
      OBVIOUS
    <3>2. ASSUME NEW k \in (top - 0)..top PROVE f[k] = rest(f, k)
      <4>1. k = top /\ k \in 2..top /\ k + 2 > size0
        BY <1>4
      <4> QED
        BY <3>1, <4>1
    <3> QED
      BY <3>2
  <2>2. ASSUME NEW j \in Nat, j \in T PROVE j + 1 \in T
    <3> SUFFICES ASSUME j + 1 <= top - 2
                 PROVE  \E f : \A k \in (top - (j + 1))..top : f[k] = rest(f, k)
      OBVIOUS
    <3>1. PICK f : \A k \in (top - j)..top : f[k] = rest(f, k)
      BY <1>4, <2>2
    <3>2. PICK m \in 2..top : m = top - (j + 1)
      BY <1>4
    <3>3. PICK g : g = [k \in 2..top |-> IF k = m THEN rest(f, m) ELSE f[k]]
      OBVIOUS
    <3>4. /\ g[m] = rest(f, m)
          /\ \A k \in (m + 1)..top : g[k] = f[k]
          /\ \A k \in (m + 1)..top : f[k] = rest(f, k)
      BY <1>4, <3>1, <3>2, <3>3
    <3>5. ASSUME NEW k \in m..top PROVE rest(g, k) = rest(f, k)
      <4>1. CASE k + 2 > size0
        BY <4>1
      <4>2. CASE ~(k + 2 > size0)
        <5>1. k \in 2..top
          BY <1>4, <3>2
        <5>2. k + 3 + message[k + 2] \in (k + 1)..top
          BY <1>5, <4>2, <5>1
        <5>3. k + 3 + message[k + 2] \in (m + 1)..top
          BY <1>4, <3>2, <5>1, <5>2
        <5> QED
          BY <3>4, <4>2, <5>3
      <4> QED
        BY <4>1, <4>2
    <3>6. ASSUME NEW k \in (top - (j + 1))..top PROVE g[k] = rest(g, k)
      <4>1. k \in m..top /\ (k = m \/ k \in (m + 1)..top)
        BY <1>4, <3>2
      <4> HIDE DEF rest
      <4> QED
        BY <3>4, <3>5, <4>1
    <3> QED
      BY <3>6
  <2>3. top - 2 \in T
    <3>1. top - 2 \in Nat
      BY <1>4
    <3> HIDE DEF T
    <3> QED
      BY <2>1, <2>2, <3>1, Induction
  <2>4. PICK f : \A k \in 2..top : f[k] = rest(f, k)
    BY <1>4, <2>3
  <2>5. PICK g : g = [k \in 2..top |-> f[k]]
    OBVIOUS
  <2>6. ASSUME NEW k \in 2..top PROVE g[k] = rest(g, k)
    <3>1. g[k] = f[k] /\ f[k] = rest(f, k)
      BY <2>4, <2>5
    <3>2. CASE k + 2 > size0
      BY <3>1, <3>2
    <3>3. CASE ~(k + 2 > size0)
      <4>1. k + 3 + message[k + 2] \in 2..top
        BY <1>4, <1>5, <3>3
      <4> QED
        BY <2>5, <3>1, <3>3, <4>1
    <3> QED
      BY <3>2, <3>3
  <2>7. Eq(g)
    BY <2>5, <2>6
  <2> QED
    BY <2>7
<1>7. \A k \in 2..top : entry[k] = rest(entry, k)
  <2>1. Eq(entry)
    <3> HIDE DEF Eq
    <3> QED
      BY <1>6, Zenon
  <2> HIDE DEF entry
  <2> QED
    BY <2>1
<1> HIDE DEF entry
\* Where the entries lie, in the message.
<1>8. PICK at \in [0..n -> Nat] :
        /\ at[0] = 0 /\ at[n] = Len(bytes)
        /\ \A i \in 1..n : /\ at[i] = at[i - 1] + Len(items[i].data) + 3
                           /\ EntryAt(bytes, at[i - 1], items[i])
  BY DEF Encodes
<1>9. ASSUME NEW i \in 1..n, NEW k \in Nat, k = at[i - 1] + 2
      PROVE  /\ k \in 2..top /\ k + 2 <= size0
             /\ one(k) = items[i] /\ k + 3 + message[k + 2] = at[i] + 2
  <2> DEFINE data == items[i].data
             len == Len(data)
             start == at[i - 1]
  <2>1. /\ items[i] \in Item /\ data \in Seq(Byte) /\ len \in Nat /\ len < Base
        /\ start \in Nat /\ at[i] = start + len + 3
        /\ EntryAt(bytes, start, items[i])
    <3>1. items[i] \in Item
      BY <1>1, ElementOfSeq
    <3>2. data \in Seq(Byte) /\ len \in Nat
      BY <3>1, LenProperties DEF Item
    <3>3. i - 1 \in 0..n
      BY <1>1
    <3> QED
      BY <1>8, <3>1, <3>2, <3>3
  <2>2. /\ start + len + 3 <= Len(bytes)
        /\ bytes[start + 1] = items[i].instance
        /\ bytes[start + 2] = items[i].command
        /\ bytes[start + 3] = len
        /\ \A j \in 1..len : bytes[start + 3 + j] = data[j]
    <3>1. len % Base = len
      <4> HIDE DEF len
      <4>1. len \in 0..(Base - 1)
        BY <1>1, <2>1
      <4> QED
        BY <1>1, <4>1, Remains
    <3> QED
      BY <2>1, <3>1 DEF EntryAt
  <2> HIDE DEF data, len, start
  <2>3. k = start + 2 /\ k + 2 <= size0 /\ k \in 2..top
    <3>1. k = start + 2
      BY <1>9 DEF start
    <3>2. size0 = Len(bytes) + 1 /\ start + len + 3 <= Len(bytes) /\ size0 + 2 <= top
      BY <1>2, <1>4, <2>2
    <3>3. start \in Nat /\ len \in Nat /\ Len(bytes) \in Nat /\ top \in Nat
      BY <1>1, <1>4, <2>1
    <3> QED
      BY <3>1, <3>2, <3>3
  <2>4. \A j \in 1..(len + 3) : message[start + j + 1] = bytes[start + j]
    <3>1. \A j \in 1..(len + 3) : start + j \in 1..Len(bytes)
      <4>1. start + len + 3 <= Len(bytes) /\ start \in Nat /\ len \in Nat /\ Len(bytes) \in Nat
        BY <1>1, <2>1, <2>2
      <4> QED
        BY <4>1
    <3> QED
      BY <1>2, <3>1
  <2>5. /\ message[k] = items[i].instance /\ message[k + 1] = items[i].command
        /\ message[k + 2] = len
    <3>1. 1 \in 1..(len + 3) /\ 2 \in 1..(len + 3) /\ 3 \in 1..(len + 3)
      BY <2>1
    <3>2. /\ message[start + 1 + 1] = bytes[start + 1] /\ message[start + 2 + 1] = bytes[start + 2]
          /\ message[start + 3 + 1] = bytes[start + 3]
      BY <2>4, <3>1
    <3>3. k = start + 1 + 1 /\ k + 1 = start + 2 + 1 /\ k + 2 = start + 3 + 1
      BY <2>1, <2>3
    <3> QED
      BY <2>2, <3>2, <3>3
  <2>6. SubSeq(message, k + 3, k + 2 + len) = data
    <3> DEFINE first == k + 3
               last == k + 2 + len
               cut == SubSeq(message, first, last)
    <3>1. ASSUME NEW j \in 1..len
          PROVE  message[k + 2 + j] = data[j] /\ data[j] \in Byte
      <4>1. 3 + j \in 1..(len + 3) /\ start + (3 + j) + 1 = k + 2 + j
            /\ start + (3 + j) = start + 3 + j
        BY <2>1, <2>3
      <4>2. message[start + (3 + j) + 1] = bytes[start + (3 + j)]
        BY <2>4, <4>1
      <4>3. data[j] \in Byte
        BY <2>1, ElementOfSeq DEF len
      <4> QED
        BY <2>2, <4>1, <4>2, <4>3
    <3>2. \A j \in (k + 3)..(k + 2 + len) : message[j] \in Byte
      <4>1. ASSUME NEW j \in (k + 3)..(k + 2 + len) PROVE message[j] \in Byte
        <5>1. PICK h \in 1..len : j = k + 2 + h
          <6>1. j - (k + 2) \in 1..len /\ j = k + 2 + (j - (k + 2))
            BY <2>1
          <6> QED
            BY <6>1
        <5> QED
          BY <3>1, <5>1
      <4> QED
        BY <4>1
    <3>3. first \in Int /\ last \in Int /\ first = k + 3 /\ last = k + 2 + len
      BY <2>1
    <3> HIDE DEF first, last
    <3>4. /\ cut \in Seq(Byte)
          /\ Len(cut) = IF first <= last THEN last - first + 1 ELSE 0
          /\ \A j \in 1..(last - first + 1) : cut[j] = message[first + j - 1]
      <4>1. \A j \in first..last : message[j] \in Byte
        BY <3>2, <3>3
      <4> QED
        BY <3>3, <4>1, SubSeqProperties
    <3> HIDE DEF cut
    <3>5. Len(cut) = len
      BY <2>1, <3>3, <3>4
    <3>6. ASSUME NEW j \in 1..len PROVE cut[j] = data[j]
      <4>1. j \in 1..(last - first + 1) /\ first + j - 1 = k + 2 + j
        BY <2>1, <3>3
      <4> QED
        BY <3>1, <3>4, <4>1
    <3>7. cut = data
      BY <2>1, <3>4, <3>5, <3>6, SeqEqual DEF len
    <3> QED
      BY <3>7 DEF cut, first, last
  <2>7. one(k) = items[i]
    <3>1. items[i] = [instance |-> items[i].instance, command |-> items[i].command,
                      data |-> items[i].data]
      BY <2>1 DEF Item
    <3> QED
      BY <2>5, <2>6, <3>1 DEF one, data
  <2>8. k + 3 + message[k + 2] = at[i] + 2
    BY <2>1, <2>3, <2>5
  <2> QED
    BY <2>3, <2>7, <2>8
\* From an entry on, the client reads the events from there on.
<1> DEFINE Reads(i) == entry[at[i] + 2] = SubSeq(items, i + 1, n)
           T == {j \in Nat : j <= n => Reads(n - j)}
<1>10. 0 \in T
  <2>1. at[n] + 2 \in 2..top /\ at[n] + 2 + 2 > size0
    BY <1>1, <1>2, <1>4, <1>8
  <2>2. entry[at[n] + 2] = <<>>
    BY <1>7, <2>1
  <2>3. SubSeq(items, n + 1, n) = <<>>
    BY <1>1, SubSeqEmpty
  <2>4. n - 0 = n
    BY <1>1
  <2> QED
    BY <2>2, <2>3, <2>4
<1>11. ASSUME NEW j \in Nat, j \in T PROVE j + 1 \in T
  <2> SUFFICES ASSUME j + 1 <= n PROVE Reads(n - (j + 1))
    OBVIOUS
  <2>1. PICK i \in 1..n : i = n - j /\ i - 1 = n - (j + 1) /\ i - 1 \in 0..n
    <3> HIDE DEF n
    <3>1. n - j \in 1..n /\ n - j - 1 = n - (j + 1) /\ n - j - 1 \in 0..n
      BY <1>1
    <3> QED
      BY <3>1
  <2>2. Reads(i)
    BY <1>1, <1>11, <2>1
  <2>3. PICK k \in Nat : k = at[i - 1] + 2
    <3>1. at[i - 1] \in Nat
      BY <1>8, <2>1
    <3> QED
      BY <3>1
  <2>4. k \in 2..top /\ k + 2 <= size0 /\ one(k) = items[i] /\ k + 3 + message[k + 2] = at[i] + 2
    BY <1>9, <2>3
  <2>5. entry[k] = <<items[i]>> \o entry[at[i] + 2]
    <3>1. ~(k + 2 > size0)
      BY <1>4, <2>4
    <3> QED
      BY <1>7, <2>4, <3>1
  <2>6. SubSeq(items, i, n) = <<items[i]>> \o SubSeq(items, i + 1, n)
    BY <1>1, SubSeqRecursiveFirst DEF n
  <2>7. i - 1 + 1 = i
    BY <1>1
  <2>8. Reads(i - 1)
    BY <2>2, <2>3, <2>5, <2>6, <2>7
  <2> QED
    BY <2>1, <2>8
<1>12. n \in T
  <2> HIDE DEF T
  <2> QED
    BY <1>1, <1>10, <1>11, Induction
<1>13. Reads(0)
  <2>1. n - n = 0
    BY <1>1
  <2> QED
    BY <1>1, <1>12, <2>1
<1>14. entry[2] = items
  <2>1. SubSeq(items, 1, n) = items
    BY <1>1, SubSeqFull
  <2>2. at[0] + 2 = 2 /\ 0 + 1 = 1
    BY <1>8
  <2> QED
    BY <1>13, <2>1, <2>2
<1> QED
  BY <1>2, <1>3, <1>14 DEF message

\* A client reads the events queued, in order and each with its player, from a
\* Player_Events message, while their number and lengths fit into a byte
\* (Framing.EventsRoundTrip).
THEOREM EventsReadBack == Spec => []EventsRoundTrip
<1>1. IInv => EventsRoundTrip
  <2> DEFINE all == Queued(events)
  <2> SUFFICES ASSUME IInv, Len(all) < Base, \A i \in DOMAIN all : Len(all[i].data) < Base
               PROVE  ParseEvents(EventsMessage(events)) = [count |-> Len(all), events |-> all]
    BY DEF EventsRoundTrip
  <2>1. events \in [Players -> Seq(Message)]
    BY DEF IInv, TypeOK
  <2>2. PICK bytes : /\ Encodes(bytes, Queued(events))
                     /\ EventsMessage(events) = AddFirst(Len(Queued(events)) % Base, bytes)
    BY <2>1, AllEncoded, Zenon
  <2>3. all \in Seq(Item) /\ Len(all) \in Nat /\ DOMAIN all = 1..Len(all)
    BY <2>2, LenProperties DEF Encodes
  <2>4. Len(all) % Base = Len(all) /\ Len(all) \in Byte
    <3>1. Base \in Nat
      BY FramingAssumption
    <3> HIDE DEF all
    <3>2. Len(all) \in 0..(Base - 1)
      BY <2>3, <3>1
    <3> QED
      BY <3>1, <3>2, Remains, Zenon DEF Byte
  <2>5. \A i \in 1..Len(all) : Len(all[i].data) < Base
    BY <2>3
  <2> QED
    BY <2>2, <2>4, <2>5, ParseReads, Zenon
<1> QED
  BY <1>1, Invariance, PTL
=============================================================================
