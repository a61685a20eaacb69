----------------------------- MODULE FramesProofs -----------------------------
(***************************************************************************)
(* Proofs about Frames, for any traffic, any lengths of reads and any      *)
(* number of frames: the decoder takes the frames from the stream in order *)
(* and whole, and what an inverter answers never ends the reader.          *)
(***************************************************************************)
EXTENDS Frames, TLAPS

------------------------------------------------------------------------------
(* Lengths modulo 256.                                                     *)

LEMMA SmallByte ==
  ASSUME NEW n \in 0..255
  PROVE  Byte(n) = n
  BY DEF Byte

LEMMA CountsAreNatural ==
  \A k \in Int : \A n \in 0..k : n \in Nat
OBVIOUS

LEMMA LengthType ==
  ASSUME NEW f \in Frame
  PROVE  f.len \in Nat
<1>1. f.len \in Lengths
  BY Zenon DEF Frame
<1>2. 256 * 256 - 1 \in Int
  OBVIOUS
<1>3. \A n \in Lengths : n \in Nat
  BY <1>2, CountsAreNatural, Zenon DEF Lengths
<1> QED BY <1>1, <1>3

\* The parser counts down no length that it has not found long enough: a frame
\* whose length modulo 256 is below 6 is below 12 bytes long modulo 256.
LEMMA NothingUnderflows ==
  ASSUME NEW f \in Frame
  PROVE  ~Underflows(f)
<1>1. f.len \in Nat
  BY LengthType
<1>2. Size(f) = f.len + 6
  BY <1>1 DEF Size, HeaderSize
<1>3. ASSUME f.len % 256 < 6
      PROVE  (f.len + 6) % 256 < 18
  BY <1>1, <1>3, SMT
<1> QED BY <1>2, <1>3 DEF Underflows, TooShort, Byte

LEMMA SizeType ==
  ASSUME NEW f \in Frame
  PROVE  f.len \in Nat /\ Size(f) \in Nat /\ Size(f) = f.len + 6 /\ Size(f) >= HeaderSize
  BY LengthType DEF Size, HeaderSize

\* Every answer of an inverter about few enough registers, and the one about all
\* inputs, passes each test of the decoder and the parser.
LEMMA RegularIsReadable ==
  ASSUME NEW f \in Regular, f \in Frame
  PROVE  Readable(f)
<1> USE DEF Readable, Admitted, Intact, TooShort, Mismatch, Decodes, Rest, Size,
            HeaderSize, MinPacketSize, MaxPacketSize, Message
<1>1. CASE f = WriteReply
  <2>1. /\ f.fn = "TranslatedData" /\ f.len = 32 /\ f.magic /\ f.sum /\ ~f.counted
    BY <1>1 DEF WriteReply
  <2>2. Byte(32) = 32 /\ Byte(38) = 38
    BY SmallByte
  <2> QED BY <2>1, <2>2, NothingUnderflows
<1>2. CASE f = ReadParamReply
  <2>1. f.fn = "ReadParam" /\ f.len = 18 /\ f.magic /\ f.counted /\ f.count = 2
    BY <1>2 DEF ReadParamReply
  <2>2. Byte(18) = 18 /\ Byte(24) = 24
    BY SmallByte
  <2> QED BY <2>1, <2>2, NothingUnderflows
<1>3. CASE f = WriteParamReply
  <2>1. f.fn = "WriteParam" /\ f.len = 15 /\ f.magic
    BY <1>3 DEF WriteParamReply
  <2>2. Byte(15) = 15 /\ Byte(21) = 21
    BY SmallByte
  <2> QED BY <2>1, <2>2, NothingUnderflows
<1>4. ASSUME NEW n \in 1..MaxRegisters \cup {127}, f = ReadReply(n)
      PROVE  Readable(f)
  <2>1. n \in 1..109 \cup {127}
    BY FramesAssumption
  <2>2. /\ f.fn = "TranslatedData" /\ f.len = 31 + 2 * n /\ f.magic /\ f.sum
        /\ f.counted /\ f.count = 2 * n
    BY <1>4 DEF ReadReply
  <2>3. ~TooShort(f) /\ ~Mismatch(f)
    <3>1. CASE n \in 1..109
      <4>1. Byte(31 + 2 * n) = 31 + 2 * n /\ Byte(6 + (31 + 2 * n)) = 37 + 2 * n
        BY <3>1, SmallByte
      <4> QED BY <2>2, <3>1, <4>1
    <3>2. CASE n = 127
      <4>1. Byte(285) = 29 /\ Byte(291) = 35
        BY DEF Byte
      <4> QED BY <2>2, <3>2, <4>1
    <3> QED BY <2>1, <3>1, <3>2
  <2>4. Decodes(f) /\ Admitted(f) /\ Intact(f)
    BY <2>1, <2>2
  <2> QED BY <2>3, <2>4, NothingUnderflows
<1> QED BY <1>1, <1>2, <1>3, <1>4 DEF Regular

------------------------------------------------------------------------------
(* The invariant.                                                          *)

\* Each frame begins where the one before it ends, and the ends ascend.
Placed ==
  /\ \A n \in DOMAIN sent : sent[n].at = End(n - 1)
  /\ \A m, n \in 0..Len(sent) : m < n => End(m) < End(n)

\* What has been decoded is the stream's beginning, and what has been consumed are
\* its bytes.
InOrder ==
  /\ Len(decoded) <= Len(sent)
  /\ \A m \in DOMAIN decoded : decoded[m] = m
  /\ consumed = End(Len(decoded))

\* Where the reader stands.
Standing ==
  /\ reader \in {"reading", "closing"} => Waits
  /\ RegularFramesAreRead
  /\ reader \notin {"overflow", "panicked"}

FramesInvariant == TypeOK /\ Placed /\ InOrder /\ Standing

LEMMA SentType ==
  ASSUME TypeOK, NEW n \in DOMAIN sent
  PROVE  /\ n \in 1..Len(sent) /\ sent[n].frame \in Frame /\ sent[n].at \in Nat
         /\ End(n) = sent[n].at + Size(sent[n].frame) /\ End(n) \in Nat
<1>1. n \in 1..Len(sent) /\ sent[n] \in Items
  BY DEF TypeOK
<1>2. sent[n].frame \in Frame /\ sent[n].at \in Nat
  BY <1>1, FramesAssumption DEF Items
<1> QED BY <1>1, <1>2, SizeType DEF End

LEMMA EndType ==
  ASSUME TypeOK, NEW n \in 0..Len(sent)
  PROVE  End(n) \in Nat
<1>1. CASE n = 0
  BY <1>1 DEF End
<1>2. CASE n # 0
  <2>1. n \in DOMAIN sent
    BY <1>2 DEF TypeOK
  <2> QED BY <2>1, SentType
<1> QED BY <1>1, <1>2

\* The frame at the front is the one after the last that was decoded; there is none
\* only when the buffer is empty.
LEMMA FrontIsNext ==
  ASSUME TypeOK, Placed, InOrder
  PROVE  /\ First # {} => /\ First = {N} /\ N = Len(decoded) + 1 /\ N \in DOMAIN sent
                          /\ F \in Frame /\ sent[N].at = consumed
         /\ First = {} => /\ Len(decoded) = Len(sent) /\ Buffered = 0
<1>1. Len(decoded) \in 0..Len(sent) /\ DOMAIN sent = 1..Len(sent)
  BY DEF InOrder, TypeOK
<1>2. \A n \in First : n = Len(decoded) + 1
  <2> TAKE n \in First
  <2>1. n \in 1..Len(sent) /\ End(n - 1) = End(Len(decoded)) /\ n - 1 \in 0..Len(sent)
    BY <1>1 DEF First, Placed, InOrder
  <2>2. End(n - 1) \in Nat /\ End(Len(decoded)) \in Nat
    BY <1>1, <2>1, EndType
  <2>3. ~(n - 1 < Len(decoded)) /\ ~(Len(decoded) < n - 1)
    BY <1>1, <2>1, <2>2 DEF Placed
  <2> QED BY <1>1, <2>1, <2>3
<1>3. ASSUME First # {}
      PROVE  First = {N} /\ N = Len(decoded) + 1 /\ N \in DOMAIN sent
             /\ F \in Frame /\ sent[N].at = consumed
  <2>1. N \in First
    BY <1>3 DEF N
  <2>2. N \in DOMAIN sent /\ sent[N].at = consumed
    BY <2>1 DEF First
  <2> QED BY <1>2, <2>1, <2>2, SentType DEF F
<1>4. ASSUME First = {}
      PROVE  Len(decoded) = Len(sent) /\ Buffered = 0
  <2>1. CASE Len(decoded) < Len(sent)
    <3>1. Len(decoded) + 1 \in DOMAIN sent /\ (Len(decoded) + 1) - 1 = Len(decoded)
      BY <1>1, <2>1
    <3>2. sent[Len(decoded) + 1].at = consumed
      BY <3>1 DEF Placed, InOrder
    <3> QED BY <1>4, <3>1, <3>2 DEF First
  <2>2. CASE ~(Len(decoded) < Len(sent))
    <3>1. Len(decoded) = Len(sent)
      BY <1>1, <2>2
    <3>2. consumed = Total
      BY <3>1 DEF InOrder, Total
    <3>3. arrived \in 0..Total /\ consumed \in 0..arrived /\ Total \in Nat
      BY <1>1, EndType DEF TypeOK, Total
    <3> QED BY <3>1, <3>2, <3>3 DEF Buffered
  <2> QED BY <2>1, <2>2
<1> QED BY <1>3, <1>4

\* What the reader waits for is less than the largest frame.
LEMMA WaitsForOneFrame ==
  ASSUME TypeOK, Placed, InOrder, Waits
  PROVE  Buffered \in Nat /\ Buffered < HeaderSize + MaxPacketSize
<1>1. Buffered \in Nat
  BY EndType DEF TypeOK, Total, Buffered
<1>2. CASE Buffered < HeaderSize
  BY <1>1, <1>2 DEF HeaderSize, MaxPacketSize
<1>3. CASE CanAdmit /\ Buffered < Size(F)
  <2>1. F \in Frame
    BY <1>3, FrontIsNext DEF CanAdmit
  <2>2. F.len <= MaxPacketSize
    BY <1>3 DEF CanAdmit, Admitted
  <2> QED BY <1>1, <1>3, <2>1, <2>2, SizeType DEF HeaderSize, MaxPacketSize
<1> QED BY <1>1, <1>2, <1>3 DEF Waits

------------------------------------------------------------------------------
(* Each step preserves the invariant.                                      *)

LEMMA InitInvariant ==
  ASSUME Init
  PROVE  FramesInvariant
<1>1. TypeOK
  <2>1. sent \in Seq(Items) /\ Len(sent) = 0 /\ decoded \in Seq(DOMAIN sent)
    BY DEF Init
  <2>2. Total = 0
    BY <2>1 DEF End, Total
  <2> QED BY <2>1, <2>2 DEF Init, TypeOK, Readers
<1>2. Placed
  BY DEF Init, Placed
<1>3. InOrder
  BY DEF Init, InOrder, End
<1>4. Standing
  BY DEF Init, Standing, RegularFramesAreRead, Waits, Buffered, HeaderSize
<1> QED BY <1>1, <1>2, <1>3, <1>4 DEF FramesInvariant

LEMMA SendInvariant ==
  ASSUME FramesInvariant, NEW f \in Traffic, Send(f)
  PROVE  FramesInvariant'
<1> USE DEF FramesInvariant
<1>0. PICK L \in Nat : L = Len(sent)
  BY DEF TypeOK
<1>i. PICK i : i = [frame |-> f, at |-> Total]
  OBVIOUS
<1> USE <1>0
<1>1. f \in Frame /\ Size(f) \in Nat /\ Size(f) >= 6 /\ Total \in Nat /\ L \in Nat
  <2>1. f \in Frame /\ L \in Nat
    BY FramesAssumption DEF TypeOK
  <2> QED BY <2>1, SizeType, EndType DEF Total, HeaderSize
<1>2. i \in Items /\ i.frame = f /\ i.at = Total
  BY <1>1, <1>i DEF Items
<1>3. /\ sent' = Append(sent, i) /\ sent' \in Seq(Items) /\ Len(sent') = L + 1
      /\ \A n \in 1..L : sent'[n] = sent[n]
      /\ sent'[L + 1] = i
  BY <1>2, <1>i DEF Send, TypeOK
<1>4. /\ \A n \in 0..L : End(n)' = End(n)
      /\ End(L + 1)' = Total + Size(f)
  BY <1>1, <1>2, <1>3 DEF End
<1>5. Total' = Total + Size(f)
  BY <1>3, <1>4 DEF Total
<1>6. TypeOK'
  <2>1. DOMAIN sent = 1..L /\ DOMAIN sent' = 1..(L + 1)
    BY <1>3 DEF TypeOK
  <2>2. decoded' \in Seq(DOMAIN sent')
    <3>1. DOMAIN sent \subseteq DOMAIN sent'
      BY <1>1, <2>1
    <3> QED BY <3>1 DEF TypeOK, Send
  <2>3. arrived' \in 0..Total' /\ consumed' \in 0..arrived'
    BY <1>1, <1>5 DEF TypeOK, Send
  <2> QED BY <1>3, <2>2, <2>3 DEF TypeOK, Send
<1>7. Placed'
  <2>1. DOMAIN sent = 1..L /\ DOMAIN sent' = 1..(L + 1)
    BY <1>3 DEF TypeOK
  <2>2. ASSUME NEW n \in DOMAIN sent'
        PROVE  sent'[n].at = End(n - 1)'
    <3>1. CASE n = L + 1
      <4>1. End(L)' = Total /\ n - 1 = L
        BY <1>1, <1>4, <3>1 DEF Total
      <4>2. sent'[n].at = Total
        BY <1>2, <1>3, <3>1
      <4> QED BY <4>1, <4>2
    <3>2. CASE n \in 1..L
      <4>1. n - 1 \in 0..L /\ sent'[n] = sent[n]
        BY <1>1, <1>3, <3>2
      <4>2. End(n - 1)' = End(n - 1)
        BY <1>4, <4>1
      <4> QED BY <2>1, <3>2, <4>1, <4>2 DEF Placed
    <3> QED BY <1>1, <2>1, <3>1, <3>2
  <2>3. ASSUME NEW m \in 0..(L + 1), NEW n \in 0..(L + 1), m < n
        PROVE  End(m)' < End(n)'
    <3>1. m \in 0..L /\ End(m)' = End(m) /\ End(m) \in Nat
      <4>1. m \in 0..L
        BY <1>1, <2>3
      <4> QED BY <1>4, <4>1, EndType
    <3>2. CASE n \in 0..L
      BY <1>4, <2>3, <3>1, <3>2 DEF Placed
    <3>3. CASE n = L + 1
      <4>1. End(m) <= Total
        <5>1. CASE m = L
          BY <1>1, <5>1 DEF Total
        <5>2. CASE m # L
          <6>1. m < L /\ L \in 0..L
            BY <1>1, <3>1, <5>2
          <6>2. End(m) < End(L)
            BY <3>1, <6>1 DEF Placed
          <6> QED BY <1>1, <3>1, <6>2 DEF Total
        <5> QED BY <5>1, <5>2
      <4> QED BY <1>1, <1>4, <3>1, <3>3, <4>1
    <3> QED BY <1>1, <3>2, <3>3
  <2> QED BY <1>3, <2>2, <2>3 DEF Placed
<1>8. InOrder'
  <2>1. PICK d \in 0..L : d = Len(decoded) /\ d = Len(decoded')
    BY DEF InOrder, TypeOK, Send
  <2>2. End(d)' = End(d)
    BY <1>4, <2>1
  <2>3. consumed' = End(d)'
    BY <2>1, <2>2 DEF InOrder, Send
  <2> QED BY <1>1, <1>3, <2>1, <2>3 DEF InOrder, Send
<1>9. Standing'
  <2>1. reader' = reader /\ arrived' = arrived /\ consumed' = consumed /\ reader \notin Ended
    BY DEF Send
  <2>2. Buffered' = Buffered
    BY <2>1 DEF Buffered
  <2>3. ASSUME Waits
        PROVE  Waits'
    <3>1. CASE First = {}
      <4>1. Buffered' < HeaderSize
        BY <2>2, <3>1, FrontIsNext DEF HeaderSize
      <4> QED BY <4>1 DEF Waits
    <3>2. CASE First # {}
      <4>1. N = Len(decoded) + 1 /\ N \in DOMAIN sent /\ First = {N}
        BY <3>2, FrontIsNext
      <4>2. N \in 1..L /\ Len(decoded) \in Nat /\ DOMAIN sent = 1..L
        BY <4>1 DEF TypeOK
      <4>3. consumed < Total
        <5>1. Len(decoded) \in 0..L /\ L \in 0..L /\ Len(decoded) < L
          BY <1>1, <4>1, <4>2
        <5> QED BY <5>1 DEF Placed, InOrder, Total
      <4>4. First' = First
        <5>1. DOMAIN sent' = 1..(L + 1)
          BY <1>3 DEF TypeOK
        <5>2. sent'[L + 1].at # consumed
          BY <1>1, <1>2, <1>3, <4>3
        <5> QED BY <1>1, <1>3, <2>1, <4>2, <5>1, <5>2 DEF First
      <4>5. N' = N
        BY <4>4 DEF N
      <4>6. F' = F
        BY <1>3, <4>2, <4>5 DEF F
      <4> QED BY <2>2, <2>3, <4>4, <4>6 DEF Waits, CanAdmit
    <3> QED BY <3>1, <3>2
  <2> QED BY <2>1, <2>3 DEF Standing, RegularFramesAreRead, Ended
<1> QED BY <1>6, <1>7, <1>8, <1>9

\* The stream is as it was: frames stay where they are.
LEMMA SameStream ==
  ASSUME UNCHANGED sent
  PROVE  /\ \A n \in Nat : End(n)' = End(n)
         /\ Total' = Total /\ (Placed => Placed')
  BY DEF End, Total, Placed

LEMMA SameFront ==
  ASSUME UNCHANGED <<sent, arrived, consumed>>
  PROVE  First' = First /\ Waits' = Waits
<1>1. First' = First
  BY DEF First
<1>2. N' = N
  BY <1>1 DEF N
<1>3. F' = F
  BY <1>2 DEF F
<1> QED BY <1>1, <1>3 DEF Waits, CanAdmit, Buffered

LEMMA ReadInvariant ==
  ASSUME FramesInvariant, NEW k \in Chunks, Read(k)
  PROVE  FramesInvariant'
<1> USE DEF FramesInvariant
<1>1. k \in Nat
  BY FramesAssumption
<1>2. Buffered < MaxBufferSize
  <2>1. Waits
    BY DEF Read, Standing
  <2> QED BY <2>1, WaitsForOneFrame DEF HeaderSize, MaxPacketSize, MaxBufferSize
<1>3. Total \in Nat /\ Buffered \in Nat
  <2>1. Total \in Nat
    BY EndType DEF Total, TypeOK
  <2> QED BY <2>1 DEF TypeOK, Buffered
<1>4. /\ arrived' = (IF arrived + k < Total THEN arrived + k ELSE Total)
      /\ reader' = "decoding" /\ UNCHANGED <<sent, consumed, decoded>>
  <2>1. ~(Buffered >= MaxBufferSize)
    BY <1>2, <1>3 DEF MaxBufferSize
  <2> QED BY <2>1 DEF Read
<1>5. arrived' \in 0..Total /\ consumed \in 0..arrived'
  BY <1>1, <1>3, <1>4 DEF TypeOK
<1>6. TypeOK'
  <2>1. Total' = Total
    BY <1>4, SameStream
  <2> QED BY <1>4, <1>5, <2>1 DEF TypeOK, Readers
<1>7. Placed'
  BY <1>4, SameStream
<1>8. InOrder'
  <2>1. Len(decoded) \in Nat
    BY DEF TypeOK
  <2> QED BY <1>4, <2>1, SameStream DEF InOrder
<1>9. Standing'
  BY <1>4 DEF Standing, RegularFramesAreRead
<1> QED BY <1>6, <1>7, <1>8, <1>9

\* A step that changes nothing but what the reader does.
LEMMA ReaderOnly ==
  ASSUME FramesInvariant, UNCHANGED <<sent, arrived, consumed, decoded>>,
         reader' \in Readers
  PROVE  TypeOK' /\ Placed' /\ InOrder' /\ (Waits => Waits')
<1> USE DEF FramesInvariant
<1>1. TypeOK'
  BY SameStream DEF TypeOK
<1>2. InOrder'
  <2>1. Len(decoded) \in Nat
    BY DEF TypeOK
  <2> QED BY <2>1, SameStream DEF InOrder
<1> QED BY <1>1, <1>2, SameStream, SameFront

LEMMA CloseInvariant ==
  ASSUME FramesInvariant, Close
  PROVE  FramesInvariant'
<1>1. Waits /\ reader' \in {"closing", "failed"}
  BY DEF Close, FramesInvariant, Standing
<1>2. reader' \in Readers
  BY <1>1 DEF Readers, Ended
<1>3. TypeOK' /\ Placed' /\ InOrder' /\ Waits'
  BY <1>1, <1>2, ReaderOnly DEF Close
<1> QED BY <1>1, <1>3 DEF FramesInvariant, Standing, RegularFramesAreRead

LEMMA WaitInvariant ==
  ASSUME FramesInvariant, Wait
  PROVE  FramesInvariant'
<1>1. Waits /\ reader' \in {"reading", "closed", "torn"}
  BY DEF Wait
<1>2. reader' \in Readers
  BY <1>1 DEF Readers, Ended
<1>3. TypeOK' /\ Placed' /\ InOrder' /\ Waits'
  BY <1>1, <1>2, ReaderOnly DEF Wait
<1> QED BY <1>1, <1>3 DEF FramesInvariant, Standing, RegularFramesAreRead

LEMMA RefuseInvariant ==
  ASSUME FramesInvariant, Refuse
  PROVE  FramesInvariant'
<1> USE DEF FramesInvariant
<1>1. ~Waits /\ ~CanRead /\ UNCHANGED <<sent, arrived, consumed, decoded>>
  BY DEF Refuse
<1>2. First # {}
  <2>1. ~(Buffered < HeaderSize)
    BY <1>1 DEF Waits
  <2> QED BY <2>1, FrontIsNext DEF HeaderSize
<1>3. N \in First /\ F \in Frame
  BY <1>2, FrontIsNext
<1>4. F \notin Regular
  BY <1>1, <1>2, <1>3, RegularIsReadable DEF CanRead
<1>5. reader' = "error"
  BY <1>3, NothingUnderflows DEF Refuse
<1>6. TypeOK' /\ Placed' /\ InOrder'
  BY <1>1, <1>5, ReaderOnly DEF Readers, Ended
<1>7. N \in First' /\ sent'[N].frame \notin Regular
  BY <1>1, <1>3, <1>4, SameFront DEF F
<1> QED BY <1>5, <1>6, <1>7 DEF Standing, RegularFramesAreRead

LEMMA DecodeInvariant ==
  ASSUME FramesInvariant, Decode
  PROVE  /\ FramesInvariant'
         /\ reader = "decoding" /\ N = Len(decoded) + 1 /\ N \in 1..Len(sent)
<1> USE DEF FramesInvariant
<1>1. /\ ~Waits /\ CanRead /\ reader \in {"decoding", "closing"}
      /\ UNCHANGED <<sent, arrived, reader>>
      /\ consumed' = consumed + Size(F) /\ decoded' = Append(decoded, N)
  BY DEF Decode
<1>2. reader = "decoding"
  BY <1>1 DEF Standing
<1>3. N = Len(decoded) + 1 /\ N \in 1..Len(sent) /\ F \in Frame /\ sent[N].at = consumed
  BY <1>1, FrontIsNext DEF CanRead, TypeOK
<1>4. Buffered >= Size(F)
  <2>1. CanAdmit
    BY <1>1 DEF CanRead, CanAdmit, Readable
  <2>2. Size(F) \in Nat /\ Buffered \in Int
    BY <1>3, SizeType DEF Buffered, TypeOK
  <2> QED BY <1>1, <2>1, <2>2 DEF Waits
<1>5. consumed' = End(N)
  BY <1>1, <1>3 DEF End, F
<1>6. /\ Len(decoded') = Len(decoded) + 1 /\ decoded' \in Seq(DOMAIN sent)
      /\ \A m \in 1..Len(decoded) : decoded'[m] = decoded[m]
      /\ decoded'[N] = N
  BY <1>1, <1>3 DEF TypeOK
<1>7. TypeOK'
  <2>1. consumed' \in 0..arrived
    BY <1>1, <1>3, <1>4, SizeType DEF TypeOK, Buffered
  <2>2. Total' = Total
    BY <1>1, SameStream
  <2> QED BY <1>1, <1>6, <2>1, <2>2 DEF TypeOK
<1>8. Placed'
  BY <1>1, SameStream
<1>9. InOrder'
  <2>1. PICK n \in Nat : n = N /\ n = Len(decoded')
    BY <1>3, <1>6
  <2>5. consumed' = End(n)'
    BY <1>1, <1>5, <2>1, SameStream
  <2>2. DOMAIN decoded' = 1..N /\ DOMAIN decoded = 1..Len(decoded) /\ Len(decoded) \in Nat
    BY <1>3, <1>6 DEF TypeOK
  <2>3. \A m \in DOMAIN decoded' : decoded'[m] = m
    BY <1>3, <1>6, <2>2 DEF InOrder
  <2>4. Len(decoded') <= Len(sent')
    BY <1>1, <1>3, <1>6
  <2> QED BY <2>1, <2>3, <2>4, <2>5 DEF InOrder
<1>10. Standing'
  BY <1>1, <1>2 DEF Standing, RegularFramesAreRead
<1> QED BY <1>2, <1>3, <1>7, <1>8, <1>9, <1>10

LEMMA StutterInvariant ==
  ASSUME FramesInvariant, UNCHANGED vars
  PROVE  FramesInvariant'
<1>1. TypeOK' /\ Placed' /\ InOrder' /\ (Waits => Waits')
  BY ReaderOnly DEF vars, FramesInvariant, TypeOK
<1>2. First' = First
  BY SameFront DEF vars
<1> QED BY <1>1, <1>2 DEF vars, FramesInvariant, Standing, RegularFramesAreRead

LEMMA NextInvariant ==
  ASSUME FramesInvariant, [Next]_vars
  PROVE  FramesInvariant'
  BY SendInvariant, ReadInvariant, CloseInvariant, WaitInvariant, RefuseInvariant,
     DecodeInvariant, StutterInvariant DEF Next

\* The invariant holds, and with it the type: no more is ever taken from the buffer
\* than has been read, nor read than has been sent.
THEOREM InvariantHolds == Spec => []FramesInvariant
<1>1. Init => FramesInvariant
  BY InitInvariant
<1>2. FramesInvariant /\ [Next]_vars => FramesInvariant'
  BY NextInvariant
<1> QED BY <1>1, <1>2, PTL DEF Spec

\* Every variable has its type, and no more is split off the buffer than has arrived.
THEOREM TypeCorrect == Spec => []TypeOK
<1>1. FramesInvariant => TypeOK
  BY DEF FramesInvariant
<1> QED BY <1>1, InvariantHolds, PTL

------------------------------------------------------------------------------
(* What follows from the invariant.                                        *)

\* However the bytes are cut, no frame that is there to its last byte is left in the
\* buffer while the reader waits for more.
THEOREM NoFrameIsLeft == Spec => []NothingLeftBehind
<1>1. ASSUME FramesInvariant, reader = "reading", NEW n \in DOMAIN sent, End(n) <= arrived
      PROVE  n <= Len(decoded)
  <2> USE DEF FramesInvariant
  <2>1. Waits /\ n \in 1..Len(sent) /\ Len(decoded) \in 0..Len(sent)
    BY <1>1 DEF Standing, InOrder, TypeOK
  <2>2. SUFFICES ASSUME Len(decoded) < n
                 PROVE  FALSE
    BY <2>1
  <2>3. First # {}
    BY <1>1, <2>1, <2>2, FrontIsNext
  <2>4. N = Len(decoded) + 1 /\ N \in DOMAIN sent /\ F \in Frame /\ sent[N].at = consumed
    BY <1>1, <2>3, FrontIsNext
  <2>5. PICK m \in 1..Len(sent) : m = N
    BY <1>1, <2>4 DEF TypeOK
  <2>6. End(m) = consumed + Size(F) /\ End(m) \in Nat /\ End(n) \in Nat
    <3>1. End(m) = sent[m].at + Size(sent[m].frame) /\ End(m) \in Nat
      BY <1>1, <2>4, <2>5, SentType
    <3> QED BY <1>1, <2>4, <2>5, <3>1, SentType DEF F
  <2>7. End(m) <= End(n)
    <3>1. CASE m = n
      BY <2>6, <3>1
    <3>2. CASE m # n
      <4>1. m < n /\ m \in 0..Len(sent) /\ n \in 0..Len(sent)
        BY <2>1, <2>2, <2>4, <2>5, <3>2
      <4> QED BY <1>1, <2>6, <4>1 DEF Placed
    <3> QED BY <3>1, <3>2
  <2>8. Size(F) \in Nat /\ Size(F) >= HeaderSize /\ consumed \in Nat /\ arrived \in Nat
    <3>1. Total \in Nat
      BY <1>1, EndType DEF Total, TypeOK
    <3> QED BY <1>1, <2>4, <3>1, SizeType DEF TypeOK
  <2>9. Buffered >= Size(F)
    BY <1>1, <2>6, <2>7, <2>8 DEF Buffered
  <2> QED BY <2>1, <2>8, <2>9 DEF Waits, Buffered, HeaderSize
<1>2. FramesInvariant => NothingLeftBehind
  BY <1>1 DEF NothingLeftBehind
<1> QED BY <1>2, InvariantHolds, PTL

\* The answers of an inverter never end the reader, whatever came before them.
THEOREM RegularTrafficIsRead == Spec => []RegularFramesAreRead
<1>1. FramesInvariant => RegularFramesAreRead
  BY DEF FramesInvariant, Standing
<1> QED BY <1>1, InvariantHolds, PTL

\* The buffer never holds as much as the reader would give up for.
THEOREM BufferIsBounded == Spec => []BufferHoldsOneFrame
<1>1. FramesInvariant => BufferHoldsOneFrame
  BY WaitsForOneFrame DEF FramesInvariant, Standing, BufferHoldsOneFrame
<1> QED BY <1>1, InvariantHolds, PTL

\* No frame whatever makes the parser count below zero.
THEOREM ParserNeverUnderflows == Spec => []NoUnderflow
<1>1. FramesInvariant => NoUnderflow
  BY DEF FramesInvariant, Standing, NoUnderflow
<1> QED BY <1>1, InvariantHolds, PTL

\* The drain at the end of the socket finds no packet.
THEOREM DrainIsEmpty == Spec => ClosingDecodesNothing
<1>1. FramesInvariant /\ [Next]_vars => [reader = "closing" => UNCHANGED decoded]_vars
  <2>1. SUFFICES ASSUME FramesInvariant, [Next]_vars, reader = "closing"
                 PROVE  decoded' = decoded
    BY Zenon
  <2>2. ASSUME Decode
        PROVE  FALSE
    BY <2>1, <2>2, DecodeInvariant
  <2> QED BY <2>1, <2>2 DEF Next, Send, Read, Close, Refuse, Wait, vars
<1> QED BY <1>1, InvariantHolds, PTL DEF Spec, ClosingDecodesNothing

\* The decoder implements the delivery of the frames sent: in order, none twice, none
\* left out.
THEOREM FramesAreDelivered == Spec => DecoderDelivers
<1>1. Init => Stream!Init
  BY DEF Init, Stream!Init
<1>2. FramesInvariant /\ [Next]_vars => [Stream!Next]_<<Len(sent), decoded>>
  <2>1. SUFFICES ASSUME FramesInvariant, Next
                 PROVE  Stream!Next \/ UNCHANGED <<Len(sent), decoded>>
    BY DEF vars
  <2>2. ASSUME NEW f \in Traffic, Send(f)
        PROVE  Stream!Send
    <3>1. Len(sent) \in Nat /\ Len(sent') = Len(sent) + 1
      BY <2>1, <2>2 DEF Send, FramesInvariant, TypeOK
    <3> QED BY <2>2, <3>1 DEF Send, Stream!Send
  <2>3. ASSUME Decode
        PROVE  Stream!Deliver
    <3>1. N = Len(decoded) + 1 /\ N \in 1..Len(sent)
      BY <2>1, <2>3, DecodeInvariant
    <3>2. /\ decoded \in Seq(Nat) /\ DOMAIN decoded = 1..Len(decoded)
          /\ \A m \in DOMAIN decoded : decoded[m] = m
      BY <2>1 DEF FramesInvariant, TypeOK, InOrder
    <3>3. Stream!Latest = Len(decoded)
      BY <3>2 DEF Stream!Latest
    <3>5. Stream!Fresh(N)
      BY <3>1, <3>2 DEF Stream!Fresh
    <3>6. Len(decoded) \in Nat /\ UNCHANGED sent /\ decoded' = Append(decoded, N)
      BY <2>3, <3>2 DEF Decode
    <3> QED BY <3>1, <3>3, <3>5, <3>6 DEF Stream!Deliver
  <2> QED BY <2>1, <2>2, <2>3 DEF Next, Read, Close, Refuse, Wait, Stream!Next
<1> QED BY <1>1, <1>2, InvariantHolds, PTL DEF Spec, DecoderDelivers, Stream!Spec
==============================================================================
