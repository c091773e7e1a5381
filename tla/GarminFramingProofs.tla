------------------------- MODULE GarminFramingProofs -------------------------
(***************************************************************************)
(* Every packet is translated once and in its order, for any packets, any     *)
(* buffer that holds the longest of them, and any way to cut them into reads. *)
(***************************************************************************)
EXTENDS GarminFraming, WellFoundedInduction, SequenceTheorems, TLAPS

StreamBytes == (DOMAIN Ends) \X (Nat \ {0})

\* As long as the packets that met were of one length, the buffer is a piece of
\* the stream that begins where a packet begins, all packets in front of it were
\* translated, and the length computed is that of each packet in the buffer.
OrderInv ==
    \E m \in 0 .. Len(Ends) :
        /\ EndOf(m) + Len(buffer) = pos
        /\ \A i \in DOMAIN buffer : buffer[i] = Stream[EndOf(m) + i]
        /\ handled = [k \in 1 .. m |-> k]
        /\ ~garbled
        /\ \A i \in DOMAIN buffer : PacketLength(buffer[i][1]) = pktlen

IInv == TypeOK /\ (~uneven => OrderInv)

-----------------------------------------------------------------------------
(* The stream.                                                              *)

LEMMA EndsInOrder ==
    /\ Len(Ends) \in Nat /\ DOMAIN Ends = 1 .. Len(Ends)
    /\ EndOf(0) = 0
    /\ \A k \in 0 .. Len(Ends) : EndOf(k) \in Nat
    /\ \A k \in 1 .. Len(Ends) : /\ EndOf(k - 1) \in Nat /\ EndOf(k - 1) < EndOf(k)
                                 /\ PacketLength(k) = EndOf(k) - EndOf(k - 1)
                                 /\ PacketLength(k) \in Nat
                                 /\ PacketLength(k) >= GARMIN_HEADER_SIZE
    /\ \A j, k \in 0 .. Len(Ends) : j <= k => EndOf(j) <= EndOf(k)
<1>1. /\ Ends \in Seq(Nat) /\ GARMIN_HEADER_SIZE \in Nat \ {0} /\ READ_BUFFER_SIZE \in Nat
      /\ \A j, k \in DOMAIN Ends : j < k => Ends[j] < Ends[k]
      /\ \A k \in DOMAIN Ends : PacketLength(k) \in GARMIN_HEADER_SIZE .. READ_BUFFER_SIZE
  BY PacketsAssumption
<1>2. Len(Ends) \in Nat /\ DOMAIN Ends = 1 .. Len(Ends)
  BY <1>1
<1>3. \A k \in 0 .. Len(Ends) : EndOf(k) \in Nat
  BY <1>1, <1>2 DEF EndOf
<1>4. EndOf(0) = 0
  BY DEF EndOf
<1>5. ASSUME NEW k \in 1 .. Len(Ends)
      PROVE  /\ EndOf(k - 1) \in Nat /\ EndOf(k - 1) < EndOf(k)
             /\ PacketLength(k) = EndOf(k) - EndOf(k - 1)
             /\ PacketLength(k) \in Nat
             /\ PacketLength(k) >= GARMIN_HEADER_SIZE
  <2>1. PacketLength(k) = EndOf(k) - EndOf(k - 1)
    BY DEF PacketLength
  <2>2. EndOf(k - 1) \in Nat /\ EndOf(k) \in Nat
    BY <1>2, <1>3
  <2>3. PacketLength(k) \in GARMIN_HEADER_SIZE .. READ_BUFFER_SIZE
    BY <1>1, <1>2
  <2> QED  BY <1>1, <2>1, <2>2, <2>3
<1>6. ASSUME NEW j \in 0 .. Len(Ends), NEW k \in 0 .. Len(Ends), j <= k
      PROVE  EndOf(j) <= EndOf(k)
  <2>1. CASE j = 0  BY <1>2, <1>3, <1>4, <2>1
  <2>2. CASE j = k  BY <1>3, <2>2
  <2>3. CASE j # 0 /\ j < k
    <3>1. j \in DOMAIN Ends /\ k \in DOMAIN Ends /\ k # 0
      BY <1>2, <2>3
    <3>2. Ends[j] < Ends[k] /\ Ends[j] \in Nat /\ Ends[k] \in Nat
      BY <1>1, <2>3, <3>1
    <3> QED  BY <2>3, <3>1, <3>2 DEF EndOf
  <2> QED  BY <1>2, <1>6, <2>1, <2>2, <2>3
<1> QED  BY <1>2, <1>3, <1>4, <1>5, <1>6

\* Each byte belongs to one packet.
LEMMA PacketOfByte ==
    ASSUME NEW p \in 1 .. EndOf(Len(Ends))
    PROVE  /\ PacketAt(p) \in DOMAIN Ends
           /\ EndOf(PacketAt(p) - 1) < p /\ p <= EndOf(PacketAt(p))
<1> DEFINE I == {k \in 1 .. Len(Ends) : p <= EndOf(k)}
<1>1. /\ Len(Ends) \in Nat /\ DOMAIN Ends = 1 .. Len(Ends) /\ EndOf(0) = 0
      /\ \A k \in 0 .. Len(Ends) : EndOf(k) \in Nat
  BY EndsInOrder
<1>2. Len(Ends) # 0 /\ p \in Nat
  BY <1>1
<1>3. Len(Ends) \in I /\ I \in SUBSET Nat
  BY <1>1, <1>2
<1>4. PICK x \in I : \A y \in I : ~(<<y, x>> \in OpToRel(<, Nat))
  <2> HIDE DEF I
  <2> QED  BY <1>3, NatLessThanWellFounded, WFMin
<1>5. \A y \in I : ~(y < x)
  <2> SUFFICES ASSUME NEW y \in I, y < x  PROVE FALSE
    OBVIOUS
  <2>1. <<y, x>> \in OpToRel(<, Nat)
    BY <1>1 DEF OpToRel
  <2> QED  BY <1>4, <2>1
<1>6. x \in 1 .. Len(Ends) /\ p <= EndOf(x)
  OBVIOUS
<1>7. EndOf(x - 1) < p
  <2>1. CASE x = 1  BY <1>1, <1>2, <2>1
  <2>2. CASE x # 1
    <3>1. x - 1 \in 1 .. Len(Ends) /\ x - 1 < x /\ EndOf(x - 1) \in Nat
      BY <1>1, <1>6, <2>2
    <3>2. x - 1 \notin I
      BY <1>5, <3>1
    <3> QED  BY <1>2, <3>1, <3>2
  <2> QED  BY <2>1, <2>2
<1> QED  BY <1>1, <1>6, <1>7 DEF PacketAt

LEMMA PacketIsUnique ==
    ASSUME NEW k \in 1 .. Len(Ends), NEW p \in Nat, EndOf(k - 1) < p, p <= EndOf(k)
    PROVE  p \in 1 .. EndOf(Len(Ends)) /\ PacketAt(p) = k
<1>1. /\ Len(Ends) \in Nat /\ DOMAIN Ends = 1 .. Len(Ends)
      /\ \A j \in 0 .. Len(Ends) : EndOf(j) \in Nat
      /\ \A i, j \in 0 .. Len(Ends) : i <= j => EndOf(i) <= EndOf(j)
  BY EndsInOrder
<1>2. p \in 1 .. EndOf(Len(Ends))
  <2>1. EndOf(k - 1) \in Nat /\ EndOf(k) \in Nat /\ EndOf(Len(Ends)) \in Nat
    BY <1>1
  <2>2. EndOf(k) <= EndOf(Len(Ends))
    BY <1>1
  <2> QED  BY <2>1, <2>2
<1> DEFINE j == PacketAt(p)
<1>3. j \in 1 .. Len(Ends) /\ EndOf(j - 1) < p /\ p <= EndOf(j)
  BY <1>1, <1>2, PacketOfByte
<1> HIDE DEF j
<1>4. j - 1 \in 0 .. Len(Ends) /\ k - 1 \in 0 .. Len(Ends)
      /\ j \in 0 .. Len(Ends) /\ k \in 0 .. Len(Ends)
  BY <1>1, <1>3
<1>5. /\ EndOf(j - 1) \in Nat /\ EndOf(k - 1) \in Nat /\ EndOf(j) \in Nat /\ EndOf(k) \in Nat
      /\ j <= k - 1 => EndOf(j) <= EndOf(k - 1)
      /\ k <= j - 1 => EndOf(k) <= EndOf(j - 1)
  BY <1>1, <1>4
<1>6. ~(j <= k - 1) /\ ~(k <= j - 1)
  BY <1>3, <1>5
<1>7. j = k
  BY <1>1, <1>3, <1>6
<1> QED  BY <1>2, <1>7 DEF j

LEMMA StreamType ==
    /\ EndOf(Len(Ends)) \in Nat
    /\ Stream \in Seq(StreamBytes)
    /\ Len(Stream) = EndOf(Len(Ends))
    /\ \A p \in 1 .. Len(Stream) : /\ Stream[p] = <<PacketAt(p), p - EndOf(PacketAt(p) - 1)>>
                                   /\ Stream[p] \in StreamBytes
<1>1. /\ EndOf(Len(Ends)) \in Nat /\ DOMAIN Ends = 1 .. Len(Ends)
      /\ \A j \in 1 .. Len(Ends) : EndOf(j - 1) \in Nat
  BY EndsInOrder
<1>2. ASSUME NEW p \in 1 .. EndOf(Len(Ends))
      PROVE  <<PacketAt(p), p - EndOf(PacketAt(p) - 1)>> \in StreamBytes
  <2>1. /\ PacketAt(p) \in 1 .. Len(Ends) /\ EndOf(PacketAt(p) - 1) < p
        /\ EndOf(PacketAt(p) - 1) \in Nat
    BY <1>1, PacketOfByte
  <2>2. p - EndOf(PacketAt(p) - 1) \in Nat \ {0}
    BY <2>1
  <2> QED  BY <1>1, <2>1, <2>2 DEF StreamBytes
<1> DEFINE n == EndOf(Len(Ends))
<1>3. Stream = [p \in 1 .. n |-> <<PacketAt(p), p - EndOf(PacketAt(p) - 1)>>]
  BY DEF Stream
<1>4. /\ Stream \in [1 .. n -> StreamBytes] /\ DOMAIN Stream = 1 .. n
      /\ \A p \in 1 .. n : Stream[p] = <<PacketAt(p), p - EndOf(PacketAt(p) - 1)>>
  BY <1>2, <1>3, Zenon
<1>5. n \in Nat
  BY <1>1
<1> HIDE DEF n
<1>6. Stream \in Seq(StreamBytes) /\ Len(Stream) = n
  BY <1>4, <1>5
<1>7. \A p \in 1 .. n : Stream[p] \in StreamBytes
  BY <1>4
<1> QED  BY <1>1, <1>4, <1>6, <1>7 DEF n

-----------------------------------------------------------------------------
(* The buffer.                                                              *)

LEMMA TypesOfVars ==
    ASSUME TypeOK
    PROVE  /\ pos \in Nat /\ pos <= Len(Stream) /\ pktlen \in Nat
           /\ buffer \in Seq(StreamBytes) /\ Len(buffer) \in Nat
           /\ Len(buffer) <= READ_BUFFER_SIZE
           /\ \A i \in 1 .. Len(buffer) : buffer[i] \in StreamBytes
           /\ DOMAIN buffer = 1 .. Len(buffer)
<1>1. Len(Stream) \in Nat  BY StreamType
<1>2. buffer \in Seq(StreamBytes)  BY DEF TypeOK, StreamBytes
<1> QED  BY <1>1, <1>2 DEF TypeOK

LEMMA ReadBuffer ==
    ASSUME TypeOK, NEW n \in 1 .. READ_BUFFER_SIZE, Read(n)
    PROVE  /\ buffer' \in Seq(StreamBytes)
           /\ Len(buffer') = Len(buffer) + n
           /\ \A i \in 1 .. Len(buffer) : buffer'[i] = buffer[i]
           /\ \A i \in 1 .. n : buffer'[Len(buffer) + i] = Stream[pos + i]
<1>1. /\ pos \in Nat /\ READ_BUFFER_SIZE \in Nat /\ n \in Nat /\ n >= 1
      /\ Len(buffer) \in Nat /\ buffer \in Seq(StreamBytes)
  BY TypesOfVars, PacketsAssumption
<1>2. /\ pos + n <= Len(Stream) /\ Stream \in Seq(StreamBytes) /\ Len(Stream) \in Nat
      /\ \A p \in 1 .. Len(Stream) : Stream[p] \in StreamBytes
  BY StreamType DEF Read
<1> DEFINE part == SubSeq(Stream, pos + 1, pos + n)
<1>3. buffer' = buffer \o part
  BY DEF Read
<1>4. /\ part \in Seq(StreamBytes) /\ Len(part) = n
      /\ \A i \in 1 .. n : part[i] = Stream[pos + i]
  <2>1. \A i \in pos + 1 .. pos + n : Stream[i] \in StreamBytes
    BY <1>1, <1>2
  <2>2. /\ part \in Seq(StreamBytes)
        /\ Len(part) = IF pos + 1 <= pos + n THEN pos + n - (pos + 1) + 1 ELSE 0
        /\ \A i \in 1 .. pos + n - (pos + 1) + 1 : part[i] = Stream[pos + 1 + i - 1]
    BY <1>1, <1>2, <2>1, SubSeqProperties
  <2> HIDE DEF part
  <2>3. Len(part) = n /\ pos + n - (pos + 1) + 1 = n
    BY <1>1, <2>2
  <2>4. \A i \in 1 .. n : pos + 1 + i - 1 = pos + i
    BY <1>1
  <2> QED  BY <2>2, <2>3, <2>4
<1> HIDE DEF part
<1>5. /\ buffer \o part \in Seq(StreamBytes)
      /\ Len(buffer \o part) = Len(buffer) + Len(part)
      /\ \A i \in 1 .. Len(buffer) + Len(part) : (buffer \o part)[i] =
            IF i <= Len(buffer) THEN buffer[i] ELSE part[i - Len(buffer)]
  <2>1. buffer \in Seq(StreamBytes) /\ part \in Seq(StreamBytes)
    BY <1>1, <1>4
  <2> QED  BY <2>1, ConcatProperties, Zenon
<1>6. \A i \in 1 .. Len(buffer) : (buffer \o part)[i] = buffer[i]
  BY <1>1, <1>4, <1>5
<1>7. \A i \in 1 .. n : (buffer \o part)[Len(buffer) + i] = Stream[pos + i]
  <2> TAKE i \in 1 .. n
  <2>1. /\ Len(buffer) + i \in 1 .. Len(buffer) + Len(part)
        /\ ~(Len(buffer) + i <= Len(buffer)) /\ (Len(buffer) + i) - Len(buffer) = i
    BY <1>1, <1>4
  <2> QED  BY <1>4, <1>5, <2>1
<1> QED  BY <1>3, <1>4, <1>5, <1>6, <1>7

LEMMA RestOfBuffer ==
    ASSUME TypeOK, HandlePacket
    PROVE  /\ buffer' \in Seq(StreamBytes)
           /\ Len(buffer') = Len(buffer) - pktlen
           /\ \A i \in 1 .. Len(buffer) - pktlen : buffer'[i] = buffer[pktlen + i]
           /\ Len(buffer) >= 1
<1>1. /\ pktlen \in Nat /\ Len(buffer) \in Nat /\ Len(buffer) >= pktlen
      /\ Len(buffer) >= GARMIN_HEADER_SIZE /\ GARMIN_HEADER_SIZE \in Nat \ {0}
      /\ buffer \in Seq(StreamBytes)
      /\ \A i \in 1 .. Len(buffer) : buffer[i] \in StreamBytes
  BY TypesOfVars, PacketsAssumption DEF HandlePacket, Ready
<1>2. \A i \in pktlen + 1 .. Len(buffer) : buffer[i] \in StreamBytes
  BY <1>1
<1> DEFINE back == SubSeq(buffer, pktlen + 1, Len(buffer))
<1>3. /\ back \in Seq(StreamBytes)
      /\ Len(back) = IF pktlen + 1 <= Len(buffer) THEN Len(buffer) - (pktlen + 1) + 1 ELSE 0
      /\ \A i \in 1 .. Len(buffer) - (pktlen + 1) + 1 : back[i] = buffer[pktlen + 1 + i - 1]
  BY <1>1, <1>2, SubSeqProperties
<1>4. buffer' = back
  BY DEF HandlePacket, Rest
<1> HIDE DEF back
<1>5. Len(back) = Len(buffer) - pktlen /\ Len(buffer) - (pktlen + 1) + 1 = Len(buffer) - pktlen
  BY <1>1, <1>3
<1>6. \A i \in 1 .. Len(buffer) - pktlen : pktlen + 1 + i - 1 = pktlen + i
  BY <1>1
<1> QED  BY <1>1, <1>3, <1>4, <1>5, <1>6

-----------------------------------------------------------------------------
(* The types.                                                               *)

LEMMA InitTypes == Init => TypeOK
<1> SUFFICES ASSUME Init  PROVE TypeOK
  OBVIOUS
<1>1. GARMIN_HEADER_SIZE \in Nat /\ READ_BUFFER_SIZE \in Nat /\ Len(Stream) \in Nat
  BY PacketsAssumption, StreamType
<1>2. buffer = << >> /\ Len(buffer) = 0 /\ handled = << >>
  BY DEF Init
<1>3. buffer \in Seq((DOMAIN Ends) \X (Nat \ {0})) /\ handled \in Seq(DOMAIN Ends)
  BY <1>2, EmptySeq
<1>4. Len(buffer) <= READ_BUFFER_SIZE /\ pktlen \in Nat /\ pos \in 0 .. Len(Stream)
  BY <1>1, <1>2 DEF Init
<1> QED  BY <1>3, <1>4 DEF Init, TypeOK

LEMMA StepTypes == TypeOK /\ [Next]_vars => TypeOK'
<1> SUFFICES ASSUME TypeOK, [Next]_vars  PROVE TypeOK'
  OBVIOUS
<1>1. ASSUME NEW n \in 1 .. READ_BUFFER_SIZE, Read(n)  PROVE TypeOK'
  <2>1. /\ pos \in Nat /\ Len(buffer) \in Nat /\ READ_BUFFER_SIZE \in Nat /\ n \in Nat /\ n >= 1
        /\ Len(Stream) \in Nat
    BY TypesOfVars, PacketsAssumption, StreamType
  <2>2. pos' \in 0 .. Len(Stream)
    BY <1>1, <2>1 DEF Read
  <2>3. buffer' \in Seq(StreamBytes) /\ Len(buffer') = Len(buffer) + n
    BY <1>1, ReadBuffer
  <2>4. Len(buffer') <= READ_BUFFER_SIZE
    BY <1>1, <2>1, <2>3 DEF Read, Space
  <2>5. pktlen' \in Nat
    <3>1. buffer'[1] \in StreamBytes
      BY <2>1, <2>3
    <3>2. buffer'[1][1] \in 1 .. Len(Ends)
      BY <3>1, EndsInOrder DEF StreamBytes
    <3>3. PacketLength(buffer'[1][1]) \in Nat
      BY <3>2, EndsInOrder
    <3>4. pktlen' \in {PacketLength(buffer'[1][1])} \cup Misread
      BY <1>1 DEF Read, LengthsIn
    <3> QED  BY <3>3, <3>4, PacketsAssumption
  <2>6. uneven' \in BOOLEAN
    BY <1>1 DEF Read, TypeOK
  <2>7. handled' \in Seq(DOMAIN Ends) /\ garbled' \in BOOLEAN
    BY <1>1 DEF Read, TypeOK
  <2>8. buffer' \in Seq((DOMAIN Ends) \X (Nat \ {0}))
    BY <2>3 DEF StreamBytes
  <2> QED  BY <2>2, <2>4, <2>5, <2>6, <2>7, <2>8 DEF TypeOK
<1>2. ASSUME HandlePacket  PROVE TypeOK'
  <2>1. /\ Len(buffer) \in Nat /\ pktlen \in Nat /\ READ_BUFFER_SIZE \in Nat
        /\ Len(buffer) <= READ_BUFFER_SIZE
        /\ \A i \in 1 .. Len(buffer) : buffer[i] \in StreamBytes
    BY TypesOfVars, PacketsAssumption
  <2>2. /\ buffer' \in Seq(StreamBytes) /\ Len(buffer') = Len(buffer) - pktlen
        /\ Len(buffer) >= 1
    BY <1>2, RestOfBuffer
  <2>3. Len(buffer') <= READ_BUFFER_SIZE
    BY <2>1, <2>2
  <2>4. buffer[1][1] \in DOMAIN Ends
    BY <2>1, <2>2 DEF StreamBytes
  <2>5. handled' \in Seq(DOMAIN Ends)
    <3>1. handled \in Seq(DOMAIN Ends)  BY DEF TypeOK
    <3>2. handled' = handled \/ handled' = Append(handled, buffer[1][1])
      BY <1>2 DEF HandlePacket
    <3> QED  BY <2>4, <3>1, <3>2
  <2>6. garbled' \in BOOLEAN
    BY <1>2 DEF HandlePacket, TypeOK
  <2>7. buffer' \in Seq((DOMAIN Ends) \X (Nat \ {0}))
    BY <2>2 DEF StreamBytes
  <2>8. pos' \in 0 .. Len(Stream) /\ pktlen' \in Nat /\ uneven' \in BOOLEAN
    BY <1>2 DEF HandlePacket, TypeOK
  <2> QED  BY <2>3, <2>5, <2>6, <2>7, <2>8 DEF TypeOK
<1>3. CASE UNCHANGED vars
  BY <1>3 DEF vars, TypeOK
<1> QED  BY <1>1, <1>2, <1>3 DEF Next, ReadSome

\* Whatever packets come, of whatever lengths, and whatever is taken for a header:
\* no read goes past the buffer (gypsy-garmin-parser.c:325-336).
THEOREM GarminTypeOK == Spec => []TypeOK
BY InitTypes, StepTypes, PTL DEF Spec

-----------------------------------------------------------------------------
(* The order.                                                               *)

\* The buffer from the end of packet m on, where it holds the whole stream so far.
LEMMA FrontOfBuffer ==
    ASSUME NEW m \in 0 .. Len(Ends), NEW b, Len(b) \in Nat, DOMAIN b = 1 .. Len(b),
           Len(b) >= 1, EndOf(m) + Len(b) <= Len(Stream),
           \A i \in DOMAIN b : b[i] = Stream[EndOf(m) + i]
    PROVE  m + 1 \in 1 .. Len(Ends) /\ b[1] = <<m + 1, 1>>
<1>1. /\ Len(Ends) \in Nat /\ EndOf(m) \in Nat /\ EndOf(Len(Ends)) \in Nat
      /\ Len(Stream) = EndOf(Len(Ends))
  BY EndsInOrder, StreamType
<1>2. m # Len(Ends)
  BY <1>1
<1>3. m + 1 \in 1 .. Len(Ends) /\ (m + 1) - 1 = m
  BY <1>1, <1>2
<1>4. EndOf(m) < EndOf(m + 1) /\ EndOf(m + 1) \in Nat
  <2>1. m + 1 \in 0 .. Len(Ends)
    BY <1>1, <1>3
  <2> QED  BY <1>3, <2>1, EndsInOrder
<1>5. PacketAt(EndOf(m) + 1) = m + 1
  <2>1. /\ EndOf(m) + 1 \in Nat /\ EndOf((m + 1) - 1) < EndOf(m) + 1
        /\ EndOf(m) + 1 <= EndOf(m + 1)
    BY <1>1, <1>3, <1>4
  <2> QED  BY <1>3, <2>1, PacketIsUnique
<1>6. Stream[EndOf(m) + 1] = <<m + 1, (EndOf(m) + 1) - EndOf((m + 1) - 1)>>
  <2>1. EndOf(m) + 1 \in 1 .. Len(Stream)
    BY <1>1
  <2> QED  BY <1>5, <2>1, StreamType
<1>7. (EndOf(m) + 1) - EndOf((m + 1) - 1) = 1
  BY <1>1, <1>3
<1> QED  BY <1>3, <1>6, <1>7

LEMMA ReadOrder ==
    ASSUME IInv, NEW n \in 1 .. READ_BUFFER_SIZE, Read(n), ~uneven'
    PROVE  OrderInv'
<1>1. ~uneven /\ TypeOK
  BY DEF Read, IInv, TypeOK
<1>2. PICK m \in 0 .. Len(Ends) :
        /\ EndOf(m) + Len(buffer) = pos
        /\ \A i \in DOMAIN buffer : buffer[i] = Stream[EndOf(m) + i]
        /\ handled = [k \in 1 .. m |-> k]
        /\ ~garbled
  BY <1>1 DEF IInv, OrderInv
<1>3. /\ EndOf(m) \in Nat /\ Len(buffer) \in Nat /\ n \in Nat /\ n >= 1
      /\ DOMAIN buffer = 1 .. Len(buffer)
      /\ Len(Stream) \in Nat /\ pos + n <= Len(Stream) /\ pos' = pos + n
      /\ handled' = handled /\ garbled' = garbled
  BY <1>1, EndsInOrder, TypesOfVars, PacketsAssumption, StreamType DEF Read
<1>4. /\ buffer' \in Seq(StreamBytes) /\ Len(buffer') = Len(buffer) + n
      /\ \A i \in 1 .. Len(buffer) : buffer'[i] = buffer[i]
      /\ \A i \in 1 .. n : buffer'[Len(buffer) + i] = Stream[pos + i]
  BY <1>1, ReadBuffer
<1>5. DOMAIN buffer' = 1 .. Len(buffer') /\ Len(buffer') \in Nat /\ Len(buffer') >= 1
  BY <1>3, <1>4
<1>6. EndOf(m) + Len(buffer') = pos'
  BY <1>2, <1>3, <1>4
<1>7. ASSUME NEW i \in DOMAIN buffer'  PROVE buffer'[i] = Stream[EndOf(m) + i]
  <2>1. CASE i <= Len(buffer)
    <3>1. i \in 1 .. Len(buffer)
      BY <1>3, <1>5, <2>1
    <3> QED  BY <1>2, <1>3, <1>4, <3>1
  <2>2. CASE ~(i <= Len(buffer))
    <3>1. /\ i - Len(buffer) \in 1 .. n /\ Len(buffer) + (i - Len(buffer)) = i
          /\ pos + (i - Len(buffer)) = EndOf(m) + i
      BY <1>2, <1>3, <1>4, <1>5, <2>2
    <3> QED  BY <1>4, <3>1
  <2> QED  BY <2>1, <2>2
<1>8. m + 1 \in 1 .. Len(Ends) /\ buffer'[1] = <<m + 1, 1>>
  <2>1. EndOf(m) + Len(buffer') <= Len(Stream)
    BY <1>3, <1>6
  <2> QED  BY <1>5, <1>7, <2>1, FrontOfBuffer
<1>9. pktlen' = PacketLength(buffer'[1][1])
  <2>1. buffer'[1][2] = 1
    BY <1>8
  <2> QED  BY <2>1 DEF Read, LengthsIn
<1>10. \A j, k \in PacketsOf(buffer') : PacketLength(j) = PacketLength(k)
  BY DEF Read
<1>11. ASSUME NEW i \in DOMAIN buffer'  PROVE PacketLength(buffer'[i][1]) = pktlen'
  <2>1. buffer'[i][1] \in PacketsOf(buffer') /\ buffer'[1][1] \in PacketsOf(buffer')
    BY <1>5 DEF PacketsOf
  <2> QED  BY <1>9, <1>10, <2>1
<1>12. handled' = [k \in 1 .. m |-> k] /\ ~garbled'
  BY <1>2, <1>3
<1> QED  BY <1>6, <1>7, <1>11, <1>12 DEF OrderInv

LEMMA HandleOrder ==
    ASSUME IInv, HandlePacket, ~uneven'
    PROVE  OrderInv'
<1>1. ~uneven /\ TypeOK
  BY DEF HandlePacket, IInv
<1>2. PICK m \in 0 .. Len(Ends) :
        /\ EndOf(m) + Len(buffer) = pos
        /\ \A i \in DOMAIN buffer : buffer[i] = Stream[EndOf(m) + i]
        /\ handled = [k \in 1 .. m |-> k]
        /\ ~garbled
        /\ \A i \in DOMAIN buffer : PacketLength(buffer[i][1]) = pktlen
  BY <1>1 DEF IInv, OrderInv
<1>3. /\ EndOf(m) \in Nat /\ Len(buffer) \in Nat /\ DOMAIN buffer = 1 .. Len(buffer)
      /\ pktlen \in Nat /\ pos <= Len(Stream)
  BY <1>1, EndsInOrder, TypesOfVars
<1>4. /\ buffer' \in Seq(StreamBytes) /\ Len(buffer') = Len(buffer) - pktlen
      /\ \A i \in 1 .. Len(buffer) - pktlen : buffer'[i] = buffer[pktlen + i]
      /\ Len(buffer) >= 1
  BY <1>1, RestOfBuffer
<1>5. m + 1 \in 1 .. Len(Ends) /\ buffer[1] = <<m + 1, 1>>
  BY <1>2, <1>3, <1>4, FrontOfBuffer
<1>6. /\ PacketLength(m + 1) = pktlen /\ pktlen <= Len(buffer)
      /\ pos' = pos /\ pktlen' = pktlen
  <2>1. 1 \in DOMAIN buffer /\ buffer[1][1] = m + 1
    BY <1>3, <1>4, <1>5
  <2> QED  BY <1>2, <2>1 DEF HandlePacket, Ready
<1>7. EndOf(m + 1) = EndOf(m) + pktlen
  <2>1. (m + 1) - 1 = m /\ m + 1 \in 0 .. Len(Ends)
    BY <1>5, EndsInOrder
  <2>2. PacketLength(m + 1) = EndOf(m + 1) - EndOf(m) /\ EndOf(m + 1) \in Nat
    BY <2>1, EndsInOrder, <1>5
  <2> QED  BY <1>3, <1>6, <2>2
<1>8. handled' = Append(handled, m + 1) /\ garbled' = garbled
  <2>1. buffer[1][1] = m + 1 /\ buffer[1][2] = 1
    BY <1>5
  <2>2. Len(buffer) >= PacketLength(buffer[1][1])
    BY <1>3, <1>6, <2>1
  <2> QED  BY <2>1, <2>2 DEF HandlePacket
<1>9. handled' = [k \in 1 .. m + 1 |-> k]
  <2>1. m \in Nat
    BY <1>5, EndsInOrder
  <2>2. [k \in 1 .. m |-> k] \in Seq(Nat) /\ Len([k \in 1 .. m |-> k]) = m
    BY <2>1
  <2>3. Append([k \in 1 .. m |-> k], m + 1) = [k \in 1 .. m + 1 |-> k]
    BY <2>1, <2>2
  <2> QED  BY <1>2, <1>8, <2>3
<1>10. EndOf(m + 1) + Len(buffer') = pos'
  BY <1>2, <1>3, <1>4, <1>6, <1>7
<1>11. ASSUME NEW i \in DOMAIN buffer'
       PROVE  buffer'[i] = Stream[EndOf(m + 1) + i] /\ PacketLength(buffer'[i][1]) = pktlen'
  <2>1. i \in 1 .. Len(buffer) - pktlen
    BY <1>4
  <2>2. /\ pktlen + i \in DOMAIN buffer
        /\ EndOf(m) + (pktlen + i) = EndOf(m + 1) + i
    BY <1>3, <1>7, <2>1
  <2> QED  BY <1>2, <1>4, <1>6, <2>1, <2>2
<1>12. m + 1 \in 0 .. Len(Ends) /\ ~garbled'
  BY <1>2, <1>5, <1>8, EndsInOrder
<1> QED  BY <1>9, <1>10, <1>11, <1>12 DEF OrderInv

LEMMA InitIInv == Init => IInv
<1> SUFFICES ASSUME Init  PROVE IInv
  OBVIOUS
<1>1. TypeOK  BY InitTypes
<1>2. /\ 0 \in 0 .. Len(Ends) /\ EndOf(0) + Len(buffer) = pos /\ DOMAIN buffer = {}
  BY EndsInOrder DEF Init
<1>3. handled = [k \in 1 .. 0 |-> k] /\ ~garbled
  BY DEF Init
<1>4. OrderInv
  BY <1>2, <1>3 DEF OrderInv
<1> QED  BY <1>1, <1>4 DEF IInv

LEMMA StepIInv == IInv /\ [Next]_vars => IInv'
<1> SUFFICES ASSUME IInv, [Next]_vars  PROVE IInv'
  OBVIOUS
<1>1. TypeOK'
  BY StepTypes DEF IInv
<1>2. CASE ReadSome  BY <1>1, <1>2, ReadOrder DEF ReadSome, IInv
<1>3. CASE HandlePacket  BY <1>1, <1>3, HandleOrder DEF IInv
<1>4. CASE UNCHANGED vars
  BY <1>1, <1>4 DEF IInv, OrderInv, vars
<1> QED  BY <1>2, <1>3, <1>4 DEF Next

\* As long as the packets that meet in the buffer are of one length, those that are
\* complete are translated once and in their order, however they were cut into
\* reads, and nothing that is no packet is translated (gypsy-garmin-parser.c:240-319).
THEOREM PacketsAreHandled == Spec => []HandledInOrder
<1>1. IInv => HandledInOrder
  <2> SUFFICES ASSUME IInv, ~uneven, ~Ready
               PROVE  handled = [k \in Complete |-> k] /\ ~garbled
    BY DEF HandledInOrder
  <2>1. PICK m \in 0 .. Len(Ends) :
          /\ EndOf(m) + Len(buffer) = pos
          /\ \A i \in DOMAIN buffer : buffer[i] = Stream[EndOf(m) + i]
          /\ handled = [k \in 1 .. m |-> k]
          /\ ~garbled
          /\ \A i \in DOMAIN buffer : PacketLength(buffer[i][1]) = pktlen
    BY DEF IInv, OrderInv
  <2>2. /\ EndOf(m) \in Nat /\ Len(buffer) \in Nat /\ DOMAIN buffer = 1 .. Len(buffer)
        /\ pos <= Len(Stream) /\ Len(Ends) \in Nat /\ DOMAIN Ends = 1 .. Len(Ends)
        /\ pos \in Nat /\ pktlen \in Nat
    BY EndsInOrder, TypesOfVars DEF IInv
  <2>3. ASSUME NEW k \in 1 .. Len(Ends), k <= m  PROVE EndOf(k) <= pos
    <3>1. k \in 0 .. Len(Ends)
      BY <2>2
    <3>2. EndOf(k) <= EndOf(m) /\ EndOf(k) \in Nat
      BY <2>3, <3>1, EndsInOrder
    <3> QED  BY <2>1, <2>2, <3>2
  <2>4. ASSUME NEW k \in 1 .. Len(Ends), m < k, EndOf(k) <= pos  PROVE FALSE
    <3>1. m + 1 \in 1 .. Len(Ends) /\ m + 1 <= k /\ (m + 1) - 1 = m
      BY <2>2, <2>4
    <3>2. /\ EndOf(m + 1) <= EndOf(k) /\ EndOf(k) \in Nat /\ EndOf(m + 1) \in Nat
      <4>1. m + 1 \in 0 .. Len(Ends) /\ k \in 0 .. Len(Ends)
        BY <2>2, <3>1
      <4> QED  BY <3>1, <4>1, EndsInOrder
    <3>3. /\ PacketLength(m + 1) = EndOf(m + 1) - EndOf(m) /\ PacketLength(m + 1) \in Nat
          /\ PacketLength(m + 1) >= GARMIN_HEADER_SIZE
      BY <3>1, EndsInOrder
    <3>4. GARMIN_HEADER_SIZE \in Nat \ {0}
      BY PacketsAssumption
    <3>5. Len(buffer) >= PacketLength(m + 1) /\ Len(buffer) >= 1
      BY <2>1, <2>2, <2>4, <3>2, <3>3, <3>4
    <3>6. buffer[1] = <<m + 1, 1>>
      BY <2>1, <2>2, <3>5, FrontOfBuffer
    <3>7. PacketLength(m + 1) = pktlen
      <4>1. 1 \in DOMAIN buffer /\ buffer[1][1] = m + 1
        BY <2>2, <3>5, <3>6
      <4> QED  BY <2>1, <4>1
    <3> QED  BY <2>2, <3>3, <3>4, <3>5, <3>7 DEF Ready
  <2>5. Complete = 1 .. m
    BY <2>2, <2>3, <2>4 DEF Complete
  <2> QED  BY <2>1, <2>5
<1> QED  BY <1>1, InitIInv, StepIInv, PTL DEF Spec
=============================================================================
