-------------------------- MODULE NmeaFramingProofs --------------------------
(***************************************************************************)
(* For any sentences, any buffer that holds the longest of them, any chunks   *)
(* and any bytes lost: as long as no chunk ends between a CR and its LF the   *)
(* sentences are found, whole and in order, and nothing runs off the end;     *)
(* and whatever went wrong is over when a buffer-full has come.  At the end,  *)
(* what split_sentence makes of a sentence.                                 *)
(***************************************************************************)
EXTENDS NmeaFraming, NmeaFields, WellFoundedInduction, SequenceTheorems, TLAPS

\* Of the first NUL: it is not behind the data, and no CR is right in front of it.
NulInv ==
    \E z \in 0 .. chars_in_buffer :
        /\ buffer[z] = NUL
        /\ \A i \in 0 .. z - 1 : buffer[i] # NUL /\ (buffer[i] = CR => i + 1 < z)

\* The data ends where the count says, no NUL is in it, and a line end in it is
\* there as a whole.
DataInv ==
    /\ chars_in_buffer \in 0 .. READ_BUFFER_SIZE
    /\ buffer[chars_in_buffer] = NUL
    /\ \A i \in 0 .. chars_in_buffer - 1 :
          /\ buffer[i] # NUL
          /\ buffer[i] = CR => i + 1 < chars_in_buffer /\ buffer[i + 1] = LF

\* On a line that loses nothing the data is a piece of the stream that begins
\* where a sentence begins, and the sentences in front of it were parsed.
StreamInv ==
    \E m \in 0 .. Len(Ends) :
        /\ EndOf(m) + chars_in_buffer = pos
        /\ \A i \in 0 .. chars_in_buffer - 1 : buffer[i] = Stream[EndOf(m) + 1 + i]
        /\ parsed = [k \in 1 .. m |-> k]

IInv ==
    /\ TypeOK
    /\ splits = 0 => NulInv
    /\ splits = 0 /\ noise = 0 => DataInv /\ StreamInv

(* What a disturbed read leaves behind, in three ways.                       *)

\* A NUL in front of the end of the data hides all that comes, until the buffer is
\* full.
Deaf ==
    /\ \E i \in 0 .. chars_in_buffer - 1 : buffer[i] = NUL
    /\ Crs = {}
    /\ pos - fault <= chars_in_buffer

\* What was left has no line end; all that came since is behind it.
Listening ==
    /\ DataInv
    /\ pos - fault <= chars_in_buffer
    /\ \A i \in 0 .. chars_in_buffer - 1 :
          IF i < chars_in_buffer - (pos - fault) THEN buffer[i] # CR
          ELSE buffer[i] = Stream[pos - chars_in_buffer + 1 + i]

\* The sentences up to p that begin a buffer-full after the fault are parsed.
ParsedTo(p) ==
    \A k \in DOMAIN Ends :
        EndOf(k - 1) >= fault + READ_BUFFER_SIZE /\ EndOf(k) <= p
            => \E i \in DOMAIN parsed : parsed[i] = k

\* The data is a piece of the stream, which begins where a sentence does or not
\* later than a buffer-full after the fault.
InStep ==
    /\ DataInv
    /\ \E p \in fault .. pos :
          /\ p + chars_in_buffer = pos
          /\ \A i \in 0 .. chars_in_buffer - 1 : buffer[i] = Stream[p + 1 + i]
          /\ p > fault => Stream[p] # CR
          /\ p <= fault + READ_BUFFER_SIZE \/ \E m \in 0 .. Len(Ends) : p = EndOf(m)
          /\ ParsedTo(p)

\* Right after the disturbed read itself anything may be in the buffer.
Recovering ==
    pos > fault =>
        /\ ~crashed
        /\ Stream[pos] # CR
        /\ Deaf \/ Listening \/ InStep

-----------------------------------------------------------------------------
(* The stream.                                                              *)

LEMMA EndsInOrder ==
    /\ Len(Ends) \in Nat /\ DOMAIN Ends = 1 .. Len(Ends) /\ READ_BUFFER_SIZE \in Nat
    /\ EndOf(0) = 0
    /\ \A k \in 0 .. Len(Ends) : EndOf(k) \in Nat
    /\ \A k \in 1 .. Len(Ends) : /\ EndOf(k - 1) \in Nat /\ EndOf(k - 1) + 4 <= EndOf(k)
                                 /\ Span(k) = EndOf(k) - EndOf(k - 1)
                                 /\ Span(k) \in Nat /\ Span(k) >= 4
                                 /\ Span(k) <= READ_BUFFER_SIZE
    /\ \A j, k \in 0 .. Len(Ends) : j <= k => EndOf(j) <= EndOf(k)
<1>1. /\ Ends \in Seq(Nat) /\ READ_BUFFER_SIZE \in Nat
      /\ \A j, k \in DOMAIN Ends : j < k => Ends[j] < Ends[k]
      /\ \A k \in DOMAIN Ends : Span(k) \in 4 .. READ_BUFFER_SIZE
  BY FramingAssumption
<1>2. Len(Ends) \in Nat /\ DOMAIN Ends = 1 .. Len(Ends)
  BY <1>1
<1>3. \A k \in 0 .. Len(Ends) : EndOf(k) \in Nat
  BY <1>1, <1>2 DEF EndOf
<1>4. EndOf(0) = 0
  BY DEF EndOf
<1>5. ASSUME NEW k \in 1 .. Len(Ends)
      PROVE  /\ EndOf(k - 1) \in Nat /\ EndOf(k - 1) + 4 <= EndOf(k)
             /\ Span(k) = EndOf(k) - EndOf(k - 1)
             /\ Span(k) \in Nat /\ Span(k) >= 4 /\ Span(k) <= READ_BUFFER_SIZE
  <2>1. Span(k) = EndOf(k) - EndOf(k - 1)
    BY DEF Span
  <2>2. EndOf(k - 1) \in Nat /\ EndOf(k) \in Nat
    BY <1>2, <1>3
  <2>3. Span(k) \in 4 .. READ_BUFFER_SIZE
    BY <1>1, <1>2
  <2> QED  BY <1>1, <2>1, <2>2, <2>3
<1>6. ASSUME NEW j \in 0 .. Len(Ends), NEW k \in 0 .. Len(Ends), j <= k
      PROVE  EndOf(j) <= EndOf(k)
  <2>1. CASE j = 0  BY <1>2, <1>3, <1>4, <2>1
  <2>2. CASE j = k  BY <1>3, <2>2
  <2>3. CASE j # 0 /\ j < k
    <3>1. j \in DOMAIN Ends /\ k \in DOMAIN Ends /\ k # 0
      BY <1>2, <2>3
    <3>2. Ends[j] < Ends[k] /\ Ends[j] \in Nat /\ Ends[k] \in Nat
      BY <1>1, <2>3, <3>1
    <3> QED  BY <2>3, <3>1, <3>2 DEF EndOf
  <2> QED  BY <1>2, <1>6, <2>1, <2>2, <2>3
<1> QED  BY <1>1, <1>2, <1>3, <1>4, <1>5, <1>6

LEMMA LeastOf ==
    ASSUME NEW I \in SUBSET Nat, I # {}
    PROVE  \E x \in I : \A y \in I : x <= y
<1>1. PICK x \in I : \A y \in I : ~(<<y, x>> \in OpToRel(<, Nat))
  BY NatLessThanWellFounded, WFMin
<1>2. \A y \in I : x <= y
  <2> SUFFICES ASSUME NEW y \in I, ~(x <= y)  PROVE FALSE
    OBVIOUS
  <2>1. x \in Nat /\ y \in Nat /\ y < x
    OBVIOUS
  <2>2. <<y, x>> \in OpToRel(<, Nat)
    BY <2>1 DEF OpToRel
  <2> QED  BY <1>1, <2>2
<1> QED  BY <1>2

\* Each byte belongs to one sentence.
LEMMA SentenceOfByte ==
    ASSUME NEW p \in 1 .. EndOf(Len(Ends))
    PROVE  /\ SentenceAt(p) \in 1 .. Len(Ends)
           /\ EndOf(SentenceAt(p) - 1) < p /\ p <= EndOf(SentenceAt(p))
<1> DEFINE I == {k \in 1 .. Len(Ends) : p <= EndOf(k)}
<1>1. /\ Len(Ends) \in Nat /\ DOMAIN Ends = 1 .. Len(Ends) /\ EndOf(0) = 0
      /\ \A k \in 0 .. Len(Ends) : EndOf(k) \in Nat
  BY EndsInOrder
<1>2. Len(Ends) # 0 /\ p \in Nat
  BY <1>1
<1>3. Len(Ends) \in I /\ I \in SUBSET Nat
  BY <1>1, <1>2
<1>4. PICK x \in I : \A y \in I : x <= y
  <2> HIDE DEF I
  <2> QED  BY <1>3, LeastOf
<1>6. x \in 1 .. Len(Ends) /\ p <= EndOf(x)
  OBVIOUS
<1>7. EndOf(x - 1) < p
  <2>1. CASE x = 1  BY <1>1, <1>2, <2>1
  <2>2. CASE x # 1
    <3>1. x - 1 \in 1 .. Len(Ends) /\ x - 1 < x /\ EndOf(x - 1) \in Nat
      BY <1>1, <1>6, <2>2
    <3>2. x - 1 \notin I
      BY <1>4, <1>6, <3>1
    <3> QED  BY <1>2, <3>1, <3>2
  <2> QED  BY <2>1, <2>2
<1> QED  BY <1>1, <1>6, <1>7 DEF SentenceAt

LEMMA SentenceIsUnique ==
    ASSUME NEW k \in 1 .. Len(Ends), NEW p \in Nat, EndOf(k - 1) < p, p <= EndOf(k)
    PROVE  p \in 1 .. EndOf(Len(Ends)) /\ SentenceAt(p) = k
<1>1. /\ Len(Ends) \in Nat /\ DOMAIN Ends = 1 .. Len(Ends)
      /\ \A j \in 0 .. Len(Ends) : EndOf(j) \in Nat
      /\ \A i, j \in 0 .. Len(Ends) : i <= j => EndOf(i) <= EndOf(j)
  BY EndsInOrder
<1>2. p \in 1 .. EndOf(Len(Ends))
  <2>1. EndOf(k - 1) \in Nat /\ EndOf(k) \in Nat /\ EndOf(Len(Ends)) \in Nat
    BY <1>1
  <2>2. EndOf(k) <= EndOf(Len(Ends))
    BY <1>1
  <2> QED  BY <2>1, <2>2
<1> DEFINE j == SentenceAt(p)
<1>3. j \in 1 .. Len(Ends) /\ EndOf(j - 1) < p /\ p <= EndOf(j)
  BY <1>1, <1>2, SentenceOfByte
<1> HIDE DEF j
<1>4. j - 1 \in 0 .. Len(Ends) /\ k - 1 \in 0 .. Len(Ends)
      /\ j \in 0 .. Len(Ends) /\ k \in 0 .. Len(Ends)
  BY <1>1, <1>3
<1>5. /\ EndOf(j - 1) \in Nat /\ EndOf(k - 1) \in Nat /\ EndOf(j) \in Nat /\ EndOf(k) \in Nat
      /\ j <= k - 1 => EndOf(j) <= EndOf(k - 1)
      /\ k <= j - 1 => EndOf(k) <= EndOf(j - 1)
  BY <1>1, <1>4
<1>6. ~(j <= k - 1) /\ ~(k <= j - 1)
  BY <1>3, <1>5
<1>7. j = k
  BY <1>1, <1>3, <1>6
<1> QED  BY <1>2, <1>7 DEF j

\* What the receiver sends has no NUL in it, and behind each CR comes its LF.
LEMMA StreamType ==
    /\ EndOf(Len(Ends)) \in Nat /\ Len(Stream) = EndOf(Len(Ends))
    /\ \A p \in 1 .. Len(Stream) :
          /\ Stream[p] = ByteOf(SentenceAt(p), p)
          /\ Stream[p] \in Bytes /\ Stream[p] # NUL
          /\ Stream[p] = CR => /\ p = EndOf(SentenceAt(p)) - 1
                               /\ p + 1 \in 1 .. Len(Stream) /\ Stream[p + 1] = LF
<1>1. /\ EndOf(Len(Ends)) \in Nat /\ DOMAIN Ends = 1 .. Len(Ends)
      /\ \A j \in 1 .. Len(Ends) : EndOf(j - 1) \in Nat /\ EndOf(j - 1) + 4 <= EndOf(j)
      /\ \A j \in 0 .. Len(Ends) : EndOf(j) \in Nat
      /\ Len(Ends) \in Nat
  BY EndsInOrder
<1> DEFINE n == EndOf(Len(Ends))
<1>2. /\ DOMAIN Stream = 1 .. n
      /\ \A p \in 1 .. n : Stream[p] = ByteOf(SentenceAt(p), p)
  BY DEF Stream
<1>3. ASSUME NEW p \in 1 .. n
      PROVE  /\ Stream[p] \in Bytes /\ Stream[p] # NUL
             /\ Stream[p] = CR => /\ p = EndOf(SentenceAt(p)) - 1
                                  /\ p + 1 \in 1 .. n /\ Stream[p + 1] = LF
  <2>1. PICK k \in 1 .. Len(Ends) : k = SentenceAt(p) /\ EndOf(k - 1) < p /\ p <= EndOf(k)
    BY SentenceOfByte
  <2>2. Stream[p] = ByteOf(k, p)
    BY <1>2, <2>1
  <2>3. /\ ByteOf(k, p) \in {Dollar, CR, LF, k}
        /\ ByteOf(k, p) = CR => p = EndOf(k) - 1
    BY <1>1 DEF ByteOf, Dollar, CR, LF
  <2>4. Stream[p] \in Bytes /\ Stream[p] # NUL
    BY <1>1, <2>2, <2>3 DEF Bytes, Dollar, CR, LF, NUL
  <2>5. ASSUME Stream[p] = CR
        PROVE  p = EndOf(k) - 1 /\ p + 1 \in 1 .. n /\ Stream[p + 1] = LF
    <3>1. p = EndOf(k) - 1
      BY <2>2, <2>3, <2>5
    <3>2. /\ EndOf(k - 1) \in Nat /\ EndOf(k) \in Nat /\ EndOf(k - 1) + 4 <= EndOf(k)
          /\ p + 1 = EndOf(k)
      BY <1>1, <3>1
    <3>3. EndOf(k - 1) < p + 1 /\ p + 1 <= EndOf(k) /\ p + 1 \in Nat
      BY <3>2
    <3>4. p + 1 \in 1 .. n /\ SentenceAt(p + 1) = k
      BY <3>3, SentenceIsUnique
    <3>5. ByteOf(k, p + 1) = LF
      BY <3>2 DEF ByteOf
    <3> QED  BY <1>2, <3>1, <3>4, <3>5
  <2> QED  BY <2>1, <2>4, <2>5
<1>4. Len(Stream) = n
  <2>1. Stream = [p \in 1 .. n |-> ByteOf(SentenceAt(p), p)]
    BY DEF Stream
  <2>2. Stream \in [1 .. n -> Bytes]
    BY <1>2, <1>3, <2>1, Zenon
  <2>3. n \in Nat  BY <1>1
  <2> HIDE DEF n
  <2> QED  BY <1>2, <2>2, <2>3
<1> QED  BY <1>1, <1>2, <1>3, <1>4

\* The bytes of the sentence that follows sentence m.
LEMMA BytesOfSentence ==
    ASSUME NEW m \in 0 .. Len(Ends) - 1
    PROVE  /\ m + 1 \in 1 .. Len(Ends) /\ (m + 1) - 1 = m /\ EndOf(m) \in Nat
           /\ EndOf(m + 1) = EndOf(m) + Span(m + 1)
           /\ EndOf(m + 1) <= Len(Stream)
           /\ Stream[EndOf(m) + 2] = m + 1
           /\ Stream[EndOf(m) + Span(m + 1) - 1] = CR
           /\ \A i \in 0 .. Span(m + 1) - 3 : Stream[EndOf(m) + 1 + i] # CR
<1>1. /\ m + 1 \in 1 .. Len(Ends) /\ (m + 1) - 1 = m /\ m + 1 \in 0 .. Len(Ends)
      /\ m \in 0 .. Len(Ends)
  BY EndsInOrder
<1>2. /\ EndOf(m) \in Nat /\ EndOf(m + 1) \in Nat /\ Span(m + 1) \in Nat /\ Span(m + 1) >= 4
      /\ EndOf(m + 1) = EndOf(m) + Span(m + 1)
  <2>1. Span(m + 1) = EndOf(m + 1) - EndOf(m) /\ Span(m + 1) \in Nat /\ Span(m + 1) >= 4
    BY <1>1, EndsInOrder
  <2>2. EndOf(m) \in Nat /\ EndOf(m + 1) \in Nat
    BY <1>1, EndsInOrder
  <2> QED  BY <2>1, <2>2
<1>3. EndOf(m + 1) <= Len(Stream)
  <2>1. Len(Ends) \in 0 .. Len(Ends) /\ m + 1 <= Len(Ends)
    BY <1>1, EndsInOrder
  <2> QED  BY <1>1, <2>1, EndsInOrder, StreamType
<1>4. ASSUME NEW i \in 0 .. Span(m + 1) - 1
      PROVE  Stream[EndOf(m) + 1 + i] = ByteOf(m + 1, EndOf(m) + 1 + i)
  <2>1. /\ EndOf(m) + 1 + i \in Nat /\ EndOf((m + 1) - 1) < EndOf(m) + 1 + i
        /\ EndOf(m) + 1 + i <= EndOf(m + 1)
    BY <1>1, <1>2
  <2>2. EndOf(m) + 1 + i \in 1 .. EndOf(Len(Ends)) /\ SentenceAt(EndOf(m) + 1 + i) = m + 1
    BY <1>1, <2>1, SentenceIsUnique
  <2> QED  BY <2>2, StreamType
<1>5. Stream[EndOf(m) + 2] = m + 1
  <2>1. 1 \in 0 .. Span(m + 1) - 1 /\ EndOf(m) + 1 + 1 = EndOf(m) + 2
    BY <1>2
  <2>2. ByteOf(m + 1, EndOf(m) + 2) = m + 1
    BY <1>1, <1>2 DEF ByteOf
  <2> QED  BY <1>4, <2>1, <2>2
<1>6. Stream[EndOf(m) + Span(m + 1) - 1] = CR
  <2>1. /\ Span(m + 1) - 2 \in 0 .. Span(m + 1) - 1
        /\ EndOf(m) + 1 + (Span(m + 1) - 2) = EndOf(m) + Span(m + 1) - 1
    BY <1>2
  <2>2. ByteOf(m + 1, EndOf(m) + Span(m + 1) - 1) = CR
    BY <1>1, <1>2 DEF ByteOf
  <2> QED  BY <1>4, <2>1, <2>2
<1>7. ASSUME NEW i \in 0 .. Span(m + 1) - 3  PROVE Stream[EndOf(m) + 1 + i] # CR
  <2>1. i \in 0 .. Span(m + 1) - 1 /\ EndOf(m) + 1 + i # EndOf(m + 1) - 1
    BY <1>2
  <2>2. ByteOf(m + 1, EndOf(m) + 1 + i) \in {Dollar, LF, m + 1}
    BY <2>1 DEF ByteOf
  <2>3. m + 1 # CR
    BY <1>1 DEF CR
  <2> QED  BY <1>4, <2>1, <2>2, <2>3 DEF CR, LF, Dollar
<1> QED  BY <1>1, <1>2, <1>3, <1>5, <1>6, <1>7

-----------------------------------------------------------------------------
(* The steps.                                                               *)

LEMMA TypesOfVars ==
    ASSUME TypeOK
    PROVE  /\ READ_BUFFER_SIZE \in Nat /\ Len(Stream) \in Nat
           /\ pos \in Nat /\ pos <= Len(Stream)
           /\ chars_in_buffer \in Int /\ chars_in_buffer >= -1
           /\ chars_in_buffer <= READ_BUFFER_SIZE
           /\ \A i \in 0 .. READ_BUFFER_SIZE : buffer[i] \in Bytes
<1>1. READ_BUFFER_SIZE \in Nat /\ Len(Stream) \in Nat
  BY EndsInOrder, StreamType
<1> QED  BY <1>1 DEF TypeOK

LEMMA ReadAtType ==
    ASSUME TypeOK
    PROVE  /\ ReadAt \in Nat /\ ReadAt <= READ_BUFFER_SIZE
           /\ ReadAt = chars_in_buffer \/ ReadAt = 0
           /\ Space = READ_BUFFER_SIZE - ReadAt
BY TypesOfVars DEF ReadAt, Space

\* What a read leaves in the buffer.
LEMMA ReadBuffer ==
    ASSUME TypeOK, NEW n \in 1 .. READ_BUFFER_SIZE, NEW d \in 0 .. MaxNoise,
           NEW g \in 0 .. n - 1, Read(n, g, d)
    PROVE  /\ n \in Nat /\ n >= 1 /\ d \in Nat /\ ReadAt + n <= READ_BUFFER_SIZE
           /\ chars_in_buffer' = ReadAt + n
           /\ pos' = pos + n + d /\ pos + n + d <= Len(Stream)
           /\ \A i \in 0 .. ReadAt - 1 : buffer'[i] = buffer[i]
           /\ \A i \in ReadAt .. ReadAt + n - 1 :
                 /\ buffer'[i] = Stream[Place(i - ReadAt, g, d)]
                 /\ Place(i - ReadAt, g, d) \in 1 .. Len(Stream)
                 /\ d = 0 => Place(i - ReadAt, g, d) = pos + 1 + i - ReadAt
                 /\ i = ReadAt + n - 1 => Place(i - ReadAt, g, d) = pos + n + d
           /\ buffer'[ReadAt + n] = NUL
           /\ buffer' \in [0 .. READ_BUFFER_SIZE -> Bytes]
<1>1. /\ READ_BUFFER_SIZE \in Nat /\ Len(Stream) \in Nat /\ pos \in Nat
      /\ ReadAt \in Nat /\ ReadAt <= READ_BUFFER_SIZE /\ n \in Nat /\ n >= 1
      /\ \A i \in 0 .. READ_BUFFER_SIZE : buffer[i] \in Bytes
      /\ d \in Nat /\ g \in Nat /\ g <= n - 1
  BY TypesOfVars, ReadAtType, FramingAssumption
<1>2. /\ ReadAt + n <= READ_BUFFER_SIZE /\ chars_in_buffer' = ReadAt + n
      /\ pos' = pos + n + d /\ pos + n + d <= Len(Stream)
  <2>1. n <= READ_BUFFER_SIZE - ReadAt
    BY ReadAtType DEF Read
  <2> QED  BY <1>1, <2>1 DEF Read
<1>3. buffer' = Filled(n, g, d)
  BY DEF Read
<1>4. ASSUME NEW i \in 0 .. ReadAt - 1  PROVE buffer'[i] = buffer[i]
  <2>1. i \in 0 .. READ_BUFFER_SIZE /\ i \notin ReadAt .. ReadAt + n - 1 /\ i # ReadAt + n
    BY <1>1
  <2> QED  BY <1>3, <2>1 DEF Filled
<1>5. ASSUME NEW i \in ReadAt .. ReadAt + n - 1
      PROVE  /\ buffer'[i] = Stream[Place(i - ReadAt, g, d)]
             /\ Place(i - ReadAt, g, d) \in 1 .. Len(Stream)
             /\ d = 0 => Place(i - ReadAt, g, d) = pos + 1 + i - ReadAt
             /\ i = ReadAt + n - 1 => Place(i - ReadAt, g, d) = pos + n + d
  <2>1. i \in 0 .. READ_BUFFER_SIZE /\ i - ReadAt \in Nat /\ i - ReadAt <= n - 1
    BY <1>1, <1>2
  <2>2. \/ Place(i - ReadAt, g, d) = pos + 1 + (i - ReadAt) + 0 /\ i - ReadAt < g
        \/ Place(i - ReadAt, g, d) = pos + 1 + (i - ReadAt) + d /\ ~(i - ReadAt < g)
    BY DEF Place
  <2>3. Place(i - ReadAt, g, d) \in 1 .. Len(Stream)
    BY <1>1, <1>2, <2>1, <2>2
  <2>4. d = 0 => Place(i - ReadAt, g, d) = pos + 1 + i - ReadAt
    BY <1>1, <2>1, <2>2
  <2>5. i = ReadAt + n - 1 => Place(i - ReadAt, g, d) = pos + n + d
    BY <1>1, <2>1, <2>2
  <2> QED  BY <1>3, <2>1, <2>3, <2>4, <2>5 DEF Filled
<1>6. buffer'[ReadAt + n] = NUL
  <2>1. ReadAt + n \in 0 .. READ_BUFFER_SIZE /\ ReadAt + n \notin ReadAt .. ReadAt + n - 1
    BY <1>1, <1>2
  <2> QED  BY <1>3, <2>1 DEF Filled
<1>7. buffer' \in [0 .. READ_BUFFER_SIZE -> Bytes]
  <2>1. NUL \in Bytes
    BY DEF Bytes
  <2>2. ASSUME NEW i \in 0 .. READ_BUFFER_SIZE
        PROVE  (IF i \in ReadAt .. ReadAt + n - 1 THEN Stream[Place(i - ReadAt, g, d)]
                ELSE IF i = ReadAt + n THEN NUL ELSE buffer[i]) \in Bytes
    <3>1. CASE i \in ReadAt .. ReadAt + n - 1
      <4>1. Stream[Place(i - ReadAt, g, d)] \in Bytes
        BY <1>5, <3>1, StreamType
      <4> QED  BY <3>1, <4>1
    <3>2. CASE i \notin ReadAt .. ReadAt + n - 1
      <4>1. buffer[i] \in Bytes
        BY <1>1
      <4> QED  BY <2>1, <3>2, <4>1
    <3> QED  BY <3>1, <3>2
  <2> QED  BY <1>3, <2>2, Zenon DEF Filled
<1> QED  BY <1>1, <1>2, <1>4, <1>5, <1>6, <1>7

\* The first CR, and what the loop makes of it.
LEMMA EosIsFirst ==
    ASSUME TypeOK, Crs # {}
    PROVE  /\ Eos \in 0 .. READ_BUFFER_SIZE
           /\ buffer[Eos] = CR
           /\ \A j \in 0 .. Eos : buffer[j] # NUL
           /\ \A j \in Crs : Eos <= j
           /\ SentenceLength \in {Eos + 1, Eos + 2}
<1>1. READ_BUFFER_SIZE \in Nat
  BY TypesOfVars
<1>2. Crs \in SUBSET Nat
  BY <1>1 DEF Crs
<1>3. \E x \in Crs : \A y \in Crs : x <= y
  BY <1>2, LeastOf
<1>4. Eos \in Crs /\ \A j \in Crs : Eos <= j
  BY <1>3 DEF Eos
<1>5. /\ Eos \in 0 .. READ_BUFFER_SIZE /\ buffer[Eos] = CR
      /\ \A j \in 0 .. Eos : buffer[j] # NUL
  BY <1>4 DEF Crs
<1>6. SentenceLength \in {Eos + 1, Eos + 2}
  BY DEF SentenceLength
<1> QED  BY <1>4, <1>5, <1>6

\* A sentence that is accepted is the one whose bytes are in front.
LEMMA AcceptedIsInFront ==
    ASSUME TypeOK, NEW k \in Accepted
    PROVE  /\ k \in 1 .. Len(Ends) /\ Eos = Span(k) - 2 /\ Eos \in Nat /\ Eos >= 2
           /\ buffer[1] = k
<1>1. /\ k \in 1 .. Len(Ends) /\ Eos = Span(k) - 2
      /\ \A i \in 0 .. Eos - 1 : buffer[i] = Stream[EndOf(k - 1) + 1 + i]
  BY EndsInOrder DEF Accepted
<1>2. /\ Span(k) \in Nat /\ Span(k) >= 4 /\ EndOf(k - 1) \in Nat
      /\ k - 1 \in 0 .. Len(Ends) - 1 /\ (k - 1) + 1 = k
  BY <1>1, EndsInOrder
<1>3. Stream[EndOf(k - 1) + 2] = k
  <2>1. Stream[EndOf(k - 1) + 2] = (k - 1) + 1
    BY <1>2, BytesOfSentence
  <2> QED  BY <1>2, <2>1
<1>4. buffer[1] = Stream[EndOf(k - 1) + 1 + 1]
  <2>1. 1 \in 0 .. Eos - 1
    BY <1>1, <1>2
  <2> QED  BY <1>1, <2>1
<1>5. EndOf(k - 1) + 1 + 1 = EndOf(k - 1) + 2
  BY <1>2
<1> QED  BY <1>1, <1>2, <1>3, <1>4, <1>5

-----------------------------------------------------------------------------
(* The types.                                                               *)

LEMMA InitTypes == Init => TypeOK
<1> SUFFICES ASSUME Init  PROVE TypeOK
  OBVIOUS
<1>1. /\ READ_BUFFER_SIZE \in Nat /\ Len(Stream) \in Nat /\ MaxNoise \in Nat
      /\ MaxSplits \in Nat
  BY FramingAssumption, StreamType
<1>2. NUL \in Bytes
  BY DEF Bytes
<1>3. buffer \in [0 .. READ_BUFFER_SIZE -> Bytes]
  BY <1>2 DEF Init
<1>4. parsed \in Seq(DOMAIN Ends)
  BY EmptySeq DEF Init
<1> QED  BY <1>1, <1>3, <1>4 DEF Init, TypeOK

LEMMA StepTypes == TypeOK /\ [Next]_vars => TypeOK'
<1> SUFFICES ASSUME TypeOK, [Next]_vars  PROVE TypeOK'
  OBVIOUS
<1>1. /\ READ_BUFFER_SIZE \in Nat /\ Len(Stream) \in Nat /\ MaxNoise \in Nat
      /\ MaxSplits \in Nat /\ pos \in Nat /\ pos <= Len(Stream)
      /\ chars_in_buffer \in Int /\ chars_in_buffer <= READ_BUFFER_SIZE
      /\ \A i \in 0 .. READ_BUFFER_SIZE : buffer[i] \in Bytes
  BY TypesOfVars, FramingAssumption
<1>2. ASSUME NEW n \in 1 .. READ_BUFFER_SIZE, NEW d \in 0 .. MaxNoise,
             NEW g \in 0 .. n - 1, Read(n, g, d)
      PROVE  TypeOK'
  <2>1. /\ n \in Nat /\ n >= 1 /\ d \in Nat
        /\ ReadAt \in Nat /\ ReadAt + n <= READ_BUFFER_SIZE
        /\ chars_in_buffer' = ReadAt + n
        /\ pos' = pos + n + d /\ pos + n + d <= Len(Stream)
        /\ buffer' \in [0 .. READ_BUFFER_SIZE -> Bytes]
    BY <1>2, ReadBuffer, ReadAtType
  <2>2. pos' \in 0 .. Len(Stream) /\ chars_in_buffer' \in -1 .. READ_BUFFER_SIZE
    BY <1>1, <2>1
  <2>3. splits' \in 0 .. MaxSplits /\ noise' \in 0 .. MaxNoise
    <3>1. splits \in 0 .. MaxSplits /\ noise \in 0 .. MaxNoise
      BY DEF TypeOK
    <3>2. /\ splits' \in {splits, splits + 1} /\ (splits' = splits + 1 => splits < MaxSplits)
          /\ noise' = noise + d /\ noise + d <= MaxNoise
      BY <1>1, <1>2, <3>1 DEF Read
    <3> QED  BY <1>1, <2>1, <3>1, <3>2
  <2>4. fault' \in 0 .. pos'
    <3>1. fault \in 0 .. pos
      BY DEF TypeOK
    <3>2. fault' = pos + n + d \/ fault' = fault
      BY <1>2 DEF Read
    <3> QED  BY <1>1, <2>1, <3>1, <3>2
  <2>5. parsed' \in Seq(DOMAIN Ends) /\ crashed' \in BOOLEAN
    BY <1>2 DEF Read, TypeOK
  <2> QED  BY <2>1, <2>2, <2>3, <2>4, <2>5 DEF TypeOK
<1>3. ASSUME TakeSentence  PROVE TypeOK'
  <2>1. /\ Eos \in 0 .. READ_BUFFER_SIZE
        /\ SentenceLength \in {Eos + 1, Eos + 2}
    BY <1>3, EosIsFirst DEF TakeSentence
  <2>2. parsed' \in Seq(DOMAIN Ends)
    <3>1. parsed \in Seq(DOMAIN Ends)
      BY DEF TypeOK
    <3>2. CASE Accepted = {}
      BY <1>3, <3>1, <3>2 DEF TakeSentence
    <3>3. CASE Accepted # {}
      <4>1. (CHOOSE k \in Accepted : TRUE) \in Accepted
        BY <3>3
      <4>2. (CHOOSE k \in Accepted : TRUE) \in DOMAIN Ends
        BY <4>1 DEF Accepted
      <4>3. parsed' = Append(parsed, CHOOSE k \in Accepted : TRUE)
        BY <1>3, <3>3 DEF TakeSentence
      <4> QED  BY <3>1, <4>2, <4>3
    <3> QED  BY <3>2, <3>3
  <2>3. chars_in_buffer' \in -1 .. READ_BUFFER_SIZE
    <3>1. CASE Moved < 0
      <4>1. chars_in_buffer' = chars_in_buffer
        BY <1>3, <3>1 DEF TakeSentence
      <4> QED  BY <4>1 DEF TypeOK
    <3>2. CASE ~(Moved < 0)
      <4>1. chars_in_buffer' = chars_in_buffer - SentenceLength
        BY <1>3, <3>2 DEF TakeSentence
      <4>2. ~((chars_in_buffer - SentenceLength) + 1 < 0)
        BY <3>2 DEF Moved
      <4> QED  BY <1>1, <2>1, <4>1, <4>2
    <3> QED  BY <3>1, <3>2
  <2>4. buffer' \in [0 .. READ_BUFFER_SIZE -> Bytes]
    <3>1. NUL \in Bytes /\ buffer \in [0 .. READ_BUFFER_SIZE -> Bytes]
      BY DEF Bytes, TypeOK
    <3>2. Terminated \in [0 .. READ_BUFFER_SIZE -> Bytes]
      BY <3>1 DEF Terminated
    <3>3. ASSUME NEW i \in 0 .. READ_BUFFER_SIZE
          PROVE  (IF i < Moved THEN At(Terminated, i + Eos + 2) ELSE Terminated[i]) \in Bytes
      <4>1. Terminated[i] \in Bytes
        BY <3>2
      <4>2. At(Terminated, i + Eos + 2) \in Bytes
        <5>1. CASE i + Eos + 2 <= READ_BUFFER_SIZE
          <6>1. i + Eos + 2 \in 0 .. READ_BUFFER_SIZE
            BY <1>1, <2>1, <5>1
          <6>2. Terminated[i + Eos + 2] \in Bytes
            BY <3>2, <6>1
          <6> QED  BY <5>1, <6>2 DEF At
        <5>2. CASE ~(i + Eos + 2 <= READ_BUFFER_SIZE)
          BY <3>1, <5>2 DEF At
        <5> QED  BY <5>1, <5>2
      <4> QED  BY <4>1, <4>2
    <3>4. CASE Moved < 0
      BY <1>3, <3>1, <3>4 DEF TakeSentence
    <3>5. CASE ~(Moved < 0)
      <4>1. buffer' = [i \in 0 .. READ_BUFFER_SIZE |->
                        IF i < Moved THEN At(Terminated, i + Eos + 2) ELSE Terminated[i]]
        BY <1>3, <3>5 DEF TakeSentence
      <4> QED  BY <3>3, <4>1, Zenon
    <3> QED  BY <3>4, <3>5
  <2>5. crashed' \in BOOLEAN
    BY <1>3 DEF TakeSentence, TypeOK
  <2>6. /\ pos' \in 0 .. Len(Stream) /\ noise' \in 0 .. MaxNoise /\ splits' \in 0 .. MaxSplits
        /\ fault' \in 0 .. pos'
    BY <1>3 DEF TakeSentence, TypeOK
  <2> QED  BY <2>2, <2>3, <2>4, <2>5, <2>6 DEF TypeOK
<1>4. CASE UNCHANGED vars
  BY <1>4 DEF vars, TypeOK
<1> QED  BY <1>2, <1>3, <1>4 DEF Next, Reads

\* Whatever is lost and however line ends are split: no read goes past the buffer,
\* and the count wraps around by one at most (gypsy-nmea-parser.c:130-156).
THEOREM NmeaTypeOK == Spec => []TypeOK
BY InitTypes, StepTypes, PTL DEF Spec

-----------------------------------------------------------------------------
(* The data.                                                                *)

\* A read that is not disturbed brings a piece of the stream.
LEMMA CleanRead ==
    ASSUME TypeOK, NEW n \in 1 .. READ_BUFFER_SIZE, Read(n, 0, 0)
    PROVE  /\ n \in Nat /\ n >= 1 /\ ReadAt \in Nat /\ ReadAt + n <= READ_BUFFER_SIZE
           /\ chars_in_buffer' = ReadAt + n
           /\ pos' = pos + n /\ pos + n <= Len(Stream)
           /\ \A i \in 0 .. ReadAt - 1 : buffer'[i] = buffer[i]
           /\ \A i \in ReadAt .. ReadAt + n - 1 :
                 /\ buffer'[i] = Stream[pos + 1 + i - ReadAt]
                 /\ pos + 1 + i - ReadAt \in 1 .. Len(Stream)
           /\ buffer'[ReadAt + n] = NUL
<1>1. 0 \in 0 .. MaxNoise /\ 0 \in 0 .. n - 1 /\ n \in Nat /\ pos \in Nat
  BY FramingAssumption, TypesOfVars
<1>2. /\ ReadAt + n <= READ_BUFFER_SIZE /\ chars_in_buffer' = ReadAt + n
      /\ pos' = pos + n + 0 /\ pos + n + 0 <= Len(Stream)
      /\ \A i \in 0 .. ReadAt - 1 : buffer'[i] = buffer[i]
      /\ \A i \in ReadAt .. ReadAt + n - 1 :
            /\ buffer'[i] = Stream[Place(i - ReadAt, 0, 0)]
            /\ Place(i - ReadAt, 0, 0) \in 1 .. Len(Stream)
            /\ Place(i - ReadAt, 0, 0) = pos + 1 + i - ReadAt
      /\ buffer'[ReadAt + n] = NUL
  BY <1>1, ReadBuffer
<1>3. \A i \in ReadAt .. ReadAt + n - 1 :
         /\ buffer'[i] = Stream[pos + 1 + i - ReadAt]
         /\ pos + 1 + i - ReadAt \in 1 .. Len(Stream)
  BY <1>2
<1> QED  BY <1>1, <1>2, <1>3, ReadAtType

\* A CR in the data is one that strchr finds.
LEMMA CrsInData ==
    ASSUME TypeOK, DataInv, NEW i \in 0 .. chars_in_buffer - 1, buffer[i] = CR
    PROVE  i \in Crs
<1>1. /\ READ_BUFFER_SIZE \in Nat /\ chars_in_buffer \in Nat
      /\ chars_in_buffer <= READ_BUFFER_SIZE
  BY TypesOfVars DEF DataInv
<1>2. i \in 0 .. READ_BUFFER_SIZE
  BY <1>1
<1>3. \A j \in 0 .. i : buffer[j] # NUL
  BY <1>1 DEF DataInv
<1> QED  BY <1>2, <1>3 DEF Crs

\* What the loop moves.
LEMMA TakeMoves ==
    ASSUME TypeOK, TakeSentence, Moved \in Nat
    PROVE  /\ chars_in_buffer' = chars_in_buffer - SentenceLength
           /\ \A i \in 0 .. READ_BUFFER_SIZE :
                 i < Moved /\ i + Eos + 2 <= READ_BUFFER_SIZE => buffer'[i] = buffer[i + Eos + 2]
           /\ crashed' = crashed
<1>1. READ_BUFFER_SIZE \in Nat /\ Eos \in Nat
  <2>1. Eos \in 0 .. READ_BUFFER_SIZE
    BY EosIsFirst DEF TakeSentence
  <2> QED  BY <2>1, TypesOfVars
<1>2. /\ chars_in_buffer' = chars_in_buffer - SentenceLength
      /\ buffer' = [i \in 0 .. READ_BUFFER_SIZE |->
                      IF i < Moved THEN At(Terminated, i + Eos + 2) ELSE Terminated[i]]
      /\ crashed' = crashed
  <2>1. ~(Moved < 0)
    OBVIOUS
  <2> QED  BY <2>1 DEF TakeSentence
<1>3. ASSUME NEW i \in 0 .. READ_BUFFER_SIZE, i < Moved, i + Eos + 2 <= READ_BUFFER_SIZE
      PROVE  buffer'[i] = buffer[i + Eos + 2]
  <2>1. /\ i + Eos + 2 \in 0 .. READ_BUFFER_SIZE /\ i + Eos + 2 # Eos
        /\ i + Eos + 2 <= READ_BUFFER_SIZE
    BY <1>1, <1>3
  <2>2. buffer'[i] = At(Terminated, i + Eos + 2)
    BY <1>2, <1>3
  <2>3. At(Terminated, i + Eos + 2) = Terminated[i + Eos + 2]
    BY <2>1 DEF At
  <2>4. Terminated[i + Eos + 2] = buffer[i + Eos + 2]
    BY <2>1 DEF Terminated, TypeOK
  <2> QED  BY <2>2, <2>3, <2>4
<1> QED  BY <1>2, <1>3

\* What the loop does when the line end it found is whole.
LEMMA TakeInData ==
    ASSUME TypeOK, DataInv, TakeSentence
    PROVE  /\ Eos \in Nat /\ Eos + 1 < chars_in_buffer /\ buffer[Eos] = CR
           /\ \A j \in Crs : Eos <= j
           /\ chars_in_buffer' = chars_in_buffer - (Eos + 2)
           /\ \A i \in 0 .. chars_in_buffer - (Eos + 2) : buffer'[i] = buffer[i + Eos + 2]
           /\ crashed' = crashed
<1>1. /\ READ_BUFFER_SIZE \in Nat /\ chars_in_buffer \in Nat
      /\ chars_in_buffer <= READ_BUFFER_SIZE /\ buffer[chars_in_buffer] = NUL
  BY TypesOfVars DEF DataInv
<1>2. /\ Eos \in 0 .. READ_BUFFER_SIZE /\ buffer[Eos] = CR
      /\ \A j \in 0 .. Eos : buffer[j] # NUL
      /\ \A j \in Crs : Eos <= j
  BY EosIsFirst DEF TakeSentence
<1>3. Eos < chars_in_buffer
  BY <1>1, <1>2
<1>4. Eos + 1 < chars_in_buffer /\ buffer[Eos + 1] = LF
  BY <1>1, <1>2, <1>3 DEF DataInv
<1>5. SentenceLength = Eos + 2
  BY <1>4 DEF SentenceLength
<1>6. Moved = chars_in_buffer - (Eos + 2) + 1 /\ Moved >= 1 /\ Moved \in Nat
  BY <1>1, <1>2, <1>4, <1>5 DEF Moved
<1>7. ASSUME NEW i \in 0 .. chars_in_buffer - (Eos + 2)
      PROVE  buffer'[i] = buffer[i + Eos + 2]
  <2>1. i \in 0 .. READ_BUFFER_SIZE /\ i < Moved /\ i + Eos + 2 <= READ_BUFFER_SIZE
    BY <1>1, <1>2, <1>6
  <2> QED  BY <1>6, <2>1, TakeMoves
<1>8. Eos \in Nat
  BY <1>1, <1>2
<1> QED  BY <1>2, <1>4, <1>5, <1>6, <1>7, <1>8, TakeMoves

\* An undisturbed read behind sound data, or into an empty buffer.
LEMMA ReadData ==
    ASSUME TypeOK, NEW n \in 1 .. READ_BUFFER_SIZE, Read(n, 0, 0), Stream[pos + n] # CR,
           \A i \in 0 .. ReadAt - 1 :
              buffer[i] # NUL /\ (buffer[i] = CR => i + 1 < ReadAt /\ buffer[i + 1] = LF)
    PROVE  DataInv'
<1>3. /\ n \in Nat /\ n >= 1 /\ ReadAt \in Nat /\ ReadAt + n <= READ_BUFFER_SIZE
      /\ ReadAt = chars_in_buffer \/ ReadAt = 0
      /\ chars_in_buffer' = ReadAt + n /\ pos \in Nat
      /\ \A i \in 0 .. ReadAt - 1 : buffer'[i] = buffer[i]
      /\ \A i \in ReadAt .. ReadAt + n - 1 :
            /\ buffer'[i] = Stream[pos + 1 + i - ReadAt]
            /\ pos + 1 + i - ReadAt \in 1 .. Len(Stream)
      /\ buffer'[ReadAt + n] = NUL
  BY CleanRead, ReadAtType, TypesOfVars
<1>4. chars_in_buffer' \in 0 .. READ_BUFFER_SIZE /\ buffer'[chars_in_buffer'] = NUL
  BY <1>3, EndsInOrder
<1>5. ASSUME NEW i \in 0 .. ReadAt - 1
      PROVE  /\ buffer'[i] # NUL
             /\ buffer'[i] = CR => i + 1 < ReadAt + n /\ buffer'[i + 1] = LF
  <2>1. buffer[i] # NUL /\ buffer'[i] = buffer[i]
    BY <1>3
  <2>2. ASSUME buffer[i] = CR  PROVE i + 1 < ReadAt + n /\ buffer'[i + 1] = LF
    <3>1. i + 1 < ReadAt /\ buffer[i + 1] = LF
      BY <2>2
    <3>2. i + 1 \in 0 .. ReadAt - 1 /\ i + 1 < ReadAt + n
      BY <1>3, <3>1
    <3> QED  BY <1>3, <3>1, <3>2
  <2> QED  BY <2>1, <2>2
<1>6. ASSUME NEW i \in ReadAt .. ReadAt + n - 1
      PROVE  /\ buffer'[i] # NUL
             /\ buffer'[i] = CR => i + 1 < ReadAt + n /\ buffer'[i + 1] = LF
  <2> DEFINE p == pos + 1 + i - ReadAt
  <2>1. buffer'[i] = Stream[p] /\ p \in 1 .. Len(Stream)
    BY <1>3
  <2>2. /\ Stream[p] # NUL
        /\ Stream[p] = CR => Stream[p + 1] = LF
    BY <2>1, StreamType
  <2>3. ASSUME Stream[p] = CR  PROVE i + 1 < ReadAt + n /\ buffer'[i + 1] = LF
    <3>1. p # pos + n
      BY <2>3
    <3>2. i + 1 \in ReadAt .. ReadAt + n - 1 /\ i + 1 < ReadAt + n
      <4>1. n \in Nat /\ ReadAt \in Nat /\ pos \in Nat /\ i \in Int /\ i >= ReadAt
            /\ i <= ReadAt + n - 1
        BY <1>3
      <4>2. i # ReadAt + n - 1
        BY <3>1, <4>1
      <4> QED  BY <4>1, <4>2
    <3>3. buffer'[i + 1] = Stream[pos + 1 + (i + 1) - ReadAt]
      BY <1>3, <3>2
    <3>4. pos + 1 + (i + 1) - ReadAt = p + 1
      BY <1>3
    <3> QED  BY <2>2, <2>3, <3>2, <3>3, <3>4
  <2> QED  BY <2>1, <2>2, <2>3
<1>7. \A i \in 0 .. chars_in_buffer' - 1 : i \in 0 .. ReadAt - 1 \/ i \in ReadAt .. ReadAt + n - 1
  BY <1>3
<1>8. ASSUME NEW i \in 0 .. chars_in_buffer' - 1
      PROVE  /\ buffer'[i] # NUL
             /\ buffer'[i] = CR => i + 1 < chars_in_buffer' /\ buffer'[i + 1] = LF
  BY <1>3, <1>5, <1>6, <1>7
<1> QED  BY <1>4, <1>8 DEF DataInv

LEMMA TakeData ==
    ASSUME TypeOK, DataInv, TakeSentence
    PROVE  DataInv'
<1>1. /\ READ_BUFFER_SIZE \in Nat /\ chars_in_buffer \in Nat
      /\ chars_in_buffer <= READ_BUFFER_SIZE /\ buffer[chars_in_buffer] = NUL
  BY TypesOfVars DEF DataInv
<1>2. PICK e \in Nat :
        /\ e + 1 < chars_in_buffer
        /\ chars_in_buffer' = chars_in_buffer - (e + 2)
        /\ \A i \in 0 .. chars_in_buffer - (e + 2) : buffer'[i] = buffer[i + e + 2]
  BY TakeInData
<1>3. chars_in_buffer' \in 0 .. READ_BUFFER_SIZE
  BY <1>1, <1>2
<1>4. buffer'[chars_in_buffer'] = NUL
  <2>1. /\ chars_in_buffer' \in 0 .. chars_in_buffer - (e + 2)
        /\ chars_in_buffer' + e + 2 = chars_in_buffer
    BY <1>1, <1>2
  <2> QED  BY <1>1, <1>2, <2>1
<1>5. ASSUME NEW i \in 0 .. chars_in_buffer' - 1
      PROVE  /\ buffer'[i] # NUL
             /\ buffer'[i] = CR => i + 1 < chars_in_buffer' /\ buffer'[i + 1] = LF
  <2>1. /\ i \in 0 .. chars_in_buffer - (e + 2) /\ i + 1 \in 0 .. chars_in_buffer - (e + 2)
        /\ i + e + 2 \in 0 .. chars_in_buffer - 1 /\ (i + e + 2) + 1 = (i + 1) + e + 2
    BY <1>1, <1>2
  <2>2. buffer'[i] = buffer[i + e + 2] /\ buffer'[i + 1] = buffer[(i + e + 2) + 1]
    BY <1>2, <2>1
  <2>3. /\ buffer[i + e + 2] # NUL
        /\ buffer[i + e + 2] = CR => /\ (i + e + 2) + 1 < chars_in_buffer
                                    /\ buffer[(i + e + 2) + 1] = LF
    BY <2>1 DEF DataInv
  <2>4. (i + e + 2) + 1 < chars_in_buffer => i + 1 < chars_in_buffer'
    BY <1>1, <1>2
  <2> QED  BY <2>2, <2>3, <2>4
<1> QED  BY <1>3, <1>4, <1>5 DEF DataInv

-----------------------------------------------------------------------------
(* The first NUL.                                                           *)

\* A read that does not end in a CR, whatever is lost in it.
LEMMA ReadNul ==
    ASSUME TypeOK, NulInv, NEW n \in 1 .. READ_BUFFER_SIZE, NEW d \in 0 .. MaxNoise,
           NEW g \in 0 .. n - 1, Read(n, g, d), Stream[pos + n + d] # CR
    PROVE  NulInv'
<1>1. PICK z \in 0 .. chars_in_buffer :
        /\ buffer[z] = NUL
        /\ \A i \in 0 .. z - 1 : buffer[i] # NUL /\ (buffer[i] = CR => i + 1 < z)
  BY DEF NulInv
<1>2. /\ n \in Nat /\ n >= 1 /\ ReadAt \in Nat /\ chars_in_buffer \in Int
      /\ ReadAt = chars_in_buffer \/ ReadAt = 0
      /\ chars_in_buffer' = ReadAt + n
      /\ \A i \in 0 .. ReadAt - 1 : buffer'[i] = buffer[i]
      /\ \A i \in ReadAt .. ReadAt + n - 1 :
            /\ buffer'[i] = Stream[Place(i - ReadAt, g, d)]
            /\ Place(i - ReadAt, g, d) \in 1 .. Len(Stream)
            /\ i = ReadAt + n - 1 => Place(i - ReadAt, g, d) = pos + n + d
      /\ buffer'[ReadAt + n] = NUL
  BY ReadBuffer, ReadAtType, TypesOfVars
<1>3. CASE ReadAt = chars_in_buffer /\ z < chars_in_buffer
  <2>1. z \in 0 .. chars_in_buffer' /\ z \in 0 .. ReadAt - 1
    BY <1>1, <1>2, <1>3
  <2>2. \A i \in 0 .. z - 1 : i \in 0 .. ReadAt - 1
    BY <1>2, <2>1
  <2>3. /\ buffer'[z] = NUL
        /\ \A i \in 0 .. z - 1 : buffer'[i] # NUL /\ (buffer'[i] = CR => i + 1 < z)
    BY <1>1, <1>2, <2>1, <2>2
  <2> QED  BY <2>1, <2>3 DEF NulInv
<1>4. CASE ~(ReadAt = chars_in_buffer /\ z < chars_in_buffer)
  <2> DEFINE e == ReadAt + n
  <2>1. ASSUME NEW i \in 0 .. e - 1
        PROVE  buffer'[i] # NUL /\ (buffer'[i] = CR => i + 1 < e)
    <3>1. CASE i \in 0 .. ReadAt - 1
      <4>1. ReadAt = z /\ i \in 0 .. z - 1
        BY <1>1, <1>2, <1>4, <3>1
      <4> QED  BY <1>1, <1>2, <3>1, <4>1
    <3>2. CASE i \in ReadAt .. ReadAt + n - 1
      <4>1. buffer'[i] # NUL
        BY <1>2, <3>2, StreamType
      <4>2. i = e - 1 => buffer'[i] # CR
        BY <1>2, <3>2
      <4> QED  BY <1>2, <3>2, <4>1, <4>2
    <3> QED  BY <1>2, <3>1, <3>2
  <2>2. e \in 0 .. chars_in_buffer' /\ buffer'[e] = NUL
    BY <1>2
  <2> HIDE DEF e
  <2> QED  BY <2>1, <2>2 DEF NulInv
<1> QED  BY <1>3, <1>4

\* The loop takes the first NUL along, whether or not the CR has its LF.
LEMMA TakeNul ==
    ASSUME TypeOK, NulInv, TakeSentence
    PROVE  NulInv'
<1>1. PICK z \in 0 .. chars_in_buffer :
        /\ buffer[z] = NUL
        /\ \A i \in 0 .. z - 1 : buffer[i] # NUL /\ (buffer[i] = CR => i + 1 < z)
  BY DEF NulInv
<1>2. /\ READ_BUFFER_SIZE \in Nat /\ chars_in_buffer \in Int
      /\ chars_in_buffer <= READ_BUFFER_SIZE /\ z \in Nat /\ z <= chars_in_buffer
  BY <1>1, TypesOfVars
<1>3. /\ Eos \in 0 .. READ_BUFFER_SIZE /\ buffer[Eos] = CR
      /\ \A j \in 0 .. Eos : buffer[j] # NUL
      /\ SentenceLength \in {Eos + 1, Eos + 2}
  BY EosIsFirst DEF TakeSentence
<1>4. Eos \in Nat /\ Eos + 1 < z
  <2>1. z \notin 0 .. Eos
    BY <1>1, <1>3
  <2>2. Eos \in 0 .. z - 1
    BY <1>2, <1>3, <2>1
  <2> QED  BY <1>1, <1>2, <1>3, <2>2
<1>5. Moved \in Nat /\ Moved > z - (Eos + 2) /\ chars_in_buffer - SentenceLength >= z - (Eos + 2)
  BY <1>2, <1>3, <1>4 DEF Moved
<1>6. /\ chars_in_buffer' = chars_in_buffer - SentenceLength
      /\ \A i \in 0 .. READ_BUFFER_SIZE :
            i < Moved /\ i + Eos + 2 <= READ_BUFFER_SIZE => buffer'[i] = buffer[i + Eos + 2]
  BY <1>5, TakeMoves
<1> DEFINE y == z - (Eos + 2)
<1>7. ASSUME NEW i \in 0 .. y  PROVE buffer'[i] = buffer[i + Eos + 2]
  <2>1. i \in 0 .. READ_BUFFER_SIZE /\ i < Moved /\ i + Eos + 2 <= READ_BUFFER_SIZE
    BY <1>2, <1>4, <1>5
  <2> QED  BY <1>6, <2>1
<1>8. y \in 0 .. chars_in_buffer' /\ buffer'[y] = NUL
  <2>1. y \in 0 .. y /\ y + Eos + 2 = z
    BY <1>2, <1>4
  <2>2. buffer'[y] = NUL
    BY <1>1, <1>7, <2>1
  <2>3. y \in 0 .. chars_in_buffer'
    BY <1>2, <1>3, <1>4, <1>5, <1>6
  <2> QED  BY <2>2, <2>3
<1>9. ASSUME NEW i \in 0 .. y - 1
      PROVE  buffer'[i] # NUL /\ (buffer'[i] = CR => i + 1 < y)
  <2>1. i \in 0 .. y /\ i + Eos + 2 \in 0 .. z - 1
    BY <1>2, <1>4
  <2>2. buffer'[i] = buffer[i + Eos + 2]
    BY <1>7, <2>1
  <2>3. /\ buffer[i + Eos + 2] # NUL
        /\ buffer[i + Eos + 2] = CR => (i + Eos + 2) + 1 < z
    BY <1>1, <2>1
  <2>4. (i + Eos + 2) + 1 < z => i + 1 < y
    BY <1>2, <1>4
  <2> QED  BY <2>2, <2>3, <2>4
<1> HIDE DEF y
<1> QED  BY <1>8, <1>9 DEF NulInv

-----------------------------------------------------------------------------
(* The sentences.                                                           *)

\* Where the data begins with sentence m + 1 and reaches to its CR, that is the
\* first CR there is.
LEMMA FirstCr ==
    ASSUME TypeOK, DataInv, NEW m \in 0 .. Len(Ends) - 1,
           \A i \in 0 .. chars_in_buffer - 1 : buffer[i] = Stream[EndOf(m) + 1 + i],
           chars_in_buffer > Span(m + 1) - 2
    PROVE  /\ Span(m + 1) - 2 \in Crs
           /\ \A j \in Crs : j < chars_in_buffer => Span(m + 1) - 2 <= j
<1>1. /\ EndOf(m) \in Nat /\ m + 1 \in 1 .. Len(Ends)
      /\ Stream[EndOf(m) + Span(m + 1) - 1] = CR
      /\ \A i \in 0 .. Span(m + 1) - 3 : Stream[EndOf(m) + 1 + i] # CR
  BY BytesOfSentence
<1>2. Span(m + 1) \in Nat /\ Span(m + 1) >= 4
  BY <1>1, EndsInOrder
<1>3. chars_in_buffer \in Nat /\ READ_BUFFER_SIZE \in Nat
  BY TypesOfVars DEF DataInv
<1>4. /\ Span(m + 1) - 2 \in 0 .. chars_in_buffer - 1
      /\ EndOf(m) + 1 + (Span(m + 1) - 2) = EndOf(m) + Span(m + 1) - 1
  BY <1>1, <1>2, <1>3
<1>5. buffer[Span(m + 1) - 2] = CR
  BY <1>1, <1>4
<1>6. ASSUME NEW j \in Crs, j < chars_in_buffer  PROVE Span(m + 1) - 2 <= j
  <2>1. j \in 0 .. chars_in_buffer - 1 /\ buffer[j] = CR
    BY <1>3, <1>6 DEF Crs
  <2>2. Stream[EndOf(m) + 1 + j] = CR
    BY <2>1
  <2>3. j \notin 0 .. Span(m + 1) - 3
    BY <1>1, <2>2
  <2> QED  BY <1>2, <1>3, <2>1, <2>3
<1> QED  BY <1>4, <1>5, <1>6, CrsInData

LEMMA ReadSentences ==
    ASSUME TypeOK, DataInv, StreamInv, NEW n \in 1 .. READ_BUFFER_SIZE, Read(n, 0, 0)
    PROVE  StreamInv'
<1>1. PICK m \in 0 .. Len(Ends) :
        /\ EndOf(m) + chars_in_buffer = pos
        /\ \A i \in 0 .. chars_in_buffer - 1 : buffer[i] = Stream[EndOf(m) + 1 + i]
        /\ parsed = [k \in 1 .. m |-> k]
  BY DEF StreamInv
<1>2. /\ n \in Nat /\ n >= 1 /\ ReadAt \in Nat /\ ReadAt + n <= READ_BUFFER_SIZE
      /\ ReadAt = chars_in_buffer \/ ReadAt = 0
      /\ chars_in_buffer' = ReadAt + n /\ pos \in Nat
      /\ pos' = pos + n /\ pos + n <= Len(Stream)
      /\ \A i \in 0 .. ReadAt - 1 : buffer'[i] = buffer[i]
      /\ \A i \in ReadAt .. ReadAt + n - 1 : buffer'[i] = Stream[pos + 1 + i - ReadAt]
  BY CleanRead, ReadAtType, TypesOfVars
<1>3. /\ EndOf(m) \in Nat /\ chars_in_buffer \in Nat /\ READ_BUFFER_SIZE \in Nat
      /\ chars_in_buffer <= READ_BUFFER_SIZE /\ Len(Ends) \in Nat
      /\ Len(Stream) = EndOf(Len(Ends))
  BY EndsInOrder, StreamType, TypesOfVars DEF DataInv
<1>4. m \in 0 .. Len(Ends) - 1
  <2>1. EndOf(m) # EndOf(Len(Ends))
    BY <1>1, <1>2, <1>3
  <2> QED  BY <1>3, <2>1
<1>5. ReadAt = chars_in_buffer
  <2> SUFFICES ASSUME chars_in_buffer = READ_BUFFER_SIZE  PROVE FALSE
    BY <1>3 DEF ReadAt
  <2>1. Span(m + 1) \in Nat /\ Span(m + 1) <= READ_BUFFER_SIZE
    <3>1. m + 1 \in 1 .. Len(Ends)
      BY <1>3, <1>4
    <3> QED  BY <3>1, EndsInOrder
  <2>2. chars_in_buffer > Span(m + 1) - 2
    BY <1>3, <2>1
  <2>3. Span(m + 1) - 2 \in Crs
    BY <1>1, <1>4, <2>2, FirstCr
  <2> QED  BY <2>3 DEF Read
<1>6. EndOf(m) + chars_in_buffer' = pos'
  <2>1. /\ chars_in_buffer' = chars_in_buffer + n /\ pos' = pos + n
        /\ EndOf(m) + chars_in_buffer = pos
    BY <1>1, <1>2, <1>5
  <2>2. EndOf(m) \in Nat /\ chars_in_buffer \in Nat /\ n \in Nat
    BY <1>2, <1>3
  <2> QED  BY <2>1, <2>2
<1>7. ASSUME NEW i \in 0 .. chars_in_buffer' - 1
      PROVE  buffer'[i] = Stream[EndOf(m) + 1 + i]
  <2>1. CASE i < chars_in_buffer
    <3>1. i \in 0 .. ReadAt - 1 /\ i \in 0 .. chars_in_buffer - 1
      BY <1>2, <1>3, <1>5, <2>1
    <3> QED  BY <1>1, <1>2, <3>1
  <2>2. CASE ~(i < chars_in_buffer)
    <3>1. /\ n \in Nat /\ pos \in Nat /\ chars_in_buffer \in Nat /\ EndOf(m) \in Nat
          /\ i \in Int /\ i >= chars_in_buffer /\ i <= chars_in_buffer + n - 1
          /\ EndOf(m) + chars_in_buffer = pos
      BY <1>1, <1>2, <1>3, <1>5, <2>2
    <3>2. /\ i \in ReadAt .. ReadAt + n - 1
          /\ pos + 1 + i - ReadAt = EndOf(m) + 1 + i
      BY <1>5, <3>1
    <3> QED  BY <1>2, <3>2
  <2> QED  BY <2>1, <2>2
<1>8. parsed' = [k \in 1 .. m |-> k]
  BY <1>1 DEF Read
<1> QED  BY <1>6, <1>7, <1>8 DEF StreamInv

LEMMA TakeSentences ==
    ASSUME TypeOK, DataInv, StreamInv, TakeSentence
    PROVE  StreamInv'
<1>1. PICK m \in 0 .. Len(Ends) :
        /\ EndOf(m) + chars_in_buffer = pos
        /\ \A i \in 0 .. chars_in_buffer - 1 : buffer[i] = Stream[EndOf(m) + 1 + i]
        /\ parsed = [k \in 1 .. m |-> k]
  BY DEF StreamInv
<1>2. /\ Eos \in Nat /\ Eos + 1 < chars_in_buffer /\ buffer[Eos] = CR
      /\ \A j \in Crs : Eos <= j
      /\ chars_in_buffer' = chars_in_buffer - (Eos + 2)
      /\ \A i \in 0 .. chars_in_buffer - (Eos + 2) : buffer'[i] = buffer[i + Eos + 2]
  BY TakeInData
<1>3. /\ EndOf(m) \in Nat /\ chars_in_buffer \in Nat /\ Len(Ends) \in Nat
      /\ Len(Stream) = EndOf(Len(Ends)) /\ pos \in Nat /\ pos <= Len(Stream)
  BY EndsInOrder, StreamType, TypesOfVars DEF DataInv
<1>4. m \in 0 .. Len(Ends) - 1
  <2>1. EndOf(m) # EndOf(Len(Ends))
    BY <1>1, <1>2, <1>3
  <2> QED  BY <1>3, <2>1
<1>5. /\ m + 1 \in 1 .. Len(Ends) /\ (m + 1) - 1 = m
      /\ EndOf(m + 1) = EndOf(m) + Span(m + 1) /\ Stream[EndOf(m) + 2] = m + 1
      /\ \A i \in 0 .. Span(m + 1) - 3 : Stream[EndOf(m) + 1 + i] # CR
  BY <1>4, BytesOfSentence
<1>6. Span(m + 1) \in Nat /\ Span(m + 1) >= 4
  BY <1>5, EndsInOrder
<1>7. Eos = Span(m + 1) - 2
  <2>1. Eos \in 0 .. chars_in_buffer - 1
    BY <1>2, <1>3
  <2>2. Stream[EndOf(m) + 1 + Eos] = CR
    BY <1>1, <1>2, <2>1
  <2>3. Eos \notin 0 .. Span(m + 1) - 3
    BY <1>5, <2>2
  <2>4. Eos >= Span(m + 1) - 2
    BY <1>2, <1>6, <2>3
  <2>5. chars_in_buffer > Span(m + 1) - 2
    BY <1>2, <1>3, <1>6, <2>4
  <2>6. Span(m + 1) - 2 \in Crs
    BY <1>1, <1>4, <2>5, FirstCr
  <2>7. Eos <= Span(m + 1) - 2
    BY <1>2, <2>6
  <2> QED  BY <1>2, <1>6, <2>4, <2>7
<1>8. m + 1 \in Accepted
  <2>1. \A i \in 0 .. Eos - 1 : buffer[i] = Stream[EndOf((m + 1) - 1) + 1 + i]
    <3>1. \A i \in 0 .. Eos - 1 : i \in 0 .. chars_in_buffer - 1
      BY <1>2, <1>3
    <3> QED  BY <1>1, <1>5, <3>1
  <2>2. m + 1 \in DOMAIN Ends
    BY <1>5, EndsInOrder
  <2> QED  BY <1>7, <2>1, <2>2 DEF Accepted
<1>9. buffer[1] = m + 1
  <2>1. Eos >= 2 /\ 1 \in 0 .. Eos
    BY <1>6, <1>7
  <2>2. 1 \in 0 .. chars_in_buffer - 1
    BY <1>2, <1>3, <2>1
  <2>3. EndOf(m) + 1 + 1 = EndOf(m) + 2
    BY <1>3
  <2> QED  BY <1>1, <1>5, <2>2, <2>3
<1>10. \A k \in Accepted : k = m + 1
  BY <1>9, AcceptedIsInFront
<1>11. parsed' = Append(parsed, m + 1)
  <2>1. (CHOOSE k \in Accepted : TRUE) = m + 1
    BY <1>8, <1>10
  <2> QED  BY <1>8, <2>1 DEF TakeSentence
<1>12. parsed' = [k \in 1 .. m + 1 |-> k]
  <2>1. m \in Nat
    BY <1>3
  <2>2. [k \in 1 .. m |-> k] \in Seq(Nat) /\ Len([k \in 1 .. m |-> k]) = m
    BY <2>1
  <2>3. Append([k \in 1 .. m |-> k], m + 1) = [k \in 1 .. m + 1 |-> k]
    BY <2>1, <2>2
  <2> QED  BY <1>1, <1>11, <2>3
<1>13. Eos + 2 = Span(m + 1) /\ m + 1 \in 0 .. Len(Ends) /\ pos' = pos
  BY <1>5, <1>6, <1>7 DEF TakeSentence
<1>14. EndOf(m + 1) + chars_in_buffer' = pos'
  BY <1>1, <1>2, <1>3, <1>5, <1>6, <1>13
<1>15. ASSUME NEW i \in 0 .. chars_in_buffer' - 1
       PROVE  buffer'[i] = Stream[EndOf(m + 1) + 1 + i]
  <2>1. /\ i \in 0 .. chars_in_buffer - (Eos + 2)
        /\ i + Eos + 2 \in 0 .. chars_in_buffer - 1
        /\ EndOf(m) + 1 + (i + Eos + 2) = EndOf(m + 1) + 1 + i
    <3>1. /\ Eos \in Nat /\ chars_in_buffer \in Nat /\ Eos + 1 < chars_in_buffer
          /\ EndOf(m) \in Nat /\ i \in 0 .. (chars_in_buffer - (Eos + 2)) - 1
      BY <1>2, <1>3
    <3>2. EndOf(m + 1) = EndOf(m) + (Eos + 2)
      BY <1>5, <1>13
    <3> QED  BY <3>1, <3>2
  <2> QED  BY <1>1, <1>2, <2>1
<1> QED  BY <1>12, <1>13, <1>14, <1>15 DEF StreamInv

LEMMA InitIInv == Init => IInv
<1> SUFFICES ASSUME Init  PROVE IInv
  OBVIOUS
<1>1. TypeOK  BY InitTypes
<1>2. /\ READ_BUFFER_SIZE \in Nat /\ 0 \in 0 .. Len(Ends) /\ EndOf(0) = 0
  BY EndsInOrder
<1>3. DataInv
  <2>1. chars_in_buffer = 0 /\ buffer[0] = NUL /\ 0 .. chars_in_buffer - 1 = {}
    BY <1>2 DEF Init
  <2> QED  BY <1>2, <2>1 DEF DataInv
<1>4. StreamInv
  <2>1. /\ EndOf(0) + chars_in_buffer = pos /\ 0 .. chars_in_buffer - 1 = {}
        /\ parsed = [k \in 1 .. 0 |-> k]
    BY <1>2 DEF Init
  <2> QED  BY <1>2, <2>1 DEF StreamInv
<1>5. NulInv
  <2>1. 0 \in 0 .. chars_in_buffer /\ buffer[0] = NUL /\ 0 .. 0 - 1 = {}
    BY <1>2 DEF Init
  <2> QED  BY <2>1 DEF NulInv
<1> QED  BY <1>1, <1>3, <1>4, <1>5 DEF IInv

LEMMA StepIInv == IInv /\ [Next]_vars => IInv'
<1> SUFFICES ASSUME IInv, [Next]_vars  PROVE IInv'
  OBVIOUS
<1>1. TypeOK /\ TypeOK'
  BY StepTypes DEF IInv
<1>2. ASSUME NEW n \in 1 .. READ_BUFFER_SIZE, NEW d \in 0 .. MaxNoise, NEW g \in 0 .. n - 1,
             d = 0 => g = 0, Read(n, g, d)
      PROVE  IInv'
  <2>1. splits \in Nat /\ noise \in Nat /\ d \in Nat /\ n \in Nat /\ pos \in Nat
    BY <1>1, FramingAssumption, TypesOfVars DEF TypeOK
  <2>2. splits' = 0 => splits = 0 /\ Stream[pos + n + d] # CR
    BY <1>2, <2>1 DEF Read
  <2>3. splits' = 0 => NulInv'
    BY <1>1, <1>2, <2>2, ReadNul DEF IInv
  <2>4. ASSUME splits' = 0, noise' = 0  PROVE DataInv' /\ StreamInv'
    <3>1. d = 0 /\ g = 0 /\ noise = 0
      BY <1>2, <2>1, <2>4 DEF Read
    <3>2. Read(n, 0, 0) /\ Stream[pos + n] # CR /\ DataInv /\ StreamInv
      BY <1>2, <2>1, <2>2, <2>4, <3>1 DEF IInv
    <3>3. \A i \in 0 .. ReadAt - 1 :
             buffer[i] # NUL /\ (buffer[i] = CR => i + 1 < ReadAt /\ buffer[i + 1] = LF)
      <4>1. ReadAt = chars_in_buffer \/ ReadAt = 0
        BY <1>1, ReadAtType
      <4> QED  BY <3>2, <4>1 DEF DataInv
    <3> QED  BY <1>1, <3>2, <3>3, ReadData, ReadSentences
  <2> QED  BY <1>1, <2>3, <2>4 DEF IInv
<1>3. ASSUME TakeSentence  PROVE IInv'
  <2>1. splits' = splits /\ noise' = noise
    BY <1>3 DEF TakeSentence
  <2>2. splits' = 0 => NulInv'
    BY <1>1, <1>3, <2>1, TakeNul DEF IInv
  <2>3. splits' = 0 /\ noise' = 0 => DataInv' /\ StreamInv'
    BY <1>1, <1>3, <2>1, TakeData, TakeSentences DEF IInv
  <2> QED  BY <1>1, <2>2, <2>3 DEF IInv
<1>4. CASE UNCHANGED vars
  <2>1. StreamInv => StreamInv'
    BY <1>4 DEF StreamInv, vars
  <2>2. DataInv => DataInv'
    BY <1>4 DEF DataInv, vars
  <2>3. NulInv => NulInv'
    BY <1>4 DEF NulInv, vars
  <2> QED  BY <1>1, <1>4, <2>1, <2>2, <2>3 DEF IInv, vars
<1> QED  BY <1>2, <1>3, <1>4 DEF Next, Reads

\* "So we never run off the end": as long as no read ended behind a CR, the one that
\* strchr finds lies in the data, whatever bytes were lost (gypsy-nmea-parser.c:103).
THEOREM NothingRunsOff == Spec => []NeverRunsOff
<1>1. IInv => NeverRunsOff
  <2> SUFFICES ASSUME IInv, splits = 0, Crs # {}  PROVE Eos < chars_in_buffer
    BY DEF NeverRunsOff
  <2>1. TypeOK /\ NulInv
    BY DEF IInv
  <2>2. /\ Eos \in 0 .. READ_BUFFER_SIZE /\ \A j \in 0 .. Eos : buffer[j] # NUL
    BY <2>1, EosIsFirst
  <2>3. PICK z \in 0 .. chars_in_buffer : buffer[z] = NUL
    BY <2>1 DEF NulInv
  <2> QED  BY <2>1, <2>2, <2>3, TypesOfVars
<1> QED  BY <1>1, InitIInv, StepIInv, PTL DEF Spec

\* However the bytes are cut, as long as no read ends between a CR and its LF: what
\* a line that loses nothing brings is parsed, sentence for sentence, each once and
\* in order (gypsy-nmea-parser.c:93-156).
THEOREM SentencesAreParsed == Spec => []ParsedAll
<1>1. IInv => ParsedAll
  <2> SUFFICES ASSUME IInv, splits = 0, noise = 0, Crs = {}
               PROVE  parsed = [k \in Complete |-> k]
    BY DEF ParsedAll, Parsed
  <2>1. TypeOK /\ DataInv /\ StreamInv
    BY DEF IInv
  <2>2. PICK m \in 0 .. Len(Ends) :
          /\ EndOf(m) + chars_in_buffer = pos
          /\ \A i \in 0 .. chars_in_buffer - 1 : buffer[i] = Stream[EndOf(m) + 1 + i]
          /\ parsed = [k \in 1 .. m |-> k]
    BY <2>1 DEF StreamInv
  <2>3. /\ Len(Ends) \in Nat /\ DOMAIN Ends = 1 .. Len(Ends) /\ EndOf(m) \in Nat
        /\ chars_in_buffer \in Nat /\ pos \in Nat
    BY <2>1, EndsInOrder, TypesOfVars DEF DataInv
  <2>4. ASSUME NEW k \in 1 .. Len(Ends), k <= m  PROVE EndOf(k) <= pos
    <3>1. k \in 0 .. Len(Ends)
      BY <2>3
    <3>2. EndOf(k) <= EndOf(m) /\ EndOf(k) \in Nat
      BY <2>4, <3>1, EndsInOrder
    <3> QED  BY <2>2, <2>3, <3>2
  <2>5. ASSUME NEW k \in 1 .. Len(Ends), m < k, EndOf(k) <= pos  PROVE FALSE
    <3>1. m \in 0 .. Len(Ends) - 1 /\ m + 1 <= k
      BY <2>3, <2>5
    <3>2. /\ EndOf(m + 1) = EndOf(m) + Span(m + 1) /\ m + 1 \in 1 .. Len(Ends)
      BY <3>1, BytesOfSentence
    <3>3. EndOf(m + 1) <= EndOf(k) /\ EndOf(k) \in Nat /\ EndOf(m + 1) \in Nat
      <4>1. m + 1 \in 0 .. Len(Ends) /\ k \in 0 .. Len(Ends)
        BY <2>3, <3>2
      <4> QED  BY <3>1, <4>1, EndsInOrder
    <3>4. Span(m + 1) \in Nat
      BY <3>2, EndsInOrder
    <3>5. chars_in_buffer > Span(m + 1) - 2
      BY <2>2, <2>3, <2>5, <3>2, <3>3, <3>4
    <3>6. Span(m + 1) - 2 \in Crs
      BY <2>1, <2>2, <3>1, <3>5, FirstCr
    <3> QED  BY <3>6
  <2>6. Complete = 1 .. m
    BY <2>3, <2>4, <2>5 DEF Complete
  <2> QED  BY <2>2, <2>6
<1> QED  BY <1>1, InitIInv, StepIInv, PTL DEF Spec

-----------------------------------------------------------------------------
(* After a disturbed read.                                                  *)

\* A CR of the stream is that of a sentence, and its LF comes next.
LEMMA CrEndsSentence ==
    ASSUME NEW q \in 1 .. Len(Stream), Stream[q] = CR
    PROVE  \E j \in 1 .. Len(Ends) : EndOf(j) = q + 1 /\ q + 1 \in 1 .. Len(Stream)
<1>1. q = EndOf(SentenceAt(q)) - 1 /\ q + 1 \in 1 .. Len(Stream)
  BY StreamType
<1>2. SentenceAt(q) \in 1 .. Len(Ends)
  BY StreamType, SentenceOfByte
<1>3. EndOf(SentenceAt(q)) \in Nat
  BY <1>2, EndsInOrder
<1> QED  BY <1>1, <1>2, <1>3

\* The CR of sentence k, and the ends of two sentences that follow one another.
LEMMA CrOfSentence ==
    ASSUME NEW k \in 1 .. Len(Ends)
    PROVE  /\ EndOf(k) \in Nat /\ EndOf(k) <= Len(Stream) /\ EndOf(k - 1) \in Nat
           /\ EndOf(k - 1) + 4 <= EndOf(k) /\ EndOf(k) <= EndOf(k - 1) + READ_BUFFER_SIZE
           /\ Stream[EndOf(k) - 1] = CR
<1>1. /\ k \in Nat /\ k - 1 \in 0 .. Len(Ends) - 1 /\ (k - 1) + 1 = k
  BY EndsInOrder
<1>2. /\ EndOf(k - 1) \in Nat /\ EndOf(k) = EndOf(k - 1) + Span(k) /\ EndOf(k) <= Len(Stream)
      /\ Stream[EndOf(k - 1) + Span(k) - 1] = CR
  <2>1. /\ EndOf(k - 1) \in Nat
        /\ EndOf((k - 1) + 1) = EndOf(k - 1) + Span((k - 1) + 1)
        /\ EndOf((k - 1) + 1) <= Len(Stream)
        /\ Stream[EndOf(k - 1) + Span((k - 1) + 1) - 1] = CR
    BY <1>1, BytesOfSentence
  <2> QED  BY <1>1, <2>1
<1>3. Span(k) \in Nat /\ Span(k) >= 4 /\ Span(k) <= READ_BUFFER_SIZE /\ READ_BUFFER_SIZE \in Nat
  BY EndsInOrder
<1> QED  BY <1>2, <1>3

\* There is a CR in any buffer-full of the stream.
LEMMA BufferfulHasCr ==
    ASSUME NEW p \in Nat, p + READ_BUFFER_SIZE <= Len(Stream), READ_BUFFER_SIZE > 0
    PROVE  \E q \in p + 1 .. p + READ_BUFFER_SIZE : Stream[q] = CR
<1>1. READ_BUFFER_SIZE \in Nat /\ Len(Stream) \in Nat /\ Len(Stream) = EndOf(Len(Ends))
      /\ Len(Ends) \in Nat
  BY EndsInOrder, StreamType
<1>2. p + 1 \in 1 .. EndOf(Len(Ends))
  BY <1>1
<1>3. PICK j \in 1 .. Len(Ends) : EndOf(j - 1) < p + 1 /\ p + 1 <= EndOf(j)
  BY <1>2, SentenceOfByte
<1>4. /\ EndOf(j) \in Nat /\ EndOf(j - 1) \in Nat /\ EndOf(j) <= EndOf(j - 1) + READ_BUFFER_SIZE
      /\ EndOf(j - 1) + 4 <= EndOf(j) /\ Stream[EndOf(j) - 1] = CR
  BY CrOfSentence
<1>5. CASE p + 1 < EndOf(j)
  <2>1. EndOf(j) - 1 \in p + 1 .. p + READ_BUFFER_SIZE
    BY <1>1, <1>3, <1>4, <1>5
  <2> QED  BY <1>4, <2>1
<1>6. CASE ~(p + 1 < EndOf(j))
  <2>1. EndOf(j) = p + 1 /\ READ_BUFFER_SIZE >= 4
    BY <1>1, <1>3, <1>4, <1>6
  <2>2. j # Len(Ends)
    BY <1>1, <2>1
  <2>3. j + 1 \in 1 .. Len(Ends) /\ (j + 1) - 1 = j
    BY <1>1, <2>2
  <2>4. /\ EndOf(j + 1) \in Nat /\ EndOf(j + 1) <= EndOf(j) + READ_BUFFER_SIZE
        /\ EndOf(j) + 4 <= EndOf(j + 1) /\ Stream[EndOf(j + 1) - 1] = CR
    <3>1. /\ EndOf(j + 1) \in Nat /\ EndOf(j + 1) <= EndOf((j + 1) - 1) + READ_BUFFER_SIZE
          /\ EndOf((j + 1) - 1) + 4 <= EndOf(j + 1) /\ Stream[EndOf(j + 1) - 1] = CR
      BY <2>3, CrOfSentence
    <3> QED  BY <2>3, <3>1
  <2>5. EndOf(j + 1) - 1 \in p + 1 .. p + READ_BUFFER_SIZE
    BY <1>1, <2>1, <2>4
  <2> QED  BY <2>4, <2>5
<1> QED  BY <1>5, <1>6

\* A read that is not disturbed.
LEMMA QuietRead ==
    ASSUME TypeOK, NEW n \in 1 .. READ_BUFFER_SIZE, NEW d \in 0 .. MaxNoise,
           NEW g \in 0 .. n - 1, d = 0 => g = 0, Read(n, g, d), pos' > fault'
    PROVE  /\ Read(n, 0, 0) /\ Stream[pos + n] # CR
           /\ fault' = fault /\ parsed' = parsed /\ ~crashed' /\ Crs = {}
           /\ n \in Nat /\ pos \in Nat /\ fault \in Nat /\ fault <= pos
<1>1. n \in Nat /\ pos \in Nat /\ d \in Nat /\ fault \in Nat /\ fault <= pos
  BY FramingAssumption, TypesOfVars DEF TypeOK
<1>2. pos' = pos + n + d /\ ~(d > 0) /\ Stream[pos + n + d] # CR
  BY <1>1 DEF Read
<1>3. d = 0 /\ g = 0
  BY <1>1, <1>2
<1>4. Read(n, 0, 0)
  BY <1>3
<1>5. pos + n + 0 = pos + n
  BY <1>1
<1> QED  BY <1>1, <1>2, <1>3, <1>4, <1>5 DEF Read

\* Behind a NUL nothing is seen.
LEMMA ReadDeaf ==
    ASSUME TypeOK, NEW n \in 1 .. READ_BUFFER_SIZE, Read(n, 0, 0), Crs = {},
           ReadAt = chars_in_buffer, \E i \in 0 .. chars_in_buffer - 1 : buffer[i] = NUL,
           pos - fault <= chars_in_buffer, fault' = fault, fault \in Nat
    PROVE  Deaf'
<1>1. /\ n \in Nat /\ ReadAt \in Nat /\ chars_in_buffer' = ReadAt + n /\ pos' = pos + n
      /\ pos \in Nat /\ READ_BUFFER_SIZE \in Nat /\ ReadAt + n <= READ_BUFFER_SIZE
      /\ \A i \in 0 .. ReadAt - 1 : buffer'[i] = buffer[i]
  BY CleanRead, TypesOfVars
<1>2. PICK z \in 0 .. chars_in_buffer - 1 : buffer[z] = NUL
  OBVIOUS
<1>3. z \in 0 .. chars_in_buffer' - 1 /\ buffer'[z] = NUL /\ z \in Nat /\ z < ReadAt
  BY <1>1, <1>2
<1>4. Crs' = {}
  <2> SUFFICES ASSUME NEW i \in Crs'  PROVE FALSE
    OBVIOUS
  <2>1. /\ i \in 0 .. READ_BUFFER_SIZE /\ buffer'[i] = CR
        /\ \A j \in 0 .. i : buffer'[j] # NUL
    BY DEF Crs
  <2>2. i < z
    BY <1>1, <1>3, <2>1
  <2>3. buffer[i] = CR /\ \A j \in 0 .. i : buffer[j] # NUL
    <3>1. \A j \in 0 .. i : j \in 0 .. ReadAt - 1
      BY <1>1, <1>3, <2>1, <2>2
    <3>2. i \in 0 .. i
      BY <2>1
    <3> QED  BY <1>1, <2>1, <3>1, <3>2
  <2> QED  BY <2>1, <2>3 DEF Crs
<1>5. pos' - fault' <= chars_in_buffer'
  BY <1>1
<1> QED  BY <1>3, <1>4, <1>5 DEF Deaf

\* Behind data without a line end, all that came since is kept.
LEMMA ReadListening ==
    ASSUME TypeOK, NEW n \in 1 .. READ_BUFFER_SIZE, Read(n, 0, 0), Stream[pos + n] # CR,
           ReadAt = chars_in_buffer, fault' = fault, fault \in Nat, fault <= pos,
           pos - fault <= chars_in_buffer,
           \A i \in 0 .. chars_in_buffer - 1 :
              /\ buffer[i] # NUL
              /\ buffer[i] = CR => i + 1 < chars_in_buffer /\ buffer[i + 1] = LF
              /\ IF i < chars_in_buffer - (pos - fault) THEN buffer[i] # CR
                 ELSE buffer[i] = Stream[pos - chars_in_buffer + 1 + i]
    PROVE  Listening'
<1>1. /\ n \in Nat /\ ReadAt \in Nat /\ chars_in_buffer' = ReadAt + n /\ pos' = pos + n
      /\ pos \in Nat
      /\ \A i \in 0 .. ReadAt - 1 : buffer'[i] = buffer[i]
      /\ \A i \in ReadAt .. ReadAt + n - 1 : buffer'[i] = Stream[pos + 1 + i - ReadAt]
  BY CleanRead, TypesOfVars
<1>2. DataInv'
  BY ReadData
<1>3. /\ pos' - fault' <= chars_in_buffer'
      /\ chars_in_buffer' - (pos' - fault') = ReadAt - (pos - fault)
      /\ pos' - chars_in_buffer' = pos - ReadAt
  BY <1>1
<1>4. ASSUME NEW i \in 0 .. chars_in_buffer' - 1
      PROVE  IF i < chars_in_buffer' - (pos' - fault') THEN buffer'[i] # CR
             ELSE buffer'[i] = Stream[pos' - chars_in_buffer' + 1 + i]
  <2>1. CASE i \in 0 .. ReadAt - 1
    <3>1. IF i < ReadAt - (pos - fault) THEN buffer[i] # CR
          ELSE buffer[i] = Stream[pos - ReadAt + 1 + i]
      BY <2>1
    <3> QED  BY <1>1, <1>3, <2>1, <3>1
  <2>2. CASE i \in ReadAt .. ReadAt + n - 1
    <3>1. ~(i < ReadAt - (pos - fault)) /\ pos - ReadAt + 1 + i = pos + 1 + i - ReadAt
      BY <1>1, <2>2
    <3> QED  BY <1>1, <1>3, <2>2, <3>1
  <2> QED  BY <1>1, <2>1, <2>2
<1> QED  BY <1>2, <1>3, <1>4 DEF Listening

\* The data goes on, or begins anew, as a piece of the stream.
LEMMA ReadInStep ==
    ASSUME TypeOK, NEW n \in 1 .. READ_BUFFER_SIZE, Read(n, 0, 0), Stream[pos + n] # CR,
           fault' = fault, parsed' = parsed, fault \in Nat,
           NEW p \in fault .. pos, p + ReadAt = pos,
           \A i \in 0 .. ReadAt - 1 : /\ buffer[i] = Stream[p + 1 + i]
                                      /\ buffer[i] # NUL
                                      /\ buffer[i] = CR => i + 1 < ReadAt /\ buffer[i + 1] = LF,
           p > fault => Stream[p] # CR,
           p <= fault + READ_BUFFER_SIZE \/ \E m \in 0 .. Len(Ends) : p = EndOf(m),
           ParsedTo(p)
    PROVE  InStep'
<1>1. /\ n \in Nat /\ ReadAt \in Nat /\ chars_in_buffer' = ReadAt + n /\ pos' = pos + n
      /\ pos \in Nat
      /\ \A i \in 0 .. ReadAt - 1 : buffer'[i] = buffer[i]
      /\ \A i \in ReadAt .. ReadAt + n - 1 : buffer'[i] = Stream[pos + 1 + i - ReadAt]
  BY CleanRead, TypesOfVars
<1>2. DataInv'
  BY ReadData
<1>3. p \in fault' .. pos' /\ p + chars_in_buffer' = pos'
  BY <1>1
<1>4. ASSUME NEW i \in 0 .. chars_in_buffer' - 1  PROVE buffer'[i] = Stream[p + 1 + i]
  <2>1. CASE i \in 0 .. ReadAt - 1
    BY <1>1, <2>1
  <2>2. CASE i \in ReadAt .. ReadAt + n - 1
    <3>1. pos + 1 + i - ReadAt = p + 1 + i
      BY <1>1, <2>2
    <3> QED  BY <1>1, <2>2, <3>1
  <2> QED  BY <1>1, <2>1, <2>2
<1>5. (p > fault => Stream[p] # CR)'
  OBVIOUS
<1>6. p <= fault' + READ_BUFFER_SIZE \/ \E m \in 0 .. Len(Ends) : p = EndOf(m)
  OBVIOUS
<1>7. ParsedTo(p)'
  BY DEF ParsedTo
<1> QED  BY <1>2, <1>3, <1>4, <1>5, <1>6, <1>7 DEF InStep

\* Nothing that begins a buffer-full after the fault has ended so soon.
LEMMA NoneSoFar ==
    ASSUME TypeOK, NEW p \in Nat, p <= fault + READ_BUFFER_SIZE
    PROVE  \A k \in DOMAIN Ends : ~(EndOf(k - 1) >= fault + READ_BUFFER_SIZE /\ EndOf(k) <= p)
<1>1. READ_BUFFER_SIZE \in Nat /\ DOMAIN Ends = 1 .. Len(Ends) /\ fault \in Nat
  BY EndsInOrder DEF TypeOK
<1>2. \A k \in 1 .. Len(Ends) : /\ EndOf(k) \in Nat /\ EndOf(k - 1) \in Nat
                                /\ EndOf(k - 1) + 4 <= EndOf(k)
  BY CrOfSentence
<1> QED  BY <1>1, <1>2

\* A full buffer that is in step has a line end in it.
LEMMA InStepIsNotFull ==
    ASSUME TypeOK, DataInv, Crs = {}, NEW p \in Nat, p + chars_in_buffer = pos,
           \A i \in 0 .. chars_in_buffer - 1 : buffer[i] = Stream[p + 1 + i],
           READ_BUFFER_SIZE > 0
    PROVE  chars_in_buffer < READ_BUFFER_SIZE
<1> SUFFICES ASSUME chars_in_buffer = READ_BUFFER_SIZE  PROVE FALSE
  BY TypesOfVars
<1>1. READ_BUFFER_SIZE \in Nat /\ p + READ_BUFFER_SIZE <= Len(Stream)
  BY TypesOfVars
<1>2. PICK q \in p + 1 .. p + READ_BUFFER_SIZE : Stream[q] = CR
  BY <1>1, BufferfulHasCr
<1>3. q - p - 1 \in 0 .. chars_in_buffer - 1 /\ p + 1 + (q - p - 1) = q
  BY <1>1
<1>4. buffer[q - p - 1] = CR
  BY <1>2, <1>3
<1> QED  BY <1>3, <1>4, CrsInData

\* A read leads from each of the three to one of them, or begins anew.
LEMMA ReadRecovers ==
    ASSUME TypeOK, Recovering, NEW n \in 1 .. READ_BUFFER_SIZE, NEW d \in 0 .. MaxNoise,
           NEW g \in 0 .. n - 1, d = 0 => g = 0, Read(n, g, d)
    PROVE  Recovering'
<1> SUFFICES ASSUME pos' > fault'
             PROVE  /\ ~crashed' /\ Stream[pos'] # CR
                    /\ Deaf' \/ Listening' \/ InStep'
  BY DEF Recovering
<1>1. /\ Read(n, 0, 0) /\ Stream[pos + n] # CR
      /\ fault' = fault /\ parsed' = parsed /\ ~crashed' /\ Crs = {}
      /\ n \in Nat /\ pos \in Nat /\ fault \in Nat /\ fault <= pos
  BY QuietRead
<1>2. /\ pos' = pos + n /\ ReadAt \in Nat /\ READ_BUFFER_SIZE \in Nat
      /\ chars_in_buffer \in Int /\ chars_in_buffer >= -1
      /\ chars_in_buffer <= READ_BUFFER_SIZE /\ READ_BUFFER_SIZE > 0
      /\ ReadAt = chars_in_buffer \/ (ReadAt = 0 /\ chars_in_buffer \in {-1, READ_BUFFER_SIZE})
  BY <1>1, CleanRead, TypesOfVars, ReadAtType DEF ReadAt
<1>3. Stream[pos'] # CR
  BY <1>1, <1>2
<1>4. ASSUME ReadAt = 0, pos <= fault + READ_BUFFER_SIZE, pos > fault => Stream[pos] # CR
      PROVE  InStep'
  <2>1. pos \in fault .. pos /\ pos + ReadAt = pos /\ 0 .. ReadAt - 1 = {}
    BY <1>1, <1>4
  <2>2. ParsedTo(pos)
    BY <1>1, <1>4, NoneSoFar DEF ParsedTo
  <2> QED  BY <1>1, <1>4, <2>1, <2>2, ReadInStep
<1>5. CASE pos = fault
  <2>1. CASE ReadAt = 0
    BY <1>1, <1>2, <1>3, <1>4, <1>5, <2>1
  <2>2. CASE ReadAt # 0 /\ \E i \in 0 .. chars_in_buffer - 1 : buffer[i] = NUL
    <3>1. ReadAt = chars_in_buffer /\ pos - fault <= chars_in_buffer
      BY <1>1, <1>2, <1>5, <2>2
    <3> QED  BY <1>1, <1>3, <2>2, <3>1, ReadDeaf
  <2>3. CASE ReadAt # 0 /\ ~(\E i \in 0 .. chars_in_buffer - 1 : buffer[i] = NUL)
    <3>1. ReadAt = chars_in_buffer /\ pos - fault = 0 /\ chars_in_buffer - (pos - fault) = chars_in_buffer
      BY <1>1, <1>2, <1>5, <2>3
    <3>2. ASSUME NEW i \in 0 .. chars_in_buffer - 1
          PROVE  buffer[i] # NUL /\ buffer[i] # CR /\ i < chars_in_buffer - (pos - fault)
      <4>1. buffer[i] # NUL
        BY <2>3
      <4>2. i \in 0 .. READ_BUFFER_SIZE /\ \A j \in 0 .. i : j \in 0 .. chars_in_buffer - 1
        BY <1>2
      <4>3. \A j \in 0 .. i : buffer[j] # NUL
        BY <2>3, <4>2
      <4>4. buffer[i] # CR
        BY <1>1, <4>2, <4>3 DEF Crs
      <4> QED  BY <1>2, <3>1, <4>1, <4>4
    <3>3. pos - fault <= chars_in_buffer
      BY <1>2, <3>1
    <3> QED  BY <1>1, <1>3, <3>1, <3>2, <3>3, ReadListening
  <2> QED  BY <2>1, <2>2, <2>3
<1>6. CASE pos > fault
  <2>1. Stream[pos] # CR /\ (Deaf \/ Listening \/ InStep)
    BY <1>6 DEF Recovering
  <2>2. CASE Deaf
    <3>1. pos - fault <= chars_in_buffer /\ chars_in_buffer # -1
      BY <1>1, <1>2, <1>6, <2>2 DEF Deaf
    <3>2. CASE ReadAt = chars_in_buffer
      BY <1>1, <1>3, <2>2, <3>1, <3>2, ReadDeaf DEF Deaf
    <3>3. CASE ReadAt # chars_in_buffer
      <4>1. ReadAt = 0 /\ pos <= fault + READ_BUFFER_SIZE
        BY <1>1, <1>2, <3>1, <3>3
      <4> QED  BY <1>1, <1>3, <1>4, <2>1, <4>1
    <3> QED  BY <3>2, <3>3
  <2>3. CASE Listening
    <3>1. pos - fault <= chars_in_buffer /\ chars_in_buffer # -1
      BY <1>1, <1>2, <1>6, <2>3 DEF Listening
    <3>2. CASE ReadAt = chars_in_buffer
      <4>1. \A i \in 0 .. chars_in_buffer - 1 :
              /\ buffer[i] # NUL
              /\ buffer[i] = CR => i + 1 < chars_in_buffer /\ buffer[i + 1] = LF
              /\ IF i < chars_in_buffer - (pos - fault) THEN buffer[i] # CR
                 ELSE buffer[i] = Stream[pos - chars_in_buffer + 1 + i]
        BY <2>3 DEF Listening, DataInv
      <4> QED  BY <1>1, <1>3, <3>1, <3>2, <4>1, ReadListening
    <3>3. CASE ReadAt # chars_in_buffer
      <4>1. ReadAt = 0 /\ pos <= fault + READ_BUFFER_SIZE
        BY <1>1, <1>2, <3>1, <3>3
      <4> QED  BY <1>1, <1>3, <1>4, <2>1, <4>1
    <3> QED  BY <3>2, <3>3
  <2>4. CASE InStep
    <3>1. PICK p \in fault .. pos :
            /\ p + chars_in_buffer = pos
            /\ \A i \in 0 .. chars_in_buffer - 1 : buffer[i] = Stream[p + 1 + i]
            /\ p > fault => Stream[p] # CR
            /\ p <= fault + READ_BUFFER_SIZE \/ \E m \in 0 .. Len(Ends) : p = EndOf(m)
            /\ ParsedTo(p)
      BY <2>4 DEF InStep
    <3>2. DataInv /\ p \in Nat
      BY <1>1, <2>4 DEF InStep
    <3>3. chars_in_buffer < READ_BUFFER_SIZE
      BY <1>1, <1>2, <3>1, <3>2, InStepIsNotFull
    <3>4. ReadAt = chars_in_buffer
      BY <1>2, <3>2, <3>3 DEF DataInv
    <3>5. \A i \in 0 .. ReadAt - 1 : /\ buffer[i] = Stream[p + 1 + i]
                                     /\ buffer[i] # NUL
                                     /\ buffer[i] = CR => i + 1 < ReadAt /\ buffer[i + 1] = LF
      BY <3>1, <3>2, <3>4 DEF DataInv
    <3>6. p + ReadAt = pos
      BY <3>1, <3>4
    <3>7. InStep'
      BY <1>1, <3>1, <3>5, <3>6, ReadInStep
    <3> QED  BY <1>1, <1>3, <3>7
  <2> QED  BY <2>1, <2>2, <2>3, <2>4
<1> QED  BY <1>1, <1>5, <1>6

\* Where the first line end of the data is one that came since the fault, taking it
\* out leaves the data in step.
LEMMA TakeInStep ==
    ASSUME TypeOK, DataInv, TakeSentence, Stream[pos] # CR,
           chars_in_buffer - (pos - fault) <= Eos,
           \A i \in Eos .. chars_in_buffer - 1 : buffer[i] = Stream[pos - chars_in_buffer + 1 + i],
           \A j \in 1 .. Len(Ends) :
              EndOf(j) = pos - chars_in_buffer + Eos + 2 => ParsedTo(EndOf(j))'
    PROVE  InStep'
<1>1. /\ Eos \in Nat /\ Eos + 1 < chars_in_buffer /\ buffer[Eos] = CR
      /\ chars_in_buffer' = chars_in_buffer - (Eos + 2)
      /\ \A i \in 0 .. chars_in_buffer - (Eos + 2) : buffer'[i] = buffer[i + Eos + 2]
      /\ chars_in_buffer \in Nat /\ pos' = pos /\ fault' = fault
  <2>1. chars_in_buffer \in Nat
    BY EndsInOrder DEF DataInv
  <2>2. pos' = pos /\ fault' = fault
    BY DEF TakeSentence
  <2> QED  BY <2>1, <2>2, TakeInData
<1>2. pos \in Nat /\ fault \in Nat /\ fault <= pos /\ Len(Stream) \in Nat /\ pos <= Len(Stream)
  BY TypesOfVars DEF TypeOK
<1> DEFINE q == pos - chars_in_buffer + 1 + Eos
<1>3. q \in 1 .. Len(Stream) /\ q > fault /\ q + 1 <= pos
  BY <1>1, <1>2
<1>4. Stream[q] = CR
  <2>1. Eos \in Eos .. chars_in_buffer - 1
    BY <1>1
  <2> QED  BY <1>1, <2>1
<1> HIDE DEF q
<1>5. PICK j \in 1 .. Len(Ends) : EndOf(j) = q + 1
  BY <1>3, <1>4, CrEndsSentence
<1>6. EndOf(j) \in fault' .. pos' /\ EndOf(j) + chars_in_buffer' = pos' /\ EndOf(j) \in Nat
  <2>1. EndOf(j) = pos - chars_in_buffer + 2 + Eos
    BY <1>1, <1>2, <1>5 DEF q
  <2>2. EndOf(j) \in Nat /\ EndOf(j) > fault /\ EndOf(j) <= pos
    BY <1>2, <1>3, <1>5
  <2> QED  BY <1>1, <1>2, <2>1, <2>2
<1>7. ASSUME NEW i \in 0 .. chars_in_buffer' - 1
      PROVE  buffer'[i] = Stream[EndOf(j) + 1 + i]
  <2>1. /\ i \in 0 .. chars_in_buffer - (Eos + 2)
        /\ i + Eos + 2 \in Eos .. chars_in_buffer - 1
        /\ pos - chars_in_buffer + 1 + (i + Eos + 2) = EndOf(j) + 1 + i
    BY <1>1, <1>2, <1>5 DEF q
  <2>2. buffer'[i] = buffer[i + Eos + 2]
    BY <1>1, <2>1
  <2>3. buffer[i + Eos + 2] = Stream[pos - chars_in_buffer + 1 + (i + Eos + 2)]
    BY <2>1
  <2> QED  BY <2>1, <2>2, <2>3
<1>8. Stream[EndOf(j)] # CR
  <2>1. Stream[q + 1] = LF
    BY <1>3, <1>4, StreamType
  <2> QED  BY <1>5, <2>1 DEF CR, LF
<1>9. j \in 0 .. Len(Ends)
  BY EndsInOrder
<1>10. DataInv'
  BY TakeData
<1>11. EndOf(j) = pos - chars_in_buffer + Eos + 2
  BY <1>1, <1>2, <1>5 DEF q
<1>12. ParsedTo(EndOf(j))'
  BY <1>11
<1> QED  BY <1>6, <1>7, <1>8, <1>9, <1>10, <1>12 DEF InStep

\* What was parsed stays so.
LEMMA ParsedGrows ==
    ASSUME TypeOK, TakeSentence
    PROVE  /\ \A k : (\E i \in DOMAIN parsed : parsed[i] = k)
                        => \E i \in DOMAIN parsed' : parsed'[i] = k
           /\ Accepted # {} => \E i \in DOMAIN parsed' : parsed'[i] \in Accepted
<1>1. parsed \in Seq(DOMAIN Ends)
  BY DEF TypeOK
<1>2. CASE Accepted = {}
  BY <1>2 DEF TakeSentence
<1>3. CASE Accepted # {}
  <2> DEFINE a == CHOOSE k \in Accepted : TRUE
  <2>1. a \in Accepted /\ a \in DOMAIN Ends
    BY <1>3 DEF Accepted
  <2>2. parsed' = Append(parsed, a)
    BY <1>3 DEF TakeSentence
  <2> HIDE DEF a
  <2>3. /\ Len(parsed) \in Nat /\ DOMAIN parsed = 1 .. Len(parsed)
        /\ DOMAIN parsed' = 1 .. Len(parsed) + 1
        /\ parsed'[Len(parsed) + 1] = a
        /\ \A i \in 1 .. Len(parsed) : parsed'[i] = parsed[i]
    BY <1>1, <2>1, <2>2
  <2>4. ASSUME NEW k, NEW i \in DOMAIN parsed, parsed[i] = k
        PROVE  \E h \in DOMAIN parsed' : parsed'[h] = k
    <3>1. i \in DOMAIN parsed' /\ parsed'[i] = k
      BY <2>3, <2>4
    <3> QED  BY <3>1
  <2>5. Len(parsed) + 1 \in DOMAIN parsed'
    BY <2>3
  <2> QED  BY <2>1, <2>3, <2>4, <2>5
<1> QED  BY <1>2, <1>3

\* Where the data is in step, a sentence that begins late enough begins in it or is
\* parsed.
LEMMA LateSentence ==
    ASSUME TypeOK, NEW p \in Nat, p >= fault, p > fault => Stream[p] # CR,
           NEW k \in 1 .. Len(Ends), EndOf(k) > p, EndOf(k) > fault + 1
    PROVE  EndOf(k) - 1 > p
<1>1. EndOf(k) \in Nat /\ Stream[EndOf(k) - 1] = CR /\ fault \in Nat
  BY CrOfSentence DEF TypeOK
<1>2. CASE EndOf(k) - 1 = p
  <2>1. p > fault
    BY <1>1, <1>2
  <2> QED  BY <1>1, <1>2, <2>1
<1> QED  BY <1>1, <1>2

\* Arithmetic: a CR behind p and in front of the one at p + 1 + s.
LEMMA Between ==
    ASSUME NEW e \in Nat, NEW p \in Nat, NEW s \in Nat, NEW c \in Nat,
           e - 1 > p, e < p + s + 2, s + 1 < c
    PROVE  /\ e - 2 - p \in 0 .. c - 1 /\ e - 2 - p < s
           /\ p + 1 + (e - 2 - p) = e - 1
  OBVIOUS

\* The sentence that is taken, if it begins late enough, is the one that is parsed.
LEMMA TakeParses ==
    ASSUME TypeOK, DataInv, TakeSentence, NEW p \in Nat, p >= fault, p + chars_in_buffer = pos,
           \A i \in 0 .. chars_in_buffer - 1 : buffer[i] = Stream[p + 1 + i],
           p > fault => Stream[p] # CR,
           p <= fault + READ_BUFFER_SIZE \/ \E m \in 0 .. Len(Ends) : p = EndOf(m),
           ParsedTo(p),
           NEW j \in 1 .. Len(Ends), EndOf(j) = p + Eos + 2
    PROVE  ParsedTo(EndOf(j))'
<1>1. /\ Eos \in Nat /\ Eos + 1 < chars_in_buffer /\ buffer[Eos] = CR
      /\ \A i \in Crs : Eos <= i
      /\ chars_in_buffer \in Nat /\ fault' = fault /\ READ_BUFFER_SIZE \in Nat
      /\ fault \in Nat /\ DOMAIN Ends = 1 .. Len(Ends) /\ Len(Ends) \in Nat
  <2>1. chars_in_buffer \in Nat /\ READ_BUFFER_SIZE \in Nat
    BY EndsInOrder DEF DataInv
  <2>2. fault' = fault /\ fault \in Nat
    BY DEF TakeSentence, TypeOK
  <2>3. DOMAIN Ends = 1 .. Len(Ends) /\ Len(Ends) \in Nat
    BY EndsInOrder
  <2> QED  BY <2>1, <2>2, <2>3, TakeInData
<1>2. /\ EndOf(j) \in Nat /\ EndOf(j - 1) \in Nat /\ EndOf(j - 1) + 4 <= EndOf(j)
      /\ EndOf(j) <= EndOf(j - 1) + READ_BUFFER_SIZE /\ READ_BUFFER_SIZE >= 4
      /\ Span(j) = EndOf(j) - EndOf(j - 1)
  <2>1. /\ EndOf(j) \in Nat /\ EndOf(j - 1) \in Nat /\ EndOf(j - 1) + 4 <= EndOf(j)
        /\ EndOf(j) <= EndOf(j - 1) + READ_BUFFER_SIZE
    BY CrOfSentence
  <2>2. Span(j) = EndOf(j) - EndOf(j - 1)
    BY EndsInOrder
  <2> QED  BY <1>1, <2>1, <2>2
\* No other line end lies between p and the one that is taken.
<1>3. ASSUME NEW k \in 1 .. Len(Ends), EndOf(k) - 1 > p  PROVE EndOf(k) >= EndOf(j)
  <2>1. EndOf(k) \in Nat /\ Stream[EndOf(k) - 1] = CR
    BY CrOfSentence
  <2> SUFFICES ASSUME EndOf(k) < EndOf(j)  PROVE FALSE
    BY <1>2, <2>1
  <2>2. /\ EndOf(k) - 2 - p \in 0 .. chars_in_buffer - 1 /\ EndOf(k) - 2 - p < Eos
        /\ p + 1 + (EndOf(k) - 2 - p) = EndOf(k) - 1
    <3>1. /\ EndOf(k) \in Nat /\ p \in Nat /\ Eos \in Nat /\ chars_in_buffer \in Nat
          /\ EndOf(k) - 1 > p /\ EndOf(k) < p + Eos + 2 /\ Eos + 1 < chars_in_buffer
      BY <1>1, <1>3, <2>1
    <3> QED  BY <3>1, Between
  <2>3. buffer[EndOf(k) - 2 - p] = CR
    BY <2>1, <2>2
  <2>4. EndOf(k) - 2 - p \in Crs
    BY <2>2, <2>3, CrsInData
  <2> QED  BY <1>1, <2>1, <2>2, <2>4
<1>4. \A i, k \in 0 .. Len(Ends) : i <= k => EndOf(i) <= EndOf(k)
  BY EndsInOrder
<1>5. SUFFICES ASSUME NEW k \in 1 .. Len(Ends),
                      EndOf(k - 1) >= fault + READ_BUFFER_SIZE, EndOf(k) <= EndOf(j)
               PROVE  \E i \in DOMAIN parsed' : parsed'[i] = k
  BY <1>1 DEF ParsedTo
<1>6. EndOf(k) \in Nat /\ EndOf(k - 1) \in Nat /\ EndOf(k - 1) + 4 <= EndOf(k)
  BY CrOfSentence
<1>7. CASE EndOf(k) <= p
  <2>1. \E i \in DOMAIN parsed : parsed[i] = k
    BY <1>1, <1>5, <1>7 DEF ParsedTo
  <2> QED  BY <2>1, ParsedGrows
<1>8. CASE EndOf(k) > p
  <2>1. EndOf(k) - 1 > p
    BY <1>1, <1>5, <1>6, <1>8, LateSentence
  <2>2. EndOf(k) = EndOf(j)
    BY <1>2, <1>3, <1>5, <1>6, <2>1
  <2>3. k = j
    <3>1. k \in 0 .. Len(Ends) /\ j \in 0 .. Len(Ends) /\ k - 1 \in 0 .. Len(Ends)
          /\ j - 1 \in 0 .. Len(Ends) /\ k \in Nat /\ j \in Nat
      BY <1>1
    <3>2. CASE k < j
      <4>1. k <= j - 1
        BY <3>1, <3>2
      <4>2. EndOf(k) <= EndOf(j - 1)
        BY <1>4, <3>1, <4>1
      <4> QED  BY <1>2, <1>6, <2>2, <4>2
    <3>3. CASE j < k
      <4>1. j <= k - 1
        BY <3>1, <3>3
      <4>2. EndOf(j) <= EndOf(k - 1)
        BY <1>4, <3>1, <4>1
      <4> QED  BY <1>2, <1>6, <2>2, <4>2
    <3> QED  BY <3>1, <3>2, <3>3
  <2>4. EndOf(j - 1) = p
    <3>1. CASE \E m \in 0 .. Len(Ends) : p = EndOf(m)
      <4>1. PICK m \in 0 .. Len(Ends) : p = EndOf(m)
        BY <3>1
      <4>2. m < j
        <5>1. ~(EndOf(j) <= EndOf(m))
          BY <1>1, <1>2, <4>1
        <5>2. j \in 0 .. Len(Ends) /\ j \in Nat /\ m \in Nat
          BY <1>1
        <5> QED  BY <1>4, <4>1, <5>1, <5>2
      <4>3. m + 1 \in 1 .. Len(Ends) /\ (m + 1) - 1 = m /\ m \in Nat /\ j \in Nat
        BY <1>1, <4>2
      <4>4. /\ EndOf(m + 1) \in Nat /\ EndOf(m) + 4 <= EndOf(m + 1)
        <5>1. EndOf(m + 1) \in Nat /\ EndOf((m + 1) - 1) + 4 <= EndOf(m + 1)
          BY <4>3, CrOfSentence
        <5> QED  BY <4>3, <5>1
      <4>5. EndOf(m + 1) >= EndOf(j)
        BY <1>3, <4>1, <4>3, <4>4
      <4>6. m + 1 = j
        <5>1. CASE m + 1 <= j - 1
          <6>1. m + 1 \in 0 .. Len(Ends) /\ j - 1 \in 0 .. Len(Ends)
            BY <1>1, <4>3
          <6>2. EndOf(m + 1) <= EndOf(j - 1)
            BY <1>4, <5>1, <6>1
          <6> QED  BY <1>2, <4>4, <4>5, <6>2
        <5> QED  BY <4>2, <4>3, <5>1
      <4> QED  BY <4>1, <4>3, <4>6
    <3>2. CASE p <= fault + READ_BUFFER_SIZE
      <4>1. EndOf(j - 1) >= fault + READ_BUFFER_SIZE /\ p <= EndOf(j - 1)
        BY <1>1, <1>2, <1>5, <2>3, <3>2
      <4>2. CASE p < EndOf(j - 1)
        <5>1. j - 1 \in 1 .. Len(Ends)
          <6>1. j # 1
            BY <1>1, <1>2, <4>1, EndsInOrder
          <6> QED  BY <1>1, <6>1
        <5>2. EndOf(j - 1) > fault + 1
          BY <1>1, <1>2, <4>1
        <5>3. EndOf(j - 1) - 1 > p
          BY <4>2, <5>1, <5>2, LateSentence
        <5>4. EndOf(j - 1) >= EndOf(j)
          BY <1>3, <5>1, <5>3
        <5> QED  BY <1>2, <5>4
      <4> QED  BY <1>2, <4>1, <4>2
    <3> QED  BY <3>1, <3>2
  <2>5. Eos = Span(j) - 2
    BY <1>1, <1>2, <2>4
  <2>6. j \in Accepted
    <3>1. \A i \in 0 .. Eos - 1 : i \in 0 .. chars_in_buffer - 1
      BY <1>1
    <3>2. \A i \in 0 .. Eos - 1 : buffer[i] = Stream[EndOf(j - 1) + 1 + i]
      BY <2>4, <3>1
    <3> QED  BY <1>1, <2>5, <3>2 DEF Accepted
  <2>7. PICK i \in DOMAIN parsed' : parsed'[i] \in Accepted
    BY <2>6, ParsedGrows
  <2>8. parsed'[i] = buffer[1] /\ j = buffer[1]
    BY <2>6, <2>7, AcceptedIsInFront
  <2> QED  BY <2>3, <2>8
<1> QED  BY <1>2, <1>6, <1>7, <1>8

\* So does the loop, and to data in step.
LEMMA TakeRecovers ==
    ASSUME TypeOK, Recovering, TakeSentence
    PROVE  Recovering'
<1>1. /\ pos' = pos /\ fault' = fault /\ pos \in Nat /\ fault \in Nat /\ fault <= pos
      /\ Crs # {} /\ ~crashed
  BY TypesOfVars DEF TakeSentence, TypeOK
<1> SUFFICES ASSUME pos > fault
             PROVE  ~crashed' /\ Stream[pos] # CR /\ InStep'
  BY <1>1 DEF Recovering
<1>2. Stream[pos] # CR /\ (Listening \/ InStep)
  BY <1>1 DEF Recovering, Deaf
<1>3. DataInv
  BY <1>2 DEF Listening, InStep
<1>4. /\ Eos \in Nat /\ Eos + 1 < chars_in_buffer /\ buffer[Eos] = CR /\ crashed' = crashed
      /\ chars_in_buffer \in Nat /\ chars_in_buffer <= READ_BUFFER_SIZE
      /\ READ_BUFFER_SIZE \in Nat
  <2>1. /\ chars_in_buffer \in Nat /\ chars_in_buffer <= READ_BUFFER_SIZE
        /\ READ_BUFFER_SIZE \in Nat
    BY <1>3, EndsInOrder DEF DataInv
  <2> QED  BY <1>3, <2>1, TakeInData
<1>5. CASE Listening
  <2>1. /\ pos - fault <= chars_in_buffer
        /\ \A i \in 0 .. chars_in_buffer - 1 :
              IF i < chars_in_buffer - (pos - fault) THEN buffer[i] # CR
              ELSE buffer[i] = Stream[pos - chars_in_buffer + 1 + i]
    BY <1>5 DEF Listening
  <2>2. chars_in_buffer - (pos - fault) <= Eos
    <3>1. Eos \in 0 .. chars_in_buffer - 1
      BY <1>4
    <3>2. ~(Eos < chars_in_buffer - (pos - fault))
      BY <1>4, <2>1, <3>1
    <3> QED  BY <1>1, <1>4, <3>2
  <2>3. \A i \in Eos .. chars_in_buffer - 1 : buffer[i] = Stream[pos - chars_in_buffer + 1 + i]
    <3>1. \A i \in Eos .. chars_in_buffer - 1 :
             i \in 0 .. chars_in_buffer - 1 /\ ~(i < chars_in_buffer - (pos - fault))
      BY <1>1, <1>4, <2>2
    <3> QED  BY <2>1, <3>1
  <2>4. ASSUME NEW j \in 1 .. Len(Ends), EndOf(j) = pos - chars_in_buffer + Eos + 2
        PROVE  ParsedTo(EndOf(j))'
    <3>1. EndOf(j) \in Nat
      BY CrOfSentence
    <3>2. EndOf(j) <= fault + READ_BUFFER_SIZE
      BY <1>1, <1>4, <2>1, <2>4
    <3> QED  BY <1>1, <3>1, <3>2, NoneSoFar DEF ParsedTo
  <2> QED  BY <1>1, <1>2, <1>3, <1>4, <2>2, <2>3, <2>4, TakeInStep
<1>6. CASE InStep
  <2>1. PICK p \in fault .. pos :
          /\ p + chars_in_buffer = pos
          /\ \A i \in 0 .. chars_in_buffer - 1 : buffer[i] = Stream[p + 1 + i]
          /\ p > fault => Stream[p] # CR
          /\ p <= fault + READ_BUFFER_SIZE \/ \E m \in 0 .. Len(Ends) : p = EndOf(m)
          /\ ParsedTo(p)
    BY <1>6 DEF InStep
  <2>2. p \in Nat /\ p >= fault /\ pos - chars_in_buffer = p
    BY <1>1, <1>4, <2>1
  <2>3. chars_in_buffer - (pos - fault) <= Eos
    BY <1>1, <1>4, <2>1, <2>2
  <2>4. \A i \in Eos .. chars_in_buffer - 1 : buffer[i] = Stream[pos - chars_in_buffer + 1 + i]
    <3>1. \A i \in Eos .. chars_in_buffer - 1 : i \in 0 .. chars_in_buffer - 1
      BY <1>4
    <3> QED  BY <2>1, <2>2, <3>1
  <2>5. ASSUME NEW j \in 1 .. Len(Ends), EndOf(j) = pos - chars_in_buffer + Eos + 2
        PROVE  ParsedTo(EndOf(j))'
    <3>1. EndOf(j) = p + Eos + 2
      BY <2>2, <2>5
    <3> QED  BY <1>3, <2>1, <2>2, <2>5, <3>1, TakeParses
  <2> QED  BY <1>1, <1>2, <1>3, <1>4, <2>3, <2>4, <2>5, TakeInStep
<1> QED  BY <1>1, <1>2, <1>4, <1>5, <1>6

LEMMA InitRecovers == Init => Recovering
  BY DEF Init, Recovering

LEMMA StepRecovers == TypeOK /\ Recovering /\ [Next]_vars => Recovering'
<1> SUFFICES ASSUME TypeOK, Recovering, [Next]_vars  PROVE Recovering'
  OBVIOUS
<1>1. CASE Reads
  BY <1>1, ReadRecovers DEF Reads
<1>2. CASE TakeSentence
  BY <1>2, TakeRecovers
<1>3. CASE UNCHANGED vars
  <2>1. Deaf => Deaf'
    BY <1>3 DEF Deaf, Crs, vars
  <2>2. Listening => Listening'
    BY <1>3 DEF Listening, DataInv, vars
  <2>3. InStep => InStep'
    BY <1>3 DEF InStep, ParsedTo, DataInv, vars
  <2> QED  BY <1>3, <2>1, <2>2, <2>3 DEF Recovering, vars
<1> QED  BY <1>1, <1>2, <1>3 DEF Next

LEMMA TakeIsWhole ==
    ASSUME IInv, TakeSentence, splits = 0
    PROVE  crashed' = crashed
<1>1. TypeOK /\ NulInv
  BY DEF IInv
<1>2. PICK z \in 0 .. chars_in_buffer :
        /\ buffer[z] = NUL
        /\ \A i \in 0 .. z - 1 : buffer[i] # NUL /\ (buffer[i] = CR => i + 1 < z)
  BY <1>1 DEF NulInv
<1>3. /\ Eos \in 0 .. READ_BUFFER_SIZE /\ buffer[Eos] = CR
      /\ \A j \in 0 .. Eos : buffer[j] # NUL
      /\ SentenceLength \in {Eos + 1, Eos + 2}
  BY <1>1, EosIsFirst DEF TakeSentence
<1>4. READ_BUFFER_SIZE \in Nat /\ chars_in_buffer \in Int /\ z \in Nat /\ z <= chars_in_buffer
  BY <1>1, <1>2, TypesOfVars
<1>5. Eos \in Nat /\ Eos + 1 < z
  <2>1. z \notin 0 .. Eos
    BY <1>2, <1>3
  <2>2. Eos \in 0 .. z - 1
    BY <1>3, <1>4, <2>1
  <2> QED  BY <1>2, <1>3, <1>4, <2>2
<1>6. Moved \in Nat
  BY <1>3, <1>4, <1>5 DEF Moved
<1> QED  BY <1>1, <1>6, TakeMoves

\* What goes wrong with a split line end goes wrong at once: the parser that has read
\* on does not crash later (gypsy-nmea-parser.c:128-136).
THEOREM CrashIsPrompt == Spec => []CrashFollowsSplit
<1>1. IInv /\ Recovering /\ CrashFollowsSplit /\ [Next]_vars => CrashFollowsSplit'
  <2> SUFFICES ASSUME IInv, Recovering, CrashFollowsSplit, [Next]_vars
               PROVE  CrashFollowsSplit'
    OBVIOUS
  <2>1. splits \in Nat /\ pos \in Nat /\ fault \in Nat /\ fault <= pos
    BY FramingAssumption, TypesOfVars DEF IInv, TypeOK
  <2>2. CASE Reads
    BY <2>2 DEF Reads, Read, CrashFollowsSplit
  <2>3. CASE TakeSentence
    <3>1. pos' = pos /\ fault' = fault /\ splits' = splits /\ ~crashed
      BY <2>3 DEF TakeSentence
    <3>2. splits = 0 => ~crashed'
      BY <2>3, <3>1, TakeIsWhole
    <3>3. pos > fault => ~crashed'
      BY <2>3, <3>1, TakeRecovers DEF IInv, Recovering
    <3> QED  BY <2>1, <3>1, <3>2, <3>3 DEF CrashFollowsSplit
  <2>4. CASE UNCHANGED vars
    BY <2>4 DEF CrashFollowsSplit, vars
  <2> QED  BY <2>2, <2>3, <2>4 DEF Next
<1>2. Init => CrashFollowsSplit
  BY DEF Init, CrashFollowsSplit
<1>3. IInv => TypeOK
  BY DEF IInv
<1> QED  BY <1>1, <1>2, <1>3, InitIInv, StepIInv, InitRecovers, StepRecovers, PTL DEF Spec

\* Whatever a disturbed read leaves in the buffer, a NUL in the middle of the data or a
\* count that wrapped around: either memmove has crashed on a line end split by the last
\* read, or a sentence that begins a buffer-full behind the last disturbed read, or later,
\* is parsed when the loop has come to rest (gypsy-nmea-parser.c:75-156).
THEOREM SilenceIsShort == Spec => []LossIsBounded
<1>1. TypeOK /\ Recovering /\ CrashFollowsSplit => LossIsBounded
  <2> SUFFICES ASSUME TypeOK, Recovering, ~crashed, Crs = {}, NEW k \in Complete,
                      EndOf(k - 1) >= fault + READ_BUFFER_SIZE
               PROVE  \E i \in DOMAIN parsed : parsed[i] = k
    BY DEF LossIsBounded
  <2>1. /\ k \in 1 .. Len(Ends) /\ EndOf(k) <= pos /\ pos \in Nat /\ fault \in Nat
        /\ DOMAIN Ends = 1 .. Len(Ends) /\ READ_BUFFER_SIZE \in Nat
    BY EndsInOrder, TypesOfVars DEF Complete, TypeOK
  <2>2. /\ EndOf(k) \in Nat /\ EndOf(k - 1) \in Nat /\ EndOf(k - 1) + 4 <= EndOf(k)
        /\ Stream[EndOf(k) - 1] = CR
    BY <2>1, CrOfSentence
  <2>3. pos > fault + READ_BUFFER_SIZE
    BY <2>1, <2>2
  <2>4. Deaf \/ Listening \/ InStep
    BY <2>1, <2>3 DEF Recovering
  <2>5. ~Deaf /\ ~Listening
    <3>1. chars_in_buffer <= READ_BUFFER_SIZE /\ chars_in_buffer \in Int
      BY <2>1 DEF TypeOK
    <3>2. ~(pos - fault <= chars_in_buffer)
      BY <2>1, <2>3, <3>1
    <3> QED  BY <3>2 DEF Deaf, Listening
  <2>6. PICK p \in fault .. pos :
          /\ p + chars_in_buffer = pos
          /\ \A i \in 0 .. chars_in_buffer - 1 : buffer[i] = Stream[p + 1 + i]
          /\ p > fault => Stream[p] # CR
          /\ ParsedTo(p)
    BY <2>4, <2>5 DEF InStep
  <2>7. DataInv /\ chars_in_buffer \in Nat /\ p \in Nat /\ p >= fault
    BY <2>1, <2>4, <2>5, <2>6 DEF InStep, DataInv
  <2>8. CASE EndOf(k) <= p
    BY <2>1, <2>6, <2>8 DEF ParsedTo
  <2>9. CASE EndOf(k) > p
    <3>1. EndOf(k) > fault + 1
      BY <2>1, <2>2
    <3>2. EndOf(k) - 1 > p
      BY <2>1, <2>6, <2>7, <2>9, <3>1, LateSentence
    <3>3. /\ EndOf(k) - 2 - p \in 0 .. chars_in_buffer - 1
          /\ p + 1 + (EndOf(k) - 2 - p) = EndOf(k) - 1
      <4>1. EndOf(k) < p + chars_in_buffer + 2 /\ chars_in_buffer + 1 < chars_in_buffer + 2
        BY <2>1, <2>2, <2>6, <2>7
      <4>2. EndOf(k) - 2 - p < chars_in_buffer /\ EndOf(k) - 2 - p \in 0 .. chars_in_buffer + 1
            /\ p + 1 + (EndOf(k) - 2 - p) = EndOf(k) - 1
        BY <2>2, <2>7, <3>2, <4>1, Between
      <4> QED  BY <2>7, <4>2
    <3>4. buffer[EndOf(k) - 2 - p] = CR
      BY <2>2, <2>6, <3>3
    <3> QED  BY <2>7, <3>3, <3>4, CrsInData
  <2> QED  BY <2>1, <2>2, <2>7, <2>8, <2>9
<1>2. Init => TypeOK /\ Recovering
  BY InitTypes, InitRecovers
<1>3. TypeOK /\ Recovering /\ [Next]_vars => (TypeOK /\ Recovering)'
  BY StepTypes, StepRecovers
<1> QED  BY <1>1, <1>2, <1>3, CrashIsPrompt, PTL DEF Spec

-----------------------------------------------------------------------------
(* The fields of a sentence (NmeaFields).  What a loop computes is a function  *)
(* on the naturals, given by what it begins with and what one turn does.       *)

\* The first n + 1 values of what begins with v and goes on by g.
Start(V, v, g, n) ==
    {h \in [0 .. n -> V] : h[0] = v /\ \A i \in 1 .. n : h[i] = g[h[i - 1]]}

\* There is one way to go on.
LEMMA StartsAgree ==
    ASSUME NEW V, NEW v \in V, NEW g \in [V -> V], NEW m \in Nat, NEW n \in Nat,
           NEW h \in Start(V, v, g, m), NEW k \in Start(V, v, g, n),
           NEW i \in 0 .. m, i \in 0 .. n
    PROVE  h[i] = k[i]
<1> DEFINE I == {x \in 0 .. m : x \in 0 .. n /\ h[x] # k[x]}
<1> SUFFICES ASSUME I # {}  PROVE FALSE
  OBVIOUS
<1>1. PICK x \in I : \A y \in I : x <= y
  <2>1. I \in SUBSET Nat
    OBVIOUS
  <2> HIDE DEF I
  <2> QED  BY <2>1, LeastOf
<1>2. x \in Nat /\ x <= m /\ x <= n /\ h[x] # k[x]
  OBVIOUS
<1>3. x # 0
  BY <1>2 DEF Start
<1>4. x - 1 \in 0 .. m /\ x - 1 \in 0 .. n /\ x \in 1 .. m /\ x \in 1 .. n /\ ~(x <= x - 1)
  BY <1>2, <1>3
<1>5. h[x - 1] = k[x - 1]
  BY <1>1, <1>4
<1>6. h[x] = g[h[x - 1]] /\ k[x] = g[k[x - 1]]
  BY <1>4 DEF Start
<1> QED  BY <1>2, <1>5, <1>6

\* And there is one.
LEMMA StartsExist ==
    ASSUME NEW V, NEW v \in V, NEW g \in [V -> V], NEW n \in Nat
    PROVE  Start(V, v, g, n) # {}
<1> DEFINE I == {x \in Nat : Start(V, v, g, x) = {}}
<1> SUFFICES ASSUME I # {}  PROVE FALSE
  OBVIOUS
<1>1. PICK x \in I : \A y \in I : x <= y
  <2>1. I \in SUBSET Nat
    OBVIOUS
  <2> HIDE DEF I
  <2> QED  BY <2>1, LeastOf
<1>2. x \in Nat /\ Start(V, v, g, x) = {}
  OBVIOUS
<1>3. x # 0
  <2> SUFFICES ASSUME x = 0  PROVE FALSE
    OBVIOUS
  <2>1. [i \in 0 .. x |-> v] \in Start(V, v, g, x)
    BY DEF Start
  <2> QED  BY <1>2, <2>1
<1>4. x - 1 \in Nat /\ ~(x <= x - 1)
  BY <1>2, <1>3
<1>5. Start(V, v, g, x - 1) # {}
  BY <1>1, <1>4
<1>6. PICK h \in Start(V, v, g, x - 1) : TRUE
  BY <1>5
<1>7. /\ h \in [0 .. x - 1 -> V] /\ h[0] = v
      /\ \A i \in 1 .. x - 1 : h[i] = g[h[i - 1]]
  BY DEF Start
<1> DEFINE k == [i \in 0 .. x |-> IF i = x THEN g[h[x - 1]] ELSE h[i]]
<1>8. x - 1 \in 0 .. x - 1 /\ 0 \in 0 .. x - 1 /\ h[x - 1] \in V
  BY <1>4, <1>7
<1>9. \A i \in 0 .. x : i # x => i \in 0 .. x - 1
  BY <1>2
<1>10. k \in [0 .. x -> V]
  BY <1>7, <1>8, <1>9
<1>11. k[0] = v
  BY <1>3, <1>4, <1>7
<1>12. ASSUME NEW i \in 1 .. x  PROVE k[i] = g[k[i - 1]]
  <2>1. i - 1 \in 0 .. x /\ i \in 0 .. x /\ i - 1 # x
    BY <1>2
  <2>2. CASE i = x
    BY <2>1, <2>2
  <2>3. CASE i # x
    <3>1. i \in 1 .. x - 1
      BY <1>2, <2>3
    <3> QED  BY <1>7, <2>1, <2>3, <3>1
  <2> QED  BY <2>2, <2>3
<1> HIDE DEF k
<1>13. k \in Start(V, v, g, x)
  BY <1>10, <1>11, <1>12 DEF Start
<1> QED  BY <1>2, <1>13

\* What begins with v and goes on by g is a function on the naturals.
Iterates(V, v, g) ==
    \E f \in [Nat -> V] : f[0] = v /\ \A n \in Nat : f[n + 1] = g[f[n]]

LEMMA Iteration ==
    ASSUME NEW V, NEW v \in V, NEW g \in [V -> V]
    PROVE  Iterates(V, v, g)
<1> DEFINE h(n) == CHOOSE x \in Start(V, v, g, n) : TRUE
           f == [n \in Nat |-> h(n)[n]]
<1>1. ASSUME NEW n \in Nat  PROVE h(n) \in Start(V, v, g, n)
  BY StartsExist
<1> HIDE DEF h
<1>2. \A n \in Nat : h(n)[n] \in V
  <2> SUFFICES ASSUME NEW n \in Nat  PROVE h(n)[n] \in V
    OBVIOUS
  <2>1. n \in 0 .. n
    OBVIOUS
  <2> QED  BY <1>1, <2>1 DEF Start
<1>3. h(0)[0] = v
  BY <1>1 DEF Start
<1>4. ASSUME NEW n \in Nat  PROVE h(n + 1)[n + 1] = g[h(n)[n]]
  <2>1. n + 1 \in 1 .. n + 1 /\ (n + 1) - 1 = n /\ n \in 0 .. n /\ n \in 0 .. n + 1 /\ n + 1 \in Nat
    OBVIOUS
  <2>2. h(n + 1)[n + 1] = g[h(n + 1)[n]]
    BY <1>1, <2>1 DEF Start
  <2>3. h(n + 1)[n] = h(n)[n]
    BY <1>1, <2>1, StartsAgree
  <2> QED  BY <2>2, <2>3
<1>5. f \in [Nat -> V]
  BY <1>2
<1>6. f[0] = v /\ \A n \in Nat : f[n + 1] = g[f[n]]
  BY <1>3, <1>4
<1> HIDE DEF f
<1> QED  BY <1>5, <1>6 DEF Iterates

\* A text is a sequence of characters.
Texts == Seq(Int)

\* The first of some characters, or the end of the text.
LEMMA FirstFromIs ==
    ASSUME NEW text \in Texts, NEW b \in 1 .. Len(text) + 1, NEW characters,
           NEW e, e = FirstFrom(text, b, characters)
    PROVE  /\ e \in b .. Len(text) + 1
           /\ e = Len(text) + 1 \/ text[e] \in characters
           /\ \A i \in b .. e - 1 : text[i] \notin characters
<1> DEFINE I == {x \in b .. Len(text) + 1 : x = Len(text) + 1 \/ text[x] \in characters}
<1>1. Len(text) \in Nat /\ b \in Nat
  BY DEF Texts
<1>2. Len(text) + 1 \in I /\ I \in SUBSET Nat
  BY <1>1
<1>3. PICK x \in I : \A y \in I : x <= y
  <2> HIDE DEF I
  <2> QED  BY <1>2, LeastOf
<1>4. ASSUME NEW i \in b .. x - 1  PROVE text[i] \notin characters
  <2>1. i \in b .. Len(text) + 1 /\ ~(x <= i)
    BY <1>1
  <2> QED  BY <1>3, <2>1
<1>5. /\ x \in b .. Len(text) + 1
      /\ x = Len(text) + 1 \/ text[x] \in characters
  OBVIOUS
<1> HIDE DEF I
<1>6. \E z \in b .. Len(text) + 1 :
        /\ z = Len(text) + 1 \/ text[z] \in characters
        /\ \A i \in b .. z - 1 : text[i] \notin characters
  BY <1>4, <1>5
<1> QED  BY <1>6 DEF FirstFrom

\* One turn of the loop.
EndAt(text, b) == FirstFrom(text, b, {DELIMITER})
FieldAt(text, b) == SubSeq(text, b, EndAt(text, b) - 1)

\* It ends a field in front of the next comma.
LEMMA EndAtIs ==
    ASSUME NEW text \in Texts, NEW b \in 1 .. Len(text) + 1
    PROVE  /\ EndAt(text, b) \in b .. Len(text) + 1
           /\ EndAt(text, b) = Len(text) + 1 \/ text[EndAt(text, b)] = DELIMITER
           /\ \A i \in b .. EndAt(text, b) - 1 : text[i] # DELIMITER
           /\ FieldAt(text, b) \in Texts
<1>1. /\ EndAt(text, b) \in b .. Len(text) + 1
      /\ EndAt(text, b) = Len(text) + 1 \/ text[EndAt(text, b)] \in {DELIMITER}
      /\ \A i \in b .. EndAt(text, b) - 1 : text[i] \notin {DELIMITER}
  BY FirstFromIs DEF EndAt
<1>2. FieldAt(text, b) \in Texts
  <2>1. Len(text) \in Nat /\ \A i \in 1 .. Len(text) : text[i] \in Int
    BY DEF Texts
  <2>2. \A i \in b .. EndAt(text, b) - 1 : i \in 1 .. Len(text)
    BY <1>1, <2>1
  <2>3. \A i \in b .. EndAt(text, b) - 1 : text[i] \in Int
    BY <2>1, <2>2
  <2> QED  BY <1>1, <2>1, <2>3, SubSeqProperties DEF FieldAt, Texts
<1> QED  BY <1>1, <1>2

\* The recursive definition is a definition: the fields found with room for one more
\* are those of one turn and those found behind it.
LEMMA FieldsUnfold ==
    ASSUME NEW text \in Texts, NEW b \in 1 .. Len(text) + 1
    PROVE  /\ FieldsFrom(text)[0][b] = << >>
           /\ \A r \in Nat :
                /\ FieldsFrom(text)[r][b] \in Seq(Texts)
                /\ FieldsFrom(text)[r + 1][b] =
                    IF b = Len(text) + 1 THEN << >>
                    ELSE << FieldAt(text, b) >> \o
                        (IF EndAt(text, b) = Len(text) + 1 THEN << >>
                         ELSE IF EndAt(text, b) = Len(text) THEN << << >> >>
                         ELSE FieldsFrom(text)[r][EndAt(text, b) + 1])
<1> DEFINE n == Len(text)
           D == 1 .. n + 1
           V == [D -> Seq(Texts)]
           v == [x \in D |-> << >>]
           Turn(w, x) ==
             IF x = n + 1 THEN << >>
             ELSE << FieldAt(text, x) >> \o
                        (IF EndAt(text, x) = n + 1 THEN << >>
                         ELSE IF EndAt(text, x) = n THEN << << >> >>
                         ELSE w[EndAt(text, x) + 1])
           g == [w \in V |-> [x \in D |-> Turn(w, x)]]
           Fix(f) == f = [room \in Nat |->
              [x \in D |->
                    IF x = n + 1 \/ room = 0 THEN << >>
                    ELSE << FieldAt(text, x) >> \o
                       (CASE EndAt(text, x) = n + 1 -> << >>
                          [] EndAt(text, x) = n -> << << >> >>
                          [] OTHER -> f[room - 1][EndAt(text, x) + 1])]]
<1>1. n \in Nat
  BY DEF Texts
<1>2. v \in V
  OBVIOUS
<1>3. ASSUME NEW w \in V, NEW x \in D  PROVE Turn(w, x) \in Seq(Texts)
  <2>1. /\ EndAt(text, x) \in x .. n + 1 /\ FieldAt(text, x) \in Texts
    BY EndAtIs
  <2>2. << FieldAt(text, x) >> \in Seq(Texts) /\ << << >> >> \in Seq(Texts) /\ << >> \in Seq(Texts)
    BY <2>1 DEF Texts
  <2>3. EndAt(text, x) # n + 1 => EndAt(text, x) + 1 \in D
    BY <1>1, <2>1
  <2>4. EndAt(text, x) # n + 1 => w[EndAt(text, x) + 1] \in Seq(Texts)
    BY <2>3
  <2> QED  BY <2>2, <2>4
<1> HIDE DEF Turn
<1>4. g \in [V -> V]
  BY <1>3
<1>5. PICK f \in [Nat -> V] : f[0] = v /\ \A k \in Nat : f[k + 1] = g[f[k]]
  <2> HIDE DEF g, V, v, D, n, Fix
  <2>1. Iterates(V, v, g)
    BY <1>2, <1>4, Iteration
  <2> QED  BY <2>1 DEF Iterates
<1>6. Fix(f)
  <2> DEFINE F == [room \in Nat |->
              [x \in D |->
                    IF x = n + 1 \/ room = 0 THEN << >>
                    ELSE << FieldAt(text, x) >> \o
                       (CASE EndAt(text, x) = n + 1 -> << >>
                          [] EndAt(text, x) = n -> << << >> >>
                          [] OTHER -> f[room - 1][EndAt(text, x) + 1])]]
  <2>1. ASSUME NEW room \in Nat  PROVE f[room] = F[room]
    <3>1. CASE room = 0
      BY <1>5, <3>1
    <3>2. CASE room # 0
      <4>1. room - 1 \in Nat /\ (room - 1) + 1 = room
        BY <3>2
      <4>2. f[room] = g[f[room - 1]] /\ f[room - 1] \in V
        BY <1>5, <4>1
      <4>3. f[room] = [x \in D |-> Turn(f[room - 1], x)]
        BY <4>2
      <4>4. ASSUME NEW x \in D  PROVE Turn(f[room - 1], x) = F[room][x]
        BY <3>2 DEF Turn
      <4> QED  BY <4>3, <4>4
    <3> QED  BY <3>1, <3>2
  <2> QED  BY <1>5, <2>1
<1>7. FieldsFrom(text) = CHOOSE h : Fix(h)
  BY DEF FieldsFrom, FieldAt, EndAt
<1> HIDE DEF Fix
<1>8. Fix(FieldsFrom(text))
  BY <1>6, <1>7
<1> USE DEF Fix
<1> DEFINE h == FieldsFrom(text)
<1> HIDE DEF h
<1>9. h[0] = v
  <2>1. h[0] = [x \in D |-> << >>]
    BY <1>8 DEF h
  <2> QED  BY <2>1
<1>10. \A k \in Nat : h[k] \in V => h[k + 1] = [x \in D |-> Turn(h[k], x)]
  <2> SUFFICES ASSUME NEW k \in Nat, h[k] \in V
               PROVE  h[k + 1] = [x \in D |-> Turn(h[k], x)]
    OBVIOUS
  <2>1. k + 1 \in Nat /\ k + 1 # 0 /\ (k + 1) - 1 = k
    OBVIOUS
  <2>2. h[k + 1] = [y \in D |->
                    IF y = n + 1 \/ k + 1 = 0 THEN << >>
                    ELSE << FieldAt(text, y) >> \o
                       (CASE EndAt(text, y) = n + 1 -> << >>
                          [] EndAt(text, y) = n -> << << >> >>
                          [] OTHER -> h[(k + 1) - 1][EndAt(text, y) + 1])]
    BY <1>8, <2>1 DEF h
  <2> QED  BY <2>1, <2>2 DEF Turn
<1> DEFINE I == {k \in Nat : h[k] # f[k]}
<1>11. I = {}
  <2> SUFFICES ASSUME I # {}  PROVE FALSE
    OBVIOUS
  <2>1. PICK k \in I : \A y \in I : k <= y
    <3>1. I \in SUBSET Nat
      OBVIOUS
    <3> HIDE DEF I
    <3> QED  BY <3>1, LeastOf
  <2>2. k \in Nat /\ h[k] # f[k]
    OBVIOUS
  <2>3. k # 0
    BY <1>5, <1>9, <2>2
  <2>4. k - 1 \in Nat /\ (k - 1) + 1 = k /\ ~(k <= k - 1)
    BY <2>2, <2>3
  <2>5. h[k - 1] = f[k - 1] /\ f[k - 1] \in V
    BY <1>5, <2>1, <2>4
  <2>6. h[k] = [x \in D |-> Turn(f[k - 1], x)]
    BY <1>10, <2>4, <2>5
  <2>7. f[k] = g[f[k - 1]]
    BY <1>5, <2>4
  <2>8. g[f[k - 1]] = [x \in D |-> Turn(f[k - 1], x)]
    BY <2>5
  <2> QED  BY <2>2, <2>6, <2>7, <2>8
<1>12. \A k \in Nat : h[k] \in V
  BY <1>5, <1>11
<1>13. b \in D
  OBVIOUS
<1>14. /\ h[0][b] = << >>
       /\ \A r \in Nat : h[r][b] \in Seq(Texts) /\ h[r + 1][b] = Turn(h[r], b)
  BY <1>9, <1>10, <1>12, <1>13
<1> QED  BY <1>14 DEF Turn, h

\* The fields are what lies between cuts, where the cuts are the place in front of the
\* first character, commas, one after the other, and the end of the text: as many as
\* there is room for, and one more only if that one is the blank behind the last comma.
Cuts(text, b, room, fields, cut) ==
    /\ cut \in [0 .. Len(fields) -> 0 .. Len(text) + 1]
    /\ cut[0] = b - 1
    /\ \A k \in 1 .. Len(fields) :
          /\ cut[k - 1] < cut[k]
          /\ fields[k] = SubSeq(text, cut[k - 1] + 1, cut[k] - 1)
          /\ \A i \in cut[k - 1] + 1 .. cut[k] - 1 : text[i] # DELIMITER
          /\ cut[k] = Len(text) + 1 \/ text[cut[k]] = DELIMITER
    /\ Len(fields) < room => b = Len(text) + 1 \/ cut[Len(fields)] = Len(text) + 1
    /\ Len(fields) = room /\ room > 0 => cut[room] # Len(text)
    /\ Len(fields) > room => /\ Len(fields) = room + 1 /\ room > 0
                             /\ cut[room] = Len(text) /\ cut[room + 1] = Len(text) + 1
                             /\ fields[room + 1] = << >>

\* Nothing is left, or there is no room.
LEMMA NoCuts ==
    ASSUME NEW text \in Texts, NEW b \in 1 .. Len(text) + 1, NEW room \in Nat,
           room = 0 \/ b = Len(text) + 1
    PROVE  \E cut : Cuts(text, b, room, << >>, cut)
<1> DEFINE cut == [i \in 0 .. 0 |-> b - 1]
<1>1. Len(text) \in Nat /\ Len(<< >>) = 0
  BY DEF Texts
<1>2. Cuts(text, b, room, << >>, cut)
  BY <1>1 DEF Cuts
<1> HIDE DEF cut
<1> QED  BY <1>2

\* The field that reaches to the end.
LEMMA LastCut ==
    ASSUME NEW text \in Texts, NEW b \in 1 .. Len(text), NEW room \in Nat, room > 0,
           EndAt(text, b) = Len(text) + 1
    PROVE  \E cut : Cuts(text, b, room, << FieldAt(text, b) >>, cut)
<1> DEFINE cut == [i \in 0 .. 1 |-> IF i = 0 THEN b - 1 ELSE Len(text) + 1]
           fields == << FieldAt(text, b) >>
<1>1. Len(text) \in Nat /\ Len(fields) = 1 /\ fields[1] = FieldAt(text, b)
  BY DEF Texts
<1>2. /\ EndAt(text, b) \in b .. Len(text) + 1
      /\ \A i \in b .. EndAt(text, b) - 1 : text[i] # DELIMITER
  BY <1>1, EndAtIs
<1>3. cut \in [0 .. Len(fields) -> 0 .. Len(text) + 1] /\ cut[0] = b - 1 /\ cut[1] = Len(text) + 1
  BY <1>1
<1> HIDE DEF cut, fields
<1>4. ASSUME NEW k \in 1 .. Len(fields)
      PROVE  /\ cut[k - 1] < cut[k]
             /\ fields[k] = SubSeq(text, cut[k - 1] + 1, cut[k] - 1)
             /\ \A i \in cut[k - 1] + 1 .. cut[k] - 1 : text[i] # DELIMITER
             /\ cut[k] = Len(text) + 1 \/ text[cut[k]] = DELIMITER
  <2>1. k = 1
    BY <1>1
  <2>2. cut[k - 1] + 1 = b /\ cut[k] - 1 = EndAt(text, b) - 1
    BY <1>1, <1>3, <2>1
  <2> QED  BY <1>1, <1>2, <1>3, <2>1, <2>2 DEF FieldAt
<1>5. Cuts(text, b, room, fields, cut)
  BY <1>1, <1>3, <1>4 DEF Cuts
<1> QED  BY <1>5 DEF fields

\* The blank field behind the last comma.
LEMMA BlankCut ==
    ASSUME NEW text \in Texts, NEW b \in 1 .. Len(text), NEW room \in Nat, room > 0,
           EndAt(text, b) = Len(text)
    PROVE  \E cut : Cuts(text, b, room, << FieldAt(text, b) >> \o << << >> >>, cut)
<1> DEFINE cut == [i \in 0 .. 2 |-> IF i = 0 THEN b - 1 ELSE Len(text) + i - 1]
           fields == << FieldAt(text, b) >> \o << << >> >>
<1>1. /\ Len(text) \in Nat /\ b \in Nat /\ Len(fields) = 2
      /\ fields[1] = FieldAt(text, b) /\ fields[2] = << >>
  BY DEF Texts
<1>2. /\ b <= Len(text)
      /\ text[Len(text)] = DELIMITER
      /\ \A i \in b .. Len(text) - 1 : text[i] # DELIMITER
  <2>1. b \in 1 .. Len(text) + 1 /\ Len(text) # Len(text) + 1 /\ b <= Len(text)
    BY <1>1
  <2>2. /\ EndAt(text, b) = Len(text) + 1 \/ text[EndAt(text, b)] = DELIMITER
        /\ \A i \in b .. EndAt(text, b) - 1 : text[i] # DELIMITER
    BY <2>1, EndAtIs
  <2> QED  BY <2>1, <2>2
<1>3. /\ cut \in [0 .. Len(fields) -> 0 .. Len(text) + 1]
      /\ cut[0] = b - 1 /\ cut[1] = Len(text) /\ cut[2] = Len(text) + 1
  BY <1>1
<1> HIDE DEF cut, fields
<1>4. ASSUME NEW k \in 1 .. Len(fields)
      PROVE  /\ cut[k - 1] < cut[k]
             /\ fields[k] = SubSeq(text, cut[k - 1] + 1, cut[k] - 1)
             /\ \A i \in cut[k - 1] + 1 .. cut[k] - 1 : text[i] # DELIMITER
             /\ cut[k] = Len(text) + 1 \/ text[cut[k]] = DELIMITER
  <2>1. CASE k = 1
    <3>1. cut[k - 1] = b - 1 /\ cut[k] = Len(text) /\ (b - 1) + 1 = b /\ b - 1 < Len(text)
      BY <1>1, <1>2, <1>3, <2>1
    <3>2. fields[k] = SubSeq(text, b, Len(text) - 1)
      BY <1>1, <2>1 DEF FieldAt
    <3> QED  BY <1>2, <3>1, <3>2
  <2>2. CASE k = 2
    <3>1. k - 1 = 1 /\ cut[k - 1] = Len(text) /\ cut[k] = Len(text) + 1
      BY <1>3, <2>2
    <3>2. SubSeq(text, Len(text) + 1, (Len(text) + 1) - 1) = << >>
      BY <1>1, SubSeqProperties DEF Texts
    <3>3. Len(text) + 1 .. (Len(text) + 1) - 1 = {} /\ Len(text) < Len(text) + 1
      BY <1>1
    <3>4. fields[k] = << >>
      BY <1>1, <2>2
    <3> QED  BY <3>1, <3>2, <3>3, <3>4
  <2> QED  BY <1>1, <2>1, <2>2
<1>5. /\ Len(fields) < room => cut[Len(fields)] = Len(text) + 1
      /\ Len(fields) = room /\ room > 0 => cut[room] # Len(text)
      /\ Len(fields) > room => /\ Len(fields) = room + 1 /\ room > 0
                             /\ cut[room] = Len(text) /\ cut[room + 1] = Len(text) + 1
                             /\ fields[room + 1] = << >>
  <2>1. CASE room = 1  BY <1>1, <1>3, <2>1
  <2>2. CASE room = 2  BY <1>1, <1>3, <2>2
  <2>3. CASE room > 2  BY <1>1, <1>3, <2>3
  <2> QED  BY <2>1, <2>2, <2>3
<1>6. Cuts(text, b, room, fields, cut)
  BY <1>3, <1>4, <1>5 DEF Cuts
<1> QED  BY <1>6 DEF fields

\* A field in front of fields.
LEMMA OneMoreCut ==
    ASSUME NEW text \in Texts, NEW b \in 1 .. Len(text), NEW room \in Nat,
           NEW e \in 1 .. Len(text) - 1, e = EndAt(text, b),
           NEW rest \in Seq(Texts), NEW tail, Cuts(text, e + 1, room, rest, tail)
    PROVE  \E cut : Cuts(text, b, room + 1, << FieldAt(text, b) >> \o rest, cut)
<1> DEFINE cut == [i \in 0 .. Len(rest) + 1 |-> IF i = 0 THEN b - 1 ELSE tail[i - 1]]
           fields == << FieldAt(text, b) >> \o rest
<1>1. /\ Len(text) \in Nat /\ b \in Nat /\ Len(rest) \in Nat
      /\ Len(fields) = Len(rest) + 1
      /\ fields[1] = FieldAt(text, b)
      /\ \A k \in 1 .. Len(rest) : fields[k + 1] = rest[k]
  BY EndAtIs DEF Texts
<1>2. /\ e \in b .. Len(text) /\ text[e] = DELIMITER
      /\ \A i \in b .. e - 1 : text[i] # DELIMITER
  BY <1>1, EndAtIs
<1>3. /\ tail \in [0 .. Len(rest) -> 0 .. Len(text) + 1] /\ tail[0] = e
      /\ \A k \in 1 .. Len(rest) :
          /\ tail[k - 1] < tail[k]
          /\ rest[k] = SubSeq(text, tail[k - 1] + 1, tail[k] - 1)
          /\ \A i \in tail[k - 1] + 1 .. tail[k] - 1 : text[i] # DELIMITER
          /\ tail[k] = Len(text) + 1 \/ text[tail[k]] = DELIMITER
      /\ Len(rest) < room => e + 1 = Len(text) + 1 \/ tail[Len(rest)] = Len(text) + 1
      /\ Len(rest) = room /\ room > 0 => tail[room] # Len(text)
      /\ Len(rest) > room => /\ Len(rest) = room + 1 /\ room > 0
                             /\ tail[room] = Len(text) /\ tail[room + 1] = Len(text) + 1
                             /\ rest[room + 1] = << >>
  BY <1>1 DEF Cuts
<1>4. /\ cut[0] = b - 1
      /\ \A i \in 1 .. Len(rest) + 1 : cut[i] = tail[i - 1] /\ i - 1 \in 0 .. Len(rest)
  BY <1>1
<1>5. cut \in [0 .. Len(fields) -> 0 .. Len(text) + 1]
  <2>1. \A i \in 0 .. Len(rest) + 1 : i # 0 => i - 1 \in 0 .. Len(rest)
    BY <1>1
  <2> QED  BY <1>1, <1>3, <2>1
<1> HIDE DEF cut, fields
<1>6. ASSUME NEW k \in 1 .. Len(fields)
      PROVE  /\ cut[k - 1] < cut[k]
             /\ fields[k] = SubSeq(text, cut[k - 1] + 1, cut[k] - 1)
             /\ \A i \in cut[k - 1] + 1 .. cut[k] - 1 : text[i] # DELIMITER
             /\ cut[k] = Len(text) + 1 \/ text[cut[k]] = DELIMITER
  <2>1. CASE k = 1
    <3>1. cut[k - 1] = b - 1 /\ cut[k] = e /\ cut[k - 1] + 1 = b
      BY <1>1, <1>3, <1>4, <2>1
    <3> QED  BY <1>1, <1>2, <2>1, <3>1 DEF FieldAt
  <2>2. CASE k # 1
    <3>1. k - 1 \in 1 .. Len(rest) /\ k \in 1 .. Len(rest) + 1 /\ k - 1 \in 1 .. Len(rest) + 1
          /\ (k - 1) + 1 = k
      BY <1>1, <2>2
    <3>2. cut[k - 1] = tail[(k - 1) - 1] /\ cut[k] = tail[k - 1] /\ fields[k] = rest[k - 1]
      BY <1>1, <1>4, <3>1
    <3> QED  BY <1>3, <3>1, <3>2
  <2> QED  BY <2>1, <2>2
<1>7. Len(fields) < room + 1 => b = Len(text) + 1 \/ cut[Len(fields)] = Len(text) + 1
  <2>1. Len(rest) + 1 \in 1 .. Len(rest) + 1 /\ (Len(rest) + 1) - 1 = Len(rest)
    BY <1>1
  <2>2. cut[Len(rest) + 1] = tail[Len(rest)]
    BY <1>4, <2>1
  <2>3. e + 1 # Len(text) + 1 /\ (Len(rest) + 1 < room + 1 => Len(rest) < room)
    BY <1>1
  <2>4. Len(rest) < room => tail[Len(rest)] = Len(text) + 1
    BY <1>3, <2>3
  <2> QED  BY <1>1, <2>2, <2>3, <2>4
<1>8. Len(fields) = room + 1 => cut[room + 1] # Len(text)
  <2> SUFFICES ASSUME Len(rest) = room  PROVE cut[room + 1] # Len(text)
    BY <1>1
  <2>1. room + 1 \in 1 .. Len(rest) + 1 /\ (room + 1) - 1 = room
    BY <1>1
  <2>2. cut[room + 1] = tail[room]
    BY <1>4, <2>1
  <2>3. CASE room = 0
    BY <1>3, <2>2, <2>3
  <2>4. CASE room > 0
    BY <1>3, <2>2, <2>4
  <2> QED  BY <2>3, <2>4
<1>9. Len(fields) > room + 1 =>
         /\ Len(fields) = (room + 1) + 1
         /\ cut[room + 1] = Len(text) /\ cut[(room + 1) + 1] = Len(text) + 1
         /\ fields[(room + 1) + 1] = << >>
  <2> SUFFICES ASSUME Len(rest) > room
               PROVE  /\ Len(rest) = room + 1
                      /\ cut[room + 1] = Len(text) /\ cut[(room + 1) + 1] = Len(text) + 1
                      /\ fields[(room + 1) + 1] = << >>
    BY <1>1
  <2>1. Len(rest) = room + 1
    BY <1>3
  <2>2. /\ room + 1 \in 1 .. Len(rest) + 1 /\ (room + 1) - 1 = room
        /\ (room + 1) + 1 \in 1 .. Len(rest) + 1 /\ ((room + 1) + 1) - 1 = room + 1
        /\ room + 1 \in 1 .. Len(rest)
    BY <2>1
  <2>3. cut[room + 1] = tail[room] /\ cut[(room + 1) + 1] = tail[room + 1]
    BY <1>4, <2>2
  <2>4. fields[(room + 1) + 1] = rest[room + 1]
    BY <1>1, <2>2
  <2> QED  BY <1>3, <2>1, <2>3, <2>4
<1>10. room + 1 > 0
  OBVIOUS
<1>11. Cuts(text, b, room + 1, fields, cut)
  BY <1>4, <1>5, <1>6, <1>7, <1>8, <1>9, <1>10 DEF Cuts
<1> QED  BY <1>11 DEF fields

\* From any place on, with any room.
LEMMA FieldsAreCut ==
    ASSUME NEW text \in Texts, NEW room \in Nat, NEW b \in 1 .. Len(text) + 1
    PROVE  \E cut : Cuts(text, b, room, FieldsFrom(text)[room][b], cut)
<1> DEFINE Good(r) == \A x \in 1 .. Len(text) + 1 :
                         \E cut : Cuts(text, x, r, FieldsFrom(text)[r][x], cut)
           I == {r \in Nat : ~Good(r)}
<1> SUFFICES ASSUME I # {}  PROVE FALSE
  OBVIOUS
<1>1. PICK r \in I : \A y \in I : r <= y
  <2>1. I \in SUBSET Nat
    OBVIOUS
  <2> HIDE DEF I
  <2> QED  BY <2>1, LeastOf
<1>2. r \in Nat /\ ~Good(r)
  OBVIOUS
<1>3. r # 0
  <2> SUFFICES ASSUME r = 0, NEW x \in 1 .. Len(text) + 1
               PROVE  \E cut : Cuts(text, x, r, FieldsFrom(text)[r][x], cut)
    BY <1>2
  <2>1. FieldsFrom(text)[r][x] = << >>
    BY FieldsUnfold
  <2> QED  BY <2>1, NoCuts
<1>4. r - 1 \in Nat /\ (r - 1) + 1 = r /\ r > 0 /\ ~(r <= r - 1)
  BY <1>2, <1>3
<1>5. Good(r - 1)
  <2>1. r - 1 \notin I
    BY <1>1, <1>4
  <2> QED  BY <1>4, <2>1
<1> HIDE DEF I
<1>6. ASSUME NEW x \in 1 .. Len(text) + 1
      PROVE  \E cut : Cuts(text, x, r, FieldsFrom(text)[r][x], cut)
  <2> DEFINE e == EndAt(text, x)
             rest == FieldsFrom(text)[r - 1][e + 1]
  <2>1. FieldsFrom(text)[r][x] =
          IF x = Len(text) + 1 THEN << >>
          ELSE << FieldAt(text, x) >> \o
                 (IF e = Len(text) + 1 THEN << >>
                  ELSE IF e = Len(text) THEN << << >> >>
                  ELSE rest)
    <3>1. FieldsFrom(text)[(r - 1) + 1][x] =
          IF x = Len(text) + 1 THEN << >>
          ELSE << FieldAt(text, x) >> \o
                 (IF e = Len(text) + 1 THEN << >>
                  ELSE IF e = Len(text) THEN << << >> >>
                  ELSE rest)
      BY <1>4, FieldsUnfold
    <3> QED  BY <1>4, <3>1
  <2>2. Len(text) \in Nat /\ e \in x .. Len(text) + 1
    BY EndAtIs DEF Texts
  <2> HIDE DEF e, rest
  <2>3. CASE x = Len(text) + 1
    BY <1>4, <2>1, <2>3, NoCuts
  <2>4. CASE x # Len(text) + 1 /\ e = Len(text) + 1
    <3>1. x \in 1 .. Len(text)
      BY <2>2, <2>4
    <3>2. FieldsFrom(text)[r][x] = << FieldAt(text, x) >>
      <4>1. << FieldAt(text, x) >> \o << >> = << FieldAt(text, x) >>
        OBVIOUS
      <4> QED  BY <2>1, <2>4, <4>1
    <3> QED  BY <1>4, <2>4, <3>1, <3>2, LastCut DEF e
  <2>5. CASE x # Len(text) + 1 /\ e = Len(text)
    <3>1. x \in 1 .. Len(text) /\ Len(text) # Len(text) + 1
      BY <2>2, <2>5
    <3>2. FieldsFrom(text)[r][x] = << FieldAt(text, x) >> \o << << >> >>
      BY <2>1, <2>5, <3>1
    <3> QED  BY <1>4, <2>5, <3>1, <3>2, BlankCut DEF e
  <2>6. CASE x # Len(text) + 1 /\ e # Len(text) + 1 /\ e # Len(text)
    <3>1. x \in 1 .. Len(text) /\ e \in 1 .. Len(text) - 1 /\ e + 1 \in 1 .. Len(text) + 1
      BY <2>2, <2>6
    <3>2. FieldsFrom(text)[r][x] = << FieldAt(text, x) >> \o rest
      BY <2>1, <2>6
    <3>3. rest \in Seq(Texts)
      BY <1>4, <3>1, FieldsUnfold DEF rest
    <3>4. PICK tail : Cuts(text, e + 1, r - 1, rest, tail)
      BY <1>5, <3>1 DEF rest
    <3>5. \E cut : Cuts(text, x, (r - 1) + 1, << FieldAt(text, x) >> \o rest, cut)
      BY <1>4, <3>1, <3>3, <3>4, OneMoreCut DEF e
    <3> QED  BY <1>4, <3>2, <3>5
  <2> QED  BY <2>3, <2>4, <2>5, <2>6
<1> QED  BY <1>2, <1>6

\* Whatever the text and however many fields are asked for: the fields that are found
\* are those the commas separate, none is left out while there is room, and one more
\* than there is room for is found exactly when it is blank (nmea-parser.c:49-87).
THEOREM SplitFindsFields ==
    ASSUME NEW text \in Texts, NEW room \in Nat
    PROVE  \E cut : Cuts(text, 1, room, split_sentence(text, room), cut)
<1>1. 1 \in 1 .. Len(text) + 1
  BY DEF Texts
<1> QED  BY <1>1, FieldsAreCut DEF split_sentence

\* The parser of a GSV sentence reads no field that was not found, however many there
\* are: it takes a sentence only with whole satellites (nmea-parser.c:304-345).
THEOREM GsvReadsWhatWasFound ==
    ASSUME NEW field_count \in Nat, parse_gsv(field_count)
    PROVE  GsvReads(field_count) \subseteq 0 .. field_count - 1
<1>1. PICK q \in Int : field_count = 4 * q + 3
  BY DEF parse_gsv
<1>2. field_count >= 3
  BY <1>1
<1>3. ASSUME NEW i \in GSV_FIRST_SAT .. GSV_LAST_SAT, (i - GSV_FIRST_SAT) % 4 = 0, i < field_count
      PROVE  i .. i + 3 \subseteq 0 .. field_count - 1
  <2>1. PICK p \in 0 .. 3 : i = 4 * p + 3
    <3>1. i \in Nat /\ 3 <= i /\ i <= 15 /\ (i - 3) % 4 = 0
      BY <1>3 DEF GSV_FIRST_SAT, GSV_LAST_SAT
    <3>2. i \in {3, 7, 11, 15}
      BY <3>1
    <3>3. i = 4 * 0 + 3 \/ i = 4 * 1 + 3 \/ i = 4 * 2 + 3 \/ i = 4 * 3 + 3
      BY <3>2
    <3> QED  BY <3>3
  <2>2. p < q
    BY <1>1, <1>3, <2>1
  <2>3. i + 3 <= field_count - 1 /\ i >= 0
    BY <1>1, <1>3, <2>1, <2>2 DEF GSV_FIRST_SAT, GSV_LAST_SAT
  <2> QED  BY <2>1, <2>3
<1> QED  BY <1>2, <1>3 DEF GsvReads
=============================================================================
