-------------------------- MODULE SatellitesProofs --------------------------
(***************************************************************************)
(* The collecting of satellites for any skies, any length of a sentence and   *)
(* of the arrays, and any bounds on losses and restarts.                     *)
(***************************************************************************)
EXTENDS Satellites, SequenceTheorems, TLAPS

-----------------------------------------------------------------------------
(* The lists a receiver describes, and how sentences divide them.            *)

Pairs(s) == {<<s[i][1], s[i][2]>> : i \in 1 .. Len(s)}

LEMMA SkyIsSeq ==
    ASSUME NEW s \in Skies
    PROVE  /\ Len(s) \in Nat /\ Len(s) >= 1 /\ Len(s) <= MAX_SAT_SVID
           /\ DOMAIN s = 1 .. Len(s)
           /\ \A i \in 1 .. Len(s) : s[i] = <<s[i][1], s[i][2]>>
           /\ MAX_SAT_SVID \in Nat
<1>1. /\ Len(s) \in 1 .. MAX_SAT_SVID
      /\ s = [i \in 1 .. Len(s) |-> <<s[i][1], s[i][2]>>]
  BY SkiesAssumption
<1>2. MAX_SAT_SVID \in Nat
  BY SizesAssumption
<1>3. Len(s) \in Nat /\ Len(s) >= 1 /\ Len(s) <= MAX_SAT_SVID
  BY <1>1, <1>2
<1>4. DOMAIN s = 1 .. Len(s) /\ \A i \in 1 .. Len(s) : s[i] = <<s[i][1], s[i][2]>>
  BY <1>1, Zenon
<1> QED  BY <1>2, <1>3, <1>4

\* A quotient rounded up.
LEMMA Ceiling ==
    ASSUME NEW a \in Nat, NEW b \in Nat \ {0}, a >= 1
    PROVE  LET q == (a + b - 1) \div b
           IN  q \in Nat /\ q >= 1 /\ (q - 1) * b < a /\ a <= q * b
<1> DEFINE q == (a + b - 1) \div b
<1>1. q \in Int /\ q * b <= a + b - 1 /\ a + b - 1 < q * b + b
  OBVIOUS
<1> HIDE DEF q
<1>2. (q - 1) * b = q * b - b
  BY <1>1
<1>3. (q - 1) * b < a /\ a <= q * b
  BY <1>1, <1>2
<1>4. q <= 0 => q * b <= 0
  BY <1>1
<1>5. q >= 1
  BY <1>1, <1>3, <1>4
<1> QED  BY <1>1, <1>3, <1>5 DEF q

LEMMA Multiples ==
    ASSUME NEW i \in Int, NEW j \in Int, NEW b \in Nat, i <= j
    PROVE  i * b \in Int /\ j * b \in Int /\ i * b <= j * b
<1>1. (j - i) * b >= 0
  OBVIOUS
<1>2. (j - i) * b = j * b - i * b
  OBVIOUS
<1> QED  BY <1>1, <1>2

LEMMA Product ==
    ASSUME NEW i \in Nat, NEW b \in Nat  PROVE i * b \in Nat
OBVIOUS

LEMMA NextMultiple ==
    ASSUME NEW i \in Int, NEW b \in Nat
    PROVE  i * b \in Int /\ (i - 1) * b = i * b - b /\ (i + 1) * b = i * b + b
OBVIOUS

\* The sentences of a group are full but for the last, which is not empty.
LEMMA SentencesOfSky ==
    ASSUME NEW s \in Skies
    PROVE  /\ Sentences(s) \in Nat /\ Sentences(s) >= 1
           /\ \A i \in Nat : i <= Sentences(s) => (i - 1) * PerSentence < Len(s)
           /\ \A i \in Nat : i < Sentences(s) => i * PerSentence < Len(s)
           /\ Len(s) <= Sentences(s) * PerSentence
<1>1. Len(s) \in Nat /\ Len(s) >= 1 /\ PerSentence \in Nat \ {0}
  BY SkyIsSeq, SizesAssumption
<1>2. /\ Sentences(s) \in Nat /\ Sentences(s) >= 1
      /\ (Sentences(s) - 1) * PerSentence < Len(s)
      /\ Len(s) <= Sentences(s) * PerSentence
  BY <1>1, Ceiling DEF Sentences
<1>3. ASSUME NEW i \in Nat, i <= Sentences(s)
      PROVE  (i - 1) * PerSentence < Len(s)
  <2>1. (i - 1) * PerSentence \in Int
        /\ (Sentences(s) - 1) * PerSentence \in Int
        /\ (i - 1) * PerSentence <= (Sentences(s) - 1) * PerSentence
    <3>1. i - 1 \in Int /\ Sentences(s) - 1 \in Int /\ i - 1 <= Sentences(s) - 1
          /\ PerSentence \in Nat
      BY <1>1, <1>2, <1>3
    <3> QED  BY <3>1, Multiples
  <2> QED  BY <1>1, <1>2, <2>1
<1>4. ASSUME NEW i \in Nat, i < Sentences(s)
      PROVE  i * PerSentence < Len(s)
  <2>1. i + 1 \in Nat /\ i + 1 <= Sentences(s)
    BY <1>2, <1>4
  <2>2. (i + 1 - 1) * PerSentence < Len(s)
    BY <1>3, <2>1
  <2> QED  BY <2>2
<1> QED  BY <1>2, <1>3, <1>4

\* What one sentence of a group says.
LEMMA PartOfSky ==
    ASSUME NEW s \in Skies, NEW i \in Nat, i >= 1, i <= Sentences(s)
    PROVE  LET first == (i - 1) * PerSentence
               last == IF i * PerSentence < Len(s) THEN i * PerSentence ELSE Len(s)
           IN  /\ Part(s, i) \in Seq(Pairs(s))
               /\ first \in Nat /\ last \in Nat /\ last >= first /\ last <= Len(s)
               /\ Len(Part(s, i)) = last - first
               /\ \A j \in 1 .. last - first :
                     /\ Part(s, i)[j] = s[first + j]
                     /\ Part(s, i)[j][1] = s[first + j][1]
                     /\ Part(s, i)[j][2] = s[first + j][2]
<1> DEFINE first == (i - 1) * PerSentence
           last == IF i * PerSentence < Len(s) THEN i * PerSentence ELSE Len(s)
<1>1. Len(s) \in Nat /\ \A j \in 1 .. Len(s) : s[j] = <<s[j][1], s[j][2]>>
  BY SkyIsSeq
<1>2. PerSentence \in Nat /\ PerSentence >= 1
  BY SizesAssumption
<1>3. first < Len(s)
  BY SentencesOfSky
<1>4. i * PerSentence \in Int /\ first = i * PerSentence - PerSentence
  BY <1>2, NextMultiple
<1>5. first \in Nat
  <2>1. 0 * PerSentence \in Int /\ first \in Int /\ 0 * PerSentence <= first
    <3>1. 0 \in Int /\ i - 1 \in Int /\ 0 <= i - 1
      OBVIOUS
    <3> QED  BY <3>1, <1>2, Multiples
  <2>2. 0 * PerSentence = 0
    BY <1>2
  <2> QED  BY <2>1, <2>2
<1>6. last \in Nat /\ last > first /\ last <= Len(s)
  BY <1>1, <1>2, <1>3, <1>4, <1>5
<1>7. Part(s, i) = SubSeq(s, first + 1, last)
  BY DEF Part
<1> HIDE DEF first, last
<1>8. \A j \in first + 1 .. last : s[j] \in Pairs(s)
  <2> TAKE j \in first + 1 .. last
  <2>1. j \in 1 .. Len(s)
    BY <1>1, <1>5, <1>6
  <2>2. s[j] = <<s[j][1], s[j][2]>>
    BY <1>1, <2>1
  <2> QED  BY <2>1, <2>2, Zenon DEF Pairs
<1>9. /\ Part(s, i) \in Seq(Pairs(s))
      /\ Len(Part(s, i)) = last - first
      /\ \A j \in 1 .. last - first : Part(s, i)[j] = s[first + j]
  <2>1. first + 1 \in Int /\ last \in Int /\ first + 1 <= last
    BY <1>5, <1>6
  <2>2. /\ SubSeq(s, first + 1, last) \in Seq(Pairs(s))
        /\ Len(SubSeq(s, first + 1, last)) = last - (first + 1) + 1
        /\ \A j \in 1 .. last - (first + 1) + 1 :
              SubSeq(s, first + 1, last)[j] = s[first + 1 + j - 1]
    BY <2>1, <1>8, SubSeqProperties
  <2>3. last - (first + 1) + 1 = last - first
    BY <1>5, <1>6
  <2>4. \A j \in 1 .. last - first : first + 1 + j - 1 = first + j
    BY <1>5, <1>6
  <2> QED  BY <1>7, <2>2, <2>3, <2>4
<1>10. /\ Part(s, i) \in Seq(Pairs(s))
       /\ first \in Nat /\ last \in Nat /\ last >= first /\ last <= Len(s)
       /\ Len(Part(s, i)) = last - first
       /\ \A j \in 1 .. last - first :
             /\ Part(s, i)[j] = s[first + j]
             /\ Part(s, i)[j][1] = s[first + j][1]
             /\ Part(s, i)[j][2] = s[first + j][2]
  BY <1>5, <1>6, <1>9
<1> QED  BY <1>10 DEF first, last

\* Setting the flags changes neither the number nor the order of the satellites.
LEMMA FlaggedPart ==
    ASSUME NEW s \in Skies, NEW part \in Seq(Pairs(s)), NEW ids
    PROVE  /\ Flagged(part, ids) \in Seq(Satellite)
           /\ Len(Flagged(part, ids)) = Len(part)
           /\ \A i \in 1 .. Len(part) : /\ Flagged(part, ids)[i][1] = part[i][1]
                                        /\ Flagged(part, ids)[i][2] = part[i][2]
<1>1. Len(part) \in Nat /\ DOMAIN part = 1 .. Len(part)
      /\ \A i \in 1 .. Len(part) : part[i] \in Pairs(s)
  OBVIOUS
<1>2. DOMAIN s = 1 .. Len(s)
  BY SkyIsSeq
<1>3. ASSUME NEW i \in 1 .. Len(part)
      PROVE  <<part[i][1], part[i][2], part[i][1] \in ids>> \in Satellite
  <2>1. PICK j \in 1 .. Len(s) : part[i] = <<s[j][1], s[j][2]>>
    BY <1>1, <1>3 DEF Pairs
  <2>2. part[i][1] = s[j][1] /\ part[i][2] = s[j][2]
    BY <2>1
  <2> DEFINE used == part[i][1] \in ids
  <2>3. used \in BOOLEAN
    OBVIOUS
  <2> HIDE DEF used
  <2>4. <<s[j][1], s[j][2], used>> \in Satellite
    <3>1. j \in DOMAIN s
      BY <1>2
    <3> QED  BY <2>3, <3>1, SMT DEF Satellite
  <2>5. <<part[i][1], part[i][2], used>> \in Satellite
    BY <2>2, <2>4
  <2> QED  BY <2>5 DEF used
<1>4. Flagged(part, ids) =
         [i \in 1 .. Len(part) |-> <<part[i][1], part[i][2], part[i][1] \in ids>>]
  BY <1>1, Zenon DEF Flagged
<1>5. Flagged(part, ids) \in [1 .. Len(part) -> Satellite]
  BY <1>3, <1>4, Zenon
<1>6. Flagged(part, ids) \in Seq(Satellite) /\ Len(Flagged(part, ids)) = Len(part)
  BY <1>1, <1>5
<1>7. \A i \in 1 .. Len(part) : /\ Flagged(part, ids)[i][1] = part[i][1]
                                /\ Flagged(part, ids)[i][2] = part[i][2]
  <2> TAKE i \in 1 .. Len(part)
  <2> DEFINE used == part[i][1] \in ids
  <2>1. Flagged(part, ids)[i] = <<part[i][1], part[i][2], used>>
    BY <1>4, Zenon
  <2> HIDE DEF used
  <2> QED  BY <2>1
<1> QED  BY <1>6, <1>7

-----------------------------------------------------------------------------
(* The types.  The count of the current list is only a number so far: that it *)
(* keeps to the arrays needs the lengths below.                              *)

ContextTypeOK ==
    /\ parser \in {"nmea", "garmin"}
    /\ message_count \in Nat
    /\ number_of_messages \in Nat
    /\ in_use \in InUseSets \cup {{}}

ClientTypeOK ==
    /\ new_satellites \in Seq(Satellite)
    /\ satellites \in [1 .. MAX_SAT_SVID -> Satellite \cup {Zero}]
    /\ sat_count \in Nat
    /\ emitted \in BOOLEAN

DeviceTypeOK ==
    /\ sky \in Skies
    /\ next \in Nat \ {0}
    /\ burst \in 0 .. MaxBurst
    /\ restarts \in 0 .. MaxRestarts

HistoryTypeOK == pending \in 0 .. restarts /\ groupLost \in BOOLEAN

Types == ContextTypeOK /\ ClientTypeOK /\ DeviceTypeOK /\ HistoryTypeOK

\* What the arrays get, from a group of sentences or a record.
LEMMA ListType ==
    ASSUME Types, next <= Sentences(sky)
    PROVE  /\ Collected \in Seq(Satellite) /\ List \in Seq(Satellite)
           /\ Len(Collected) \in Nat /\ Len(List) \in Nat
           /\ Len(List) = Len(Collected) + Len(Part(sky, next))
           /\ \A i \in 1 .. Len(Collected) : List[i] = Collected[i]
           /\ \A i \in 1 .. Len(Part(sky, next)) :
                 /\ List[Len(Collected) + i][1] = Part(sky, next)[i][1]
                 /\ List[Len(Collected) + i][2] = Part(sky, next)[i][2]
<1>1. /\ new_satellites \in Seq(Satellite) /\ sky \in Skies /\ next \in Nat /\ next >= 1
  BY DEF Types, ClientTypeOK, DeviceTypeOK
<1>2. Collected \in Seq(Satellite)
  BY <1>1 DEF Collected
<1> DEFINE part == Flagged(Part(sky, next), in_use)
<1>3. /\ Part(sky, next) \in Seq(Pairs(sky))
      /\ Len(Part(sky, next)) \in Nat
  BY <1>1, PartOfSky
<1>4. /\ part \in Seq(Satellite)
      /\ Len(part) = Len(Part(sky, next))
      /\ \A i \in 1 .. Len(Part(sky, next)) : /\ part[i][1] = Part(sky, next)[i][1]
                                              /\ part[i][2] = Part(sky, next)[i][2]
  BY <1>1, <1>3, FlaggedPart
<1> HIDE DEF part
<1>5. /\ Collected \o part \in Seq(Satellite)
      /\ Len(Collected \o part) = Len(Collected) + Len(part)
      /\ \A i \in 1 .. Len(Collected) + Len(part) : (Collected \o part)[i] =
                IF i <= Len(Collected) THEN Collected[i] ELSE part[i - Len(Collected)]
  <2>1. part \in Seq(Satellite)
    BY <1>4
  <2> QED  BY <1>2, <2>1, ConcatProperties, Zenon
<1>6. Len(Collected) \in Nat
  BY <1>2
<1>7. List = Collected \o part
  BY DEF List, part
<1>8. \A i \in 1 .. Len(Collected) : List[i] = Collected[i]
  BY <1>3, <1>4, <1>5, <1>6, <1>7
<1>9. \A i \in 1 .. Len(part) : List[Len(Collected) + i] = part[i]
  <2> TAKE i \in 1 .. Len(part)
  <2>1. /\ Len(Collected) + i \in 1 .. Len(Collected) + Len(part)
        /\ ~(Len(Collected) + i <= Len(Collected))
        /\ Len(Collected) + i - Len(Collected) = i
    BY <1>3, <1>4, <1>6
  <2> QED  BY <1>5, <1>7, <2>1
<1>10. Len(List) \in Nat /\ Len(List) = Len(Collected) + Len(Part(sky, next))
  BY <1>3, <1>4, <1>5, <1>6, <1>7
<1> QED  BY <1>2, <1>4, <1>5, <1>6, <1>7, <1>8, <1>9, <1>10

LEMMA RecordType ==
    ASSUME Types
    PROVE  LET record == Flagged(sky, Ids)
           IN  /\ record \in Seq(Satellite)
               /\ Len(record) = Len(sky)
               /\ \A i \in 1 .. Len(sky) : /\ record[i][1] = sky[i][1]
                                           /\ record[i][2] = sky[i][2]
<1>1. sky \in Skies
  BY DEF Types, DeviceTypeOK
<1>2. sky \in Seq(Pairs(sky))
  <2>1. /\ Len(sky) \in Nat
        /\ sky = [i \in 1 .. Len(sky) |-> <<sky[i][1], sky[i][2]>>]
    BY <1>1, SkyIsSeq, SkiesAssumption
  <2>2. [i \in 1 .. Len(sky) |-> <<sky[i][1], sky[i][2]>>]
           \in [1 .. Len(sky) -> Pairs(sky)]
    BY Zenon DEF Pairs
  <2> DEFINE n == Len(sky)
  <2>3. n \in Nat /\ sky \in [1 .. n -> Pairs(sky)]
    BY <2>1, <2>2, Zenon
  <2> HIDE DEF n
  <2> QED  BY <2>3
<1> QED  BY <1>1, <1>2, FlaggedPart

\* The copying of a list that does not fit leaves the array an array of satellites.
LEMMA SetSatellitesType ==
    ASSUME Types, NEW list \in Seq(Satellite), SetSatellites(list)
    PROVE  ClientTypeOK'
<1>1. new_satellites' \in Seq(Satellite)
  BY DEF SetSatellites
<1>2. sat_count' \in Nat
  BY DEF SetSatellites
<1>3. emitted' \in BOOLEAN
  BY DEF SetSatellites, Differs
<1>4. satellites' \in [1 .. MAX_SAT_SVID -> Satellite \cup {Zero}]
  <2>1. satellites \in [1 .. MAX_SAT_SVID -> Satellite \cup {Zero}]
    BY DEF Types, ClientTypeOK
  <2>2. \A i \in DOMAIN list : list[i] \in Satellite
    OBVIOUS
  <2>3. satellites' = [i \in 1 .. MAX_SAT_SVID |->
                         IF i \in DOMAIN list THEN list[i] ELSE satellites[i]]
    BY DEF SetSatellites
  <2>4. \A i \in 1 .. MAX_SAT_SVID :
           (IF i \in DOMAIN list THEN list[i] ELSE satellites[i]) \in Satellite \cup {Zero}
    BY <2>1, <2>2, Zenon
  <2> QED  BY <2>3, <2>4, Zenon
<1> QED  BY <1>1, <1>2, <1>3, <1>4 DEF ClientTypeOK

LEMMA InitTypes == Init => Types
<1> SUFFICES ASSUME Init  PROVE Types
  OBVIOUS
<1>1. ContextTypeOK
  BY DEF Init, ContextTypeOK
<1>2. satellites \in [1 .. MAX_SAT_SVID -> Satellite \cup {Zero}]
  BY DEF Init
<1>3. new_satellites \in Seq(Satellite) /\ sat_count \in Nat /\ emitted \in BOOLEAN
  <2>1. << >> \in Seq(Satellite)
    BY EmptySeq
  <2> QED  BY <2>1 DEF Init
<1>4. DeviceTypeOK
  BY SizesAssumption DEF Init, DeviceTypeOK
<1>5. HistoryTypeOK
  <2>1. restarts = 0 /\ pending = 0
    BY DEF Init
  <2>2. pending \in 0 .. restarts
    BY <2>1
  <2>3. groupLost \in BOOLEAN
    BY DEF Init
  <2> QED  BY <2>2, <2>3 DEF HistoryTypeOK
<1> QED  BY <1>1, <1>2, <1>3, <1>4, <1>5 DEF Types, ClientTypeOK

LEMMA StepTypes == Types /\ [Next]_vars => Types'
<1> SUFFICES ASSUME Types, [Next]_vars  PROVE Types'
  OBVIOUS
<1>s. \A s \in Skies : Sentences(s) \in Nat /\ Sentences(s) >= 1
  BY SentencesOfSky
<1>d. DeviceTypeOK'
  <2> SUFFICES ASSUME DeviceTypeOK  PROVE DeviceTypeOK'
    BY DEF Types
  <2> USE DEF DeviceTypeOK
  <2>1. ASSUME SentenceArrives  PROVE DeviceTypeOK'
    BY <2>1, SizesAssumption DEF SentenceArrives
  <2>2. ASSUME NEW ids \in InUseSets, Gsa(ids)  PROVE DeviceTypeOK'
    BY <2>2 DEF Gsa, device
  <2>3. ASSUME GarminSatData  PROVE DeviceTypeOK'
    BY <1>s, <2>3, SizesAssumption DEF GarminSatData
  <2>4. ASSUME NextGroup  PROVE DeviceTypeOK'
    BY <2>4 DEF NextGroup
  <2>5. ASSUME Lose  PROVE DeviceTypeOK'
    BY <1>s, <2>5, SizesAssumption DEF Lose
  <2>6. ASSUME Restart  PROVE DeviceTypeOK'
    <3>1. sky' \in Skies /\ next' \in 1 .. Sentences(sky') + 1
      BY <2>6 DEF Restart
    <3>2. Sentences(sky') \in Nat
      BY <1>s, <3>1
    <3>3. next' \in Nat \ {0}
      BY <3>1, <3>2
    <3>4. burst' = 0 /\ restarts' = restarts + 1 /\ restarts < MaxRestarts
      BY <2>6 DEF Restart
    <3> QED  BY <3>1, <3>3, <3>4, SizesAssumption
  <2>7. ASSUME UNCHANGED vars  PROVE DeviceTypeOK'
    BY <2>7 DEF vars, device
  <2>8. Gsv => SentenceArrives
    BY DEF Gsv, GsvSkipped, GsvCollected, GsvCompletes
  <2> QED  BY <2>1, <2>2, <2>3, <2>4, <2>5, <2>6, <2>7, <2>8 DEF Next
<1>c. ContextTypeOK'
  <2> SUFFICES ASSUME ContextTypeOK  PROVE ContextTypeOK'
    BY DEF Types
  <2> USE DEF ContextTypeOK
  <2>0. sky \in Skies /\ Sentences(sky) \in Nat /\ next \in Nat
    BY <1>s DEF Types, DeviceTypeOK
  <2>1. ASSUME GsvSkipped  PROVE ContextTypeOK'
    BY <2>1 DEF GsvSkipped, SentenceArrives
  <2>2. ASSUME GsvCollected  PROVE ContextTypeOK'
    BY <2>0, <2>2 DEF GsvCollected, SentenceArrives, Expected
  <2>3. ASSUME GsvCompletes  PROVE ContextTypeOK'
    BY <2>0, <2>3 DEF GsvCompletes, SentenceArrives, Expected
  <2>4. ASSUME NEW ids \in InUseSets, Gsa(ids)  PROVE ContextTypeOK'
    BY <2>4 DEF Gsa
  <2>5. ASSUME GarminSatData \/ NextGroup \/ Lose  PROVE ContextTypeOK'
    BY <2>5 DEF GarminSatData, NextGroup, Lose, context
  <2>6. ASSUME Restart  PROVE ContextTypeOK'
    BY <2>6 DEF Restart
  <2>7. ASSUME UNCHANGED vars  PROVE ContextTypeOK'
    BY <2>7 DEF vars, context
  <2> QED  BY <2>1, <2>2, <2>3, <2>4, <2>5, <2>6, <2>7 DEF Next, Gsv
<1>k. ClientTypeOK'
  <2>0. ClientTypeOK
    BY DEF Types
  <2>1. ASSUME GsvSkipped  PROVE ClientTypeOK'
    <3>1. << >> \in Seq(Satellite)
      BY EmptySeq
    <3>2. UNCHANGED <<satellites, sat_count>> /\ new_satellites' = << >> /\ emitted' = FALSE
      BY <2>1 DEF GsvSkipped
    <3> QED  BY <2>0, <3>1, <3>2 DEF ClientTypeOK
  <2>2. ASSUME GsvCollected  PROVE ClientTypeOK'
    <3>1. List \in Seq(Satellite)
      BY <2>2, ListType DEF GsvCollected, SentenceArrives
    <3> QED  BY <2>0, <2>2, <3>1 DEF GsvCollected, ClientTypeOK
  <2>3. ASSUME GsvCompletes  PROVE ClientTypeOK'
    <3>1. List \in Seq(Satellite)
      BY <2>3, ListType DEF GsvCompletes, SentenceArrives
    <3> QED  BY <2>3, <3>1, SetSatellitesType DEF GsvCompletes
  <2>4. ASSUME GarminSatData  PROVE ClientTypeOK'
    <3>1. Flagged(sky, Ids) \in Seq(Satellite)
      BY RecordType
    <3> QED  BY <2>4, <3>1, SetSatellitesType DEF GarminSatData
  <2>5. ASSUME (\E ids \in InUseSets : Gsa(ids)) \/ NextGroup \/ Lose \/ Restart
        PROVE  ClientTypeOK'
    BY <2>0, <2>5 DEF Gsa, NextGroup, Lose, Restart, ClientTypeOK
  <2>6. ASSUME UNCHANGED vars  PROVE ClientTypeOK'
    BY <2>0, <2>6 DEF vars, client, ClientTypeOK
  <2> QED  BY <2>1, <2>2, <2>3, <2>4, <2>5, <2>6 DEF Next, Gsv
<1>h. HistoryTypeOK'
  <2>0. pending \in Nat /\ pending <= restarts /\ restarts \in Nat /\ groupLost \in BOOLEAN
    BY SizesAssumption DEF Types, DeviceTypeOK, HistoryTypeOK
  <2>1. ASSUME restarts' = restarts, pending' \in {0, pending}, groupLost' \in BOOLEAN
        PROVE  HistoryTypeOK'
    BY <2>0, <2>1 DEF HistoryTypeOK
  <2>2. ASSUME GsvSkipped \/ GsvCompletes \/ GarminSatData  PROVE HistoryTypeOK'
    BY <2>1, <2>2 DEF GsvSkipped, GsvCompletes, GarminSatData, SentenceArrives, SetSatellites
  <2>3. ASSUME GsvCollected  PROVE HistoryTypeOK'
    <3>1. groupLost' = (groupLost /\ ~Missed) /\ restarts' = restarts
          /\ pending' = IF Missed THEN 0 ELSE pending
      BY <2>3 DEF GsvCollected, SentenceArrives
    <3>2. groupLost' \in BOOLEAN
      BY <3>1, Zenon
    <3> QED  BY <2>1, <3>1, <3>2
  <2>4. ASSUME Lose  PROVE HistoryTypeOK'
    <3>1. /\ groupLost' = (groupLost \/ (message_count # 0 /\ burst' >= number_of_messages))
          /\ restarts' = restarts /\ pending' = pending
      BY <2>4 DEF Lose
    <3>2. groupLost' \in BOOLEAN
      BY <3>1, Zenon
    <3> QED  BY <2>1, <3>1, <3>2
  <2>5. ASSUME (\E ids \in InUseSets : Gsa(ids)) \/ NextGroup \/ UNCHANGED vars
        PROVE  HistoryTypeOK'
    BY <2>0, <2>1, <2>5 DEF Gsa, NextGroup, vars, history
  <2>6. ASSUME Restart  PROVE HistoryTypeOK'
    <3>1. pending' \in {0, pending + 1} /\ restarts' = restarts + 1
      BY <2>6 DEF Restart
    <3>2. pending' \in 0 .. restarts'
      BY <2>0, <3>1
    <3>3. groupLost' \in BOOLEAN
      BY <2>6 DEF Restart
    <3> QED  BY <3>2, <3>3 DEF HistoryTypeOK
  <2> QED  BY <2>2, <2>3, <2>4, <2>5, <2>6 DEF Next, Gsv
<1> QED  BY <1>d, <1>c, <1>k, <1>h DEF Types

-----------------------------------------------------------------------------
(* How much is collected.  Each restart in mid-group leaves a list behind; on  *)
(* top of that there is never more than the sentences that were counted bring,  *)
(* nor more than one sky has, because a gap empties the list and the sentence   *)
(* after the last one counted is cut off where its sky ends.                   *)

Held(stale) ==
    /\ Len(new_satellites) <= pending * Len(stale) + message_count * PerSentence
    /\ \E s \in Skies : Len(new_satellites) <= pending * Len(stale) + Len(s)

SizeInv == \E stale \in Skies : Held(stale)

LEMMA ListSize ==
    ASSUME Types, NEW stale \in Skies, Held(stale), next <= Sentences(sky),
           Missed => next = 1
    PROVE  LET before == (IF Missed THEN 0 ELSE pending) * Len(stale)
           IN  /\ Len(List) <= before + next * PerSentence
               /\ Len(List) <= before + Len(sky)
               /\ before \in Nat /\ before <= pending * Len(stale)
<1> DEFINE before == (IF Missed THEN 0 ELSE pending) * Len(stale)
<1>1. /\ sky \in Skies /\ next \in Nat /\ next >= 1 /\ message_count \in Nat
      /\ pending \in Nat /\ PerSentence \in Nat /\ PerSentence >= 1 /\ Len(stale) \in Nat
  BY SizesAssumption, SkyIsSeq DEF Types, DeviceTypeOK, ContextTypeOK, HistoryTypeOK
<1>2. before \in Nat /\ before <= pending * Len(stale)
      /\ (Missed => before = 0) /\ (~Missed => before = pending * Len(stale))
  <2>1. pending * Len(stale) \in Nat
    BY <1>1, Product
  <2>2. 0 * Len(stale) = 0
    BY <1>1
  <2> QED  BY <2>1, <2>2
<1>3. Len(Collected) \in Nat /\ Len(List) = Len(Collected) + Len(Part(sky, next))
  BY ListType
<1> DEFINE first == (next - 1) * PerSentence
           end == next * PerSentence
<1>4. first \in Nat /\ end \in Nat /\ Len(sky) \in Nat
      /\ Len(Part(sky, next)) = (IF end < Len(sky) THEN end ELSE Len(sky)) - first
  BY <1>1, PartOfSky, SkyIsSeq, NextMultiple
<1> HIDE DEF before
<1>5. Len(Collected) <= before + first
  <2>1. CASE Missed
    BY <1>2, <1>4, <2>1 DEF Collected
  <2>2. CASE ~Missed
    <3>1. next - 1 = message_count /\ Collected = new_satellites
      BY <1>1, <2>2 DEF Missed, Collected
    <3> QED  BY <1>2, <2>2, <3>1 DEF Held
  <2> QED  BY <2>1, <2>2
<1> HIDE DEF first, end
<1>6. Len(List) <= before + end /\ Len(List) <= before + Len(sky)
  BY <1>2, <1>3, <1>4, <1>5
<1> QED  BY <1>2, <1>6 DEF end, before

\* A list that is empty, with nothing left over.
LEMMA NothingHeld ==
    ASSUME Types', new_satellites' = << >>, pending' = 0
    PROVE  SizeInv'
<1>1. sky' \in Skies /\ message_count' \in Nat /\ PerSentence \in Nat
  BY SizesAssumption DEF Types, DeviceTypeOK, ContextTypeOK
<1>2. PICK t \in Skies : t = sky'
  BY <1>1
<1> DEFINE n == Len(t)
           counted == message_count' * PerSentence
<1>3. counted \in Nat
  BY <1>1, Product
<1>4. n \in Nat /\ pending' * n = 0
  <2>1. n \in Nat
    BY SkyIsSeq
  <2> QED  BY <2>1
<1>5. Len(new_satellites') = 0
  OBVIOUS
<1> HIDE DEF n, counted
<1>6. Len(new_satellites') <= pending' * n + counted
  BY <1>3, <1>4, <1>5
<1>7. Len(new_satellites') <= pending' * n + n
  BY <1>4, <1>5
<1>8. Held(t)'
  BY <1>6, <1>7 DEF Held, n, counted
<1> QED  BY <1>8 DEF SizeInv

LEMMA InitSize == Init => SizeInv
<1> SUFFICES ASSUME Init  PROVE SizeInv
  OBVIOUS
<1>1. /\ Len(new_satellites) = 0 /\ pending = 0 /\ message_count = 0 /\ sky \in Skies
      /\ PerSentence \in Nat
  BY SizesAssumption DEF Init
<1>2. Len(sky) \in Nat
  BY <1>1, SkyIsSeq
<1>3. 0 * Len(sky) = 0 /\ 0 * PerSentence = 0
  BY <1>1, <1>2
<1>4. Held(sky)
  BY <1>1, <1>2, <1>3 DEF Held
<1> QED  BY <1>1, <1>4 DEF SizeInv

\* Of two skies the longer one bounds what restarts leave behind.
LEMMA LongerSky ==
    ASSUME NEW n \in Nat, NEW a \in Skies, NEW b \in Skies,
           NEW size \in Nat, size <= n * Len(a) + Len(b)
    PROVE  \E s \in Skies : size <= (n + 1) * Len(s)
<1> DEFINE la == Len(a)
           lb == Len(b)
<1>1. la \in Nat /\ lb \in Nat
  BY SkyIsSeq
<1>2. size <= n * la + lb
  OBVIOUS
<1> HIDE DEF la, lb
<1>3. n * la \in Nat /\ n * lb \in Nat /\ (n + 1) * la = n * la + la
      /\ (n + 1) * lb = n * lb + lb
  BY <1>1
<1>4. CASE lb <= la
  <2>1. size <= (n + 1) * la
    BY <1>1, <1>2, <1>3, <1>4
  <2> QED  BY <2>1 DEF la
<1>5. CASE la <= lb
  <2>1. (lb - la) * n >= 0 /\ (lb - la) * n = n * lb - n * la
    BY <1>1, <1>5
  <2>2. size <= (n + 1) * lb
    BY <1>1, <1>2, <1>3, <2>1
  <2> QED  BY <2>2 DEF lb
<1> QED  BY <1>1, <1>4, <1>5

LEMMA StepSize ==
    ASSUME Types, Types', SizeInv, [Next]_vars
    PROVE  SizeInv'
<1>1. /\ sky \in Skies /\ Len(sky) \in Nat /\ next \in Nat
      /\ message_count \in Nat /\ pending \in Nat /\ PerSentence \in Nat
      /\ Len(new_satellites) \in Nat
  <2>1. new_satellites \in Seq(Satellite)
    BY DEF Types, ClientTypeOK
  <2> QED  BY <2>1, SkyIsSeq, SizesAssumption
           DEF Types, DeviceTypeOK, ContextTypeOK, HistoryTypeOK
<1>2. PICK stale \in Skies : Held(stale)
  BY DEF SizeInv
<1>3. Len(stale) \in Nat
  BY SkyIsSeq
<1>4. ASSUME UNCHANGED <<new_satellites, message_count, pending>>
      PROVE  SizeInv'
  BY <1>2, <1>4 DEF SizeInv, Held
<1>5. ASSUME GsvSkipped  PROVE SizeInv'
  BY <1>5, NothingHeld DEF GsvSkipped
<1>6. ASSUME GsvCollected  PROVE SizeInv'
  <2>1. next <= Sentences(sky) /\ (Missed => next = 1) /\ new_satellites' = List
        /\ message_count' = next /\ pending' = IF Missed THEN 0 ELSE pending
    BY <1>6 DEF GsvCollected, SentenceArrives
  <2>2. /\ Len(List) <= pending' * Len(stale) + next * PerSentence
        /\ Len(List) <= pending' * Len(stale) + Len(sky)
    BY <1>2, <2>1, ListSize
  <2>3. Len(new_satellites') <= pending' * Len(stale) + message_count' * PerSentence
    BY <2>1, <2>2
  <2>4. Len(new_satellites') <= pending' * Len(stale) + Len(sky)
    BY <2>1, <2>2
  <2> QED  BY <1>1, <2>3, <2>4 DEF SizeInv, Held
<1>7. ASSUME GsvCompletes  PROVE SizeInv'
  BY <1>7, NothingHeld DEF GsvCompletes, SetSatellites
<1>8. ASSUME GarminSatData  PROVE SizeInv'
  BY <1>8, NothingHeld DEF GarminSatData, SetSatellites
<1>9. ASSUME (\E ids \in InUseSets : Gsa(ids)) \/ NextGroup \/ Lose \/ UNCHANGED vars
      PROVE  SizeInv'
  BY <1>4, <1>9 DEF Gsa, NextGroup, Lose, vars, context, client, history
<1>10. ASSUME Restart  PROVE SizeInv'
  <2>1. new_satellites' = new_satellites /\ message_count' = 0
        /\ pending' = IF new_satellites = << >> THEN 0 ELSE pending + 1
    BY <1>10 DEF Restart
  <2>2. CASE new_satellites = << >>
    BY <2>1, <2>2, NothingHeld
  <2>3. CASE new_satellites # << >>
    <3>1. PICK s \in Skies : Len(new_satellites) <= pending * Len(stale) + Len(s)
      BY <1>2 DEF Held
    <3>2. PICK t \in Skies : Len(new_satellites) <= (pending + 1) * Len(t)
      BY <1>1, <3>1, LongerSky
    <3> DEFINE before == (pending + 1) * Len(t)
    <3>3. Len(t) \in Nat /\ 0 * PerSentence = 0 /\ before \in Nat
      <4>1. Len(t) \in Nat
        BY SkyIsSeq
      <4>2. pending + 1 \in Nat
        BY <1>1
      <4> QED  BY <1>1, <4>1, <4>2, Product
    <3>4. pending' * Len(t) = before /\ Len(new_satellites') <= before
      BY <2>1, <2>3, <3>2
    <3> HIDE DEF before
    <3>5. Len(new_satellites') \in Nat
      BY <1>1, <2>1
    <3>6. Len(new_satellites') <= before + 0 /\ Len(new_satellites') <= before + Len(t)
      BY <3>3, <3>4, <3>5
    <3>7. Len(new_satellites') <= pending' * Len(t) + message_count' * PerSentence
      BY <2>1, <3>3, <3>4, <3>6
    <3>8. Len(new_satellites') <= pending' * Len(t) + Len(t)
      BY <3>4, <3>6
    <3>9. Held(t)'
      BY <3>7, <3>8 DEF Held
    <3> QED  BY <3>9 DEF SizeInv
  <2> QED  BY <2>2, <2>3
<1> QED  BY <1>5, <1>6, <1>7, <1>8, <1>9, <1>10 DEF Next, Gsv

LEMMA SizeBounds == Types /\ SizeInv => NoOverflow
<1> SUFFICES ASSUME Types, SizeInv  PROVE NoOverflow
  OBVIOUS
<1>1. PICK stale \in Skies, s \in Skies :
         Len(new_satellites) <= pending * Len(stale) + Len(s)
  BY DEF SizeInv, Held
<1>2. Len(new_satellites) \in Nat /\ pending \in Nat
  <2>1. new_satellites \in Seq(Satellite)
    BY DEF Types, ClientTypeOK
  <2> QED  BY <2>1, SizesAssumption DEF Types, HistoryTypeOK, DeviceTypeOK
<1> QED  BY <1>1, <1>2, LongerSky DEF NoOverflow

\* Whatever is lost and however often the connection is restarted, no list collected
\* is longer than that of some sky and, for each restart in mid-group since it was
\* last emptied, once more that of some sky (add_satellite, gypsy-client.c:1310).
THEOREM NothingOverflows == Spec => []NoOverflow
<1>1. Init => Types /\ SizeInv
  BY InitTypes, InitSize
<1>2. Types /\ SizeInv /\ [Next]_vars => Types' /\ SizeInv'
  BY StepTypes, StepSize
<1> QED  BY <1>1, <1>2, SizeBounds, PTL DEF Spec

-----------------------------------------------------------------------------
(* add_satellite does not ask whether its array has room.  How often the        *)
(* connection may be restarted in mid-group before it runs over follows from   *)
(* the skies: nothing else makes it run over.                                 *)

\* There is room for the longest sky, and for another one for every restart in
\* mid-group since the list was last emptied.
RoomLeft == \A s \in Skies : (pending + 1) * Len(s) <= MAX_SAT_SVID

ArraysSuffice == Len(new_satellites) <= MAX_SAT_SVID /\ sat_count <= MAX_SAT_SVID

LEMMA RoomForList ==
    ASSUME Types, RoomLeft, NEW a \in Skies, NEW b \in Skies, NEW n \in Nat,
           n <= pending * Len(a) + Len(b)
    PROVE  n <= MAX_SAT_SVID
<1>1. pending \in Nat /\ MAX_SAT_SVID \in Nat
  BY SizesAssumption DEF Types, HistoryTypeOK, DeviceTypeOK
<1>2. PICK s \in Skies : n <= (pending + 1) * Len(s)
  BY <1>1, LongerSky
<1> DEFINE all == (pending + 1) * Len(s)
<1>3. all \in Nat /\ all <= MAX_SAT_SVID /\ n <= all
  <2>1. Len(s) \in Nat /\ pending + 1 \in Nat
    BY <1>1, SkyIsSeq
  <2> QED  BY <1>2, <2>1, Product DEF RoomLeft
<1> HIDE DEF all
<1> QED  BY <1>1, <1>3

\* Every list that reaches the current one fits.
LEMMA CompletedFits ==
    ASSUME Types, RoomLeft, SizeInv
    PROVE  /\ Len(new_satellites) <= MAX_SAT_SVID
           /\ GsvCompletes => Len(List) <= MAX_SAT_SVID
           /\ Len(Flagged(sky, Ids)) <= MAX_SAT_SVID
<1>1. sky \in Skies /\ new_satellites \in Seq(Satellite) /\ pending \in Nat
  BY SizesAssumption DEF Types, DeviceTypeOK, ClientTypeOK, HistoryTypeOK
<1>0. PICK stale \in Skies : Held(stale)
  BY DEF SizeInv
<1>2. Len(new_satellites) <= MAX_SAT_SVID
  <2>1. PICK s \in Skies : Len(new_satellites) <= pending * Len(stale) + Len(s)
    BY <1>0 DEF Held
  <2>2. Len(new_satellites) \in Nat
    BY <1>1
  <2> QED  BY <2>1, <2>2, RoomForList
<1>3. ASSUME GsvCompletes  PROVE Len(List) <= MAX_SAT_SVID
  <2>1. next <= Sentences(sky) /\ (Missed => next = 1)
    BY <1>3 DEF GsvCompletes, SentenceArrives
  <2>2. Len(List) \in Nat
    BY <2>1, ListType
  <2> DEFINE before == (IF Missed THEN 0 ELSE pending) * Len(stale)
             ever == pending * Len(stale)
  <2>3. Len(List) <= before + Len(sky) /\ before \in Nat /\ before <= ever
    BY <1>0, <2>1, ListSize
  <2>4. ever \in Nat /\ Len(sky) \in Nat
    <3>1. Len(stale) \in Nat
      BY SkyIsSeq
    <3> QED  BY <1>1, <3>1, Product, SkyIsSeq
  <2> HIDE DEF before
  <2>5. Len(List) <= pending * Len(stale) + Len(sky)
    <3> HIDE DEF ever
    <3>1. Len(List) <= ever + Len(sky)
      BY <2>2, <2>3, <2>4
    <3> QED  BY <3>1 DEF ever
  <2> QED  BY <1>1, <2>2, <2>5, RoomForList
<1>4. Len(Flagged(sky, Ids)) <= MAX_SAT_SVID
  BY <1>1, RecordType, SkyIsSeq
<1> QED  BY <1>2, <1>3, <1>4

LEMMA StepFits ==
    ASSUME Types, RoomLeft, SizeInv, [Next]_vars, sat_count <= MAX_SAT_SVID
    PROVE  sat_count' <= MAX_SAT_SVID
<1>1. ASSUME GsvCompletes  PROVE sat_count' <= MAX_SAT_SVID
  <2>1. sat_count' = Len(List)
    BY <1>1 DEF GsvCompletes, SetSatellites
  <2> QED  BY <1>1, <2>1, CompletedFits
<1>2. ASSUME GarminSatData  PROVE sat_count' <= MAX_SAT_SVID
  <2>1. sat_count' = Len(Flagged(sky, Ids))
    BY <1>2 DEF GarminSatData, SetSatellites
  <2> QED  BY <2>1, CompletedFits
<1>3. ASSUME GsvSkipped \/ GsvCollected \/ (\E ids \in InUseSets : Gsa(ids)) \/ NextGroup
             \/ Lose \/ Restart \/ UNCHANGED vars
      PROVE  sat_count' = sat_count
  BY <1>3 DEF GsvSkipped, GsvCollected, Gsa, NextGroup, Lose, Restart, vars, client
<1> QED  BY <1>1, <1>2, <1>3 DEF Next, Gsv

Bounded == SizeInv /\ sat_count <= MAX_SAT_SVID

LEMMA InitBounded == Init => Types /\ Bounded
<1> SUFFICES ASSUME Init  PROVE Types /\ Bounded
  OBVIOUS
<1>1. sat_count <= MAX_SAT_SVID
  BY SizesAssumption DEF Init
<1> QED  BY <1>1, InitTypes, InitSize DEF Bounded

LEMMA StepBounded == Types /\ Bounded /\ RoomLeft /\ [Next]_vars => Types' /\ Bounded'
BY StepTypes, StepSize, StepFits DEF Bounded

\* As long as there is room left, after any number of restarts, the state keeps its
\* types, and both the list collected and the current one stay within their arrays:
\* only restarts in mid-group, one after the other, can make them too short.
THEOREM ArraysAreLongEnough == Spec /\ []RoomLeft => [](TypeOK /\ ArraysSuffice)
<1>1. Types /\ Bounded /\ RoomLeft => TypeOK /\ ArraysSuffice
  <2> SUFFICES ASSUME Types, Bounded, RoomLeft  PROVE TypeOK /\ ArraysSuffice
    OBVIOUS
  <2>1. ArraysSuffice
    BY CompletedFits DEF ArraysSuffice, Bounded
  <2>2. sat_count \in 0 .. MAX_SAT_SVID
    BY SizesAssumption DEF Types, ClientTypeOK, Bounded
  <2>3. TypeOK
    BY <2>2, Zenon
       DEF Types, ContextTypeOK, ClientTypeOK, DeviceTypeOK, HistoryTypeOK, TypeOK
  <2> QED  BY <2>1, <2>3
<1> QED  BY <1>1, InitBounded, StepBounded, PTL DEF Spec

\* Whether the lists differ is whether what a program gets from them does.
LEMMA DiffersIffVisible ==
    ASSUME Types, sat_count <= MAX_SAT_SVID, NEW list \in Seq(Satellite),
           Len(list) <= MAX_SAT_SVID, SetSatellites(list)
    PROVE  Differs(list) <=> Visible' # Visible
<1>1. /\ Len(list) \in Nat /\ sat_count \in Nat /\ MAX_SAT_SVID \in Nat
      /\ DOMAIN list = 1 .. Len(list)
  BY SizesAssumption DEF Types, ClientTypeOK
<1>2. Visible' = [i \in 1 .. Len(list) |-> list[i]]
  <2>1. sat_count' = Len(list)
    BY DEF SetSatellites
  <2>2. \A i \in 1 .. Len(list) : satellites'[i] = list[i]
    BY <1>1 DEF SetSatellites
  <2>3. Visible' = [i \in 1 .. Len(list) |-> satellites'[i]]
    BY <2>1 DEF Visible
  <2> QED  BY <2>2, <2>3
<1>3. Visible = [i \in 1 .. sat_count |-> satellites[i]]
  BY DEF Visible
<1> DEFINE n == Len(list)
<1>4. n \in Nat /\ Visible' = [i \in 1 .. n |-> list[i]] /\ DOMAIN list = 1 .. n
  BY <1>1, <1>2
<1>5. Differs(list) <=> n # sat_count \/ \E i \in 1 .. n : list[i] # satellites[i]
  BY <1>4 DEF Differs
<1> HIDE DEF n
<1>6. ASSUME n = sat_count, \A i \in 1 .. n : list[i] = satellites[i]
      PROVE  Visible' = Visible
  BY <1>3, <1>4, <1>6, Zenon
<1>7. ASSUME Visible' = Visible
      PROVE  n = sat_count /\ \A i \in 1 .. n : list[i] = satellites[i]
  <2>1. 1 .. n = 1 .. sat_count
    <3>1. DOMAIN Visible' = 1 .. n /\ DOMAIN Visible = 1 .. sat_count
      BY <1>3, <1>4, Zenon
    <3> QED  BY <1>7, <3>1
  <2>2. n = sat_count
    BY <1>1, <1>4, <2>1
  <2>3. \A i \in 1 .. n : list[i] = satellites[i]
    <3> TAKE i \in 1 .. n
    <3>1. Visible'[i] = list[i]
      BY <1>4, Zenon
    <3>2. Visible[i] = satellites[i]
      BY <1>3, <2>2, Zenon
    <3> QED  BY <1>7, <3>1, <3>2
  <2> QED  BY <2>2, <2>3
<1> QED  BY <1>5, <1>6, <1>7

\* A program that follows SatellitesChanged misses no list, and is told of none
\* that it has already, for any losses, restarts and changes of the parser that
\* leave room in the arrays.
THEOREM SignalsAreExact == Spec /\ []RoomLeft => SignalIffChanged
<1> DEFINE Exact == emitted' <=> Visible' # Visible
<1>3. Types /\ Bounded /\ RoomLeft /\ [Next]_vars => [Exact]_vars
  <2> SUFFICES ASSUME Types, Bounded, RoomLeft, Next  PROVE Exact
    OBVIOUS
  <2> USE DEF Bounded
  <2>1. ASSUME GsvCompletes  PROVE Exact
    <3>1. next <= Sentences(sky) /\ SetSatellites(List)
      BY <2>1 DEF GsvCompletes, SentenceArrives
    <3>2. List \in Seq(Satellite) /\ Len(List) <= MAX_SAT_SVID
      BY <2>1, <3>1, ListType, CompletedFits
    <3>3. Differs(List) <=> Visible' # Visible
      BY <3>1, <3>2, DiffersIffVisible
    <3>4. emitted' = Differs(List)
      BY <3>1 DEF SetSatellites
    <3> QED  BY <3>3, <3>4, Zenon
  <2>2. ASSUME GarminSatData  PROVE Exact
    <3>1. SetSatellites(Flagged(sky, Ids))
      BY <2>2 DEF GarminSatData
    <3>2. Flagged(sky, Ids) \in Seq(Satellite) /\ Len(Flagged(sky, Ids)) <= MAX_SAT_SVID
      BY RecordType, CompletedFits
    <3>3. Differs(Flagged(sky, Ids)) <=> Visible' # Visible
      BY <3>1, <3>2, DiffersIffVisible
    <3>4. emitted' = Differs(Flagged(sky, Ids))
      BY <3>1 DEF SetSatellites
    <3> QED  BY <3>3, <3>4, Zenon
  <2>3. ASSUME GsvSkipped \/ GsvCollected \/ (\E ids \in InUseSets : Gsa(ids))
               \/ NextGroup \/ Lose \/ Restart
        PROVE  Exact
    <3>1. emitted' = FALSE /\ satellites' = satellites /\ sat_count' = sat_count
      BY <2>3 DEF GsvSkipped, GsvCollected, Gsa, NextGroup, Lose, Restart
    <3>2. Visible' = Visible
      BY <3>1 DEF Visible
    <3> QED  BY <3>1, <3>2
  <2> QED  BY <2>1, <2>2, <2>3 DEF Next, Gsv
<1> HIDE DEF Exact
<1>4. Spec /\ []RoomLeft => [][Exact]_vars
  BY <1>3, InitBounded, StepBounded, PTL DEF Spec
<1> QED  BY <1>4 DEF SignalIffChanged, Exact

-----------------------------------------------------------------------------
(* That a list is the sky one group describes.  Between two sentences the      *)
(* parser has the front of some sky s.  Either the receiver still sends s, and  *)
(* what it sent since was lost; or it is past s, and the rest of s and all of  *)
(* the present group so far was lost, in a row.  Once as many are lost as s     *)
(* has sentences, groupLost says so, and the front of s may get a wrong tail.   *)

FrontOf(list, s) ==
    \A i \in 1 .. Len(list) : list[i][1] = s[i][1] /\ list[i][2] = s[i][2]

StillSent(s) == sky = s /\ message_count < next /\ next - 1 - message_count <= burst

SentBefore(s) == Sentences(s) - message_count + next - 1 <= burst

GroupOf(s) ==
    /\ number_of_messages = Sentences(s)
    /\ message_count < Sentences(s)
    /\ Len(new_satellites) = message_count * PerSentence
    /\ FrontOf(new_satellites, s)
    /\ StillSent(s) \/ SentBefore(s)

GroupInv ==
    /\ parser = "garmin" => message_count = 0
    /\ pending = 0 /\ message_count = 0 => new_satellites = << >>
    /\ pending = 0 /\ message_count # 0 /\ ~groupLost => \E s \in Skies : GroupOf(s)
    /\ message_count # 0 /\ ~groupLost => burst < number_of_messages
    /\ message_count # 0 => number_of_messages \in Nat \ {0}

\* A sentence on top of the front of its sky makes a longer front of it.
LEMMA ListGrows ==
    ASSUME Types, next <= Sentences(sky),
           Len(Collected) = (next - 1) * PerSentence, FrontOf(Collected, sky)
    PROVE  /\ Len(List) = (IF next * PerSentence < Len(sky) THEN next * PerSentence
                                                            ELSE Len(sky))
           /\ FrontOf(List, sky)
<1>1. /\ sky \in Skies /\ next \in Nat /\ next >= 1
      /\ Sentences(sky) \in Nat /\ Len(sky) \in Nat
  BY SentencesOfSky, SkyIsSeq DEF Types, DeviceTypeOK
<1> DEFINE first == (next - 1) * PerSentence
           last == IF next * PerSentence < Len(sky) THEN next * PerSentence ELSE Len(sky)
           part == Part(sky, next)
<1>2. /\ first \in Nat /\ last \in Nat /\ last >= first /\ last <= Len(sky)
      /\ Len(part) = last - first
      /\ \A j \in 1 .. last - first : part[j][1] = sky[first + j][1]
                                     /\ part[j][2] = sky[first + j][2]
  BY <1>1, PartOfSky
<1>3. Len(Collected) = first /\ FrontOf(Collected, sky)
  OBVIOUS
<1>4. /\ Len(List) = Len(Collected) + Len(part)
      /\ \A i \in 1 .. Len(Collected) : List[i] = Collected[i]
      /\ \A i \in 1 .. Len(part) : /\ List[Len(Collected) + i][1] = part[i][1]
                                  /\ List[Len(Collected) + i][2] = part[i][2]
  BY ListType
<1> HIDE DEF first, last, part
<1>5. Len(List) = last
  BY <1>2, <1>3, <1>4
<1>6. FrontOf(List, sky)
  <2> SUFFICES ASSUME NEW i \in 1 .. last
               PROVE  List[i][1] = sky[i][1] /\ List[i][2] = sky[i][2]
    BY <1>5 DEF FrontOf
  <2>1. CASE i <= first
    <3>1. i \in 1 .. Len(Collected)
      BY <1>2, <1>3, <2>1
    <3> QED  BY <1>3, <1>4, <3>1 DEF FrontOf
  <2>2. CASE ~(i <= first)
    <3>1. i - first \in 1 .. last - first /\ first + (i - first) = i
      BY <1>2, <2>2
    <3>2. /\ List[first + (i - first)][1] = part[i - first][1]
          /\ List[first + (i - first)][2] = part[i - first][2]
      BY <1>2, <1>3, <1>4, <3>1
    <3>3. /\ part[i - first][1] = sky[first + (i - first)][1]
          /\ part[i - first][2] = sky[first + (i - first)][2]
      BY <1>2, <3>1
    <3> QED  BY <3>1, <3>2, <3>3
  <2> QED  BY <2>1, <2>2
<1> QED  BY <1>5, <1>6 DEF last

\* A sentence that is not skipped makes the list the front of the sky being sent.
LEMMA ListIsFront ==
    ASSUME Types, GroupInv, OneGroup, next <= Sentences(sky),
           Missed => next = 1
    PROVE  /\ Expected = Sentences(sky)
           /\ Len(List) = (IF next * PerSentence < Len(sky) THEN next * PerSentence
                                                            ELSE Len(sky))
           /\ FrontOf(List, sky)
<1>1. /\ sky \in Skies /\ next \in Nat /\ next >= 1 /\ message_count \in Nat
      /\ Sentences(sky) \in Nat /\ Len(sky) \in Nat
      /\ burst \in Nat /\ burst <= MaxBurst /\ MaxBurst \in Nat
  BY SentencesOfSky, SkyIsSeq, SizesAssumption DEF Types, DeviceTypeOK, ContextTypeOK
<1> DEFINE first == (next - 1) * PerSentence
<1>3. Expected = Sentences(sky) /\ Len(Collected) = first /\ FrontOf(Collected, sky)
  <2>1. CASE next = 1
    <3>1. Collected = << >>
      <4>1. Missed \/ message_count = 0
        BY <1>1, <2>1 DEF Missed
      <4> QED  BY <4>1 DEF Collected, GroupInv, OneGroup
    <3>2. Expected = Sentences(sky)
      BY <2>1 DEF Expected
    <3>3. first = 0
      BY <2>1, SizesAssumption
    <3> QED  BY <3>1, <3>2, <3>3 DEF FrontOf
  <2>2. CASE next # 1
    <3>1. ~Missed /\ message_count = next - 1 /\ message_count # 0 /\ message_count >= 1
      BY <1>1, <2>2 DEF Missed
    <3>2. PICK s \in Skies : GroupOf(s)
      BY <3>1 DEF GroupInv, OneGroup
    <3>3. Sentences(s) \in Nat /\ message_count < Sentences(s)
      BY <3>2, SentencesOfSky DEF GroupOf
    <3>4. ~SentBefore(s)
      <4>1. SUFFICES ASSUME SentBefore(s)  PROVE FALSE
        OBVIOUS
      <4>2. Sentences(s) <= burst
        BY <1>1, <3>1, <3>3, <4>1 DEF SentBefore
      <4>3. burst < Sentences(s)
        BY <3>1, <3>2 DEF GroupInv, GroupOf, OneGroup
      <4> QED  BY <1>1, <3>3, <4>2, <4>3
    <3>5. sky = s
      BY <3>2, <3>4 DEF GroupOf, StillSent
    <3>6. Collected = new_satellites /\ Expected = number_of_messages
      BY <2>2, <3>1 DEF Collected, Expected
    <3>7. message_count * PerSentence = first
      BY <3>1
    <3> QED  BY <3>2, <3>5, <3>6, <3>7 DEF GroupOf
  <2> QED  BY <2>1, <2>2
<1> QED  BY <1>3, ListGrows

\* A front as long as the last sentence makes it is the sky.
LEMMA LastSentence ==
    ASSUME Types, next = Sentences(sky)
    PROVE  (IF next * PerSentence < Len(sky) THEN next * PerSentence ELSE Len(sky))
              = Len(sky)
<1>1. sky \in Skies /\ PerSentence \in Nat
  BY SizesAssumption DEF Types, DeviceTypeOK
<1>2. Len(sky) \in Nat /\ Sentences(sky) \in Nat /\ Len(sky) <= Sentences(sky) * PerSentence
  BY <1>1, SkyIsSeq, SentencesOfSky
<1> DEFINE end == next * PerSentence
<1>3. end \in Nat /\ Len(sky) <= end
  BY <1>1, <1>2, Product
<1> HIDE DEF end
<1>4. (IF end < Len(sky) THEN end ELSE Len(sky)) = Len(sky)
  BY <1>2, <1>3
<1> QED  BY <1>4 DEF end

\* The last sentence makes it all of that sky.
LEMMA CompletedIsSky ==
    ASSUME Types, GroupInv, OneGroup, GsvCompletes
    PROVE  Len(List) = Len(sky) /\ FrontOf(List, sky)
<1>1. next <= Sentences(sky) /\ (Missed => next = 1) /\ next = Expected
  BY DEF GsvCompletes, SentenceArrives
<1> QED  BY <1>1, ListIsFront, LastSentence

LEMMA StepGroup ==
    ASSUME Types, Types', GroupInv, [Next]_vars
    PROVE  GroupInv'
<1> DEFINE Grouped == pending' = 0 /\ message_count' # 0 /\ ~groupLost'
                        => \E s \in Skies : GroupOf(s)'
<1>0. /\ sky \in Skies /\ next \in Nat /\ message_count \in Nat /\ burst \in Nat
      /\ Sentences(sky) \in Nat /\ Sentences(sky) >= 1 /\ parser \in {"nmea", "garmin"}
      /\ PerSentence \in Nat /\ pending \in Nat
  BY SentencesOfSky, SizesAssumption
     DEF Types, DeviceTypeOK, ContextTypeOK, HistoryTypeOK
<1>1. ASSUME GsvSkipped  PROVE GroupInv'
  BY <1>1 DEF GsvSkipped, SentenceArrives, GroupInv
<1>2. ASSUME GsvCompletes  PROVE GroupInv'
  BY <1>2 DEF GsvCompletes, SentenceArrives, SetSatellites, GroupInv
<1>3. ASSUME GsvCollected  PROVE GroupInv'
  <2>1. /\ parser' = "nmea" /\ sky' = sky /\ next' = next + 1 /\ burst' = 0
        /\ message_count' = next /\ number_of_messages' = Expected
        /\ new_satellites' = List
        /\ pending' = (IF Missed THEN 0 ELSE pending)
        /\ groupLost' = (groupLost /\ ~Missed)
        /\ next <= Sentences(sky) /\ (Missed => next = 1) /\ next # Expected
    BY <1>3 DEF GsvCollected, SentenceArrives
  <2>2. next >= 1
    BY DEF Types, DeviceTypeOK
  <2>3. Expected \in Nat \ {0}
    <3>1. CASE next = 1
      BY <1>0, <3>1 DEF Expected
    <3>2. CASE next # 1
      <4>1. ~Missed /\ message_count # 0
        BY <1>0, <2>1, <2>2, <3>2 DEF Missed
      <4> QED  BY <3>2, <4>1 DEF Expected, GroupInv
    <3> QED  BY <3>1, <3>2
  <2>4. Grouped
    <3> SUFFICES ASSUME pending' = 0, ~groupLost'
                 PROVE  \E s \in Skies : GroupOf(s)'
      OBVIOUS
    <3>1. OneGroup
      BY <2>1, Zenon DEF OneGroup
    <3>2. /\ Expected = Sentences(sky)
          /\ Len(List) = (IF next * PerSentence < Len(sky) THEN next * PerSentence
                                                           ELSE Len(sky))
          /\ FrontOf(List, sky)
      BY <2>1, <3>1, ListIsFront
    <3>3. next < Sentences(sky)
      BY <1>0, <2>1, <3>2
    <3>4. next * PerSentence < Len(sky)
      BY <1>0, <3>3, SentencesOfSky
    <3>5. Len(List) = next * PerSentence
      BY <3>2, <3>4
    <3>6. StillSent(sky)'
      BY <1>0, <2>1 DEF StillSent
    <3>7. FrontOf(new_satellites', sky')
      BY <2>1, <3>2
    <3>8. GroupOf(sky)'
      BY <1>0, <2>1, <3>2, <3>3, <3>5, <3>6, <3>7 DEF GroupOf, FrontOf
    <3> QED  BY <1>0, <2>1, <3>8
  <2> QED  BY <1>0, <2>1, <2>2, <2>3, <2>4 DEF GroupInv
<1>4. ASSUME GarminSatData  PROVE GroupInv'
  <2>1. /\ parser = "garmin" /\ parser' = parser /\ message_count' = message_count
        /\ new_satellites' = << >>
    BY <1>4 DEF GarminSatData, SetSatellites, context
  <2> QED  BY <2>1 DEF GroupInv
<1>5. ASSUME UNCHANGED <<parser, message_count, number_of_messages, new_satellites, pending>>,
             message_count # 0 /\ ~groupLost' => ~groupLost /\ burst' < number_of_messages,
             \A s \in Skies : message_count # 0 /\ (StillSent(s) \/ SentBefore(s))
                                /\ message_count < Sentences(s)
                               => StillSent(s)' \/ SentBefore(s)'
      PROVE  GroupInv'
  <2>1. ASSUME NEW s \in Skies, GroupOf(s), message_count # 0  PROVE GroupOf(s)'
    <3>1. StillSent(s)' \/ SentBefore(s)'
      BY <1>5, <2>1 DEF GroupOf
    <3> QED  BY <1>5, <2>1, <3>1 DEF GroupOf, FrontOf
  <2>2. Grouped
    <3> SUFFICES ASSUME pending' = 0, message_count' # 0, ~groupLost'
                 PROVE  \E s \in Skies : GroupOf(s)'
      OBVIOUS
    <3>1. PICK s \in Skies : GroupOf(s)
      BY <1>5 DEF GroupInv
    <3> QED  BY <1>5, <2>1, <3>1
  <2>3. /\ parser' = "garmin" => message_count' = 0
        /\ pending' = 0 /\ message_count' = 0 => new_satellites' = << >>
        /\ message_count' # 0 /\ ~groupLost' => burst' < number_of_messages'
        /\ message_count' # 0 => number_of_messages' \in Nat \ {0}
    BY <1>5 DEF GroupInv
  <2> QED  BY <2>2, <2>3 DEF GroupInv
<1>6. ASSUME (\E ids \in InUseSets : Gsa(ids)) \/ UNCHANGED vars  PROVE GroupInv'
  <2>1. /\ UNCHANGED <<parser, message_count, number_of_messages, new_satellites, pending>>
        /\ UNCHANGED <<groupLost, burst, sky, next>>
    BY <1>6 DEF Gsa, vars, context, client, device, history
  <2>2. message_count # 0 /\ ~groupLost' => ~groupLost /\ burst' < number_of_messages
    BY <2>1 DEF GroupInv
  <2> QED  BY <1>5, <2>1, <2>2 DEF StillSent, SentBefore
<1>7. ASSUME NextGroup  PROVE GroupInv'
  <2>1. /\ next > Sentences(sky) /\ next' = 1 /\ burst' = burst /\ groupLost' = groupLost
        /\ UNCHANGED <<parser, message_count, number_of_messages, new_satellites, pending>>
    BY <1>7 DEF NextGroup, context, history
  <2>2. ASSUME NEW s \in Skies, StillSent(s) \/ SentBefore(s), message_count < Sentences(s)
        PROVE  SentBefore(s)'
    <3>1. Sentences(s) \in Nat
      BY SentencesOfSky
    <3>2. Sentences(s) - message_count <= burst
      BY <1>0, <2>1, <2>2, <3>1 DEF StillSent, SentBefore
    <3> QED  BY <1>0, <2>1, <3>1, <3>2 DEF SentBefore
  <2>3. message_count # 0 /\ ~groupLost' => ~groupLost /\ burst' < number_of_messages
    BY <2>1 DEF GroupInv
  <2> QED  BY <1>5, <2>1, <2>2, <2>3
<1>8. ASSUME Lose  PROVE GroupInv'
  <2>1. /\ burst' = burst + 1 /\ sky' = sky /\ (parser = "nmea" => next' = next + 1)
        /\ groupLost' = (groupLost \/ (message_count # 0 /\ burst' >= number_of_messages))
        /\ UNCHANGED <<parser, message_count, number_of_messages, new_satellites, pending>>
    BY <1>8 DEF Lose, context
  <2>2. message_count # 0 => parser = "nmea"
    BY <1>0, <2>1 DEF GroupInv
  <2>3. ASSUME NEW s \in Skies, StillSent(s) \/ SentBefore(s), message_count # 0
        PROVE  StillSent(s)' \/ SentBefore(s)'
    <3>1. Sentences(s) \in Nat
      BY SentencesOfSky
    <3> QED  BY <1>0, <2>1, <2>2, <2>3, <3>1 DEF StillSent, SentBefore
  <2>4. ASSUME message_count # 0, ~groupLost'
        PROVE  ~groupLost /\ burst' < number_of_messages
    <3>1. ~groupLost /\ ~(burst' >= number_of_messages)
      BY <2>1, <2>4, Zenon
    <3>2. number_of_messages \in Nat /\ burst' \in Nat
      BY <1>0, <2>1 DEF Types, ContextTypeOK
    <3> QED  BY <3>1, <3>2
  <2> QED  BY <1>5, <2>1, <2>3, <2>4
<1>9. ASSUME Restart  PROVE GroupInv'
  BY <1>0, <1>9 DEF Restart, GroupInv
<1> QED  BY <1>1, <1>2, <1>3, <1>4, <1>6, <1>7, <1>8, <1>9 DEF Next, Gsv

\* A list that takes the place of the current one shows its satellites.
LEMMA ShowsSky ==
    ASSUME Types, NEW list \in Seq(Satellite), SetSatellites(list),
           Len(list) = Len(sky), FrontOf(list, sky)
    PROVE  VisibleSky' = sky
<1>1. sky \in Skies /\ MAX_SAT_SVID \in Nat
  BY SizesAssumption DEF Types, DeviceTypeOK
<1>2. /\ Len(sky) \in Nat /\ Len(sky) <= MAX_SAT_SVID
      /\ sky = [i \in 1 .. Len(sky) |-> <<sky[i][1], sky[i][2]>>]
  BY <1>1, SkyIsSeq, SkiesAssumption
<1>3. DOMAIN list = 1 .. Len(list)
  OBVIOUS
<1> DEFINE n == Len(sky)
<1>4. n \in Nat /\ n <= MAX_SAT_SVID /\ Len(list) = n /\ DOMAIN list = 1 .. n
  BY <1>2, <1>3
<1>5. sky = [i \in 1 .. n |-> <<sky[i][1], sky[i][2]>>]
  BY <1>2
<1>6. \A i \in 1 .. n : list[i][1] = sky[i][1] /\ list[i][2] = sky[i][2]
  BY DEF FrontOf
<1> HIDE DEF n
<1>7. sat_count' = n
  BY <1>4 DEF SetSatellites
<1>8. \A i \in 1 .. n : satellites'[i] = list[i]
  BY <1>1, <1>4 DEF SetSatellites
<1>9. \A i \in 1 .. n : <<satellites'[i][1], satellites'[i][2]>> = <<sky[i][1], sky[i][2]>>
  BY <1>6, <1>8
<1>10. VisibleSky' = [i \in 1 .. n |-> <<satellites'[i][1], satellites'[i][2]>>]
  BY <1>7 DEF VisibleSky
<1>11. VisibleSky' = [i \in 1 .. n |-> <<sky[i][1], sky[i][2]>>]
  BY <1>9, <1>10, Zenon
<1> QED  BY <1>5, <1>11, Zenon

\* A new list is the sky that one group or one record described, for any losses and
\* restarts, unless a restart left something over in it or as many sentences as the
\* group has were lost in a row (parse_gsv, nmea-parser.c:308-320).
THEOREM GroupsAreWhole == Spec => CommitsWholeGroup
<1> DEFINE Whole == (parser = "garmin" \/ OneGroup) /\ Visible' # Visible => VisibleSky' = sky
<1>1. Init => Types /\ GroupInv
  BY InitTypes DEF Init, GroupInv
<1>2. Types /\ GroupInv /\ [Next]_vars => Types' /\ GroupInv'
  BY StepTypes, StepGroup
<1>3. Types /\ GroupInv /\ [Next]_vars => [Whole]_vars
  <2> SUFFICES ASSUME Types, GroupInv, Next, parser = "garmin" \/ OneGroup, Visible' # Visible
               PROVE  VisibleSky' = sky
    OBVIOUS
  <2>1. ASSUME GsvCompletes  PROVE VisibleSky' = sky
    <3>1. next <= Sentences(sky) /\ SetSatellites(List)
      BY <2>1 DEF GsvCompletes, SentenceArrives
    <3>2. List \in Seq(Satellite)
      BY <3>1, ListType
    <3>3. OneGroup
      BY <2>1 DEF GsvCompletes, SentenceArrives
    <3>4. Len(List) = Len(sky) /\ FrontOf(List, sky)
      BY <2>1, <3>3, CompletedIsSky
    <3> QED  BY <3>1, <3>2, <3>4, ShowsSky
  <2>2. ASSUME GarminSatData  PROVE VisibleSky' = sky
    <3>1. SetSatellites(Flagged(sky, Ids))
      BY <2>2 DEF GarminSatData
    <3>2. /\ Flagged(sky, Ids) \in Seq(Satellite) /\ Len(Flagged(sky, Ids)) = Len(sky)
          /\ FrontOf(Flagged(sky, Ids), sky)
      BY RecordType DEF FrontOf
    <3> QED  BY <3>1, <3>2, ShowsSky
  <2>3. ASSUME GsvSkipped \/ GsvCollected \/ (\E ids \in InUseSets : Gsa(ids))
               \/ NextGroup \/ Lose \/ Restart
        PROVE  FALSE
    <3>1. satellites' = satellites /\ sat_count' = sat_count
      BY <2>3 DEF GsvSkipped, GsvCollected, Gsa, NextGroup, Lose, Restart
    <3> QED  BY <3>1 DEF Visible
  <2> QED  BY <2>1, <2>2, <2>3 DEF Next, Gsv
<1> HIDE DEF Whole
<1>4. Spec => [][Whole]_vars
  BY <1>1, <1>2, <1>3, PTL DEF Spec
<1> QED  BY <1>4 DEF CommitsWholeGroup, Whole

-----------------------------------------------------------------------------
(* Recovery.  Whatever a restart or a loss left behind, the parser counts a    *)
(* group of which every sentence arrives, and has nothing left over when it is *)
(* through; from then on every such group is shown.                           *)

\* Nothing is left over between two groups.
Clean == message_count = 0 => new_satellites = << >>

Counting ==
    /\ message_count = next - 1
    /\ number_of_messages = Sentences(sky)

\* No sentence of the present group was lost.
Counted ==
    parser = "nmea" =>
        /\ 1 < next /\ next <= Sentences(sky) => Counting
        /\ next > Sentences(sky) => Clean

\* Nor was there anything left over before it.
Collecting ==
    IF parser = "nmea"
      THEN /\ next = 1 => Clean
           /\ 1 < next /\ next <= Sentences(sky) =>
                 /\ Counting
                 /\ Len(new_satellites) = message_count * PerSentence
                 /\ FrontOf(new_satellites, sky)
           /\ next > Sentences(sky) => Clean /\ VisibleSky = sky
      ELSE next > Sentences(sky) => VisibleSky = sky

\* A step that loses no sentence and does not restart the connection.
Undisturbed == burst' <= burst /\ restarts' = restarts

LEMMA UndisturbedSteps ==
    ASSUME Types, Next, Undisturbed
    PROVE  Gsv \/ (\E ids \in InUseSets : Gsa(ids)) \/ GarminSatData \/ NextGroup
<1>1. burst \in Nat /\ restarts \in Nat
  BY SizesAssumption DEF Types, DeviceTypeOK
<1>2. ~Lose /\ ~Restart
  BY <1>1 DEF Lose, Restart, Undisturbed
<1> QED  BY <1>2 DEF Next

LEMMA SkySentences == Types => sky \in Skies /\ Sentences(sky) \in Nat /\ Sentences(sky) >= 1
                               /\ next \in Nat /\ next >= 1 /\ message_count \in Nat
  BY SentencesOfSky DEF Types, DeviceTypeOK, ContextTypeOK

\* What leaves the parser, the list and the receiver alone.
LEMMA GsaIsNoMatter ==
    ASSUME NEW ids \in InUseSets, Gsa(ids)
    PROVE  (Counted => Counted') /\ (Collecting => Collecting')
<1>1. /\ UNCHANGED <<parser, message_count, number_of_messages, new_satellites,
                     satellites, sat_count, sky, next>>
  BY DEF Gsa, device
<1> QED  BY <1>1 DEF Counted, Collecting, Counting, Clean, FrontOf, VisibleSky

LEMMA CountedGsv ==
    ASSUME Types, Counted, Gsv
    PROVE  Counted'
<1>0. sky \in Skies /\ Sentences(sky) \in Nat /\ Sentences(sky) >= 1
      /\ next \in Nat /\ next >= 1 /\ message_count \in Nat
  BY SkySentences
<1>1. SentenceArrives
  BY DEF Gsv, GsvSkipped, GsvCollected, GsvCompletes
<1>2. parser = "nmea" /\ parser' = "nmea" /\ sky' = sky /\ next' = next + 1
      /\ next <= Sentences(sky)
  BY <1>1 DEF SentenceArrives
<1>3. Expected = Sentences(sky) /\ (Missed => next = 1)
  BY <1>0, <1>2 DEF Counted, Counting, Expected, Missed
<1>4. CASE GsvSkipped
  BY <1>3, <1>4 DEF GsvSkipped
<1>5. CASE GsvCollected
  <2>1. message_count' = next /\ number_of_messages' = Sentences(sky) /\ next # Sentences(sky)
    BY <1>3, <1>5 DEF GsvCollected
  <2> QED  BY <1>0, <1>2, <2>1 DEF Counted, Counting
<1>6. CASE GsvCompletes
  <2>1. next = Sentences(sky) /\ new_satellites' = << >>
    BY <1>3, <1>6 DEF GsvCompletes, SetSatellites
  <2> QED  BY <1>0, <1>2, <2>1 DEF Counted, Clean
<1> QED  BY <1>4, <1>5, <1>6 DEF Gsv

LEMMA CollectingGsv ==
    ASSUME Types, Collecting, Gsv
    PROVE  Collecting'
<1>0. sky \in Skies /\ Sentences(sky) \in Nat /\ Sentences(sky) >= 1
      /\ next \in Nat /\ next >= 1 /\ message_count \in Nat
  BY SkySentences
<1>1. SentenceArrives
  BY DEF Gsv, GsvSkipped, GsvCollected, GsvCompletes
<1>2. parser = "nmea" /\ parser' = "nmea" /\ sky' = sky /\ next' = next + 1
      /\ next <= Sentences(sky)
  BY <1>1 DEF SentenceArrives
<1>3. Expected = Sentences(sky) /\ (Missed => next = 1)
  BY <1>0, <1>2 DEF Collecting, Counting, Expected, Missed
<1>4. Len(Collected) = (next - 1) * PerSentence /\ FrontOf(Collected, sky)
  <2>1. CASE next = 1
    <3>1. Collected = << >>
      <4>1. Missed \/ message_count = 0
        BY <1>0, <2>1 DEF Missed
      <4> QED  BY <1>2, <2>1, <4>1 DEF Collected, Collecting, Clean
    <3>2. (next - 1) * PerSentence = 0
      BY <2>1, SizesAssumption
    <3> QED  BY <3>1, <3>2 DEF FrontOf
  <2>2. CASE next # 1
    <3>1. Counting /\ Len(new_satellites) = message_count * PerSentence
          /\ FrontOf(new_satellites, sky)
      BY <1>0, <1>2, <2>2 DEF Collecting
    <3>2. Collected = new_satellites
      BY <1>0, <3>1 DEF Counting, Collected, Missed
    <3> QED  BY <3>1, <3>2 DEF Counting
  <2> QED  BY <2>1, <2>2
<1>5. /\ Len(List) = (IF next * PerSentence < Len(sky) THEN next * PerSentence ELSE Len(sky))
      /\ FrontOf(List, sky)
  BY <1>2, <1>4, ListGrows
<1>6. CASE GsvSkipped
  BY <1>3, <1>6 DEF GsvSkipped
<1>7. CASE GsvCollected
  <2>1. /\ message_count' = next /\ number_of_messages' = Sentences(sky)
        /\ next # Sentences(sky) /\ new_satellites' = List
    BY <1>3, <1>7 DEF GsvCollected
  <2>2. next < Sentences(sky)
    BY <1>0, <1>2, <2>1
  <2>3. Len(List) = next * PerSentence
    BY <1>0, <1>5, <2>2, SentencesOfSky
  <2>4. FrontOf(new_satellites', sky')
    BY <1>2, <1>5, <2>1
  <2>5. next' - 1 = message_count' /\ next' # 1 /\ next' <= Sentences(sky')
        /\ Len(new_satellites') = message_count' * PerSentence
    BY <1>0, <1>2, <2>1, <2>2, <2>3
  <2>6. Counting'
    BY <1>2, <2>1, <2>5 DEF Counting
  <2>7. ~(next' > Sentences(sky'))
    BY <1>0, <1>2, <2>2
  <2> QED  BY <1>2, <2>4, <2>5, <2>6, <2>7 DEF Collecting, FrontOf
<1>8. CASE GsvCompletes
  <2>1. next = Sentences(sky) /\ SetSatellites(List)
    BY <1>3, <1>8 DEF GsvCompletes
  <2>2. List \in Seq(Satellite) /\ Len(List) = Len(sky)
    BY <1>2, <1>5, <2>1, ListType, LastSentence
  <2>3. VisibleSky' = sky
    BY <1>5, <2>1, <2>2, ShowsSky
  <2>4. Clean'
    BY <2>1 DEF SetSatellites, Clean
  <2> QED  BY <1>0, <1>2, <2>1, <2>3, <2>4 DEF Collecting
<1> QED  BY <1>6, <1>7, <1>8 DEF Gsv

LEMMA RecordShown ==
    ASSUME Types, GarminSatData
    PROVE  Counted' /\ Collecting'
<1>1. SetSatellites(Flagged(sky, Ids)) /\ parser' = "garmin" /\ sky' = sky
  BY DEF GarminSatData
<1>2. /\ Flagged(sky, Ids) \in Seq(Satellite) /\ Len(Flagged(sky, Ids)) = Len(sky)
      /\ FrontOf(Flagged(sky, Ids), sky)
  BY RecordType DEF FrontOf
<1>3. VisibleSky' = sky
  BY <1>1, <1>2, ShowsSky
<1> QED  BY <1>1, <1>3 DEF Counted, Collecting

\* The next group starts without a loss, and clean if the last one was counted.
LEMMA GroupBegins ==
    ASSUME Types, Types', NextGroup
    PROVE  Counted' /\ (Counted => Collecting')
<1>1. /\ next > Sentences(sky) /\ next' = 1
      /\ UNCHANGED <<parser, message_count, new_satellites>>
  BY DEF NextGroup, context
<1>2. ~(next' > Sentences(sky')) /\ ~(1 < next')
  BY <1>1, SentencesOfSky DEF Types, DeviceTypeOK
<1>3. Counted => (parser' = "nmea" => Clean')
  BY <1>1 DEF Counted, Clean
<1> QED  BY <1>2, <1>3 DEF Counted, Collecting

\* Whatever was lost or left behind by a restart: a group that begins is counted
\* as long as its sentences arrive, the group after one that was counted to its
\* end is collected, and one that is collected to its end is what GetSatellites
\* returns (parse_gsv and gypsy_client_clear_satellites).  No bound on losses,
\* restarts or the arrays is needed.
THEOREM GroupsGetThrough ==
    Spec => [][/\ NextGroup => Counted' /\ (Counted => Collecting')
               /\ Undisturbed => (Counted => Counted') /\ (Collecting => Collecting')
               /\ Collecting' /\ next' > Sentences(sky') => VisibleSky' = sky']_vars
<1> DEFINE Through ==
             /\ NextGroup => Counted' /\ (Counted => Collecting')
             /\ Undisturbed => (Counted => Counted') /\ (Collecting => Collecting')
             /\ Collecting' /\ next' > Sentences(sky') => VisibleSky' = sky'
<1>1. Types /\ Types' /\ [Next]_vars => [Through]_vars
  <2> SUFFICES ASSUME Types, Types', Next  PROVE Through
    OBVIOUS
  <2>1. NextGroup => Counted' /\ (Counted => Collecting')
    BY GroupBegins
  <2>2. ASSUME Undisturbed
        PROVE  (Counted => Counted') /\ (Collecting => Collecting')
    <3>1. ASSUME NextGroup, Collecting  PROVE Collecting'
      <4>1. next > Sentences(sky) /\ Sentences(sky) \in Nat /\ Sentences(sky) >= 1
            /\ next \in Nat
        BY <3>1, SkySentences DEF NextGroup
      <4>2. Counted
        BY <3>1, <4>1 DEF Counted, Collecting
      <4> QED  BY <3>1, <4>2, GroupBegins
    <3> QED  BY <2>1, <2>2, <3>1, UndisturbedSteps, CountedGsv, CollectingGsv,
                RecordShown, GsaIsNoMatter
  <2>3. Collecting' /\ next' > Sentences(sky') => VisibleSky' = sky'
    BY DEF Collecting
  <2> QED  BY <2>1, <2>2, <2>3
<1> HIDE DEF Through
<1>2. Spec => [][Through]_vars
  BY <1>1, InitTypes, StepTypes, PTL DEF Spec
<1> QED  BY <1>2 DEF Through

=============================================================================
