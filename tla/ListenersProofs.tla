------------------------- MODULE ListenersProofs -------------------------
(***************************************************************************)
(* What a listener is told is in order and ends with the present value, for  *)
(* any number of programs and listeners, of any kinds, and any bounds.       *)
(***************************************************************************)
EXTENDS Listeners, TLAPS

Stages == {"none", "sent", "matched", "settled", "deaf", "gone"}
Words == Nat \X Nat

LeaseTypeOK ==
    /\ held \in [Senders -> SUBSET {Path}]
    /\ live \in SUBSET {Path}
    /\ stopped \in BOOLEAN

DaemonTypeOK ==
    /\ object \in Nat
    /\ value \in [Kinds -> Nat]

ListenerTypeOK ==
    /\ kind \in [Listeners -> Kinds \cup {"none"}]
    /\ stage \in [Listeners -> Stages]
    /\ wire \in [Listeners -> Seq(Words)]
    /\ known \in [Listeners -> Words]
    /\ since \in [Listeners -> Words]
    /\ steady \in [Listeners -> BOOLEAN]

TypeOK == LeaseTypeOK /\ DaemonTypeOK /\ ListenerTypeOK

\* An object somebody leases is alive, a daemon that has stopped is leased by
\* nobody, and a living object has a number.
LeaseInv ==
    /\ stopped => \A s \in Senders : held[s] = {}
    /\ \A s \in Senders : Path \in held[s] => Path \in live
    /\ Path \in live => object >= 1

\* A listener has words on their way only while it hears, and none has
\* reached its program before it hears.
Life(l) ==
    /\ stage[l] \in {"sent", "matched", "settled"} => kind[l] \in Kinds
    /\ ~Hears(l) => wire[l] = <<>>
    /\ stage[l] \in {"none", "sent"} => known[l] = Nothing
    /\ stage[l] = "matched" => kind[l] \in Asking

\* No word on its way is ahead of the daemon.
NotAhead(l) ==
    \A i \in DOMAIN wire[l] : InOrder(wire[l][i], Word(l))

Ascending(l) ==
    \A i, j \in DOMAIN wire[l] :
        i < j /\ Nothing \notin {wire[l][i], wire[l][j]} => InOrder(wire[l][i], wire[l][j])

Leases(l) == steady[l] => Path \in held[l]

ToldRight(l) ==
    steady[l] /\ stage[l] = "settled" /\ ~Untold(l)
      => IsRight(l, LastWord(l)) \/ IsMasked(l, LastWord(l))

ListenerInv(l) == Life(l) /\ NotAhead(l) /\ Ascending(l) /\ Leases(l) /\ ToldRight(l)

IInv == TypeOK /\ LeaseInv /\ \A l \in Listeners : ListenerInv(l)

-----------------------------------------------------------------------------
(* Words and their order.                                                   *)

LEMMA LastOfAppend ==
    ASSUME NEW S, NEW s \in Seq(S), NEW e \in S
    PROVE  Append(s, e) \in Seq(S) /\ Append(s, e) # <<>> /\ Last(Append(s, e)) = e
BY DEF Last

LEMMA LastOfTail ==
    ASSUME NEW S, NEW s \in Seq(S), s # <<>>
    PROVE  /\ Head(s) \in S /\ Tail(s) \in Seq(S)
           /\ Tail(s) = <<>> => Last(s) = Head(s)
           /\ Tail(s) # <<>> => Last(s) = Last(Tail(s))
BY DEF Last

\* A daemon that goes on stays ahead of the words it is ahead of.
LEMMA Onwards ==
    ASSUME NEW w \in Words, NEW u \in Words, NEW v \in Words,
           InOrder(w, u), InOrder(u, v)
    PROVE  InOrder(w, v)
BY DEF Words, InOrder

LEMMA PresentWord ==
    ASSUME DaemonTypeOK, NEW l \in Listeners, kind[l] \in Kinds
    PROVE  /\ Word(l) \in Words /\ InOrder(Word(l), Word(l))
           /\ InOrder(Nothing, Word(l))
           /\ object >= 1 => Word(l) # Nothing
BY DEF DaemonTypeOK, Word, Words, InOrder, Nothing

\* A word that is not behind those on their way may follow them.
LEMMA FollowsInOrder ==
    ASSUME NEW s \in Seq(Words), NEW e \in Words,
           \A i, j \in DOMAIN s :
               i < j /\ Nothing \notin {s[i], s[j]} => InOrder(s[i], s[j]),
           e = Nothing \/ \A i \in DOMAIN s : InOrder(s[i], e),
           NEW i \in DOMAIN Append(s, e), NEW j \in DOMAIN Append(s, e),
           i < j, Nothing \notin {Append(s, e)[i], Append(s, e)[j]}
    PROVE  InOrder(Append(s, e)[i], Append(s, e)[j])
<1>1. DOMAIN s = 1 .. Len(s) /\ DOMAIN Append(s, e) = 1 .. Len(s) + 1 /\ Len(s) \in Nat
  OBVIOUS
<1>2. i \in DOMAIN s /\ Append(s, e)[i] = s[i]  BY <1>1
<1>3. CASE j \in DOMAIN s
  <2>1. Append(s, e)[j] = s[j]  BY <1>1, <1>3
  <2> QED  BY <1>2, <1>3, <2>1
<1>4. CASE j \notin DOMAIN s
  <2>1. Append(s, e)[j] = e  BY <1>1, <1>4
  <2> QED  BY <1>2, <2>1
<1> QED  BY <1>3, <1>4

-----------------------------------------------------------------------------
(* The daemon and its leases.                                               *)

\* A step of one listener, or of the bus for it.
ListenerStep(l) ==
    BusMatches(l) \/ DaemonAnswers(l) \/ Make(l) \/ Deliver(l) \/ Read(l) \/ Dispose(l)

LEMMA DaemonUntouched ==
    ASSUME NEW l, ListenerStep(l)
    PROVE  UNCHANGED <<leaseVars, daemonVars>>
<1>1. CASE BusMatches(l) \/ DaemonAnswers(l) \/ Dispose(l)
  BY <1>1 DEF BusMatches, DaemonAnswers, Dispose
<1>2. CASE Make(l)
  BY <1>2 DEF Make, NewPosition, NewAccuracy, NewCourse, NewSatellite, NewTime, NewDevice,
              Construct, ConstructDeaf
<1>3. CASE Deliver(l)
  BY <1>3 DEF Deliver, PositionChanged, AccuracyChanged, CourseChanged, SatellitesChanged,
              TimeChanged, DeviceChanged, Answered, Repeat
<1>4. CASE Read(l)
  BY <1>4 DEF Read, GetPosition, GetAccuracy, GetCourse, GetSatellites, GetTime, GetFixStatus,
              GetConnectionStatus, Get
<1> QED  BY <1>1, <1>2, <1>3, <1>4 DEF ListenerStep

LEMMA LeaseStep ==
    ASSUME LeaseTypeOK, DaemonTypeOK, LeaseInv, [Next]_vars
    PROVE  LeaseTypeOK' /\ DaemonTypeOK' /\ LeaseInv'
<1> USE DEF LeaseTypeOK, DaemonTypeOK, LeaseInv
<1>1. ASSUME NEW s \in Senders, Create(s)
      PROVE  LeaseTypeOK' /\ DaemonTypeOK' /\ LeaseInv'
  <2>1. held' \in [Senders -> SUBSET {Path}] /\ Path \in live' /\ live' \in SUBSET {Path}
        /\ stopped' = FALSE
    BY <1>1 DEF Create, Acquire
  <2>2. CASE Path \in live
    BY <1>1, <2>1, <2>2 DEF Create, daemonVars
  <2>3. CASE Path \notin live
    <3>1. object' = object + 1 /\ value' = [q \in Kinds |-> 0]
      BY <1>1, <2>3 DEF Create
    <3>2. DaemonTypeOK'  BY <3>1
    <3>3. object' >= 1  BY <3>1
    <3> QED  BY <2>1, <3>2, <3>3
  <2> QED  BY <2>2, <2>3
<1>2. ASSUME NEW s \in Senders, Shutdown(s)
      PROVE  LeaseTypeOK' /\ DaemonTypeOK' /\ LeaseInv'
  <2>1. held' \in [Senders -> SUBSET {Path}] /\ live' \in SUBSET live
        /\ Leased' \subseteq live' /\ ~stopped /\ UNCHANGED <<stopped, object, value>>
    BY <1>2 DEF Shutdown, Release, daemonVars
  <2>2. \A t \in Senders : Path \in held'[t] => Path \in live'
    BY <2>1 DEF Leased
  <2> QED  BY <2>1, <2>2
<1>3. CASE DaemonReclaims
  <2>1. live' = live \ {Path} /\ Path \notin Leased /\ UNCHANGED <<held, stopped, object, value>>
    BY <1>3 DEF DaemonReclaims, Reclaim, daemonVars
  <2>2. \A t \in Senders : Path \notin held[t]  BY <2>1 DEF Leased
  <2> QED  BY <2>1, <2>2
<1>4. CASE DaemonStops
  <2>1. \A s \in Senders : held[s] = {}  BY <1>4 DEF DaemonStops, Stop, Leased
  <2> QED  BY <1>4, <2>1 DEF DaemonStops, Stop, daemonVars
<1>5. CASE Activate
  BY <1>5 DEF Activate, daemonVars
<1>6. ASSUME NEW changed, NEW signalled, Emit(changed, signalled)
      PROVE  LeaseTypeOK' /\ DaemonTypeOK' /\ LeaseInv'
  BY <1>6 DEF Emit, leaseVars
<1>6a. CASE DaemonStarts
  <2>1. UNCHANGED <<held, live, stopped, object>>
    BY <1>6a DEF DaemonStarts, leaseVars
  <2>2. value' \in [Kinds -> Nat]
    <3>1. value["connection"] + 1 \in Nat  BY DEF Kinds
    <3> QED  BY <1>6a, <3>1 DEF DaemonStarts
  <2> QED  BY <2>1, <2>2
<1>7. CASE UNCHANGED <<leaseVars, daemonVars>>
  BY <1>7 DEF leaseVars, daemonVars
<1>8. ASSUME NEW l \in Listeners, ListenerStep(l)
      PROVE  UNCHANGED <<leaseVars, daemonVars>>
  BY <1>8, DaemonUntouched
<1>9. CASE UNCHANGED vars
  BY <1>7, <1>9 DEF vars
<1> QED
  BY <1>1, <1>2, <1>3, <1>4, <1>5, <1>6, <1>6a, <1>7, <1>8, <1>9
     DEF Next, DaemonReports, DaemonConnects, DaemonDisconnects, ListenerStep

-----------------------------------------------------------------------------
(* What the steps do to one listener.                                       *)

\* A step of one listener is no step of another.
LEMMA OthersUntouched ==
    ASSUME TypeOK, NEW k \in Listeners, ListenerStep(k), NEW l \in Listeners, l # k
    PROVE  /\ kind'[l] = kind[l] /\ stage'[l] = stage[l] /\ since'[l] = since[l]
           /\ known'[l] = known[l] /\ steady'[l] = steady[l] /\ wire'[l] = wire[l]
<1> USE DEF TypeOK, ListenerTypeOK
<1>1. CASE BusMatches(k) \/ DaemonAnswers(k) \/ Dispose(k)
  BY <1>1 DEF BusMatches, DaemonAnswers, Dispose
<1>2. CASE Make(k)
  BY <1>2 DEF Make, NewPosition, NewAccuracy, NewCourse, NewSatellite, NewTime, NewDevice,
              Construct, ConstructDeaf
<1>3. CASE Deliver(k)
  BY <1>3 DEF Deliver, PositionChanged, AccuracyChanged, CourseChanged, SatellitesChanged,
              TimeChanged, DeviceChanged, Answered, Repeat
<1>4. CASE Read(k)
  BY <1>4 DEF Read, GetPosition, GetAccuracy, GetCourse, GetSatellites, GetTime, GetFixStatus,
              GetConnectionStatus, Get
<1> QED  BY <1>1, <1>2, <1>3, <1>4 DEF ListenerStep

LEMMA OneListenerTypeStep ==
    ASSUME TypeOK, NEW l \in Listeners, ListenerStep(l),
           stage[l] \in {"sent", "matched", "settled"} => kind[l] \in Kinds
    PROVE  ListenerTypeOK'
<1> USE DEF TypeOK, ListenerTypeOK, Stages
<1>1. kind[l] \in Kinds => Word(l) \in Words
  BY PresentWord
<1>2. Nothing \in Words  BY DEF Nothing, Words
<1>3. CASE BusMatches(l)
  BY <1>1, <1>3 DEF BusMatches
<1>4. CASE DaemonAnswers(l)
  <2>1. kind[l] \in Kinds  BY <1>4 DEF DaemonAnswers
  <2>2. (IF Path \in live THEN Word(l) ELSE Nothing) \in Words  BY <1>1, <1>2, <2>1
  <2>3. Append(wire[l], IF Path \in live THEN Word(l) ELSE Nothing) \in Seq(Words)
    BY <2>2
  <2> QED  BY <1>4, <2>3 DEF DaemonAnswers
<1>5. ASSUME NEW k \in Kinds, Construct(l, k) PROVE ListenerTypeOK'
  BY <1>5 DEF Construct, LeaseTypeOK
<1>6. CASE ConstructDeaf(l)  BY <1>6 DEF ConstructDeaf
<1>7. CASE Make(l)
  BY <1>5, <1>6, <1>7
     DEF Make, NewPosition, NewAccuracy, NewCourse, NewSatellite, NewTime, NewDevice, Kinds
<1>8. wire[l] # <<>> => Head(wire[l]) \in Words /\ Tail(wire[l]) \in Seq(Words)
  BY LastOfTail
<1>9. CASE Repeat(l)  BY <1>8, <1>9 DEF Repeat
<1>10. CASE Answered(l)  BY <1>8, <1>9, <1>10 DEF Answered
<1>11. CASE Deliver(l)
  BY <1>9, <1>10, <1>11
     DEF Deliver, PositionChanged, AccuracyChanged, CourseChanged, SatellitesChanged,
         TimeChanged, DeviceChanged
<1>12. ASSUME NEW word, Get(l, word), word \in {Word(l), Masked}  PROVE ListenerTypeOK'
  <2>1. kind[l] \in Kinds  BY <1>12 DEF Get
  <2>2. word \in Words  BY <1>1, <1>12, <2>1 DEF Masked, Words
  <2> QED  BY <1>12, <2>2 DEF Get
<1>13. CASE Read(l)
  BY <1>12, <1>13
     DEF Read, GetPosition, GetAccuracy, GetCourse, GetSatellites, GetTime, GetFixStatus,
         GetConnectionStatus
<1>14. CASE Dispose(l)  BY <1>14 DEF Dispose
<1> QED  BY <1>3, <1>4, <1>7, <1>11, <1>13, <1>14 DEF ListenerStep

LEMMA ListenerTypeStep ==
    ASSUME IInv, [Next]_vars
    PROVE  ListenerTypeOK'
<1> USE DEF IInv, TypeOK, ListenerTypeOK
<1>1. ASSUME NEW l \in Listeners, ListenerStep(l) PROVE ListenerTypeOK'
  BY <1>1, OneListenerTypeStep DEF ListenerInv, Life
<1>2. ASSUME NEW changed, NEW signalled, Emit(changed, signalled) PROVE ListenerTypeOK'
  <2>1. ASSUME NEW l \in Listeners
        PROVE  (IF Hears(l) /\ kind[l] \in signalled
                THEN Append(wire[l], <<object, value'[kind[l]]>>) ELSE wire[l]) \in Seq(Words)
    <3>1. CASE Hears(l)
      <4>1. kind[l] \in Kinds  BY <3>1 DEF ListenerInv, Life, Hears
      <4>2. object \in Nat /\ value[kind[l]] \in Nat  BY <4>1 DEF DaemonTypeOK
      <4>3. value'[kind[l]] = IF kind[l] \in changed THEN value[kind[l]] + 1 ELSE value[kind[l]]
        BY <1>2, <4>1 DEF Emit
      <4>4. <<object, value'[kind[l]]>> \in Words  BY <4>2, <4>3 DEF Words
      <4> QED  BY <4>4
    <3> QED  BY <3>1
  <2> QED  BY <1>2, <2>1 DEF Emit
<1>3. ASSUME NEW s \in Senders, Create(s) \/ Shutdown(s) PROVE ListenerTypeOK'
  <2>1. UNCHANGED <<kind, stage, wire, known, since>>
    BY <1>3 DEF Create, Shutdown, listenerVars
  <2>2. steady' \in [Listeners -> BOOLEAN]
    BY <1>3 DEF Create, Shutdown, listenerVars
  <2> QED  BY <2>1, <2>2
<1>4. CASE UNCHANGED listenerVars  BY <1>4 DEF listenerVars
<1>5. CASE DaemonStarts \/ DaemonReclaims \/ DaemonStops \/ Activate \/ UNCHANGED vars
  BY <1>4, <1>5 DEF DaemonStarts, DaemonReclaims, DaemonStops, Activate, vars
<1> QED
  BY <1>1, <1>2, <1>3, <1>5
     DEF Next, DaemonReports, DaemonConnects, DaemonDisconnects, ListenerStep

LEMMA OtherListener ==
    ASSUME NEW l \in Listeners, ListenerInv(l), UNCHANGED daemonVars,
           kind'[l] = kind[l], stage'[l] = stage[l], wire'[l] = wire[l],
           known'[l] = known[l], since'[l] = since[l],
           steady'[l] => steady[l] /\ Path \in held'[l]
    PROVE  ListenerInv(l)'
<1> USE DEF ListenerInv, daemonVars
<1>1. Word(l)' = Word(l) /\ LastWord(l)' = LastWord(l) /\ Hears(l)' = Hears(l)
  BY DEF Word, LastWord, Hears
<1>2. Life(l)'  BY <1>1 DEF Life
<1>3. NotAhead(l)'  BY <1>1 DEF NotAhead
<1>4. Ascending(l)'  BY DEF Ascending
<1>5. Leases(l)'  BY DEF Leases
<1>6. ToldRight(l)'  BY <1>1 DEF ToldRight, IsRight, IsMasked, Untold
<1> QED  BY <1>2, <1>3, <1>4, <1>5, <1>6

LEMMA ConstructStep ==
    ASSUME IInv, NEW l \in Listeners, NEW k \in Kinds, Construct(l, k)
    PROVE  ListenerInv(l)'
<1> USE DEF IInv, TypeOK, ListenerTypeOK
<1>1. kind'[l] = k /\ stage'[l] = "sent" /\ wire'[l] = <<>> /\ known'[l] = Nothing
  BY DEF Construct, ListenerInv, Life, Hears
<1>2. steady'[l] => Path \in held'[l]
  BY DEF Construct, leaseVars
<1>3. Life(l)'  BY <1>1 DEF Life, Hears
<1>4. NotAhead(l)' /\ Ascending(l)'  BY <1>1 DEF NotAhead, Ascending
<1>5. Leases(l)'  BY <1>2 DEF Leases
<1>6. ToldRight(l)'  BY <1>1 DEF ToldRight
<1> QED  BY <1>3, <1>4, <1>5, <1>6 DEF ListenerInv

LEMMA ConstructDeafStep ==
    ASSUME IInv, NEW l \in Listeners, ConstructDeaf(l)
    PROVE  ListenerInv(l)'
<1> USE DEF IInv, TypeOK, ListenerTypeOK
<1>1. stage'[l] = "deaf" /\ wire'[l] = <<>>
  BY DEF ConstructDeaf, ListenerInv, Life, Hears
<1>2. steady'[l] => Path \in held'[l]
  BY DEF ConstructDeaf, leaseVars, ListenerInv, Leases
<1>3. Life(l)'  BY <1>1 DEF Life, Hears
<1>4. NotAhead(l)' /\ Ascending(l)'  BY <1>1 DEF NotAhead, Ascending
<1>5. Leases(l)'  BY <1>2 DEF Leases
<1>6. ToldRight(l)'  BY <1>1 DEF ToldRight
<1> QED  BY <1>3, <1>4, <1>5, <1>6 DEF ListenerInv

LEMMA DisposeStep ==
    ASSUME IInv, NEW l \in Listeners, Dispose(l)
    PROVE  ListenerInv(l)'
<1> USE DEF IInv, TypeOK, ListenerTypeOK
<1>1. stage'[l] = "gone" /\ wire'[l] = <<>> /\ ~steady'[l]
  BY DEF Dispose
<1>3. Life(l)'  BY <1>1 DEF Life, Hears
<1>4. NotAhead(l)' /\ Ascending(l)'  BY <1>1 DEF NotAhead, Ascending
<1>5. Leases(l)' /\ ToldRight(l)'  BY <1>1 DEF Leases, ToldRight
<1> QED  BY <1>3, <1>4, <1>5 DEF ListenerInv

\* The bus takes the match: nothing has been heard, and the present value is
\* the one the listener starts with.
LEMMA BusMatchesStep ==
    ASSUME IInv, NEW l \in Listeners, BusMatches(l)
    PROVE  ListenerInv(l)'
<1> USE DEF IInv, TypeOK, ListenerTypeOK
<1>1. /\ kind'[l] = kind[l] /\ kind[l] \in Kinds /\ wire'[l] = <<>> /\ known'[l] = Nothing
      /\ stage'[l] = IF kind[l] \in Asking THEN "matched" ELSE "settled"
      /\ since'[l] = Word(l) /\ Word(l)' = Word(l)
      /\ steady'[l] = steady[l] /\ held'[l] = held[l]
  BY DEF BusMatches, ListenerInv, Life, Hears, leaseVars, daemonVars, Word
<1>3. Life(l)'  BY <1>1 DEF Life, Hears
<1>4. NotAhead(l)' /\ Ascending(l)'  BY <1>1 DEF NotAhead, Ascending
<1>5. Leases(l)'  BY <1>1 DEF ListenerInv, Leases
<1>6. ToldRight(l)'
  <2>1. stage'[l] = "settled" => kind'[l] \notin Asking  BY <1>1
  <2>2. LastWord(l)' = Nothing  BY <1>1 DEF LastWord
  <2>3. kind'[l] # "none"  BY <1>1 DEF Kinds
  <2> QED  BY <1>1, <2>1, <2>2, <2>3 DEF ToldRight, IsRight
<1> QED  BY <1>3, <1>4, <1>5, <1>6 DEF ListenerInv

\* The answer to the constructor's Get goes out behind the signals.
LEMMA DaemonAnswersStep ==
    ASSUME IInv, NEW l \in Listeners, DaemonAnswers(l)
    PROVE  ListenerInv(l)'
<1> USE DEF IInv, TypeOK, ListenerTypeOK
<1> DEFINE e == IF Path \in live THEN Word(l) ELSE Nothing
<1>1. /\ stage[l] = "matched" /\ stage'[l] = "settled"
      /\ kind'[l] = kind[l] /\ kind[l] \in Kinds
      /\ wire'[l] = Append(wire[l], e)
      /\ known'[l] = known[l]
      /\ Word(l)' = Word(l) /\ steady'[l] = steady[l] /\ held'[l] = held[l]
  BY DEF DaemonAnswers, ListenerInv, Life, Hears, leaseVars, daemonVars, Word
<1>2. e \in Words /\ InOrder(e, Word(l))
  BY <1>1, PresentWord DEF Nothing, Words
<1>3. wire[l] \in Seq(Words)  OBVIOUS
<1>4. Path \in live => e = Word(l)  OBVIOUS
<1>5. Path \notin live => e = Nothing  OBVIOUS
<1> HIDE DEF e
<1>6. Life(l)'  BY <1>1 DEF Life, Hears
<1>7. NotAhead(l)'
  <2> SUFFICES ASSUME NEW i \in DOMAIN Append(wire[l], e)
               PROVE  InOrder(Append(wire[l], e)[i], Word(l))
    BY <1>1 DEF NotAhead
  <2>1. CASE i \in DOMAIN wire[l]
    <3>1. Append(wire[l], e)[i] = wire[l][i]  BY <1>2, <1>3, <2>1
    <3> QED  BY <2>1, <3>1 DEF ListenerInv, NotAhead
  <2>2. CASE i \notin DOMAIN wire[l]
    <3>1. Append(wire[l], e)[i] = e  BY <1>2, <1>3, <2>2
    <3> QED  BY <1>2, <3>1
  <2> QED  BY <2>1, <2>2
<1>8. Ascending(l)'
  <2>1. e = Nothing \/ \A i \in DOMAIN wire[l] : InOrder(wire[l][i], e)
    BY <1>4, <1>5 DEF ListenerInv, NotAhead
  <2>2. \A i, j \in DOMAIN wire[l] : i < j /\ Nothing \notin {wire[l][i], wire[l][j]} =>
                InOrder(wire[l][i], wire[l][j])
    BY DEF ListenerInv, Ascending
  <2> QED  BY <1>1, <1>2, <1>3, <2>1, <2>2, FollowsInOrder DEF Ascending
<1>9. Leases(l)'  BY <1>1 DEF ListenerInv, Leases
<1>10. ToldRight(l)'
  <2>1. steady[l] => Path \in live
    BY ListenersAreSenders DEF ListenerInv, Leases, LeaseInv
  <2>2. LastWord(l)' = e  BY <1>1, <1>2, <1>3, LastOfAppend DEF LastWord
  <2>3. kind'[l] # "none"  BY <1>1 DEF Kinds
  <2> QED  BY <1>1, <1>4, <2>1, <2>2, <2>3 DEF ToldRight, IsRight
<1> QED  BY <1>6, <1>7, <1>8, <1>9, <1>10 DEF ListenerInv

\* A message is passed on, and what follows it is still right.
LEMMA RepeatStep ==
    ASSUME IInv, NEW l \in Listeners, Repeat(l)
    PROVE  ListenerInv(l)'
<1> USE DEF IInv, TypeOK, ListenerTypeOK
<1>1. /\ wire[l] # <<>> /\ wire[l] \in Seq(Words)
      /\ kind'[l] = kind[l] /\ stage'[l] = stage[l] /\ since'[l] = since[l]
      /\ wire'[l] = Tail(wire[l])
      /\ known'[l] = Head(wire[l])
      /\ Word(l)' = Word(l) /\ steady'[l] = steady[l] /\ held'[l] = held[l]
      /\ Untold(l)' = Untold(l)
  BY DEF Repeat, leaseVars, daemonVars, Word, Untold
<1>2. Hears(l) /\ Hears(l)'
  BY <1>1 DEF ListenerInv, Life, Hears
<1>3. Life(l)'  BY <1>1, <1>2 DEF ListenerInv, Life, Hears
<1>4. \A i \in DOMAIN Tail(wire[l]) :
          i + 1 \in DOMAIN wire[l] /\ Tail(wire[l])[i] = wire[l][i + 1] /\ i \in Nat
  BY <1>1
<1>5. NotAhead(l)'  BY <1>1, <1>4 DEF ListenerInv, NotAhead
<1>6. Ascending(l)'
  <2> SUFFICES ASSUME NEW i \in DOMAIN Tail(wire[l]), NEW j \in DOMAIN Tail(wire[l]), i < j,
                      Nothing \notin {Tail(wire[l])[i], Tail(wire[l])[j]}
               PROVE  InOrder(Tail(wire[l])[i], Tail(wire[l])[j])
    BY <1>1 DEF Ascending
  <2>1. i + 1 < j + 1  BY <1>4
  <2> QED  BY <1>4, <2>1 DEF ListenerInv, Ascending
<1>7. Leases(l)'  BY <1>1 DEF ListenerInv, Leases
<1>8. LastWord(l)' = LastWord(l)  BY <1>1, LastOfTail DEF LastWord
<1>9. ToldRight(l)'  BY <1>1, <1>8 DEF ListenerInv, ToldRight, IsRight, IsMasked
<1> QED  BY <1>3, <1>5, <1>6, <1>7, <1>9 DEF ListenerInv

\* An error is dropped: it was not the last word of a leased object.
LEMMA ErrorStep ==
    ASSUME IInv, NEW l \in Listeners, kind[l] \in Asking,
           wire[l] # <<>>, Head(wire[l]) = Nothing,
           wire' = [wire EXCEPT ![l] = Tail(@)],
           UNCHANGED <<leaseVars, daemonVars, kind, stage, known, since, steady>>
    PROVE  ListenerInv(l)'
<1> USE DEF IInv, TypeOK, ListenerTypeOK
<1>1. /\ wire[l] \in Seq(Words)
      /\ kind'[l] = kind[l] /\ stage'[l] = stage[l] /\ since'[l] = since[l]
      /\ wire'[l] = Tail(wire[l])
      /\ known'[l] = known[l]
      /\ Word(l)' = Word(l) /\ steady'[l] = steady[l] /\ held'[l] = held[l]
  BY DEF leaseVars, daemonVars, Word
<1>2. Hears(l) /\ Hears(l)'
  BY <1>1 DEF ListenerInv, Life, Hears
<1>3. Life(l)'  BY <1>1, <1>2 DEF ListenerInv, Life, Hears
<1>4. \A i \in DOMAIN Tail(wire[l]) :
          i + 1 \in DOMAIN wire[l] /\ Tail(wire[l])[i] = wire[l][i + 1] /\ i \in Nat
  BY <1>1
<1>5. NotAhead(l)'  BY <1>1, <1>4 DEF ListenerInv, NotAhead
<1>6. Ascending(l)'
  <2> SUFFICES ASSUME NEW i \in DOMAIN Tail(wire[l]), NEW j \in DOMAIN Tail(wire[l]), i < j,
                      Nothing \notin {Tail(wire[l])[i], Tail(wire[l])[j]}
               PROVE  InOrder(Tail(wire[l])[i], Tail(wire[l])[j])
    BY <1>1 DEF Ascending
  <2>1. i + 1 < j + 1  BY <1>4
  <2> QED  BY <1>4, <2>1 DEF ListenerInv, Ascending
<1>7. Leases(l)'  BY <1>1 DEF ListenerInv, Leases
<1>8. ASSUME steady[l], stage[l] = "settled"
      PROVE  Tail(wire[l]) # <<>>
  <2>1. object >= 1
    BY <1>8, ListenersAreSenders DEF ListenerInv, Leases, LeaseInv
  <2>2. Word(l) # Nothing
    BY <1>8, <2>1, PresentWord DEF ListenerInv, Life
  <2>3. LastWord(l) # Nothing
    BY <1>8, <2>2 DEF ListenerInv, ToldRight, IsRight, IsMasked, Untold, Asking
  <2> QED  BY <1>1, <2>3, LastOfTail DEF LastWord
<1>9. ToldRight(l)'
  <2>1. ASSUME steady[l], stage[l] = "settled"
        PROVE  LastWord(l)' = LastWord(l)
    BY <1>1, <1>8, <2>1, LastOfTail DEF LastWord
  <2> QED  BY <1>1, <2>1 DEF ListenerInv, ToldRight, IsRight, IsMasked, Untold, Asking
<1> QED  BY <1>3, <1>5, <1>6, <1>7, <1>9 DEF ListenerInv

LEMMA DeliverStep ==
    ASSUME IInv, NEW l \in Listeners, Deliver(l)
    PROVE  ListenerInv(l)'
<1>1. CASE Repeat(l)  BY <1>1, RepeatStep
<1>2. ASSUME kind[l] \in Asking, Answered(l)
      PROVE  ListenerInv(l)'
  BY <1>1, <1>2, ErrorStep DEF Answered
<1> QED
  BY <1>1, <1>2
     DEF Deliver, PositionChanged, AccuracyChanged, CourseChanged, SatellitesChanged,
         TimeChanged, DeviceChanged, Asking

\* What a getter returns is the present value, whatever is on its way; or the course
\* under the mask of the position.
LEMMA GetStep ==
    ASSUME IInv, NEW l \in Listeners, NEW word, Get(l, word),
           word = Word(l) \/ IsMasked(l, word)
    PROVE  ListenerInv(l)'
<1> USE DEF IInv, TypeOK, ListenerTypeOK
<1>1. /\ stage[l] = "settled" /\ kind[l] \in Kinds
      /\ kind'[l] = kind[l] /\ stage'[l] = stage[l] /\ since'[l] = since[l]
      /\ wire'[l] = wire[l] /\ known'[l] = word
      /\ Word(l)' = Word(l) /\ steady'[l] = steady[l] /\ held'[l] = held[l]
      /\ Untold(l)' = Untold(l)
  BY DEF Get, leaseVars, daemonVars, Word, Untold, ListenerInv, Life
<1>2. Life(l)'  BY <1>1 DEF ListenerInv, Life, Hears
<1>3. NotAhead(l)'  BY <1>1 DEF ListenerInv, NotAhead
<1>4. Ascending(l)'  BY <1>1 DEF ListenerInv, Ascending
<1>5. Leases(l)'  BY <1>1 DEF ListenerInv, Leases
<1>6. LastWord(l)' = LastWord(l) \/ LastWord(l)' = word
  BY <1>1 DEF LastWord
<1>7. kind[l] # "none"  BY <1>1 DEF Kinds
<1>8. ToldRight(l)'  BY <1>1, <1>6, <1>7 DEF ListenerInv, ToldRight, IsRight, IsMasked
<1> QED  BY <1>2, <1>3, <1>4, <1>5, <1>8 DEF ListenerInv

LEMMA ReadStep ==
    ASSUME IInv, NEW l \in Listeners, Read(l)
    PROVE  ListenerInv(l)'
BY GetStep
   DEF Read, GetPosition, GetAccuracy, GetCourse, GetSatellites, GetTime, GetFixStatus,
       GetConnectionStatus, IsMasked

LEMMA MakeStep ==
    ASSUME IInv, NEW l \in Listeners, Make(l)
    PROVE  ListenerInv(l)'
BY ConstructStep, ConstructDeafStep
   DEF Make, NewPosition, NewAccuracy, NewCourse, NewSatellite, NewTime, NewDevice, Kinds

\* The daemon moves on, and says so to everybody who hears it, of the connection too
\* if that has moved.
LEMMA EmitStep ==
    ASSUME IInv, NEW changed, NEW signalled, changed \subseteq signalled,
           Emit(changed, signalled), NEW l \in Listeners,
           link' = link \/ "connection" \in signalled
    PROVE  ListenerInv(l)'
<1> USE DEF IInv, TypeOK, ListenerTypeOK
<1> DEFINE e == <<object, value'[kind[l]]>>
<1>1. /\ kind'[l] = kind[l] /\ stage'[l] = stage[l] /\ since'[l] = since[l]
      /\ known'[l] = known[l] /\ steady'[l] = steady[l] /\ held'[l] = held[l]
      /\ object' = object /\ object >= 1
      /\ Hears(l)' = Hears(l)
      /\ Path \in live
  BY DEF Emit, leaseVars, Hears, LeaseInv
<1>2. wire'[l] = IF Hears(l) /\ kind[l] \in signalled THEN Append(wire[l], e) ELSE wire[l]
  BY DEF Emit
<1>3. Life(l)'  BY <1>1, <1>2 DEF ListenerInv, Life
<1>4. Leases(l)'  BY <1>1 DEF ListenerInv, Leases
<1>5. CASE ~Hears(l)
  <2>1. wire'[l] = <<>>  BY <1>2, <1>5 DEF ListenerInv, Life
  <2>2. NotAhead(l)' /\ Ascending(l)'  BY <2>1 DEF NotAhead, Ascending
  <2>3. ToldRight(l)'  BY <1>1, <1>5 DEF ToldRight, Hears
  <2> QED  BY <1>3, <1>4, <2>2, <2>3 DEF ListenerInv
<1>6. CASE Hears(l)
  <2>1. kind[l] \in Kinds  BY <1>6 DEF ListenerInv, Life, Hears
  <2>2. /\ value[kind[l]] \in Nat /\ value'[kind[l]] \in Nat /\ object \in Nat
        /\ value'[kind[l]] >= value[kind[l]]
        /\ kind[l] \notin signalled => value'[kind[l]] = value[kind[l]]
    <3>1. value[kind[l]] \in Nat /\ object \in Nat  BY <2>1 DEF DaemonTypeOK
    <3>2. value'[kind[l]] = IF kind[l] \in changed THEN value[kind[l]] + 1 ELSE value[kind[l]]
      BY <2>1 DEF Emit
    <3> QED  BY <3>1, <3>2
  <2>3. e \in Words /\ Word(l) \in Words /\ Word(l)' = e /\ InOrder(Word(l), e) /\ InOrder(e, e)
    <3>1. Word(l)' = e  BY <1>1 DEF Word
    <3>2. e \in Words /\ Word(l) \in Words  BY <2>2 DEF Words, Word
    <3>3. InOrder(Word(l), e) /\ InOrder(e, e)  BY <2>2 DEF Word, InOrder
    <3> QED  BY <3>1, <3>2, <3>3
  <2>4. wire[l] \in Seq(Words)  OBVIOUS
  <2>5. kind[l] \notin signalled => Word(l) = e  BY <2>2 DEF Word
  <2> HIDE DEF e
  <2>6. \A i \in DOMAIN wire[l] : InOrder(wire[l][i], e)
    <3> SUFFICES ASSUME NEW i \in DOMAIN wire[l] PROVE InOrder(wire[l][i], e)
      OBVIOUS
    <3>1. InOrder(wire[l][i], Word(l))  BY DEF ListenerInv, NotAhead
    <3>2. wire[l][i] \in Words  BY <2>4
    <3> QED  BY <2>3, <3>1, <3>2, Onwards
  <2>7. \A i, j \in DOMAIN wire[l] : i < j /\ Nothing \notin {wire[l][i], wire[l][j]} =>
                InOrder(wire[l][i], wire[l][j])
    BY DEF ListenerInv, Ascending
  <2>8. kind'[l] # "none"  BY <1>1, <2>1 DEF Kinds
  <2>9. CASE kind[l] \in signalled
    <3>1. wire'[l] = Append(wire[l], e)  BY <1>2, <1>6, <2>9
    <3>2. NotAhead(l)'
      <4> SUFFICES ASSUME NEW i \in DOMAIN Append(wire[l], e)
                   PROVE  InOrder(Append(wire[l], e)[i], e)
        BY <2>3, <3>1 DEF NotAhead
      <4>1. CASE i \in DOMAIN wire[l]
        <5>1. Append(wire[l], e)[i] = wire[l][i]  BY <2>3, <2>4, <4>1
        <5> QED  BY <2>6, <4>1, <5>1
      <4>2. CASE i \notin DOMAIN wire[l]
        <5>1. Append(wire[l], e)[i] = e  BY <2>3, <2>4, <4>2
        <5> QED  BY <2>3, <5>1
      <4> QED  BY <4>1, <4>2
    <3>3. Ascending(l)'
      BY <2>3, <2>4, <2>6, <2>7, <3>1, FollowsInOrder DEF Ascending
    <3>4. LastWord(l)' = e  BY <2>3, <2>4, <3>1, LastOfAppend DEF LastWord
    <3>5. ToldRight(l)'  BY <2>3, <2>8, <3>4 DEF ToldRight, IsRight
    <3> QED  BY <1>3, <1>4, <3>2, <3>3, <3>5 DEF ListenerInv
  <2>10. CASE kind[l] \notin signalled
    <3>1. wire'[l] = wire[l] /\ Word(l)' = Word(l)  BY <1>2, <2>3, <2>5, <2>10
    <3>2. NotAhead(l)'  BY <3>1 DEF ListenerInv, NotAhead
    <3>3. Ascending(l)'  BY <3>1 DEF ListenerInv, Ascending
    <3>4. LastWord(l)' = LastWord(l)  BY <1>1, <3>1 DEF LastWord
    <3>5. Untold(l)' = Untold(l)
      <4>1. link' = link \/ kind[l] # "connection"  BY <2>10
      <4> QED  BY <1>1, <4>1 DEF Untold
    <3>6. ToldRight(l)'  BY <1>1, <3>1, <3>4, <3>5 DEF ListenerInv, ToldRight, IsRight, IsMasked
    <3> QED  BY <1>3, <1>4, <3>2, <3>3, <3>6 DEF ListenerInv
  <2> QED  BY <2>9, <2>10
<1> QED  BY <1>5, <1>6

\* Start changes the connection and says nothing: who follows it is excepted.
LEMMA StartsStep ==
    ASSUME IInv, DaemonStarts, NEW l \in Listeners
    PROVE  ListenerInv(l)'
<1> USE DEF IInv, TypeOK, ListenerTypeOK
<1>1. /\ kind'[l] = kind[l] /\ stage'[l] = stage[l] /\ since'[l] = since[l]
      /\ known'[l] = known[l] /\ steady'[l] = steady[l] /\ wire'[l] = wire[l]
      /\ object' = object /\ held' = held /\ link' \in {"opening", "stuck"}
  BY DEF DaemonStarts, listenerVars, leaseVars
<1>2. Life(l)'  BY <1>1 DEF ListenerInv, Life, Hears
<1>3. Leases(l)'  BY <1>1 DEF ListenerInv, Leases
<1>4. Ascending(l)'  BY <1>1 DEF ListenerInv, Ascending
<1>5. NotAhead(l)'
  <2> SUFFICES ASSUME NEW i \in DOMAIN wire[l] PROVE InOrder(wire[l][i], Word(l)')
    BY <1>1 DEF NotAhead
  <2>1. kind[l] \in Kinds  BY DEF ListenerInv, Life, Hears
  <2>2. object \in Nat /\ value[kind[l]] \in Nat /\ value["connection"] \in Nat
    BY <2>1 DEF DaemonTypeOK, Kinds
  <2>3. value'[kind[l]] = IF kind[l] = "connection" THEN value[kind[l]] + 1 ELSE value[kind[l]]
    BY <2>1 DEF DaemonStarts, DaemonTypeOK
  <2>4. Word(l) \in Words /\ Word(l)' \in Words /\ InOrder(Word(l), Word(l)')
    BY <1>1, <2>2, <2>3 DEF Word, Words, InOrder
  <2>5. InOrder(wire[l][i], Word(l)) /\ wire[l][i] \in Words
    BY DEF ListenerInv, NotAhead
  <2> QED  BY <2>4, <2>5, Onwards
<1>6. ToldRight(l)'
  <2>1. CASE kind[l] = "connection"
    BY <1>1, <2>1 DEF ToldRight, Untold
  <2>2. CASE kind[l] # "connection"
    <3>1. stage[l] = "settled" => Word(l)' = Word(l)
      BY <1>1, <2>2 DEF ListenerInv, Life, DaemonStarts, DaemonTypeOK, Word
    <3>2. LastWord(l)' = LastWord(l) /\ ~Untold(l)
      BY <1>1, <2>2 DEF LastWord, Untold
    <3> QED  BY <1>1, <3>1, <3>2 DEF ListenerInv, ToldRight, IsRight, IsMasked
  <2> QED  BY <2>1, <2>2
<1> QED  BY <1>2, <1>3, <1>4, <1>5, <1>6 DEF ListenerInv

\* A new object takes the path only when no steady listener follows the last.
LEMMA CreateStep ==
    ASSUME IInv, NEW s \in Senders, Create(s), NEW l \in Listeners
    PROVE  ListenerInv(l)'
<1> USE DEF IInv, TypeOK, ListenerTypeOK
<1>1. /\ kind'[l] = kind[l] /\ stage'[l] = stage[l] /\ since'[l] = since[l]
      /\ known'[l] = known[l] /\ steady'[l] = steady[l] /\ wire'[l] = wire[l]
  BY DEF Create, listenerVars
<1>2. l \in Senders /\ held[l] \subseteq held'[l]
  BY ListenersAreSenders DEF Create, Acquire, LeaseTypeOK
<1>3. CASE Path \in live
  <2>1. UNCHANGED daemonVars  BY <1>3 DEF Create
  <2> QED  BY <1>1, <1>2, <2>1, OtherListener DEF ListenerInv, Leases
<1>4. CASE Path \notin live
  <2>1. ~steady[l]  BY <1>2, <1>4 DEF ListenerInv, Leases, LeaseInv
  <2>2. Life(l)'  BY <1>1 DEF ListenerInv, Life, Hears
  <2>3. Leases(l)' /\ ToldRight(l)'  BY <1>1, <2>1 DEF Leases, ToldRight
  <2>4. Ascending(l)'  BY <1>1 DEF ListenerInv, Ascending
  <2>5. NotAhead(l)'
    <3>1. CASE wire[l] = <<>>  BY <1>1, <3>1 DEF NotAhead
    <3>2. CASE wire[l] # <<>>
      <4>1. kind[l] \in Kinds  BY <3>2 DEF ListenerInv, Life, Hears
      <4>2. object \in Nat /\ object' = object + 1 /\ value'[kind[l]] = 0 /\ value[kind[l]] \in Nat
        BY <1>4, <4>1 DEF Create, DaemonTypeOK
      <4>3. Word(l) \in Words /\ Word(l)' \in Words /\ InOrder(Word(l), Word(l)')
        BY <1>1, <4>2 DEF Word, Words, InOrder
      <4> SUFFICES ASSUME NEW i \in DOMAIN wire[l] PROVE InOrder(wire[l][i], Word(l)')
        BY <1>1 DEF NotAhead
      <4>4. InOrder(wire[l][i], Word(l)) /\ wire[l][i] \in Words
        BY DEF ListenerInv, NotAhead
      <4> QED  BY <4>3, <4>4, Onwards
    <3> QED  BY <3>1, <3>2
  <2> QED  BY <2>2, <2>3, <2>4, <2>5 DEF ListenerInv
<1> QED  BY <1>3, <1>4

LEMMA ShutdownStep ==
    ASSUME IInv, NEW s \in Senders, Shutdown(s), NEW l \in Listeners
    PROVE  ListenerInv(l)'
<1> USE DEF IInv, TypeOK, ListenerTypeOK
<1>1. /\ kind'[l] = kind[l] /\ stage'[l] = stage[l] /\ since'[l] = since[l]
      /\ known'[l] = known[l] /\ wire'[l] = wire[l] /\ UNCHANGED daemonVars
      /\ steady'[l] => steady[l] /\ l # s
  BY DEF Shutdown
<1>2. steady'[l] => Path \in held'[l]
  BY <1>1, ListenersAreSenders DEF Shutdown, Release, LeaseTypeOK, ListenerInv, Leases
<1> QED  BY <1>1, <1>2, OtherListener

-----------------------------------------------------------------------------
(* The inductive invariant.                                                 *)

LEMMA OneAtATime ==
    ASSUME IInv, NEW k \in Listeners, ListenerStep(k), NEW l \in Listeners
    PROVE  ListenerInv(l)'
<1>1. CASE l = k
  BY <1>1, BusMatchesStep, DaemonAnswersStep, MakeStep, DeliverStep, ReadStep, DisposeStep
     DEF ListenerStep
<1>2. CASE l # k
  <2>1. /\ kind'[l] = kind[l] /\ stage'[l] = stage[l] /\ since'[l] = since[l]
        /\ known'[l] = known[l] /\ steady'[l] = steady[l] /\ wire'[l] = wire[l]
    BY <1>2, OthersUntouched DEF IInv, TypeOK
  <2>2. UNCHANGED daemonVars /\ held' = held  BY DaemonUntouched DEF leaseVars
  <2> QED  BY <2>1, <2>2, OtherListener DEF IInv, ListenerInv, Leases
<1> QED  BY <1>1, <1>2

\* Nothing is on its way to a listener that is gone, and it asks no more.
LEMMA GoneStep ==
    ASSUME IInv, [Next]_vars, NEW l \in Listeners, stage[l] = "gone"
    PROVE  UNCHANGED known[l]
<1>1. wire[l] = <<>>  BY DEF IInv, ListenerInv, Life, Hears
<1>2. ASSUME NEW k \in Listeners, ListenerStep(k) PROVE known'[l] = known[l]
  <2>1. CASE k # l  BY <1>2, <2>1, OthersUntouched DEF IInv
  <2>2. CASE k = l
    BY <1>1, <1>2, <2>2
       DEF ListenerStep, BusMatches, DaemonAnswers, Dispose,
           Make, NewPosition, NewAccuracy, NewCourse, NewSatellite, NewTime, NewDevice,
           Construct, ConstructDeaf,
           Deliver, PositionChanged, AccuracyChanged, CourseChanged, SatellitesChanged,
           TimeChanged, DeviceChanged, Answered, Repeat,
           Read, GetPosition, GetAccuracy, GetCourse, GetSatellites, GetTime, GetFixStatus,
              GetConnectionStatus, Get
  <2> QED  BY <2>1, <2>2
<1>3. ASSUME NEW changed, NEW signalled, Emit(changed, signalled) PROVE known' = known
  BY <1>3 DEF Emit
<1>4. CASE \/ DaemonStarts \/ DaemonReclaims \/ DaemonStops \/ Activate \/ UNCHANGED vars
           \/ \E s \in Senders : Create(s) \/ Shutdown(s)
  BY <1>4 DEF DaemonStarts, DaemonReclaims, DaemonStops, Activate, Create, Shutdown, listenerVars, vars
<1> QED
  BY <1>2, <1>3, <1>4 DEF Next, DaemonReports, DaemonConnects, DaemonDisconnects, ListenerStep

LEMMA InitIInv == Init => IInv
<1> SUFFICES ASSUME Init PROVE IInv
  OBVIOUS
<1>1. TypeOK
  <2>1. LeaseTypeOK  BY DEF Init, LeaseInit, LeaseTypeOK
  <2>2. DaemonTypeOK  BY DEF Init, DaemonTypeOK
  <2>3. Nothing \in Words /\ <<>> \in Seq(Words)  BY DEF Nothing, Words
  <2>4. wire \in [Listeners -> Seq(Words)]  BY <2>3 DEF Init
  <2>5. known \in [Listeners -> Words] /\ since \in [Listeners -> Words]  BY <2>3 DEF Init
  <2>6. kind \in [Listeners -> Kinds \cup {"none"}] /\ stage \in [Listeners -> Stages]
    BY DEF Init, Stages
  <2>7. steady \in [Listeners -> BOOLEAN]  BY DEF Init
  <2> QED  BY <2>1, <2>2, <2>4, <2>5, <2>6, <2>7 DEF TypeOK, ListenerTypeOK
<1>2. LeaseInv  BY DEF Init, LeaseInit, LeaseInv
<1>3. ASSUME NEW l \in Listeners PROVE ListenerInv(l)
  BY <1>3 DEF Init, ListenerInv, Life, Hears, NotAhead, Ascending, Leases, ToldRight
<1> QED  BY <1>1, <1>2, <1>3 DEF IInv

LEMMA NextIInv == IInv /\ [Next]_vars => IInv'
<1> SUFFICES ASSUME IInv, [Next]_vars PROVE IInv'
  OBVIOUS
<1>1. LeaseTypeOK' /\ DaemonTypeOK' /\ LeaseInv'
  BY LeaseStep DEF IInv, TypeOK
<1>2. ListenerTypeOK'
  BY ListenerTypeStep DEF IInv, TypeOK
<1>3. ASSUME NEW l \in Listeners PROVE ListenerInv(l)'
  <2>1. ASSUME NEW signalled, NEW changed, changed \subseteq signalled, Emit(changed, signalled),
               link' = link \/ "connection" \in signalled
        PROVE  ListenerInv(l)'
    BY <2>1, EmitStep
  <2>2. CASE DaemonReports  BY <2>1, <2>2 DEF DaemonReports
  <2>3. CASE DaemonConnects \/ DaemonDisconnects
    BY <2>1, <2>3 DEF DaemonConnects, DaemonDisconnects
  <2>3a. CASE DaemonStarts
    BY <2>3a, StartsStep
  <2>4. ASSUME NEW s \in Senders, Create(s) \/ Shutdown(s) PROVE ListenerInv(l)'
    BY <2>4, CreateStep, ShutdownStep
  <2>5. ASSUME NEW k \in Listeners, ListenerStep(k) PROVE ListenerInv(l)'
    BY <2>5, OneAtATime
  <2>6. CASE UNCHANGED <<held, daemonVars, listenerVars>>
    BY <2>6, OtherListener DEF IInv, ListenerInv, Leases, listenerVars
  <2>7. CASE DaemonReclaims \/ DaemonStops \/ Activate \/ UNCHANGED vars
    BY <2>6, <2>7 DEF DaemonReclaims, Reclaim, DaemonStops, Stop, Activate, vars, leaseVars
  <2> QED  BY <2>2, <2>3, <2>3a, <2>4, <2>5, <2>7 DEF Next, ListenerStep
<1> QED  BY <1>1, <1>2, <1>3 DEF IInv, TypeOK

\* The inductive invariant holds in every reachable state.
THEOREM ListenersIInv == Spec => []IInv
BY InitIInv, NextIInv, PTL DEF Spec

\* The words on their way to a listener are in the order in which the daemon
\* said them, the answer to the constructor's Get among them.
THEOREM WiresNeverGoBack == Spec => []WireNeverGoesBack
<1>1. IInv => WireNeverGoesBack
  BY DEF IInv, ListenerInv, Ascending, WireNeverGoesBack
<1> QED  BY <1>1, ListenersIInv, PTL

\* While a program keeps its lease, the last word its listener has, heard or on
\* its way, is the present value; but for a course read with GetCourse, and for the
\* connection from Start to its signal (gypsy-client.c:555-712, 802-823).
THEOREM LastWordsAreRight == Spec => []LastWordIsRight
<1>1. IInv => LastWordIsRight
  BY DEF IInv, ListenerInv, ToldRight, LastWordIsRight
<1> QED  BY <1>1, ListenersIInv, PTL

\* A listener that is gone tells its program nothing more.
THEOREM TheGoneAreQuiet == Spec => GoneIsQuiet
<1>1. IInv /\ [Next]_vars => [\A l \in Listeners : stage[l] = "gone" => UNCHANGED known[l]]_vars
  BY GoneStep
<1> QED  BY <1>1, ListenersIInv, PTL DEF Spec, GoneIsQuiet
=============================================================================
