------------------------- MODULE ClientObjectProofs -------------------------
(***************************************************************************)
(* First the connection, for every set of device kinds and of baud rates,    *)
(* then the life of a Client object, for any kinds of device, any senders and *)
(* any number of references: whoever drops the last reference, no source and  *)
(* no open device is left behind, and what the device does to the references  *)
(* is what the server's view of the object says.                            *)
(***************************************************************************)
EXTENDS ClientObject, FiniteSetTheorems, TLAPS

-----------------------------------------------------------------------------
(* The connection (ClientConnection).  None of its safety properties is       *)
(* inductive alone: that a parser fits the type of the device needs the order *)
(* in which the sources come and go, and that the listeners are not left      *)
(* believing in a connection needs it too.                                  *)

\* The type is settled as GARMIN only by the connect source, which removes
\* itself; Start resets it before it installs that source again.
ConnectBeforeGarmin == connect_id => type # "GARMIN"

\* The inductive invariant.
IInv ==
    /\ TypeOK
    /\ SourcesHaveChannel
    /\ InputHasParser
    /\ ConnectOnce
    /\ HangUpIsSeen
    /\ ConnectBeforeGarmin
    /\ SignalledIsConnected
    /\ SpeedInEffect

LEMMA InitIInv == Init => IInv
  <1> SUFFICES ASSUME Init PROVE IInv OBVIOUS
  <1>1. TypeOK BY DEF Init, TypeOK, NoReply
  <1>2. SourcesHaveChannel /\ HangUpIsSeen
    BY DEF Init, SourcesHaveChannel, HangUpIsSeen
  <1>3. InputHasParser BY DEF Init, InputHasParser
  <1>4. ConnectOnce /\ ConnectBeforeGarmin /\ SpeedInEffect
    BY DEF Init, ConnectOnce, ConnectBeforeGarmin, SpeedInEffect
  <1>5. SignalledIsConnected BY DEF Init, SignalledIsConnected
  <1> QED BY <1>1, <1>2, <1>3, <1>4, <1>5 DEF IInv

-----------------------------------------------------------------------------
(* SetStartOptions touches the baud rate only, and only while there is no    *)
(* channel, so no source whose terminal could disagree with it.              *)

LEMMA SetBaudRateStep ==
    ASSUME IInv, NEW rate \in BaudRates, SetBaudRate(rate) PROVE IInv'
  <1> USE DEF IInv, SetBaudRate, sources
  <1>1. TypeOK' BY DEF TypeOK
  <1>2. ~connect_id /\ ~input_id BY DEF SourcesHaveChannel
  <1>3. SpeedInEffect' BY <1>2 DEF SpeedInEffect
  <1> QED
    BY <1>1, <1>2, <1>3
    DEF SourcesHaveChannel, InputHasParser, ConnectOnce, HangUpIsSeen,
        ConnectBeforeGarmin, SignalledIsConnected, Connected

LEMMA OtherStartOptionsStep == ASSUME IInv, OtherStartOptions PROVE IInv'
  <1> USE DEF IInv, OtherStartOptions, sources
  <1>1. TypeOK' BY DEF TypeOK
  <1> QED
    BY <1>1
    DEF SourcesHaveChannel, InputHasParser, ConnectOnce, HangUpIsSeen,
        ConnectBeforeGarmin, SignalledIsConnected, SpeedInEffect, Connected, IsTty

-----------------------------------------------------------------------------
(* Start leaves by one of seven ways.                                       *)

LEMMA StartTypes == ASSUME IInv, Start PROVE TypeOK'
  <1> USE DEF IInv, TypeOK, StartReturns
  <1>1. CASE StartAlready BY <1>1 DEF StartAlready
  <1>2. CASE StartOpenFails BY <1>2 DEF StartOpenFails, IsTty
  <1>3. CASE StartTermiosFails BY <1>3 DEF StartTermiosFails
  <1>4. CASE StartWithoutBluez BY <1>4 DEF StartWithoutBluez
  <1>5. CASE StartChannelFails BY <1>5 DEF StartChannelFails, DeviceOpened, IsTty
  <1>6. CASE StartConnectFails BY <1>6 DEF StartConnectFails, DeviceOpened, IsTty
  <1>7. CASE StartSucceeds BY <1>7 DEF StartSucceeds, DeviceOpened, IsTty
  <1> QED BY <1>1, <1>2, <1>3, <1>4, <1>5, <1>6, <1>7 DEF Start

\* While the descriptor is closed nothing is left of an earlier connection,
\* which is why the ways that open it start from scratch.
LEMMA ClosedIsBare ==
    ASSUME IInv, fd = "none"
    PROVE  /\ ~error_id /\ ~connect_id /\ ~input_id
           /\ parser = "none"
           /\ signalled # "connected"
  BY DEF IInv, TypeOK, SourcesHaveChannel, InputHasParser, SignalledIsConnected,
         Connected

LEMMA StartStep == ASSUME IInv, Start PROVE IInv'
  <1> USE DEF IInv, SourcesHaveChannel, InputHasParser, ConnectOnce, HangUpIsSeen,
              ConnectBeforeGarmin, SignalledIsConnected, SpeedInEffect, Connected,
              StartReturns
  <1>t. TypeOK' BY StartTypes
  <1>b. TypeOK BY DEF TypeOK
  <1>1. CASE StartAlready BY <1>1, <1>t DEF StartAlready, IsTty
  <1>2. CASE StartOpenFails BY <1>2, <1>t, ClosedIsBare DEF StartOpenFails
  <1>3. CASE StartTermiosFails BY <1>3, <1>t, ClosedIsBare DEF StartTermiosFails
  <1>4. CASE StartWithoutBluez BY <1>4, <1>t, ClosedIsBare DEF StartWithoutBluez
  <1>5. CASE StartChannelFails BY <1>5, <1>t, ClosedIsBare DEF StartChannelFails, DeviceOpened
  <1>6. CASE StartConnectFails BY <1>6, <1>t, ClosedIsBare DEF StartConnectFails, DeviceOpened
  <1>7. CASE StartSucceeds
    BY <1>7, <1>t, <1>b, ClosedIsBare DEF StartSucceeds, DeviceOpened, IsTty
  <1> QED BY <1>1, <1>2, <1>3, <1>4, <1>5, <1>6, <1>7 DEF Start

-----------------------------------------------------------------------------
(* The sources run, and the connection ends.                                *)

LEMMA ConnectStep == ASSUME IInv, ChannelConnect PROVE IInv'
  <1> USE DEF IInv, TypeOK, SourcesHaveChannel, InputHasParser, ConnectOnce,
              HangUpIsSeen, ConnectBeforeGarmin, SignalledIsConnected,
              SpeedInEffect, Connected, IsTty, SignalConnected, NoReply
  <1>1. CASE ConnectProbeFails BY <1>1 DEF ConnectProbeFails
  <1>2. CASE ConnectGarmin BY <1>2 DEF ConnectGarmin
  <1>3. CASE ConnectNmea BY <1>3 DEF ConnectNmea
  <1> QED BY <1>1, <1>2, <1>3 DEF ChannelConnect

LEMMA ShutdownStep == ASSUME IInv, Stop \/ ChannelError PROVE IInv'
  <1>1. ShutdownConnection /\ signalled' = "disconnected"
    BY DEF Stop, ChannelError
  <1>2. reply' = <<"Stop", TRUE>> \/ reply' = <<"none", TRUE>>
    BY DEF Stop, ChannelError, NoReply
  <1>3. TypeOK'
    <2> USE <1>1 DEF IInv, TypeOK, ShutdownConnection
    <2>1. CASE reply' = <<"Stop", TRUE>> BY <2>1
    <2>2. CASE reply' = <<"none", TRUE>> BY <2>2
    <2> QED BY <1>2, <2>1, <2>2
  <1>4. ~error_id' /\ ~connect_id' /\ ~input_id' /\ parser' = "none"
    BY <1>1 DEF ShutdownConnection
  <1>5. SignalledIsConnected' BY <1>1 DEF SignalledIsConnected
  <1> QED
    BY <1>3, <1>4, <1>5
    DEF IInv, SourcesHaveChannel, InputHasParser, ConnectOnce, HangUpIsSeen,
        ConnectBeforeGarmin, SpeedInEffect

LEMMA NextIInv == IInv /\ [Next]_vars => IInv'
  <1> SUFFICES ASSUME IInv, [Next]_vars PROVE IInv' OBVIOUS
  <1>1. CASE Next
    BY <1>1, SetBaudRateStep, OtherStartOptionsStep, StartStep, ConnectStep, ShutdownStep DEF Next
  <1>2. CASE UNCHANGED vars
    BY <1>2 DEF vars, IInv, TypeOK, SourcesHaveChannel, InputHasParser, ConnectOnce,
         HangUpIsSeen, ConnectBeforeGarmin, SignalledIsConnected, SpeedInEffect,
         Connected, IsTty
  <1> QED BY <1>1, <1>2

LEMMA Invariance == Spec => []IInv
  BY InitIInv, NextIInv, PTL DEF Spec

-----------------------------------------------------------------------------
\* Every variable keeps its type, for every set of baud rates.
THEOREM TypeCorrect == Spec => []TypeOK
  <1>1. IInv => TypeOK BY DEF IInv
  <1> QED BY <1>1, Invariance, PTL

\* The three sources use a channel and an open descriptor, and the input
\* callback finds the one parser that fits the device, whichever of the ways
\* through Start, Stop and a hang-up led here.
THEOREM CallbacksAreSafe ==
    Spec => []SourcesHaveChannel /\ []InputHasParser /\ []ConnectOnce
  <1>1. IInv => SourcesHaveChannel /\ InputHasParser /\ ConnectOnce BY DEF IInv
  <1> QED BY <1>1, Invariance, PTL

\* A device that hangs up is noticed.
THEOREM HangUpIsAlwaysSeen == Spec => []HangUpIsSeen
  <1>1. IInv => HangUpIsSeen BY DEF IInv
  <1> QED BY <1>1, Invariance, PTL

\* The listeners are never left with "connected" when the descriptor is closed.
THEOREM ListenersAreTold == Spec => []SignalledIsConnected
  <1>1. IInv => SignalledIsConnected BY DEF IInv
  <1> QED BY <1>1, Invariance, PTL

\* A terminal that is read has the speed SetStartOptions asked for last.
THEOREM SpeedIsInEffect == Spec => []SpeedInEffect
  <1>1. IInv => SpeedInEffect BY DEF IInv
  <1> QED BY <1>1, Invariance, PTL

-----------------------------------------------------------------------------
(* The object.                                                              *)

EntriesOfPath == {c \in connections : c.client = Path}

ParserRefs == IF parser = "none" THEN 0 ELSE 1

RefsTypeOK ==
    /\ IsFiniteSet(connections)
    /\ refs \in [ObjectPaths -> Int]
    /\ leaked \in [ObjectPaths -> Nat]
    /\ device \in [ObjectPaths -> Devices \cup {NoDevice}]

\* Every reference on the object has an owner.
PathRefs == refs[Path] = Cardinality(EntriesOfPath) + ParserRefs + leaked[Path]

\* An NMEA parser has left a reference behind that nobody drops, so a hang-up
\* is never the end of its object.
NmeaLeaks == parser = "nmea" => leaked[Path] > 0

DeviceOfPath == Alive => device[Path] \in {d \in Allowed : CreatePath[d] = Path}

\* The connection of an object that is gone, or that was never started.
Bare ==
    /\ fd = "none" /\ parser = "none"
    /\ ~channel /\ ~error_id /\ ~connect_id /\ ~input_id

GoneIsBare == ~Alive => Bare

OwnersInv == RefsTypeOK /\ PathRefs /\ NmeaLeaks /\ DeviceOfPath /\ GoneIsBare

\* The inductive invariant: the one of the connection, and the owners'.
ObjectInv == IInv /\ OwnersInv

-----------------------------------------------------------------------------
(* What the server's calls do to the entries of the object.                 *)

LEMMA EntriesFinite ==
    ASSUME IsFiniteSet(connections)
    PROVE  IsFiniteSet(EntriesOfPath) /\ Cardinality(EntriesOfPath) \in Nat
BY FS_Subset, FS_CardinalityType DEF EntriesOfPath

\* The server counts as everybody does.
LEMMA CountedAlike == \A S : Server!Cardinality(S) = Cardinality(S)
BY DEF Server!Cardinality, Cardinality

LEMMA CreateEntries ==
    ASSUME OwnersInv, NEW s \in Senders, NEW d \in Devices, Server!Create(s, d)
    PROVE  /\ RefsTypeOK' /\ leaked' = leaked /\ d \in Allowed
           /\ CreatePath[d] = Path =>
                 /\ Cardinality(EntriesOfPath') = Cardinality(EntriesOfPath) + 1
                 /\ refs'[Path] = refs[Path] + 1
                 /\ device'[Path] = IF refs[Path] = 0 THEN d ELSE device[Path]
           /\ CreatePath[d] # Path =>
                 /\ EntriesOfPath' = EntriesOfPath
                 /\ refs'[Path] = refs[Path] /\ device'[Path] = device[Path]
<1> USE PathAssumption DEF OwnersInv, RefsTypeOK
<1>1. PICK n \in Server!FreeNodes :
         connections' = connections \cup {[node |-> n, sender |-> s, client |-> CreatePath[d]]}
  BY DEF Server!Create
<1> DEFINE c == [node |-> n, sender |-> s, client |-> CreatePath[d]]
<1>2. c \notin connections  BY DEF Server!FreeNodes
<1>3. c.client = CreatePath[d]  OBVIOUS
<1>4. connections' = connections \cup {c}  BY <1>1
<1> HIDE DEF c
<1>5. /\ refs' = [refs EXCEPT ![CreatePath[d]] = @ + 1]
      /\ device' = [device EXCEPT ![CreatePath[d]] = IF refs[CreatePath[d]] = 0 THEN d ELSE @]
      /\ leaked' = leaked /\ d \in Allowed
  BY DEF Server!Create, Server!RefOrRegister
<1>6. IsFiniteSet(connections')  BY <1>4, FS_AddElement
<1>7. refs' \in [ObjectPaths -> Int]  BY <1>5
<1>8. device' \in [ObjectPaths -> Devices \cup {NoDevice}]  BY <1>5
<1>9. CASE CreatePath[d] = Path
  <2>1. EntriesOfPath' = EntriesOfPath \cup {c} /\ c \notin EntriesOfPath
    BY <1>2, <1>3, <1>4, <1>9 DEF EntriesOfPath
  <2>2. Cardinality(EntriesOfPath') = Cardinality(EntriesOfPath) + 1
    BY <2>1, EntriesFinite, FS_AddElement
  <2> QED  BY <1>5, <1>6, <1>7, <1>8, <1>9, <2>2
<1>10. CASE CreatePath[d] # Path
  <2>1. EntriesOfPath' = EntriesOfPath  BY <1>3, <1>4, <1>10 DEF EntriesOfPath
  <2> QED  BY <1>5, <1>6, <1>7, <1>8, <1>10, <2>1
<1> QED  BY <1>9, <1>10

LEMMA ShutdownEntries ==
    ASSUME OwnersInv, NEW s \in Senders, NEW a \in ShutdownArgs, Server!ShutdownHeld(s, a)
    PROVE  /\ RefsTypeOK' /\ leaked' = leaked
           /\ ShutdownPath[a] = Path =>
                 /\ Cardinality(EntriesOfPath') = Cardinality(EntriesOfPath) - 1
                 /\ Cardinality(EntriesOfPath') \in Nat
                 /\ refs'[Path] = refs[Path] - 1
           /\ ShutdownPath[a] # Path =>
                 EntriesOfPath' = EntriesOfPath /\ refs'[Path] = refs[Path]
           /\ refs'[Path] > 0 => device'[Path] = device[Path]
<1> USE PathAssumption DEF OwnersInv, RefsTypeOK
<1>1. PICK c \in connections :
         c.client = ShutdownPath[a] /\ connections' = connections \ {c}
  BY DEF Server!ShutdownHeld, Server!HeldBy, Server!Entries
<1>2. /\ refs' = [refs EXCEPT ![ShutdownPath[a]] = @ - 1]
      /\ device' = [device EXCEPT
                      ![ShutdownPath[a]] = IF refs[ShutdownPath[a]] - 1 > 0 THEN @ ELSE NoDevice]
      /\ leaked' = leaked
  BY DEF Server!ShutdownHeld, Server!Unref
<1>3. IsFiniteSet(connections')  BY <1>1, FS_RemoveElement
<1>4. refs' \in [ObjectPaths -> Int]  BY <1>2
<1>5. device' \in [ObjectPaths -> Devices \cup {NoDevice}]  BY <1>2
<1>6. refs'[Path] > 0 => device'[Path] = device[Path]  BY <1>2
<1>7. CASE ShutdownPath[a] = Path
  <2>1. EntriesOfPath' = EntriesOfPath \ {c} /\ c \in EntriesOfPath
    BY <1>1, <1>7 DEF EntriesOfPath
  <2>2. Cardinality(EntriesOfPath') = Cardinality(EntriesOfPath) - 1
    BY <2>1, EntriesFinite, FS_RemoveElement
  <2>3. Cardinality(EntriesOfPath') \in Nat
    BY <1>3, FS_Subset, FS_CardinalityType DEF EntriesOfPath
  <2> QED  BY <1>2, <1>3, <1>4, <1>5, <1>6, <1>7, <2>2, <2>3
<1>8. CASE ShutdownPath[a] # Path
  <2>1. EntriesOfPath' = EntriesOfPath  BY <1>1, <1>8 DEF EntriesOfPath
  <2> QED  BY <1>2, <1>3, <1>4, <1>5, <1>6, <1>8, <2>1
<1> QED  BY <1>7, <1>8

LEMMA LeaveEntries ==
    ASSUME OwnersInv, NEW s \in Senders, Server!RemoveClients(s)
    PROVE  /\ RefsTypeOK' /\ leaked' = leaked
           /\ LET n == Cardinality(Server!HeldBy(s) \cap Server!Entries(Path))
              IN  /\ n \in Nat
                  /\ Cardinality(EntriesOfPath') = Cardinality(EntriesOfPath) - n
                  /\ Cardinality(EntriesOfPath') \in Nat
                  /\ refs'[Path] = refs[Path] - n
           /\ refs'[Path] > 0 => device'[Path] = device[Path]
<1> USE PathAssumption DEF OwnersInv, RefsTypeOK
<1> DEFINE gone == Server!HeldBy(s)
<1>1. connections' = connections \ gone /\ leaked' = leaked
  BY DEF Server!RemoveClients
<1>2. IsFiniteSet(gone) /\ gone \subseteq connections
  BY FS_Subset DEF Server!HeldBy
<1>3. ASSUME NEW p \in ObjectPaths PROVE Cardinality(gone \cap Server!Entries(p)) \in Nat
  BY <1>2, FS_Intersection, FS_CardinalityType
<1>4. Server!Entries(Path) = EntriesOfPath  BY DEF Server!Entries, EntriesOfPath
<1>5. IsFiniteSet(connections')  BY <1>1, <1>2, FS_Difference
<1>6. Cardinality(EntriesOfPath') = Cardinality(EntriesOfPath) - Cardinality(gone \cap Server!Entries(Path))
  <2>1. EntriesOfPath' = EntriesOfPath \ gone  BY <1>1 DEF EntriesOfPath
  <2>2. EntriesOfPath \cap gone = gone \cap Server!Entries(Path)  BY <1>4
  <2> HIDE DEF gone
  <2> QED  BY <1>2, <2>1, <2>2, EntriesFinite, FS_Difference
<1>7. Cardinality(EntriesOfPath') \in Nat
  BY <1>5, FS_Subset, FS_CardinalityType DEF EntriesOfPath
<1>8. refs' \in [ObjectPaths -> Int]
  <2>1. refs' = [p \in ObjectPaths |-> refs[p] - Cardinality(gone \cap Server!Entries(p))]
    BY CountedAlike DEF Server!RemoveClients
  <2> QED  BY <1>3, <2>1
<1>9. device' \in [ObjectPaths -> Devices \cup {NoDevice}]
  BY DEF Server!RemoveClients
<1>10. refs'[Path] = refs[Path] - Cardinality(gone \cap Server!Entries(Path))
  BY CountedAlike DEF Server!RemoveClients
<1>11. refs'[Path] > 0 => device'[Path] = device[Path]
  BY <1>10 DEF Server!RemoveClients
<1>12. Cardinality(gone \cap Server!Entries(Path)) \in Nat  BY <1>3
<1> QED  BY <1>1, <1>5, <1>6, <1>7, <1>8, <1>9, <1>10, <1>11, <1>12

-----------------------------------------------------------------------------
(* The connection keeps its invariant whatever the server does to it.       *)

LEMMA ConnectionSame == ASSUME IInv, UNCHANGED vars PROVE IInv'
BY NextIInv

LEMMA NewObjectStep == ASSUME NewObject PROVE IInv' /\ Bare'
<1> USE DEF NewObject
<1>1. TypeOK'  BY DEF TypeOK, NoReply
<1>2. SourcesHaveChannel' /\ HangUpIsSeen'  BY DEF SourcesHaveChannel, HangUpIsSeen
<1>3. InputHasParser'  BY DEF InputHasParser
<1>4. ConnectOnce' /\ ConnectBeforeGarmin' /\ SpeedInEffect'
  BY DEF ConnectOnce, ConnectBeforeGarmin, SpeedInEffect
<1>5. SignalledIsConnected'  BY DEF SignalledIsConnected
<1>6. Bare'  BY DEF Bare
<1> QED  BY <1>1, <1>2, <1>3, <1>4, <1>5, <1>6 DEF IInv

LEMMA FinalizeStep == ASSUME IInv, Finalize PROVE IInv' /\ Bare'
<1> USE DEF IInv, Finalize, ShutdownConnection
<1>1. TypeOK'  BY DEF TypeOK, NoReply
<1>2. SourcesHaveChannel' /\ HangUpIsSeen'  BY DEF SourcesHaveChannel, HangUpIsSeen
<1>3. InputHasParser'  BY DEF InputHasParser
<1>4. ConnectOnce' /\ ConnectBeforeGarmin' /\ SpeedInEffect'
  BY DEF ConnectOnce, ConnectBeforeGarmin, SpeedInEffect
<1>5. SignalledIsConnected'  BY DEF SignalledIsConnected
<1>6. Bare'  BY DEF Bare
<1> QED  BY <1>1, <1>2, <1>3, <1>4, <1>5, <1>6

LEMMA BareSame == ASSUME UNCHANGED vars PROVE Bare' = Bare
BY DEF vars, Bare

-----------------------------------------------------------------------------
(* One lemma for each action of the composition.                            *)

LEMMA CreateObjectStep ==
    ASSUME ObjectInv, NEW s \in Senders, NEW d \in Devices, CreateObject(s, d)
    PROVE  ObjectInv'
<1> USE PathAssumption
<1>1. OwnersInv /\ IInv /\ RefsTypeOK /\ PathRefs  BY DEF ObjectInv, OwnersInv
<1>2. Server!Create(s, d)  BY DEF CreateObject
<1>3. RefsTypeOK' /\ leaked' = leaked /\ d \in Allowed  BY <1>1, <1>2, CreateEntries
<1>4. refs[Path] \in Int /\ leaked[Path] \in Nat /\ Cardinality(EntriesOfPath) \in Nat
  BY <1>1, EntriesFinite DEF RefsTypeOK
<1>5. CASE CreatePath[d] = Path /\ ~Alive
  <2>1. NewObject  BY <1>5 DEF CreateObject
  <2>2. IInv' /\ Bare'  BY <2>1, NewObjectStep
  <2>3. parser = "none" /\ parser' = "none"
    BY <1>1, <1>5, <2>1 DEF OwnersInv, GoneIsBare, Bare, NewObject
  <2>4. PathRefs' /\ refs'[Path] = refs[Path] + 1
    BY <1>1, <1>2, <1>3, <1>4, <1>5, <2>3, CreateEntries DEF PathRefs, ParserRefs
  <2>5. refs[Path] = 0
    BY <1>1, <1>4, <1>5, <2>3 DEF PathRefs, ParserRefs, Alive
  <2>6. DeviceOfPath'
    BY <1>1, <1>2, <1>3, <1>5, <2>5, CreateEntries DEF DeviceOfPath
  <2>7. NmeaLeaks'  BY <2>3 DEF NmeaLeaks
  <2> QED  BY <1>3, <2>2, <2>4, <2>6, <2>7 DEF ObjectInv, OwnersInv, GoneIsBare
<1>6. CASE ~(CreatePath[d] = Path /\ ~Alive)
  <2>1. UNCHANGED vars  BY <1>6 DEF CreateObject
  <2>2. IInv' /\ parser' = parser  BY <1>1, <2>1, ConnectionSame DEF vars
  <2>3. refs'[Path] = refs[Path] \/ (refs'[Path] = refs[Path] + 1 /\ Alive)
    BY <1>1, <1>2, <1>6, CreateEntries
  <2>4. PathRefs'
    BY <1>1, <1>2, <1>3, <1>4, <2>2, CreateEntries DEF PathRefs, ParserRefs
  <2>5. DeviceOfPath'
    BY <1>1, <1>2, <1>4, <1>6, <2>3, CreateEntries DEF OwnersInv, DeviceOfPath, Alive
  <2>6. NmeaLeaks'  BY <1>1, <1>3, <2>2 DEF OwnersInv, NmeaLeaks
  <2>7. GoneIsBare'
    BY <1>1, <1>4, <2>1, <2>3, BareSame DEF OwnersInv, GoneIsBare, Alive
  <2> QED  BY <1>3, <2>2, <2>4, <2>5, <2>6, <2>7 DEF ObjectInv, OwnersInv
<1> QED  BY <1>5, <1>6

\* Dropping n references finalizes the object when they were the last.
LEMMA DropStep ==
    ASSUME ObjectInv, NEW n \in Nat, Drop(n), RefsTypeOK', leaked' = leaked,
           refs'[Path] = refs[Path] - n,
           Cardinality(EntriesOfPath') = Cardinality(EntriesOfPath) - n,
           Cardinality(EntriesOfPath') \in Nat,
           refs'[Path] > 0 => device'[Path] = device[Path]
    PROVE  ObjectInv'
<1> USE PathAssumption
<1>1. OwnersInv /\ IInv /\ RefsTypeOK /\ PathRefs  BY DEF ObjectInv, OwnersInv
<1>2. refs[Path] \in Int /\ leaked[Path] \in Nat /\ Cardinality(EntriesOfPath) \in Nat
  BY <1>1, EntriesFinite DEF RefsTypeOK
<1>3. ParserRefs \in {0, 1}  BY DEF ParserRefs
<1>4. DeviceOfPath'
  BY <1>1, <1>2 DEF OwnersInv, DeviceOfPath, Alive
<1>5. CASE n > 0 /\ refs[Path] = n
  <2>1. Finalize  BY <1>5 DEF Drop
  <2>2. IInv' /\ Bare'  BY <1>1, <2>1, FinalizeStep
  <2>3. parser = "none" /\ parser' = "none"
    BY <1>1, <1>2, <1>3, <1>5, <2>2 DEF PathRefs, ParserRefs, Bare
  <2>4. PathRefs'  BY <1>1, <1>2, <2>3 DEF PathRefs, ParserRefs
  <2>5. NmeaLeaks' /\ GoneIsBare'  BY <2>2, <2>3 DEF NmeaLeaks, GoneIsBare
  <2> QED  BY <1>4, <2>2, <2>4, <2>5 DEF ObjectInv, OwnersInv
<1>6. CASE ~(n > 0 /\ refs[Path] = n)
  <2>1. UNCHANGED vars  BY <1>6 DEF Drop
  <2>2. IInv' /\ parser' = parser  BY <1>1, <2>1, ConnectionSame DEF vars
  <2>3. PathRefs'  BY <1>1, <1>2, <1>3, <2>2 DEF PathRefs, ParserRefs
  <2>4. NmeaLeaks'  BY <1>1, <2>2 DEF OwnersInv, NmeaLeaks
  <2>5. Alive => Alive'
    <3>1. refs[Path] - n >= 0  BY <1>1, <1>2, <1>3 DEF PathRefs
    <3> QED  BY <1>2, <1>6, <3>1 DEF Alive
  <2>6. GoneIsBare'  BY <1>1, <2>1, <2>5, BareSame DEF OwnersInv, GoneIsBare
  <2> QED  BY <1>4, <2>2, <2>3, <2>4, <2>6 DEF ObjectInv, OwnersInv
<1> QED  BY <1>5, <1>6

LEMMA ShutdownObjectStep ==
    ASSUME ObjectInv, NEW s \in Senders, NEW a \in ShutdownArgs, ShutdownObject(s, a)
    PROVE  ObjectInv'
<1> DEFINE n == IF ShutdownPath[a] = Path THEN 1 ELSE 0
<1>1. OwnersInv /\ RefsTypeOK  BY DEF ObjectInv, OwnersInv
<1>2. Server!ShutdownHeld(s, a) /\ Drop(n)  BY DEF ShutdownObject
<1>3. refs[Path] \in Int /\ Cardinality(EntriesOfPath) \in Nat
  BY <1>1, EntriesFinite, PathAssumption DEF RefsTypeOK
<1>4. /\ refs'[Path] = refs[Path] - n
      /\ Cardinality(EntriesOfPath') = Cardinality(EntriesOfPath) - n
      /\ Cardinality(EntriesOfPath') \in Nat
  BY <1>1, <1>2, <1>3, ShutdownEntries
<1>5. RefsTypeOK' /\ leaked' = leaked /\ (refs'[Path] > 0 => device'[Path] = device[Path])
  BY <1>1, <1>2, ShutdownEntries
<1>6. n \in Nat  OBVIOUS
<1> HIDE DEF n
<1> QED  BY <1>2, <1>4, <1>5, <1>6, DropStep

LEMMA SenderLeavesStep ==
    ASSUME ObjectInv, NEW s \in Senders, SenderLeaves(s)
    PROVE  ObjectInv'
BY LeaveEntries, DropStep DEF SenderLeaves, ObjectInv

\* Nothing happens to the references and the list nodes.
LEMMA QuietStep ==
    ASSUME ObjectInv, IInv', parser' = parser, UNCHANGED <<connections, refs, leaked, device>>,
           Alive \/ (Bare => Bare')
    PROVE  ObjectInv'
<1> USE DEF ObjectInv, OwnersInv
<1>1. RefsTypeOK'  BY DEF RefsTypeOK
<1>2. PathRefs'  BY DEF PathRefs, EntriesOfPath, ParserRefs
<1>3. NmeaLeaks'  BY DEF NmeaLeaks
<1>4. DeviceOfPath'  BY DEF DeviceOfPath, Alive
<1>5. GoneIsBare'  BY DEF GoneIsBare, Alive
<1> QED  BY <1>1, <1>2, <1>3, <1>4, <1>5

LEMMA ServerOnlyStep == ASSUME ObjectInv, ServerOnly PROVE ObjectInv'
<1>1. UNCHANGED <<connections, refs, leaked, device>>
  BY DEF ServerOnly, Server!CreateRejected, Server!ShutdownUnknown, Server!ShutdownForeign,
         Server!Terminate, Server!objectVars
<1>2. UNCHANGED vars  BY DEF ServerOnly
<1> QED  BY <1>1, <1>2, ConnectionSame, BareSame, QuietStep DEF ObjectInv, vars

LEMMA MethodCallStep == ASSUME ObjectInv, MethodCall PROVE ObjectInv'
<1>1. Next /\ IInv  BY DEF MethodCall, Next, ObjectInv
<1>2. IInv'  BY <1>1, NextIInv
<1>3. parser' = parser
  BY DEF MethodCall, SetBaudRate, OtherStartOptions, Start, StartAlready, StartOpenFails,
         StartTermiosFails, StartWithoutBluez, StartChannelFails, StartConnectFails,
         StartSucceeds, StartReturns
<1>4. Alive /\ UNCHANGED <<connections, refs, leaked, device>>  BY DEF MethodCall, serverVars
<1> QED  BY <1>2, <1>3, <1>4, QuietStep

\* A parser that goes takes its reference with it; what is left is bare.
LEMMA UnrefParserStep ==
    ASSUME ObjectInv, ShutdownConnection, IInv', UnrefParser
    PROVE  ObjectInv'
<1> USE PathAssumption
<1>1. OwnersInv /\ IInv /\ RefsTypeOK /\ PathRefs  BY DEF ObjectInv, OwnersInv
<1>2. refs[Path] \in Int /\ leaked[Path] \in Nat /\ Cardinality(EntriesOfPath) \in Nat
  BY <1>1, EntriesFinite DEF RefsTypeOK
<1>3. Bare'  BY DEF ShutdownConnection, Bare
<1>4. NmeaLeaks' /\ GoneIsBare'  BY <1>3 DEF Bare, NmeaLeaks, GoneIsBare
<1>5. CASE parser = "none"
  <2>1. UNCHANGED <<connections, refs, leaked, device>>  BY <1>5 DEF UnrefParser, serverVars
  <2>2. parser' = parser  BY <1>3, <1>5 DEF Bare
  <2> QED  BY <1>3, <2>1, <2>2, QuietStep
<1>6. CASE parser # "none"
  <2>1. /\ refs' = [refs EXCEPT ![Path] = @ - 1]
        /\ device' = [device EXCEPT ![Path] = IF refs[Path] - 1 > 0 THEN @ ELSE NoDevice]
        /\ connections' = connections /\ leaked' = leaked
    BY <1>2, <1>6 DEF UnrefParser, References
  <2>2. RefsTypeOK'
    <3>1. refs' \in [ObjectPaths -> Int]  BY <1>1, <2>1 DEF RefsTypeOK
    <3>2. device' \in [ObjectPaths -> Devices \cup {NoDevice}]  BY <1>1, <2>1 DEF RefsTypeOK
    <3> QED  BY <1>1, <2>1, <3>1, <3>2 DEF RefsTypeOK
  <2>3. refs'[Path] = refs[Path] - 1
        /\ (refs'[Path] > 0 => device'[Path] = device[Path])
    BY <1>1, <2>1 DEF RefsTypeOK
  <2>4. PathRefs'
    BY <1>1, <1>2, <1>3, <1>6, <2>1, <2>3 DEF PathRefs, ParserRefs, EntriesOfPath, Bare
  <2>5. DeviceOfPath'
    BY <1>1, <1>2, <2>3 DEF OwnersInv, DeviceOfPath, Alive
  <2> QED  BY <1>4, <2>2, <2>4, <2>5 DEF ObjectInv, OwnersInv
<1> QED  BY <1>5, <1>6

LEMMA ConnectWithoutParserStep == ASSUME ObjectInv, ConnectWithoutParser PROVE ObjectInv'
<1>1. IInv'  BY NextIInv DEF ConnectWithoutParser, Next, ChannelConnect, ObjectInv
<1>2. Alive
  BY DEF ConnectWithoutParser, ConnectProbeFails, ObjectInv, OwnersInv, GoneIsBare, Bare
<1>3. parser' = parser /\ UNCHANGED <<connections, refs, leaked, device>>
  BY DEF ConnectWithoutParser, ConnectProbeFails, serverVars
<1> QED  BY <1>1, <1>2, <1>3, QuietStep

\* A parser comes with its reference; an NMEA parser leaves another one behind.
LEMMA NewParserStep ==
    ASSUME ObjectInv, IInv', connect_id, NEW k \in {0, 1}, References(1 + k),
           leaked' = [leaked EXCEPT ![Path] = @ + k],
           parser' = IF k = 1 THEN "nmea" ELSE "garmin"
    PROVE  ObjectInv'
<1> USE PathAssumption
<1>1. OwnersInv /\ IInv /\ RefsTypeOK /\ PathRefs  BY DEF ObjectInv, OwnersInv
<1>2. refs[Path] \in Int /\ leaked[Path] \in Nat /\ Cardinality(EntriesOfPath) \in Nat
  BY <1>1, EntriesFinite DEF RefsTypeOK
<1>3. parser = "none"  BY <1>1 DEF IInv, ConnectOnce
<1>4. refs[Path] > 0  BY <1>1 DEF OwnersInv, GoneIsBare, Bare, Alive
<1>5. /\ refs' = [refs EXCEPT ![Path] = @ + (1 + k)]
      /\ device' = [device EXCEPT ![Path] = IF refs[Path] + (1 + k) > 0 THEN @ ELSE NoDevice]
      /\ connections' = connections
  BY DEF References
<1>6. RefsTypeOK'
  <2>1. refs' \in [ObjectPaths -> Int]  BY <1>1, <1>5 DEF RefsTypeOK
  <2>2. device' \in [ObjectPaths -> Devices \cup {NoDevice}]  BY <1>1, <1>5 DEF RefsTypeOK
  <2>3. leaked' \in [ObjectPaths -> Nat]  BY <1>1 DEF RefsTypeOK
  <2> QED  BY <1>1, <1>5, <2>1, <2>2, <2>3 DEF RefsTypeOK
<1>7. /\ refs'[Path] = refs[Path] + 1 + k /\ leaked'[Path] = leaked[Path] + k
      /\ device'[Path] = device[Path]
  BY <1>1, <1>2, <1>4, <1>5 DEF RefsTypeOK
<1>8. PathRefs'
  BY <1>1, <1>2, <1>3, <1>5, <1>7 DEF PathRefs, ParserRefs, EntriesOfPath
<1>9. NmeaLeaks'  BY <1>2, <1>7 DEF NmeaLeaks
<1>10. DeviceOfPath' /\ GoneIsBare'
  BY <1>1, <1>2, <1>4, <1>7 DEF OwnersInv, DeviceOfPath, GoneIsBare, Alive
<1> QED  BY <1>6, <1>8, <1>9, <1>10 DEF ObjectInv, OwnersInv

LEMMA ConnectToGarminStep == ASSUME ObjectInv, ConnectToGarmin PROVE ObjectInv'
<1>1. IInv' /\ connect_id
  BY NextIInv DEF ConnectToGarmin, ConnectGarmin, Next, ChannelConnect, ObjectInv
<1>2. leaked' = [leaked EXCEPT ![Path] = @ + 0]
  BY PathAssumption DEF ConnectToGarmin, ObjectInv, OwnersInv, RefsTypeOK
<1>3. References(1 + 0) /\ parser' = "garmin"  BY DEF ConnectToGarmin, ConnectGarmin
<1> QED  BY <1>1, <1>2, <1>3, NewParserStep

LEMMA ConnectToNmeaStep == ASSUME ObjectInv, ConnectToNmea PROVE ObjectInv'
<1>1. IInv' /\ connect_id
  BY NextIInv DEF ConnectToNmea, ConnectNmea, Next, ChannelConnect, ObjectInv
<1>2. leaked' = [leaked EXCEPT ![Path] = @ + 1]  BY DEF ConnectToNmea
<1>3. References(1 + 1) /\ parser' = "nmea"  BY DEF ConnectToNmea, ConnectNmea
<1> QED  BY <1>1, <1>2, <1>3, NewParserStep

LEMMA StopObjectStep == ASSUME ObjectInv, StopObject PROVE ObjectInv'
<1>1. Stop /\ ShutdownConnection /\ UnrefParser  BY DEF StopObject, Stop
<1>2. IInv'  BY <1>1, NextIInv DEF Next, ObjectInv
<1> QED  BY <1>1, <1>2, UnrefParserStep

LEMMA HangUpStep == ASSUME ObjectInv, HangUp PROVE ObjectInv'
<1>1. ChannelError /\ ShutdownConnection /\ UnrefParser  BY DEF HangUp, ChannelError
<1>2. IInv'  BY <1>1, NextIInv DEF Next, ObjectInv
<1> QED  BY <1>1, <1>2, UnrefParserStep

\* The parser's reference was the only one: nobody held the object.
LEMMA HangUpFinalizesStep ==
    ASSUME ObjectInv, HangUpFinalizes
    PROVE  ObjectInv' /\ parser = "garmin"
<1> USE PathAssumption
<1>1. OwnersInv /\ IInv /\ RefsTypeOK /\ PathRefs  BY DEF ObjectInv, OwnersInv
<1>2. refs[Path] = 1 /\ parser # "none" /\ Finalize /\ References(-1) /\ leaked' = leaked
  BY DEF HangUpFinalizes
<1>3. leaked[Path] \in Nat /\ Cardinality(EntriesOfPath) \in Nat
  BY <1>1, EntriesFinite DEF RefsTypeOK
<1>4. leaked[Path] = 0 /\ Cardinality(EntriesOfPath) = 0
  BY <1>1, <1>2, <1>3 DEF PathRefs, ParserRefs
<1>5. parser = "garmin"
  BY <1>1, <1>2, <1>4 DEF IInv, TypeOK, OwnersInv, NmeaLeaks
<1>6. IInv' /\ Bare'  BY <1>1, <1>2, FinalizeStep
<1>7. /\ refs' = [refs EXCEPT ![Path] = @ - 1]
      /\ device' = [device EXCEPT ![Path] = IF refs[Path] - 1 > 0 THEN @ ELSE NoDevice]
      /\ connections' = connections
  BY <1>1, <1>2 DEF References, RefsTypeOK
<1>8. RefsTypeOK'
  <2>1. refs' \in [ObjectPaths -> Int]  BY <1>1, <1>7 DEF RefsTypeOK
  <2>2. device' \in [ObjectPaths -> Devices \cup {NoDevice}]  BY <1>1, <1>7 DEF RefsTypeOK
  <2> QED  BY <1>1, <1>2, <1>7, <2>1, <2>2 DEF RefsTypeOK
<1>9. refs'[Path] = 0  BY <1>1, <1>2, <1>7 DEF RefsTypeOK
<1>10. PathRefs'
  BY <1>2, <1>4, <1>6, <1>7, <1>9 DEF PathRefs, ParserRefs, EntriesOfPath, Bare
<1>11. NmeaLeaks' /\ GoneIsBare' /\ DeviceOfPath'
  BY <1>6, <1>9 DEF NmeaLeaks, GoneIsBare, DeviceOfPath, Bare, Alive
<1> QED  BY <1>5, <1>6, <1>8, <1>10, <1>11 DEF ObjectInv, OwnersInv

-----------------------------------------------------------------------------
(* The inductive invariant, and what it says.                               *)

LEMMA InitObjectInv == ObjectInit => ObjectInv
<1> SUFFICES ASSUME ObjectInit PROVE ObjectInv
  OBVIOUS
<1>1. IInv  BY InitIInv DEF ObjectInit
<1>2. /\ connections = {}
      /\ refs = [p \in ObjectPaths |-> 0]
      /\ leaked = [p \in ObjectPaths |-> 0]
      /\ device = [p \in ObjectPaths |-> NoDevice]
  BY DEF ObjectInit, Server!Init
<1>3. RefsTypeOK  BY <1>2, FS_EmptySet DEF RefsTypeOK
<1>4. Bare  BY DEF ObjectInit, Init, Bare
<1>5. PathRefs
  <2>1. EntriesOfPath = {}  BY <1>2 DEF EntriesOfPath
  <2> QED  BY <1>2, <1>4, <2>1, FS_EmptySet, PathAssumption DEF PathRefs, ParserRefs, Bare
<1>6. NmeaLeaks /\ GoneIsBare  BY <1>4 DEF NmeaLeaks, GoneIsBare, Bare
<1>7. DeviceOfPath  BY <1>2, PathAssumption DEF DeviceOfPath, Alive
<1> QED  BY <1>1, <1>3, <1>5, <1>6, <1>7 DEF ObjectInv, OwnersInv

LEMMA NextObjectInv == ObjectInv /\ [ObjectNext]_<<vars, serverVars>> => ObjectInv'
<1> SUFFICES ASSUME ObjectInv, [ObjectNext]_<<vars, serverVars>> PROVE ObjectInv'
  OBVIOUS
<1>1. CASE UNCHANGED <<vars, serverVars>>
  <2>1. UNCHANGED vars /\ UNCHANGED <<connections, refs, leaked, device>>
    BY <1>1 DEF serverVars
  <2> QED  BY <2>1, ConnectionSame, BareSame, QuietStep DEF ObjectInv, vars
<1>2. CASE ObjectNext
  BY <1>2, CreateObjectStep, ShutdownObjectStep, SenderLeavesStep, ServerOnlyStep,
     MethodCallStep, StopObjectStep, ConnectWithoutParserStep, ConnectToGarminStep,
     ConnectToNmeaStep, HangUpStep, HangUpFinalizesStep
     DEF ObjectNext
<1> QED  BY <1>1, <1>2

LEMMA ObjectInvariance == ObjectSpec => []ObjectInv
BY InitObjectInv, NextObjectInv, PTL DEF ObjectSpec

\* Neither the server nor the parser's references disturb the connection: what
\* holds of it alone holds of it in the daemon.
THEOREM ConnectionIsSafe ==
    ObjectSpec => /\ []TypeOK /\ []SourcesHaveChannel /\ []InputHasParser /\ []ConnectOnce
                  /\ []HangUpIsSeen /\ []SignalledIsConnected /\ []SpeedInEffect
<1>1. ObjectInv => /\ TypeOK /\ SourcesHaveChannel /\ InputHasParser /\ ConnectOnce
                   /\ HangUpIsSeen /\ SignalledIsConnected /\ SpeedInEffect
  BY DEF ObjectInv, IInv
<1> QED  BY <1>1, ObjectInvariance, PTL

\* However the last reference goes, no device stays open and no source installed
\* for an object that is gone.
THEOREM NothingOutlivesTheObject == ObjectSpec => []ResourcesAreOwned
<1>1. ObjectInv => ResourcesAreOwned
  BY DEF ObjectInv, OwnersInv, GoneIsBare, Bare, ResourcesAreOwned, Connected
<1> QED  BY <1>1, ObjectInvariance, PTL

-----------------------------------------------------------------------------
(* The references, as the server's view of the object has them.             *)

\* What the server sees of the parser when one comes or goes.
LEMMA ParserSeen ==
    ASSUME NEW b \in BOOLEAN, b = (parser' # "none")
    PROVE  [p \in ObjectPaths |-> p = Path /\ parser' # "none"] =
              [[p \in ObjectPaths |-> p = Path /\ parser # "none"] EXCEPT ![Path] = b]
OBVIOUS

LEMMA NmeaSeen == ASSUME ObjectInv, ConnectToNmea PROVE Server!ConnectNmea(Path)
<1> USE PathAssumption
<1>1. /\ refs \in [ObjectPaths -> Int] /\ device \in [ObjectPaths -> Devices \cup {NoDevice}]
      /\ parser = "none" /\ refs[Path] > 0
  BY DEF ObjectInv, OwnersInv, RefsTypeOK, IInv, ConnectOnce, GoneIsBare, Bare, Alive,
         ConnectToNmea, ConnectNmea
<1>2. /\ refs' = [refs EXCEPT ![Path] = @ + 2]
      /\ device' = device
  BY <1>1 DEF ConnectToNmea, References
<1>3. parser' = "nmea"  BY DEF ConnectToNmea, ConnectNmea
<1>4. [p \in ObjectPaths |-> p = Path /\ parser' # "none"] =
          [[p \in ObjectPaths |-> p = Path /\ parser # "none"] EXCEPT ![Path] = TRUE]
  BY <1>3, ParserSeen
<1>5. ~[p \in ObjectPaths |-> p = Path /\ parser # "none"][Path]  BY <1>1
<1> QED  BY <1>1, <1>2, <1>4, <1>5 DEF ConnectToNmea, References, Server!ConnectNmea

LEMMA GarminSeen == ASSUME ObjectInv, ConnectToGarmin PROVE Server!ConnectGarmin(Path)
<1> USE PathAssumption
<1>1. /\ refs \in [ObjectPaths -> Int] /\ device \in [ObjectPaths -> Devices \cup {NoDevice}]
      /\ parser = "none" /\ refs[Path] > 0
  BY DEF ObjectInv, OwnersInv, RefsTypeOK, IInv, ConnectOnce, GoneIsBare, Bare, Alive,
         ConnectToGarmin, ConnectGarmin
<1>2. /\ refs' = [refs EXCEPT ![Path] = @ + 1]
      /\ device' = device
  BY <1>1 DEF ConnectToGarmin, References
<1>3. parser' = "garmin"  BY DEF ConnectToGarmin, ConnectGarmin
<1>4. [p \in ObjectPaths |-> p = Path /\ parser' # "none"] =
          [[p \in ObjectPaths |-> p = Path /\ parser # "none"] EXCEPT ![Path] = TRUE]
  BY <1>3, ParserSeen
<1>5. ~[p \in ObjectPaths |-> p = Path /\ parser # "none"][Path]  BY <1>1
<1>6. device[Path] \in Garmin
  <2>1. "usb0" \in DeviceKinds
    BY DEF ObjectInv, IInv, TypeOK, ConnectToGarmin, ConnectGarmin
  <2>2. device[Path] \in {d \in Allowed : CreatePath[d] = Path}
    BY <1>1 DEF ObjectInv, OwnersInv, DeviceOfPath, Alive
  <2> QED  BY <2>1, <2>2
<1> QED  BY <1>1, <1>2, <1>4, <1>5, <1>6 DEF ConnectToGarmin, References, Server!ConnectGarmin

LEMMA DropSeen ==
    ASSUME ObjectInv, running, parser # "none", parser' = "none", UnrefParser
    PROVE  Server!DropParser(Path)
<1> USE PathAssumption
<1>1. refs \in [ObjectPaths -> Int] /\ device \in [ObjectPaths -> Devices \cup {NoDevice}]
  BY DEF ObjectInv, OwnersInv, RefsTypeOK
<1>2. References(-1) /\ UNCHANGED <<running, leaked>>  BY DEF UnrefParser
<1>3. /\ refs' = [refs EXCEPT ![Path] = @ - 1]
      /\ device' = [device EXCEPT ![Path] = IF refs[Path] > 1 THEN @ ELSE NoDevice]
  <2>1. refs[Path] \in Int  BY <1>1
  <2>2. refs' = [refs EXCEPT ![Path] = @ - 1]  BY <1>1, <1>2 DEF References
  <2>3. device' = [device EXCEPT ![Path] = IF refs[Path] + (-1) > 0 THEN @ ELSE NoDevice]
    BY <1>2 DEF References
  <2>4. refs[Path] + (-1) > 0 <=> refs[Path] > 1  BY <2>1
  <2> QED  BY <2>2, <2>3, <2>4
<1>4. [p \in ObjectPaths |-> p = Path /\ parser' # "none"] =
          [[p \in ObjectPaths |-> p = Path /\ parser # "none"] EXCEPT ![Path] = FALSE]
  BY ParserSeen
<1>5. [p \in ObjectPaths |-> p = Path /\ parser # "none"][Path]  OBVIOUS
<1> QED  BY <1>2, <1>3, <1>4, <1>5 DEF References, Server!DropParser

LEMMA StepSeen ==
    ASSUME ObjectInv, [ObjectNext]_<<vars, serverVars>>
    PROVE  [Server!Next \/ (HangUpFinalizes /\ parser = "garmin")]_serverVars
<1>1. ASSUME NEW s \in Senders, NEW d \in Devices, CreateObject(s, d) PROVE Server!Next
  BY <1>1 DEF CreateObject, Server!Next
<1>2. ASSUME NEW s \in Senders, NEW a \in ShutdownArgs, ShutdownObject(s, a) PROVE Server!Next
  BY <1>2 DEF ShutdownObject, Server!Next
<1>3. ASSUME NEW s \in Senders, SenderLeaves(s) PROVE Server!Next
  BY <1>3 DEF SenderLeaves, Server!Next
<1>4. CASE ServerOnly  BY <1>4 DEF ServerOnly, Server!Next
<1>5. CASE MethodCall \/ ConnectWithoutParser \/ UNCHANGED <<vars, serverVars>>
  BY <1>5 DEF MethodCall, ConnectWithoutParser
<1>6. CASE StopObject \/ HangUp
  <2>1. running /\ UnrefParser /\ parser' = "none"
    BY <1>6 DEF StopObject, HangUp, Stop, ChannelError, ShutdownConnection
  <2>2. CASE parser = "none"  BY <2>1, <2>2 DEF UnrefParser
  <2>3. CASE parser # "none"
    BY <2>1, <2>3, DropSeen, PathAssumption DEF Server!Next
  <2> QED  BY <2>2, <2>3
<1>7. CASE ConnectToGarmin  BY <1>7, GarminSeen, PathAssumption DEF Server!Next
<1>8. CASE ConnectToNmea  BY <1>8, NmeaSeen, PathAssumption DEF Server!Next
<1>9. CASE HangUpFinalizes  BY <1>9, HangUpFinalizesStep
<1> QED  BY <1>1, <1>2, <1>3, <1>4, <1>5, <1>6, <1>7, <1>8, <1>9 DEF ObjectNext

\* Starting, stopping and losing the device are steps of the server's view of the
\* object, but for the hang-up of a Garmin that only its parser still holds.
THEOREM ObjectRefinesServer == ObjectSpec => StepsOfServer
<1>1. ObjectInit => Server!Init  BY DEF ObjectInit
<1>2. ObjectInv /\ [ObjectNext]_<<vars, serverVars>> =>
         [Server!Next \/ (HangUpFinalizes /\ parser = "garmin")]_serverVars
  BY StepSeen
<1> QED  BY <1>1, <1>2, ObjectInvariance, PTL DEF ObjectSpec, StepsOfServer
=============================================================================
