-------------------------- MODULE DiscoveryProofs ---------------------------
(***************************************************************************)
(* The list of devices and what a program hears of it, for any device files   *)
(* and Bluetooth addresses and any number of devices that come and go.       *)
(***************************************************************************)
EXTENDS Discovery, WellFoundedInduction, SequenceTheorems, FiniteSetTheorems, TLAPS

-----------------------------------------------------------------------------
(* Sequences.                                                              *)

LEMMA RemoveAtMoves ==
    ASSUME NEW S, NEW s \in Seq(S), NEW k \in 1 .. Len(s)
    PROVE  /\ RemoveAt(s, k) \in Seq(S)
           /\ Len(RemoveAt(s, k)) = Len(s) - 1
           /\ \A i \in 1 .. Len(s) - 1 :
                 RemoveAt(s, k)[i] = IF i < k THEN s[i] ELSE s[i + 1]
<1> DEFINE front == SubSeq(s, 1, k - 1)
           back == SubSeq(s, k + 1, Len(s))
<1>1. Len(s) \in Nat /\ k \in Int /\ k >= 1 /\ k <= Len(s)
  OBVIOUS
<1>2. \A i \in 1 .. Len(s) : s[i] \in S
  OBVIOUS
<1>3. /\ front \in Seq(S) /\ Len(front) = k - 1
      /\ \A i \in 1 .. k - 1 : front[i] = s[i]
  <2>1. \A i \in 1 .. k - 1 : s[i] \in S
    BY <1>1, <1>2
  <2>2. /\ front \in Seq(S)
        /\ Len(front) = IF 1 <= k - 1 THEN k - 1 - 1 + 1 ELSE 0
        /\ \A i \in 1 .. k - 1 - 1 + 1 : front[i] = s[1 + i - 1]
    BY <1>1, <2>1, SubSeqProperties
  <2> HIDE DEF front
  <2>3. Len(front) = k - 1
    BY <1>1, <2>2
  <2>4. \A i \in 1 .. k - 1 : i \in 1 .. k - 1 - 1 + 1 /\ 1 + i - 1 = i
    BY <1>1
  <2> QED  BY <2>2, <2>3, <2>4
<1>4. /\ back \in Seq(S) /\ Len(back) = Len(s) - k
      /\ \A i \in 1 .. Len(s) - k : back[i] = s[k + i]
  <2>1. \A i \in k + 1 .. Len(s) : s[i] \in S
    BY <1>1, <1>2
  <2>2. /\ back \in Seq(S)
        /\ Len(back) = IF k + 1 <= Len(s) THEN Len(s) - (k + 1) + 1 ELSE 0
        /\ \A i \in 1 .. Len(s) - (k + 1) + 1 : back[i] = s[k + 1 + i - 1]
    BY <1>1, <2>1, SubSeqProperties
  <2> HIDE DEF back
  <2>3. Len(back) = Len(s) - k
    BY <1>1, <2>2
  <2>4. \A i \in 1 .. Len(s) - k : i \in 1 .. Len(s) - (k + 1) + 1 /\ k + 1 + i - 1 = k + i
    BY <1>1
  <2> QED  BY <2>2, <2>3, <2>4
<1>5. RemoveAt(s, k) = front \o back
  BY DEF RemoveAt
<1> HIDE DEF front, back
<1>6. /\ front \o back \in Seq(S)
      /\ Len(front \o back) = Len(front) + Len(back)
      /\ \A i \in 1 .. Len(front) + Len(back) : (front \o back)[i] =
            IF i <= Len(front) THEN front[i] ELSE back[i - Len(front)]
  <2>1. front \in Seq(S) /\ back \in Seq(S)
    BY <1>3, <1>4
  <2> QED  BY <2>1, ConcatProperties, Zenon
<1>7. Len(front \o back) = Len(s) - 1
  BY <1>1, <1>3, <1>4, <1>6
<1>8. \A i \in 1 .. Len(s) - 1 :
         (front \o back)[i] = IF i < k THEN s[i] ELSE s[i + 1]
  <2> TAKE i \in 1 .. Len(s) - 1
  <2>1. i \in 1 .. Len(front) + Len(back)
    BY <1>1, <1>3, <1>4
  <2>2. CASE i < k
    BY <1>1, <1>3, <1>6, <2>1, <2>2
  <2>3. CASE ~(i < k)
    <3>1. i - (k - 1) \in 1 .. Len(s) - k /\ k + (i - (k - 1)) = i + 1
      BY <1>1, <2>3
    <3>2. back[i - (k - 1)] = s[i + 1]
      BY <1>4, <3>1
    <3> QED  BY <1>1, <1>3, <1>6, <2>1, <2>3, <3>2
  <2> QED  BY <2>2, <2>3
<1> QED  BY <1>5, <1>6, <1>7, <1>8

LEMMA LeastOf ==
    ASSUME NEW I \in SUBSET Nat, I # {}
    PROVE  Min(I) \in I

<1>1. PICK x \in I : \A y \in I : ~(<<y, x>> \in OpToRel(<, Nat))
  BY NatLessThanWellFounded, WFMin
<1>2. \A y \in I : x <= y
  <2> SUFFICES ASSUME NEW y \in I, ~(x <= y)  PROVE FALSE
    OBVIOUS
  <2>1. x \in Nat /\ y \in Nat /\ y < x
    OBVIOUS
  <2>2. <<y, x>> \in OpToRel(<, Nat)
    BY <2>1 DEF OpToRel
  <2> QED  BY <1>1, <2>2
<1> QED  BY <1>2 DEF Min

\* The entry that remove_device_from_array removes.
LEMMA RemovesAnEntry ==
    ASSUME NEW list \in Seq(Entries), NEW name
    PROVE  \/ /\ \A i \in DOMAIN list : list[i][1] # name
              /\ RemoveFrom(list, name) = list
           \/ \E at \in 1 .. Len(list) :
                 /\ list[at][1] = name
                 /\ RemoveFrom(list, name) = RemoveAt(list, at)
<1> DEFINE I == {i \in 1 .. Len(list) : list[i][1] = name}
           at == SelectInSeq(list, LAMBDA entry : entry[1] = name)
<1>1. at = IF I # {} THEN Min(I) ELSE 0
  BY DEF SelectInSeq
<1>2. RemoveFrom(list, name) = IF at = 0 THEN list ELSE RemoveAt(list, at)
  BY DEF RemoveFrom
<1> HIDE DEF at
<1>3. CASE I = {}
  BY <1>1, <1>2, <1>3
<1>4. CASE I # {}
  <2>1. at \in I
    <3>1. I \in SUBSET Nat
      OBVIOUS
    <3> HIDE DEF I
    <3> QED  BY <1>1, <1>4, <3>1, LeastOf
  <2>2. at \in 1 .. Len(list) /\ list[at][1] = name /\ at # 0
    BY <2>1
  <2> QED  BY <1>2, <2>2
<1> QED  BY <1>3, <1>4

\* SetToSeq has the elements of the set.
LEMMA SetToSeqType ==
    ASSUME NEW S, IsFiniteSet(S)
    PROVE  SetToSeq(S) \in Seq(S)
<1>1. Cardinality(S) \in Nat /\ ExistsBijection(1 .. Cardinality(S), S)
  BY FS_CardinalityType
<1>2. PICK f \in [1 .. Cardinality(S) -> S] : IsInjective(f)
  BY <1>1 DEF ExistsBijection, Bijection, Injection
<1>3. SetToSeq(S) \in [1 .. Cardinality(S) -> S]
  BY <1>2, Zenon DEF SetToSeq
<1> DEFINE n == Cardinality(S)
<1>4. n \in Nat /\ SetToSeq(S) \in [1 .. n -> S]
  BY <1>1, <1>3
<1> HIDE DEF n
<1> QED  BY <1>4

-----------------------------------------------------------------------------
(* Which paths a list of entries has, and which it has once.                 *)

In(list, path) == \E i \in DOMAIN list : list[i][1] = path

OnceIn(list, path) ==
    \A i, j \in DOMAIN list : list[i][1] = path /\ list[j][1] = path => i = j

LEMMA AppendedEntry ==
    ASSUME NEW list \in Seq(Entries), NEW entry \in Entries, NEW path
    PROVE  /\ Append(list, entry) \in Seq(Entries)
           /\ In(Append(list, entry), path) <=> In(list, path) \/ entry[1] = path
           /\ OnceIn(list, path) /\ (entry[1] = path => ~In(list, path))
                => OnceIn(Append(list, entry), path)
<1> DEFINE longer == Append(list, entry)
<1>1. /\ longer \in Seq(Entries) /\ Len(longer) = Len(list) + 1
      /\ \A i \in 1 .. Len(list) : longer[i] = list[i]
      /\ longer[Len(list) + 1] = entry
  BY AppendProperties
<1> HIDE DEF longer
<1>2. DOMAIN list = 1 .. Len(list) /\ DOMAIN longer = 1 .. Len(list) + 1 /\ Len(list) \in Nat
  BY <1>1
<1>3. In(longer, path) <=> In(list, path) \/ entry[1] = path
  BY <1>1, <1>2 DEF In
<1>4. ASSUME OnceIn(list, path), entry[1] = path => ~In(list, path)
      PROVE  OnceIn(longer, path)
  BY <1>1, <1>2, <1>4 DEF In, OnceIn
<1> QED  BY <1>1, <1>3, <1>4 DEF longer

\* Removing a path leaves the others, and nothing of a path that was there once.
LEMMA RemovedEntry ==
    ASSUME NEW list \in Seq(Entries), NEW name, NEW path
    PROVE  /\ RemoveFrom(list, name) \in Seq(Entries)
           /\ path # name => (In(RemoveFrom(list, name), path) <=> In(list, path))
           /\ OnceIn(list, path) => OnceIn(RemoveFrom(list, name), path)
           /\ OnceIn(list, name) => ~In(RemoveFrom(list, name), name)
<1>1. CASE /\ \A i \in DOMAIN list : list[i][1] # name
           /\ RemoveFrom(list, name) = list
  BY <1>1 DEF In, OnceIn
<1>2. CASE \E at \in 1 .. Len(list) :
                 /\ list[at][1] = name
                 /\ RemoveFrom(list, name) = RemoveAt(list, at)
  <2>1. PICK at \in 1 .. Len(list) : /\ list[at][1] = name
                                     /\ RemoveFrom(list, name) = RemoveAt(list, at)
    BY <1>2
  <2> DEFINE rest == RemoveFrom(list, name)
  <2>2. /\ rest \in Seq(Entries) /\ Len(rest) = Len(list) - 1
        /\ \A i \in 1 .. Len(list) - 1 : rest[i] = IF i < at THEN list[i] ELSE list[i + 1]
    BY <2>1, RemoveAtMoves
  <2> HIDE DEF rest
  <2>3. /\ DOMAIN list = 1 .. Len(list) /\ DOMAIN rest = 1 .. Len(list) - 1
        /\ Len(list) \in Nat /\ at \in Nat /\ at >= 1 /\ at <= Len(list)
    BY <2>2
  <2>4. ASSUME path # name, In(list, path)  PROVE In(rest, path)
    <3>1. PICK i \in 1 .. Len(list) : list[i][1] = path
      BY <2>3, <2>4 DEF In
    <3>2. i # at
      BY <2>1, <2>4, <3>1
    <3>3. CASE i < at
      <4>1. i \in 1 .. Len(list) - 1 /\ rest[i] = list[i]
        BY <2>2, <2>3, <3>3
      <4> QED  BY <2>3, <3>1, <4>1 DEF In
    <3>4. CASE i > at
      <4>1. i - 1 \in 1 .. Len(list) - 1 /\ ~(i - 1 < at) /\ i - 1 + 1 = i
        BY <2>3, <3>4
      <4>2. rest[i - 1] = list[i]
        BY <2>2, <4>1
      <4> QED  BY <2>3, <3>1, <4>1, <4>2 DEF In
    <3> QED  BY <2>3, <3>2, <3>3, <3>4
  <2>5. ASSUME In(rest, path)  PROVE In(list, path)
    <3>1. PICK i \in 1 .. Len(list) - 1 : rest[i][1] = path
      BY <2>3, <2>5 DEF In
    <3>2. i \in 1 .. Len(list) /\ i + 1 \in 1 .. Len(list)
      BY <2>3
    <3> QED  BY <2>2, <2>3, <3>1, <3>2 DEF In
  <2>6. ASSUME OnceIn(list, path)  PROVE OnceIn(rest, path)
    <3> SUFFICES ASSUME NEW i \in 1 .. Len(list) - 1, NEW j \in 1 .. Len(list) - 1,
                        rest[i][1] = path, rest[j][1] = path, i < j
                 PROVE  FALSE
      BY <2>3 DEF OnceIn
    <3>1. PICK a \in 1 .. Len(list) : rest[i] = list[a] /\ a = IF i < at THEN i ELSE i + 1
      BY <2>2, <2>3
    <3>2. PICK b \in 1 .. Len(list) : rest[j] = list[b] /\ b = IF j < at THEN j ELSE j + 1
      BY <2>2, <2>3
    <3>3. a = b
      BY <2>3, <2>6, <3>1, <3>2 DEF OnceIn
    <3> QED  BY <2>3, <3>1, <3>2, <3>3
  <2>7. ASSUME OnceIn(list, name), In(rest, name)  PROVE FALSE
    <3>1. PICK i \in 1 .. Len(list) - 1 : rest[i][1] = name
      BY <2>3, <2>7 DEF In
    <3>2. PICK a \in 1 .. Len(list) : rest[i] = list[a] /\ a = IF i < at THEN i ELSE i + 1
      BY <2>2, <2>3
    <3>3. a = at
      BY <2>1, <2>3, <2>7, <3>1, <3>2 DEF OnceIn
    <3> QED  BY <2>3, <3>2, <3>3
  <2> QED  BY <2>2, <2>4, <2>5, <2>6, <2>7 DEF rest
<1> QED  BY <1>1, <1>2, RemovesAnEntry

\* The Bluetooth devices of setup_bluetooth_discovery share no path with a tty.
BluetoothEntries(found) == SetToSeq({<<a, "bluetooth">> : a \in found})

LEMMA BluetoothEntriesType ==
    ASSUME NEW found \in SUBSET Addresses
    PROVE  /\ BluetoothEntries(found) \in Seq(Entries)
           /\ \A i \in DOMAIN BluetoothEntries(found) :
                 BluetoothEntries(found)[i][1] \in Addresses
<1> DEFINE S == {<<a, "bluetooth">> : a \in found}
<1>1. IsFiniteSet(S)
  <2>1. IsFiniteSet(found)
    BY NamesAssumption, FS_Subset
  <2> DEFINE f == [a \in found |-> <<a, "bluetooth">>]
  <2>2. f \in Surjection(found, S)
    BY Zenon DEF Surjection
  <2> QED  BY <2>1, <2>2, FS_Surjection, Zenon
<1>2. S \subseteq Entries /\ \A e \in S : e[1] \in Addresses
  BY DEF Entries
<1> HIDE DEF S
<1>3. SetToSeq(S) \in Seq(S)
  BY <1>1, SetToSeqType
<1>4. SetToSeq(S) \in Seq(Entries) /\ \A i \in DOMAIN SetToSeq(S) : SetToSeq(S)[i] \in S
  BY <1>2, <1>3
<1> QED  BY <1>2, <1>4 DEF BluetoothEntries, S

LEMMA AppendedBluetooth ==
    ASSUME NEW list \in Seq(Entries), NEW found \in SUBSET Addresses, NEW name \in Names
    PROVE  LET longer == list \o BluetoothEntries(found)
           IN  /\ longer \in Seq(Entries)
               /\ In(longer, name) <=> In(list, name)
               /\ OnceIn(list, name) => OnceIn(longer, name)
<1> DEFINE more == BluetoothEntries(found)
           longer == list \o more
<1>1. more \in Seq(Entries) /\ \A i \in DOMAIN more : more[i][1] # name
  BY BluetoothEntriesType, NamesAssumption
<1> HIDE DEF more
<1>2. /\ longer \in Seq(Entries)
      /\ Len(longer) = Len(list) + Len(more)
      /\ \A i \in 1 .. Len(list) + Len(more) :
            longer[i] = IF i <= Len(list) THEN list[i] ELSE more[i - Len(list)]
  <2>1. more \in Seq(Entries)
    BY <1>1
  <2> QED  BY <2>1, ConcatProperties, Zenon
<1> HIDE DEF longer
<1>3. /\ DOMAIN longer = 1 .. Len(list) + Len(more) /\ DOMAIN list = 1 .. Len(list)
      /\ DOMAIN more = 1 .. Len(more) /\ Len(list) \in Nat /\ Len(more) \in Nat
  BY <1>1, <1>2
<1>4. \A i \in DOMAIN longer :
         longer[i][1] = name => i \in DOMAIN list /\ longer[i] = list[i]
  <2> SUFFICES ASSUME NEW i \in 1 .. Len(list) + Len(more), longer[i][1] = name
               PROVE  i \in 1 .. Len(list) /\ longer[i] = list[i]
    BY <1>3
  <2>1. i <= Len(list)
    <3> SUFFICES ASSUME ~(i <= Len(list))  PROVE FALSE
      OBVIOUS
    <3>1. i - Len(list) \in 1 .. Len(more)
      BY <1>3
    <3>2. longer[i] = more[i - Len(list)]
      BY <1>2
    <3> QED  BY <1>1, <1>3, <3>1, <3>2
  <2> QED  BY <1>2, <1>3, <2>1
<1>5. \A i \in DOMAIN list : i \in DOMAIN longer /\ longer[i] = list[i]
  BY <1>2, <1>3
<1>6. In(longer, name) <=> In(list, name)
  BY <1>4, <1>5, Zenon DEF In
<1>7. OnceIn(list, name) => OnceIn(longer, name)
  BY <1>4, Zenon DEF OnceIn
<1> QED  BY <1>2, <1>6, <1>7 DEF longer, more

-----------------------------------------------------------------------------
(* The types.                                                              *)

Messages == ({"list"} \X SUBSET Paths) \cup ({"DeviceAdded", "DeviceRemoved"} \X Names)

WorldTypeOK ==
    /\ plugged \in [Names -> Views]
    /\ events \in Seq(Events)
    /\ positioning \subseteq Addresses
    /\ plugs \in 0 .. MaxPlugs
    /\ obscured \subseteq Names

DaemonTypeOK ==
    /\ phase \in {"query", "udev", "running"}
    /\ todo \subseteq Devices
    /\ known_devices \in Seq(Entries)

ListenerTypeOK ==
    /\ wire \in Seq(Messages)
    /\ heard \subseteq Paths
    /\ asked \in {"no", "sent", "yes"}

Types == WorldTypeOK /\ DaemonTypeOK /\ ListenerTypeOK

\* There is one reply at most on the way, and only while it is waited for.
WireInv ==
    /\ phase # "running" => wire = << >> /\ asked # "yes"
    /\ asked = "no" => wire = << >>
    /\ \A i, j \in DOMAIN wire : wire[i][1] = "list" /\ wire[j][1] = "list" => i = j
    /\ asked = "yes" => \A i \in DOMAIN wire : wire[i][1] # "list"

LEMMA SentType ==
    ASSUME ListenerTypeOK, NEW message \in Messages, Send(message)
    PROVE  wire' \in Seq(Messages)
BY DEF ListenerTypeOK, Send

\* What a turn of the main loop does with the event in front.
LEMMA EventInFront ==
    ASSUME Types, HandleEvent
    PROVE  LET event == Head(events)
               name == event.device.name
           IN  /\ events # << >> /\ phase = "running" /\ events' = Tail(events)
               /\ event \in Events /\ name \in Names /\ event.device.product \in Products
               /\ event.action \in {"add", "remove"}
               /\ UNCHANGED <<plugged, positioning, plugs, phase, todo, heard, asked>>
               /\ \E seen \in Seen(event.device, Tail(events)) :
                     IF event.action = "add" THEN Added(event.device, seen)
                     ELSE Removed(event.device, seen)
<1>1. /\ events # << >> /\ phase = "running" /\ events' = Tail(events)
      /\ UNCHANGED <<plugged, positioning, plugs, phase, todo, heard, asked>>
  BY DEF HandleEvent
<1>2. Head(events) \in Events
  BY <1>1 DEF Types, WorldTypeOK
<1>3. /\ Head(events).device.name \in Names /\ Head(events).device.product \in Products
      /\ Head(events).action \in {"add", "remove"}
  BY <1>2 DEF Events, Devices
<1>4. \E seen \in Seen(Head(events).device, Tail(events)) :
         IF Head(events).action = "add" THEN Added(Head(events).device, seen)
         ELSE Removed(Head(events).device, seen)
  BY Zenon DEF HandleEvent
<1> QED  BY <1>1, <1>2, <1>3, <1>4

LEMMA InitTypes == Init => Types
<1> SUFFICES ASSUME Init  PROVE Types
  OBVIOUS
<1>1. << >> \in Seq(Events) /\ << >> \in Seq(Entries) /\ << >> \in Seq(Messages)
  BY EmptySeq
<1>2. WorldTypeOK
  BY <1>1, NamesAssumption DEF Init, WorldTypeOK
<1>3. DaemonTypeOK
  BY <1>1 DEF Init, DaemonTypeOK
<1>4. ListenerTypeOK
  BY <1>1 DEF Init, ListenerTypeOK
<1> QED  BY <1>2, <1>3, <1>4 DEF Types

LEMMA StepWorldTypes ==
    ASSUME Types, [Next]_vars  PROVE WorldTypeOK'
<1> USE DEF WorldTypeOK
<1>0. WorldTypeOK
  BY DEF Types
<1>1. ASSUME NEW n \in Names, NEW p \in Products, Plug(n, p)  PROVE WorldTypeOK'
  <2>1. Device(n, p) \in Devices
    BY DEF Device, Devices
  <2>2. [action |-> "add", device |-> Device(n, p)] \in Events
    BY <2>1 DEF Events
  <2>3. events' \in Seq(Events)
    BY <1>0, <1>1, <2>2 DEF Plug
  <2>4. plugged' \in [Names -> Views]
    BY <1>0, <1>1 DEF Plug, Views
  <2>5. plugs' \in 0 .. MaxPlugs
    BY <1>0, <1>1, NamesAssumption DEF Plug
  <2>6. obscured' \subseteq Names /\ positioning' \subseteq Addresses
    BY <1>0, <1>1 DEF Plug
  <2> QED  BY <2>3, <2>4, <2>5, <2>6
<1>2. ASSUME NEW n \in Names, Unplug(n)  PROVE WorldTypeOK'
  <2>1. Device(n, plugged[n]) \in Devices
    BY <1>0, <1>2 DEF Unplug, Device, Devices, Views
  <2>2. [action |-> "remove", device |-> Device(n, plugged[n])] \in Events
    BY <2>1 DEF Events
  <2>3. events' \in Seq(Events)
    BY <1>0, <1>2, <2>2 DEF Unplug
  <2>4. plugged' \in [Names -> Views]
    BY <1>0, <1>2 DEF Unplug, Views
  <2> QED  BY <1>0, <1>2, <2>3, <2>4 DEF Unplug
<1>3. ASSUME HandleEvent  PROVE WorldTypeOK'
  <2>1. events' \in Seq(Events)
    <3>1. events # << >> /\ events' = Tail(events)
      BY <1>3, EventInFront
    <3> QED  BY <1>0, <3>1
  <2>2. obscured' \subseteq Names
    <3>1. Head(events).device.name \in Names
      BY <1>3, EventInFront
    <3>2. obscured' = obscured \/ obscured' = obscured \cup {Head(events).device.name}
      BY <1>3, EventInFront DEF Added, Removed
    <3> QED  BY <1>0, <3>1, <3>2
  <2> QED  BY <1>0, <1>3, <2>1, <2>2, EventInFront
<1>4. ASSUME Start \/ ListDevices \/ Listen \/ UNCHANGED vars  PROVE WorldTypeOK'
  BY <1>0, <1>4 DEF Start, Query, AddKnown, SetupBluetooth, ListDevices, Listen, Ask,
                    TakeReply, TakeSignal, vars, world
<1> QED  BY <1>1, <1>2, <1>3, <1>4 DEF Next, Change

LEMMA StepDaemonTypes ==
    ASSUME Types, [Next]_vars  PROVE DaemonTypeOK'
<1> USE DEF DaemonTypeOK
<1>0. DaemonTypeOK /\ WorldTypeOK
  BY DEF Types
<1>1. ASSUME Query  PROVE DaemonTypeOK'
  <2>1. \A n \in Names : plugged[n] # "none" => Device(n, plugged[n]) \in Devices
    BY <1>0 DEF WorldTypeOK, Device, Devices, Views
  <2>2. todo' \subseteq Devices
    BY <1>1, <2>1 DEF Query
  <2> QED  BY <1>0, <1>1, <2>2 DEF Query
<1>2. ASSUME NEW d \in todo, AddKnown(d)  PROVE DaemonTypeOK'
  <2>1. <<d.name, "usb">> \in Entries
    BY <1>0 DEF Devices, Entries
  <2>2. known_devices' \in Seq(Entries)
    BY <1>0, <1>2, <2>1, AppendedEntry DEF AddKnown
  <2> QED  BY <1>0, <1>2, <2>2 DEF AddKnown
<1>3. ASSUME SetupBluetooth  PROVE DaemonTypeOK'
  <2>1. PICK found \in SUBSET positioning :
            known_devices' = known_devices \o BluetoothEntries(found)
    BY <1>3 DEF SetupBluetooth, BluetoothEntries
  <2>2. BluetoothEntries(found) \in Seq(Entries)
    BY <1>0, BluetoothEntriesType DEF WorldTypeOK
  <2>3. known_devices \o BluetoothEntries(found) \in Seq(Entries)
    BY <1>0, <2>2, ConcatProperties
  <2> QED  BY <1>0, <1>3, <2>1, <2>3 DEF SetupBluetooth
<1>4. ASSUME HandleEvent  PROVE DaemonTypeOK'
  <2>1. <<Head(events).device.name, "usb">> \in Entries
    BY <1>4, EventInFront DEF Entries
  <2>2. \/ known_devices' = known_devices
        \/ known_devices' = Append(known_devices, <<Head(events).device.name, "usb">>)
        \/ known_devices' = RemoveFrom(known_devices, Head(events).device.name)
    BY <1>4, EventInFront DEF Added, Removed
  <2>3. known_devices' \in Seq(Entries)
    <3>1. RemoveFrom(known_devices, Head(events).device.name) \in Seq(Entries)
      BY <1>0, RemovedEntry
    <3>2. Append(known_devices, <<Head(events).device.name, "usb">>) \in Seq(Entries)
      BY <1>0, <2>1
    <3> QED  BY <1>0, <2>2, <3>1, <3>2
  <2> QED  BY <1>0, <1>4, <2>3, EventInFront
<1>5. ASSUME Change \/ ListDevices \/ Listen \/ UNCHANGED vars  PROVE DaemonTypeOK'
  BY <1>0, <1>5 DEF Change, Plug, Unplug, ListDevices, Listen, Ask, TakeReply, TakeSignal,
                    vars, daemon
<1> QED  BY <1>1, <1>2, <1>3, <1>4, <1>5 DEF Next, Start

LEMMA StepListenerTypes ==
    ASSUME Types, WireInv, [Next]_vars  PROVE ListenerTypeOK'
<1> USE DEF ListenerTypeOK
<1>0. ListenerTypeOK /\ DaemonTypeOK
  BY DEF Types
<1>1. ASSUME HandleEvent  PROVE ListenerTypeOK'
  <2>1. /\ <<"DeviceAdded", Head(events).device.name>> \in Messages
        /\ <<"DeviceRemoved", Head(events).device.name>> \in Messages
    BY <1>1, EventInFront DEF Messages
  <2>2. \/ wire' = wire
        \/ Send(<<"DeviceAdded", Head(events).device.name>>)
        \/ Send(<<"DeviceRemoved", Head(events).device.name>>)
    BY <1>1, EventInFront DEF Added, Removed
  <2>3. wire' \in Seq(Messages)
    BY <1>0, <2>1, <2>2, SentType
  <2> QED  BY <1>0, <1>1, <2>3, EventInFront
<1>2. ASSUME ListDevices  PROVE ListenerTypeOK'
  <2> DEFINE paths == {known_devices[i][1] : i \in DOMAIN known_devices}
  <2>1. paths \in SUBSET Paths
    <3>1. \A i \in DOMAIN known_devices : known_devices[i] \in Entries
      BY <1>0 DEF DaemonTypeOK
    <3>2. \A e \in Entries : e[1] \in Paths
      BY DEF Entries, Paths
    <3> QED  BY <3>1, <3>2
  <2> HIDE DEF paths
  <2>2. <<"list", paths>> \in Messages
    BY <2>1 DEF Messages
  <2>3. wire' = Append(wire, <<"list", paths>>) /\ UNCHANGED <<heard, asked>>
    BY <1>2 DEF ListDevices, paths
  <2> QED  BY <1>0, <2>2, <2>3
<1>3. ASSUME Ask  PROVE ListenerTypeOK'
  BY <1>0, <1>3 DEF Ask
<1>4. ASSUME TakeReply  PROVE ListenerTypeOK'
  <2>1. PICK i \in DOMAIN wire : /\ wire[i][1] = "list" /\ heard' = wire[i][2]
                                 /\ wire' = RemoveAt(wire, i) /\ asked' = "yes"
    BY <1>4 DEF TakeReply
  <2>2. wire[i] \in Messages /\ i \in 1 .. Len(wire)
    BY <1>0
  <2>3. heard' \subseteq Paths
    BY <2>1, <2>2 DEF Messages
  <2>4. wire' \in Seq(Messages)
    BY <1>0, <2>1, <2>2, RemoveAtMoves
  <2> QED  BY <2>1, <2>3, <2>4
<1>5. ASSUME TakeSignal  PROVE ListenerTypeOK'
  <2>1. wire # << >> /\ wire' = Tail(wire) /\ asked = "yes" /\ asked' = asked
    BY <1>5 DEF TakeSignal
  <2>2. Head(wire) \in Messages /\ Head(wire) = wire[1] /\ 1 \in DOMAIN wire
    BY <1>0, <2>1
  <2>3. Head(wire)[2] \in Paths
    <3>1. Head(wire)[1] # "list"
      BY <2>1, <2>2 DEF WireInv
    <3> QED  BY <2>2, <3>1 DEF Messages, Paths
  <2>4. heard' \subseteq Paths
    BY <1>0, <1>5, <2>3 DEF TakeSignal
  <2> QED  BY <1>0, <2>1, <2>4
<1>6. ASSUME Change \/ Start \/ UNCHANGED vars  PROVE ListenerTypeOK'
  BY <1>0, <1>6 DEF Change, Plug, Unplug, Start, Query, AddKnown, SetupBluetooth, vars, listener
<1> QED  BY <1>1, <1>2, <1>3, <1>4, <1>5, <1>6 DEF Next, Listen

-----------------------------------------------------------------------------
(* Event i is about device file n; and it is the first, the last one that is.  *)

About(i, n) == events[i].device.name = n

First(i, n) == About(i, n) /\ \A j \in DOMAIN events : About(j, n) => i <= j

Latest(i, n) == About(i, n) /\ \A j \in DOMAIN events : About(j, n) => j <= i

\* The events of a device file add and remove it by turns, and the last one
\* tells what is behind it now.
Turns ==
    \A n \in Names : \A i, j \in DOMAIN events :
        /\ About(i, n) /\ About(j, n) /\ i < j
        /\ \A k \in DOMAIN events : About(k, n) => k <= i \/ j <= k
        => events[i].action # events[j].action

LatestIsTrue ==
    \A n \in Names : \A i \in DOMAIN events :
        Latest(i, n) => plugged[n] = IF events[i].action = "add"
                                       THEN events[i].device.product ELSE "none"

EventInv == Turns /\ LatestIsTrue

-----------------------------------------------------------------------------
Pending(n) == \E i \in DOMAIN events : About(i, n)

OnlyRemoved(n) == \A i \in DOMAIN events : About(i, n) => events[i].action = "remove"

Waiting(n) == \E d \in todo : d.name = n

ListedOnce(n) == OnceIn(known_devices, n)

StartInv ==
    /\ phase = "query" => known_devices = << >> /\ todo = {}
    /\ phase = "running" => todo = {}
    /\ \A d, e \in todo : d.name = e.name => d = e

QueryInv(n) == phase = "query" => OnlyRemoved(n)

WaitingInv(n) ==
    \A d \in todo : d.name = n =>
        /\ ~Listed(n)
        /\ OnlyRemoved(n)
        /\ ~Pending(n) => plugged[n] = d.product

FirstAdds(n) == \E i \in DOMAIN events : First(i, n) /\ events[i].action = "add"

AddInv(n) == FirstAdds(n) => ~Listed(n)

SettledInv(n) ==
    phase # "query" /\ ~Pending(n) /\ ~Waiting(n) => (Listed(n) <=> plugged[n] = "gps")

NameInv(n) ==
    ListedOnce(n) /\ QueryInv(n) /\ WaitingInv(n) /\ AddInv(n) /\ SettledInv(n)

ListInv == StartInv /\ \A n \in Names \ obscured : NameInv(n)

\* What a new event changes for the device file it is about, and for the others.
LEMMA AppendedEvent ==
    ASSUME Types, NEW e \in Events, events' = Append(events, e), NEW n
    PROVE  /\ Len(events) \in Nat /\ DOMAIN events = 1 .. Len(events)
           /\ DOMAIN events' = 1 .. Len(events) + 1
           /\ \A i \in DOMAIN events : events'[i] = events[i]
           /\ events'[Len(events) + 1] = e
           /\ e.device.name # n => /\ Pending(n)' <=> Pending(n)
                                   /\ OnlyRemoved(n) => OnlyRemoved(n)'
                                   /\ FirstAdds(n)' => FirstAdds(n)
           /\ e.device.name = n => /\ Pending(n)'
                                   /\ OnlyRemoved(n) /\ e.action = "remove" => OnlyRemoved(n)'
                                   /\ FirstAdds(n)' => \/ FirstAdds(n)
                                                       \/ ~Pending(n) /\ e.action = "add"
<1>1. /\ Len(events) \in Nat /\ DOMAIN events = 1 .. Len(events)
      /\ DOMAIN events' = 1 .. Len(events) + 1
      /\ \A i \in DOMAIN events : events'[i] = events[i]
      /\ events'[Len(events) + 1] = e
  BY AppendProperties DEF Types, WorldTypeOK
<1> DEFINE new == Len(events) + 1
<1>2. /\ new \in DOMAIN events' /\ new \notin DOMAIN events
      /\ \A i \in DOMAIN events' : i \in DOMAIN events \/ i = new
      /\ \A i \in DOMAIN events : i \in DOMAIN events' /\ events'[i] = events[i] /\ i <= new
      /\ events'[new] = e
  BY <1>1
<1> HIDE DEF new
<1>3. (Pending(n)' <=> Pending(n) \/ e.device.name = n)
  BY <1>2 DEF Pending, About
<1>4. OnlyRemoved(n) /\ (e.device.name = n => e.action = "remove") => OnlyRemoved(n)'
  BY <1>2 DEF OnlyRemoved, About
<1>5. ASSUME FirstAdds(n)', ~FirstAdds(n)
      PROVE  e.device.name = n /\ ~Pending(n) /\ e.action = "add"
  <2>1. PICK i \in DOMAIN events' : First(i, n)' /\ events'[i].action = "add"
    BY <1>5 DEF FirstAdds
  <2>2. i = new
    <3> SUFFICES ASSUME i \in DOMAIN events  PROVE FALSE
      BY <1>2
    <3>1. First(i, n) /\ events[i].action = "add"
      BY <1>2, <2>1 DEF First, About
    <3> QED  BY <1>5, <3>1 DEF FirstAdds
  <2>3. e.device.name = n /\ e.action = "add"
    BY <1>2, <2>1, <2>2 DEF First, About
  <2>4. ~Pending(n)
    <3> SUFFICES ASSUME NEW j \in DOMAIN events, About(j, n)  PROVE FALSE
      BY DEF Pending
    <3>1. new <= j
      BY <1>2, <2>1, <2>2 DEF First, About
    <3> QED  BY <1>1, <3>1 DEF new
  <2> QED  BY <2>3, <2>4
<1> QED  BY <1>1, <1>3, <1>4, <1>5

\* What is left when the event in front is handled.
LEMMA HandledEvent ==
    ASSUME Types, Turns, events # << >>, events' = Tail(events), NEW n \in Names
    PROVE  /\ Len(events) \in Nat /\ DOMAIN events = 1 .. Len(events)
           /\ 1 \in DOMAIN events /\ Head(events) = events[1]
           /\ DOMAIN events' = 1 .. Len(events) - 1
           /\ \A i \in DOMAIN events' : i + 1 \in DOMAIN events /\ events'[i] = events[i + 1]
           /\ OnlyRemoved(n) => OnlyRemoved(n)'
           /\ Head(events).device.name # n => /\ Pending(n)' <=> Pending(n)
                                              /\ FirstAdds(n)' => FirstAdds(n)
           /\ Head(events).device.name = n =>
                 /\ Pending(n)
                 /\ ~Pending(n)' => Latest(1, n)
                 /\ Head(events).action = "add" => FirstAdds(n)
                 /\ FirstAdds(n)' => Head(events).action # "add"
<1>1. /\ Len(events) \in Nat /\ DOMAIN events = 1 .. Len(events)
      /\ 1 \in DOMAIN events /\ Head(events) = events[1]
      /\ DOMAIN events' = 1 .. Len(events) - 1
      /\ \A i \in DOMAIN events' : i + 1 \in DOMAIN events /\ events'[i] = events[i + 1]
  <2>1. events \in Seq(Events)
    BY DEF Types, WorldTypeOK
  <2>2. Len(events) \in Nat /\ Len(events) >= 1 /\ DOMAIN events = 1 .. Len(events)
    BY <2>1
  <2>3. /\ Len(Tail(events)) = Len(events) - 1 /\ Tail(events) \in Seq(Events)
        /\ \A i \in 1 .. Len(Tail(events)) : Tail(events)[i] = events[i + 1]
    BY <2>1, HeadTailProperties
  <2>4. Head(events) = events[1]
    BY <2>1
  <2> QED  BY <2>2, <2>3, <2>4
<1>2. \A j \in DOMAIN events :
         j = 1 \/ (j > 1 /\ j - 1 \in DOMAIN events' /\ events'[j - 1] = events[j])
  <2> TAKE j \in DOMAIN events
  <2>1. j = 1 \/ (j > 1 /\ j - 1 \in DOMAIN events' /\ j - 1 + 1 = j)
    BY <1>1
  <2> QED  BY <1>1, <2>1
<1>3. OnlyRemoved(n) => OnlyRemoved(n)'
  BY <1>1 DEF OnlyRemoved, About
<1>4. Head(events).device.name # n => (Pending(n)' <=> Pending(n))
  <2>1. ASSUME Pending(n)'  PROVE Pending(n)
    <3>1. PICK i \in DOMAIN events' : About(i, n)'
      BY <2>1 DEF Pending
    <3>2. i + 1 \in DOMAIN events /\ About(i + 1, n)
      BY <1>1, <3>1 DEF About
    <3> QED  BY <3>2 DEF Pending
  <2>2. ASSUME Head(events).device.name # n, Pending(n)  PROVE Pending(n)'
    <3>1. PICK j \in DOMAIN events : About(j, n)
      BY <2>2 DEF Pending
    <3>2. j # 1
      BY <1>1, <2>2, <3>1 DEF About
    <3>3. j - 1 \in DOMAIN events' /\ About(j - 1, n)'
      BY <1>2, <3>1, <3>2 DEF About
    <3> QED  BY <3>3 DEF Pending
  <2> QED  BY <2>1, <2>2
<1>5. ASSUME Head(events).device.name # n, FirstAdds(n)'  PROVE FirstAdds(n)
  <2>1. PICK i \in DOMAIN events' : First(i, n)' /\ events'[i].action = "add"
    BY <1>5 DEF FirstAdds
  <2>2. i + 1 \in DOMAIN events /\ About(i + 1, n) /\ events[i + 1].action = "add"
    BY <1>1, <2>1 DEF First, About
  <2>3. \A j \in DOMAIN events : About(j, n) => i + 1 <= j
    <3> SUFFICES ASSUME NEW j \in DOMAIN events, About(j, n)  PROVE i + 1 <= j
      OBVIOUS
    <3>1. j # 1
      BY <1>1, <1>5 DEF About
    <3>2. j - 1 \in DOMAIN events' /\ About(j - 1, n)'
      BY <1>2, <3>1 DEF About
    <3>3. i <= j - 1
      BY <2>1, <3>2 DEF First
    <3> QED  BY <1>1, <3>3
  <2> QED  BY <2>2, <2>3 DEF FirstAdds, First
<1>6. ASSUME Head(events).device.name = n
      PROVE  /\ Pending(n)
             /\ ~Pending(n)' => Latest(1, n)
             /\ Head(events).action = "add" => FirstAdds(n)
             /\ FirstAdds(n)' => Head(events).action # "add"
  <2>1. About(1, n) /\ 1 \in DOMAIN events
    BY <1>1, <1>6 DEF About
  <2>2. Pending(n)
    BY <2>1 DEF Pending
  <2>3. First(1, n)
    BY <1>1, <2>1 DEF First
  <2>4. ASSUME ~Pending(n)'  PROVE Latest(1, n)
    <3>1. ASSUME NEW j \in DOMAIN events, About(j, n)  PROVE j <= 1
      <4>1. CASE j = 1
        BY <4>1
      <4>2. CASE j - 1 \in DOMAIN events' /\ events'[j - 1] = events[j]
        <5>1. About(j - 1, n)'
          BY <3>1, <4>2 DEF About
        <5> QED  BY <2>4, <4>2, <5>1 DEF Pending
      <4> QED  BY <1>2, <4>1, <4>2
    <3> QED  BY <2>1, <3>1 DEF Latest
  <2>5. ASSUME FirstAdds(n)'  PROVE Head(events).action # "add"
    <3>1. PICK i \in DOMAIN events' : First(i, n)' /\ events'[i].action = "add"
      BY <2>5 DEF FirstAdds
    <3>2. i + 1 \in DOMAIN events /\ 1 < i + 1 /\ About(i + 1, n) /\ events[i + 1].action = "add"
      BY <1>1, <3>1 DEF First, About
    <3>3. \A k \in DOMAIN events : About(k, n) => k <= 1 \/ i + 1 <= k
      <4> SUFFICES ASSUME NEW k \in DOMAIN events, About(k, n), k # 1  PROVE i + 1 <= k
        BY <1>1
      <4>1. k - 1 \in DOMAIN events' /\ About(k - 1, n)'
        BY <1>2 DEF About
      <4>2. i <= k - 1
        BY <3>1, <4>1 DEF First
      <4> QED  BY <1>1, <4>2
    <3>4. events[1].action # events[i + 1].action
      BY <2>1, <3>2, <3>3 DEF Turns
    <3> QED  BY <1>1, <3>2, <3>4
  <2> QED  BY <1>1, <2>2, <2>3, <2>4, <2>5 DEF FirstAdds
<1> QED  BY <1>1, <1>3, <1>4, <1>5, <1>6

\* Plugging and unplugging take turns because each needs the other's outcome.
LEMMA AnotherTurn ==
    ASSUME Types, EventInv, NEW n \in Names, NEW p \in Products, NEW a \in {"add", "remove"},
           events' = Append(events, [action |-> a, device |-> Device(n, p)]),
           plugged' = [plugged EXCEPT ![n] = IF a = "add" THEN p ELSE "none"],
           a = "add" <=> plugged[n] = "none"
    PROVE  EventInv'
<1> DEFINE e == [action |-> a, device |-> Device(n, p)]
<1>1. e \in Events /\ e.action = a /\ e.device.name = n /\ e.device.product = p
  BY DEF Events, Devices, Device
<1> HIDE DEF e
<1>2. events' = Append(events, e)
  BY DEF e
<1>3. /\ Len(events) \in Nat /\ DOMAIN events = 1 .. Len(events)
      /\ DOMAIN events' = 1 .. Len(events) + 1
      /\ \A i \in DOMAIN events : events'[i] = events[i]
      /\ events'[Len(events) + 1] = e
  BY <1>1, <1>2, AppendedEvent
<1>n. PICK new \in DOMAIN events' : new = Len(events) + 1
  BY <1>3
<1>4. /\ new \in DOMAIN events' /\ new \notin DOMAIN events
      /\ \A i \in DOMAIN events' : i \in DOMAIN events \/ i = new
      /\ \A i \in DOMAIN events : i \in DOMAIN events' /\ events'[i] = events[i] /\ i < new
      /\ events'[new] = e /\ new \in Int /\ \A i \in DOMAIN events' : i \in Int
  BY <1>3, <1>n
<1>5. \A i \in DOMAIN events : events[i].device.product \in Products
                               /\ events[i].action \in {"add", "remove"}
  <2> TAKE i \in DOMAIN events
  <2>1. events[i] \in Events
    BY DEF Types, WorldTypeOK
  <2> QED  BY <2>1 DEF Events, Devices
<1>6. "none" \notin Products
  BY DEF Products
<1>7. Turns'
  <2> SUFFICES ASSUME NEW m \in Names, NEW i \in DOMAIN events', NEW j \in DOMAIN events',
                      About(i, m)', About(j, m)', i < j,
                      \A k \in DOMAIN events' : About(k, m)' => k <= i \/ j <= k
               PROVE  events'[i].action # events'[j].action
    BY DEF Turns
  <2>1. i \in DOMAIN events
    BY <1>4
  <2>2. CASE j \in DOMAIN events
    <3>1. About(i, m) /\ About(j, m) /\ \A k \in DOMAIN events : About(k, m) => k <= i \/ j <= k
      BY <1>4, <2>1, <2>2 DEF About
    <3>2. events[i].action # events[j].action
      BY <2>1, <2>2, <3>1 DEF EventInv, Turns
    <3> QED  BY <1>4, <2>1, <2>2, <3>2
  <2>3. CASE j = new
    <3>1. m = n /\ events'[j].action = a
      BY <1>1, <1>4, <2>3 DEF About
    <3>2. Latest(i, n)
      BY <1>4, <2>1, <2>3, <3>1 DEF Latest, About
    <3>3. plugged[n] = IF events[i].action = "add" THEN events[i].device.product ELSE "none"
      BY <2>1, <3>2 DEF EventInv, LatestIsTrue
    <3> QED  BY <1>4, <1>5, <1>6, <2>1, <3>1, <3>3
  <2> QED  BY <1>4, <2>2, <2>3
<1>8. LatestIsTrue'
  <2> SUFFICES ASSUME NEW m \in Names, NEW i \in DOMAIN events', Latest(i, m)'
               PROVE  plugged'[m] = IF events'[i].action = "add"
                                      THEN events'[i].device.product ELSE "none"
    BY DEF LatestIsTrue
  <2>0. plugged \in [Names -> Views]
    BY DEF Types, WorldTypeOK
  <2>1. CASE m = n
    <3>1. i = new
      <4>1. About(new, n)'
        BY <1>1, <1>4 DEF About
      <4>2. new <= i
        BY <1>4, <2>1, <4>1 DEF Latest
      <4> QED  BY <1>4, <4>2
    <3>2. plugged'[n] = IF a = "add" THEN p ELSE "none"
      BY <2>0
    <3> QED  BY <1>1, <1>4, <2>1, <3>1, <3>2
  <2>2. CASE m # n
    <3>1. i \in DOMAIN events
      BY <1>1, <1>4, <2>2 DEF Latest, About
    <3>2. Latest(i, m)
      BY <1>4, <3>1 DEF Latest, About
    <3>3. plugged[m] = IF events[i].action = "add" THEN events[i].device.product ELSE "none"
      BY <3>1, <3>2 DEF EventInv, LatestIsTrue
    <3>4. plugged'[m] = plugged[m]
      BY <2>0, <2>2
    <3> QED  BY <1>4, <3>1, <3>3, <3>4
  <2> QED  BY <2>1, <2>2
<1> QED  BY <1>7, <1>8 DEF EventInv

LEMMA StepEvents ==
    ASSUME Types, EventInv, [Next]_vars  PROVE EventInv'
<1>0. plugged \in [Names -> Views]
  BY DEF Types, WorldTypeOK
<1>1. ASSUME NEW n \in Names, NEW p \in Products, Plug(n, p)  PROVE EventInv'
  BY <1>1, AnotherTurn DEF Plug
<1>2. ASSUME NEW n \in Names, Unplug(n)  PROVE EventInv'
  <2>1. plugged[n] \in Products /\ plugged[n] # "none"
    BY <1>0, <1>2 DEF Unplug, Views
  <2>2. /\ events' = Append(events, [action |-> "remove", device |-> Device(n, plugged[n])])
        /\ plugged' = [plugged EXCEPT ![n] = IF "remove" = "add" THEN plugged[n] ELSE "none"]
    BY <1>2 DEF Unplug
  <2> QED  BY <2>1, <2>2, AnotherTurn
<1>3. ASSUME HandleEvent  PROVE EventInv'
  <2>1. events # << >> /\ events' = Tail(events) /\ plugged' = plugged
    BY <1>3, EventInFront
  <2>2. /\ DOMAIN events = 1 .. Len(events) /\ Len(events) \in Nat
        /\ DOMAIN events' = 1 .. Len(events) - 1
        /\ \A i \in DOMAIN events' : i + 1 \in DOMAIN events /\ events'[i] = events[i + 1]
    <3>1. Head(events).device.name \in Names
      BY <1>3, EventInFront
    <3> QED  BY <2>1, <3>1, HandledEvent DEF EventInv
  <2>3. \A k \in DOMAIN events : k = 1 \/ (k - 1 \in DOMAIN events' /\ events'[k - 1] = events[k])
    <3> TAKE k \in DOMAIN events
    <3>1. k = 1 \/ (k - 1 \in DOMAIN events' /\ k - 1 + 1 = k)
      BY <2>2
    <3> QED  BY <2>2, <3>1
  <2>4. Turns'
    <3> SUFFICES ASSUME NEW m \in Names, NEW i \in DOMAIN events', NEW j \in DOMAIN events',
                        About(i, m)', About(j, m)', i < j,
                        \A k \in DOMAIN events' : About(k, m)' => k <= i \/ j <= k
                 PROVE  events'[i].action # events'[j].action
      BY DEF Turns
    <3>1. /\ i + 1 \in DOMAIN events /\ j + 1 \in DOMAIN events /\ i + 1 < j + 1
          /\ About(i + 1, m) /\ About(j + 1, m)
      BY <2>2 DEF About
    <3>2. \A k \in DOMAIN events : About(k, m) => k <= i + 1 \/ j + 1 <= k
      <4> SUFFICES ASSUME NEW k \in DOMAIN events, About(k, m), k # 1
                   PROVE  k <= i + 1 \/ j + 1 <= k
        BY <2>2
      <4>1. k - 1 \in DOMAIN events' /\ About(k - 1, m)'
        BY <2>3 DEF About
      <4>2. k - 1 <= i \/ j <= k - 1
        BY <4>1
      <4> QED  BY <2>2, <4>2
    <3>3. events[i + 1].action # events[j + 1].action
      BY <3>1, <3>2 DEF EventInv, Turns
    <3> QED  BY <2>2, <3>3
  <2>5. LatestIsTrue'
    <3> SUFFICES ASSUME NEW m \in Names, NEW i \in DOMAIN events', Latest(i, m)'
                 PROVE  plugged'[m] = IF events'[i].action = "add"
                                        THEN events'[i].device.product ELSE "none"
      BY DEF LatestIsTrue
    <3>1. i + 1 \in DOMAIN events /\ About(i + 1, m)
      BY <2>2 DEF About, Latest
    <3>2. \A k \in DOMAIN events : About(k, m) => k <= i + 1
      <4> SUFFICES ASSUME NEW k \in DOMAIN events, About(k, m), k # 1  PROVE k <= i + 1
        BY <2>2
      <4>1. k - 1 \in DOMAIN events' /\ About(k - 1, m)'
        BY <2>3 DEF About
      <4>2. k - 1 <= i
        BY <4>1 DEF Latest
      <4> QED  BY <2>2, <4>2
    <3>3. plugged[m] = IF events[i + 1].action = "add"
                         THEN events[i + 1].device.product ELSE "none"
      BY <3>1, <3>2 DEF EventInv, LatestIsTrue, Latest
    <3> QED  BY <2>1, <2>2, <3>3
  <2> QED  BY <2>4, <2>5 DEF EventInv
<1>4. ASSUME Start \/ ListDevices \/ Listen \/ UNCHANGED vars  PROVE EventInv'
  <2>1. events' = events /\ plugged' = plugged
    BY <1>4 DEF Start, Query, AddKnown, SetupBluetooth, ListDevices, Listen, Ask, TakeReply,
                TakeSignal, vars, world
  <2> QED  BY <2>1 DEF EventInv, Turns, LatestIsTrue, Latest, About
<1> QED  BY <1>1, <1>2, <1>3, <1>4 DEF Next, Change

-----------------------------------------------------------------------------
(* The list: what the start and the events make of one device file.          *)

LEMMA ListedIsIn ==
    ASSUME NEW path  PROVE  Listed(path) <=> In(known_devices, path)
BY DEF Listed, In

LEMMA ListedIsInNext ==
    ASSUME NEW path  PROVE  Listed(path)' <=> In(known_devices', path)
BY DEF Listed, In

LEMMA NameKept ==
    ASSUME NEW n, NameInv(n), phase' = phase, todo' = todo, plugged'[n] = plugged[n],
           Listed(n)' <=> Listed(n), ListedOnce(n)', Pending(n)' <=> Pending(n),
           OnlyRemoved(n) => OnlyRemoved(n)', FirstAdds(n)' => FirstAdds(n)
    PROVE  NameInv(n)'
<1>1. QueryInv(n)' /\ AddInv(n)'
  BY DEF NameInv, QueryInv, AddInv
<1>2. WaitingInv(n)'
  BY DEF NameInv, WaitingInv
<1>3. SettledInv(n)'
  BY DEF NameInv, SettledInv, Waiting
<1> QED  BY <1>1, <1>2, <1>3 DEF NameInv

\* What an event that is handled does to the list and to the wire.
LEMMA EventEffect ==
    ASSUME Types, EventInv, ListInv, HandleEvent, NEW name, name = Head(events).device.name
    PROVE  \/ /\ Head(events).action = "add"
              /\ known_devices' = Append(known_devices, <<name, "usb">>)
              /\ Send(<<"DeviceAdded", name>>)
              /\ ~Pending(name)' => plugged[name] = "gps"
           \/ /\ Head(events).action = "add"
              /\ known_devices' = known_devices /\ wire' = wire
              /\ ~Pending(name)' => plugged[name] # "gps"
           \/ /\ Head(events).action = "remove"
              /\ known_devices' = RemoveFrom(known_devices, name)
              /\ Send(<<"DeviceRemoved", name>>)
              /\ ~Pending(name)' => plugged[name] = "none"
           \/ /\ Head(events).action = "remove"
              /\ known_devices' = known_devices /\ wire' = wire
              /\ name \in obscured' \/ ~Listed(name)
              /\ ~Pending(name)' => plugged[name] = "none"
<1> DEFINE event == Head(events)
           d == event.device
<1>1. /\ events # << >> /\ events' = Tail(events) /\ plugged' = plugged
      /\ name \in Names /\ d.product \in Products /\ event.action \in {"add", "remove"}
  BY EventInFront
<1>2. ASSUME ~Pending(name)'
      PROVE  plugged[name] = IF event.action = "add" THEN d.product ELSE "none"
  <2>1. Latest(1, name) /\ 1 \in DOMAIN events /\ event = events[1]
    BY <1>1, <1>2, HandledEvent DEF EventInv
  <2>2. plugged[name] = IF events[1].action = "add" THEN events[1].device.product ELSE "none"
    BY <1>1, <2>1 DEF EventInv, LatestIsTrue
  <2> QED  BY <2>1, <2>2
<1>3. PICK seen \in Seen(d, Tail(events)) :
         IF event.action = "add" THEN Added(d, seen) ELSE Removed(d, seen)
  BY EventInFront
<1>4. CASE event.action = "add"
  <2>1. Added(d, seen)
    BY <1>3, <1>4
  <2>2. ASSUME ~Pending(name)'  PROVE seen.parent = d.product /\ plugged[name] = d.product
    <3>1. plugged[name] = d.product
      BY <1>2, <1>4, <2>2
    <3>2. \A i \in DOMAIN Tail(events) : Tail(events)[i].device.name # name
      BY <1>1, <2>2 DEF Pending, About
    <3>3. StillThere(d, Tail(events))
      BY <3>1, <3>2 DEF StillThere
    <3>4. Seen(d, Tail(events)) = {[parent |-> d.product, ids |-> d.product]}
      BY <3>3 DEF Seen
    <3> QED  BY <3>1, <3>4
  <2>3. CASE Known(seen)
    <3>1. /\ known_devices' = Append(known_devices, <<name, "usb">>)
          /\ Send(<<"DeviceAdded", name>>)
      BY <2>1, <2>3 DEF Added
    <3>2. ~Pending(name)' => plugged[name] = "gps"
      BY <2>2, <2>3 DEF Known
    <3> QED  BY <1>4, <3>1, <3>2
  <2>4. CASE ~Known(seen)
    <3>1. known_devices' = known_devices /\ wire' = wire
      BY <2>1, <2>4 DEF Added
    <3>2. ~Pending(name)' => plugged[name] # "gps"
      BY <2>2, <2>4 DEF Known
    <3> QED  BY <1>4, <3>1, <3>2
  <2> QED  BY <2>3, <2>4
<1>5. CASE event.action = "remove"
  <2>1. Removed(d, seen)
    BY <1>3, <1>5
  <2>2. ~Pending(name)' => plugged[name] = "none"
    BY <1>2, <1>5
  <2>3. CASE Recognised(seen)
    BY <1>5, <2>1, <2>2, <2>3 DEF Removed
  <2>4. CASE ~Recognised(seen)
    <3>1. known_devices' = known_devices /\ wire' = wire
      BY <2>1, <2>4 DEF Removed
    <3>2. Blank(seen)
      BY <2>4 DEF Recognised, Blank
    <3>3. Listed(name) => name \in obscured'
      BY <2>1, <3>2 DEF Removed
    <3> QED  BY <1>5, <2>2, <3>1, <3>3
  <2> QED  BY <2>3, <2>4
<1> QED  BY <1>1, <1>4, <1>5

LEMMA StepStart ==
    ASSUME Types, StartInv, [Next]_vars  PROVE StartInv'
<1>1. ASSUME Query  PROVE StartInv'
  <2>1. todo' = {Device(n, plugged[n]) : n \in {m \in Names : plugged[m] # "none"}}
        /\ phase' = "udev"
    BY <1>1 DEF Query
  <2>2. \A d, e \in todo' : d.name = e.name => d = e
    BY <2>1 DEF Device
  <2> QED  BY <2>1, <2>2 DEF StartInv
<1>2. ASSUME NEW d \in todo, AddKnown(d)  PROVE StartInv'
  BY <1>2 DEF AddKnown, StartInv
<1>3. ASSUME SetupBluetooth  PROVE StartInv'
  BY <1>3 DEF SetupBluetooth, StartInv
<1>4. ASSUME HandleEvent  PROVE StartInv'
  BY <1>4 DEF HandleEvent, StartInv
<1>5. ASSUME Change \/ ListDevices \/ Listen \/ UNCHANGED vars  PROVE StartInv'
  <2>1. UNCHANGED daemon
    BY <1>5 DEF Change, Plug, Unplug, ListDevices, Listen, Ask, TakeReply, TakeSignal, vars
  <2> QED  BY <2>1 DEF daemon, StartInv
<1> QED  BY <1>1, <1>2, <1>3, <1>4, <1>5 DEF Next, Start

\* The query and what is made of its answer.
LEMMA QueriedName ==
    ASSUME Types, ListInv, Query, NEW n \in Names \ obscured'
    PROVE  NameInv(n)'
<1>1. /\ phase = "query" /\ phase' = "udev" /\ known_devices = << >>
      /\ UNCHANGED <<known_devices, events, plugged, obscured>>
      /\ todo' = {Device(m, plugged[m]) : m \in {m \in Names : plugged[m] # "none"}}
  BY DEF Query, world, ListInv, StartInv
<1>2. OnlyRemoved(n)' /\ (Pending(n)' <=> Pending(n))
  <2>1. OnlyRemoved(n)
    BY <1>1 DEF ListInv, NameInv, QueryInv
  <2> QED  BY <1>1, <2>1 DEF OnlyRemoved, Pending, About
<1>3. ~Listed(n)' /\ ListedOnce(n)'
  BY <1>1 DEF Listed, ListedOnce, OnceIn
<1>4. WaitingInv(n)'
  <2>1. \A d \in todo' : d.name = n => plugged'[n] = d.product
    BY <1>1 DEF Device
  <2> QED  BY <1>2, <1>3, <2>1 DEF WaitingInv
<1>5. SettledInv(n)'
  <2>1. ~Waiting(n)' => plugged'[n] # "gps"
    <3> SUFFICES ASSUME plugged[n] = "gps"  PROVE Waiting(n)'
      BY <1>1
    <3>1. Device(n, plugged[n]) \in todo' /\ Device(n, plugged[n]).name = n
      BY <1>1 DEF Device
    <3> QED  BY <3>1 DEF Waiting
  <2> QED  BY <1>3, <2>1 DEF SettledInv
<1> QED  BY <1>1, <1>3, <1>4, <1>5 DEF NameInv, QueryInv, AddInv

LEMMA KnownName ==
    ASSUME Types, ListInv, NEW d \in todo, AddKnown(d), NEW n \in Names \ obscured'
    PROVE  NameInv(n)'
<1>1. /\ UNCHANGED <<phase, events, plugged, obscured>> /\ todo' = todo \ {d}
      /\ phase = "udev"
      /\ d \in Devices /\ \A e \in todo : e.name = d.name => e = d
  BY DEF AddKnown, world, ListInv, StartInv, Types, DaemonTypeOK
<1>2. PICK seen \in Seen(d, << >>) :
         known_devices' = IF Known(seen) THEN Append(known_devices, <<d.name, "usb">>)
                          ELSE known_devices
  BY DEF AddKnown
<1>3. NameInv(n) /\ known_devices \in Seq(Entries) /\ <<d.name, "usb">> \in Entries
  BY <1>1 DEF ListInv, Types, DaemonTypeOK, Devices, Entries
<1>4. /\ OnlyRemoved(n)' <=> OnlyRemoved(n)
      /\ Pending(n)' <=> Pending(n)
      /\ FirstAdds(n)' <=> FirstAdds(n)
  BY <1>1 DEF OnlyRemoved, Pending, FirstAdds, First, About
<1>5. CASE d.name # n
  <2>1. Listed(n)' <=> Listed(n)
    BY <1>2, <1>3, <1>5, AppendedEntry, ListedIsIn, ListedIsInNext
  <2>2. ListedOnce(n)'
    BY <1>2, <1>3, <1>5, AppendedEntry DEF NameInv, ListedOnce
  <2>3. WaitingInv(n)' /\ (Waiting(n)' <=> Waiting(n))
    BY <1>1, <1>3, <1>4, <1>5, <2>1 DEF NameInv, WaitingInv, Waiting
  <2>4. SettledInv(n)' /\ QueryInv(n)' /\ AddInv(n)'
    BY <1>1, <1>3, <1>4, <2>1, <2>3 DEF NameInv, SettledInv, QueryInv, AddInv
  <2> QED  BY <2>2, <2>3, <2>4 DEF NameInv
<1>6. CASE d.name = n
  <2>1. ~Listed(n) /\ OnlyRemoved(n) /\ (~Pending(n) => plugged[n] = d.product)
    BY <1>3, <1>6 DEF NameInv, WaitingInv
  <2>2. ListedOnce(n)'
    <3>1. OnceIn(known_devices, n) /\ ~In(known_devices, n)
      BY <1>3, <2>1, ListedIsIn DEF NameInv, ListedOnce
    <3>2. OnceIn(Append(known_devices, <<d.name, "usb">>), n)
      BY <1>3, <3>1, AppendedEntry
    <3> QED  BY <1>2, <3>1, <3>2 DEF ListedOnce
  <2>3. ~Waiting(n)' /\ WaitingInv(n)'
    BY <1>1, <1>6 DEF Waiting, WaitingInv
  <2>4. ~FirstAdds(n)
    BY <2>1 DEF FirstAdds, First, OnlyRemoved
  <2>5. SettledInv(n)'
    <3> SUFFICES ASSUME ~Pending(n)  PROVE Listed(n)' <=> plugged[n] = "gps"
      BY <1>1, <1>4 DEF SettledInv
    <3>1. StillThere(d, << >>)
      BY <1>6, <2>1 DEF StillThere
    <3>2. Seen(d, << >>) = {[parent |-> d.product, ids |-> d.product]}
      BY <3>1 DEF Seen
    <3>3. Known(seen) <=> plugged[n] = "gps"
      BY <2>1, <3>2 DEF Known
    <3>4. In(Append(known_devices, <<d.name, "usb">>), n)
      BY <1>3, <1>6, AppendedEntry
    <3> QED  BY <1>2, <2>1, <3>3, <3>4, ListedIsIn, ListedIsInNext
  <2> QED  BY <1>1, <1>4, <2>2, <2>3, <2>4, <2>5 DEF NameInv, QueryInv, AddInv
<1> QED  BY <1>5, <1>6

LEMMA BluetoothName ==
    ASSUME Types, ListInv, SetupBluetooth, NEW n \in Names \ obscured'
    PROVE  NameInv(n)'
<1>1. /\ phase = "udev" /\ phase' = "running"
      /\ UNCHANGED <<events, plugged, obscured, todo>>
  BY DEF SetupBluetooth, world
<1>2. PICK found \in SUBSET positioning :
         known_devices' = known_devices \o BluetoothEntries(found)
  BY DEF SetupBluetooth, BluetoothEntries
<1>3. NameInv(n) /\ known_devices \in Seq(Entries) /\ found \in SUBSET Addresses
  BY <1>1 DEF ListInv, Types, DaemonTypeOK, WorldTypeOK
<1>4. (In(known_devices', n) <=> In(known_devices, n))
      /\ (OnceIn(known_devices, n) => OnceIn(known_devices', n))
  BY <1>2, <1>3, AppendedBluetooth
<1>5. (Listed(n)' <=> Listed(n)) /\ ListedOnce(n)'
  BY <1>3, <1>4, ListedIsIn, ListedIsInNext DEF NameInv, ListedOnce
<1>6. /\ OnlyRemoved(n)' <=> OnlyRemoved(n)
      /\ Pending(n)' <=> Pending(n)
      /\ FirstAdds(n)' <=> FirstAdds(n)
  BY <1>1 DEF OnlyRemoved, Pending, FirstAdds, First, About
<1>7. WaitingInv(n)'
  BY <1>1, <1>3, <1>5, <1>6 DEF NameInv, WaitingInv
<1>8. SettledInv(n)' /\ AddInv(n)' /\ QueryInv(n)'
  BY <1>1, <1>3, <1>5, <1>6 DEF NameInv, SettledInv, Waiting, AddInv, QueryInv
<1> QED  BY <1>5, <1>7, <1>8 DEF NameInv

\* A device that comes or goes.
LEMMA ChangedName ==
    ASSUME Types, ListInv, NEW m \in Names, NEW n \in Names \ obscured',
           (\E p \in Products : Plug(m, p)) \/ Unplug(m)
    PROVE  NameInv(n)'
<1>0. UNCHANGED <<phase, todo, known_devices>> /\ obscured \subseteq obscured'
      /\ plugged \in [Names -> Views]
  BY DEF Plug, Unplug, daemon, Types, WorldTypeOK
<1>1. NameInv(n) /\ (Listed(n)' <=> Listed(n)) /\ ListedOnce(n)'
  BY <1>0 DEF ListInv, NameInv, Listed, ListedOnce
<1>2. PICK p \in Products, a \in {"add", "remove"} :
         /\ events' = Append(events, [action |-> a, device |-> Device(m, p)])
         /\ plugged' = [plugged EXCEPT ![m] = IF a = "add" THEN p ELSE "none"]
         /\ a = "add" => plugged[m] = "none" /\ Plug(m, p)
  <2>1. CASE \E p \in Products : Plug(m, p)
    BY <2>1 DEF Plug
  <2>2. CASE Unplug(m)
    <3>1. plugged[m] \in Products
      BY <1>0, <2>2 DEF Unplug, Views
    <3>2. /\ events' = Append(events, [action |-> "remove", device |-> Device(m, plugged[m])])
          /\ plugged' = [plugged EXCEPT ![m] = IF "remove" = "add" THEN plugged[m] ELSE "none"]
      BY <2>2 DEF Unplug
    <3> QED  BY <3>1, <3>2
  <2> QED  BY <2>1, <2>2
<1> DEFINE e == [action |-> a, device |-> Device(m, p)]
<1>3. e \in Events /\ e.action = a /\ e.device.name = m
  BY DEF Events, Devices, Device
<1> HIDE DEF e
<1>4. events' = Append(events, e)
  BY <1>2 DEF e
<1>5. CASE n # m
  <2>1. /\ Pending(n)' <=> Pending(n)
        /\ OnlyRemoved(n) => OnlyRemoved(n)'
        /\ FirstAdds(n)' => FirstAdds(n)
    BY <1>3, <1>4, <1>5, AppendedEvent
  <2>2. plugged'[n] = plugged[n]
    BY <1>0, <1>2, <1>5
  <2> QED  BY <1>0, <1>1, <2>1, <2>2, NameKept
<1>6. CASE n = m
  <2>1. /\ Pending(n)'
        /\ OnlyRemoved(n) /\ a = "remove" => OnlyRemoved(n)'
        /\ FirstAdds(n)' => FirstAdds(n) \/ (~Pending(n) /\ a = "add")
    BY <1>3, <1>4, <1>6, AppendedEvent
  <2>2. a = "add" => phase # "query" /\ ~Waiting(n) /\ plugged[n] = "none"
    BY <1>2, <1>6 DEF Plug, Waiting
  <2>3. QueryInv(n)'
    BY <1>0, <1>1, <2>1, <2>2 DEF NameInv, QueryInv
  <2>4. WaitingInv(n)'
    BY <1>0, <1>1, <2>1, <2>2 DEF NameInv, WaitingInv, Waiting
  <2>5. AddInv(n)'
    <3>1. ~Pending(n) /\ a = "add" => ~Listed(n)
      BY <1>1, <2>2 DEF NameInv, SettledInv
    <3> QED  BY <1>1, <2>1, <3>1 DEF NameInv, AddInv
  <2>6. SettledInv(n)'
    BY <2>1 DEF SettledInv
  <2> QED  BY <1>1, <2>3, <2>4, <2>5, <2>6 DEF NameInv
<1> QED  BY <1>5, <1>6

\* An event that is handled.
LEMMA HandledName ==
    ASSUME Types, EventInv, ListInv, HandleEvent, NEW n \in Names \ obscured'
    PROVE  NameInv(n)'
<1> DEFINE name == Head(events).device.name
<1>0. /\ UNCHANGED <<phase, todo, plugged>> /\ phase = "running" /\ todo = {}
      /\ obscured \subseteq obscured' /\ events # << >> /\ events' = Tail(events)
      /\ known_devices \in Seq(Entries) /\ <<name, "usb">> \in Entries /\ name \in Names
  <2>1. \E seen \in Seen(Head(events).device, Tail(events)) :
           Added(Head(events).device, seen) \/ Removed(Head(events).device, seen)
    BY EventInFront
  <2>2. obscured \subseteq obscured'
    BY <2>1 DEF Added, Removed
  <2>3. known_devices \in Seq(Entries)
    BY DEF Types, DaemonTypeOK
  <2>4. todo = {}
    BY EventInFront DEF ListInv, StartInv
  <2>5. name \in Names /\ <<name, "usb">> \in Entries
    BY EventInFront DEF Entries
  <2> QED  BY <2>2, <2>3, <2>4, <2>5, EventInFront
<1>1. NameInv(n)
  BY <1>0 DEF ListInv
<1>2. /\ OnlyRemoved(n) => OnlyRemoved(n)'
      /\ name # n => (Pending(n)' <=> Pending(n)) /\ (FirstAdds(n)' => FirstAdds(n))
      /\ name = n => /\ Pending(n)
                     /\ Head(events).action = "add" => FirstAdds(n)
                     /\ FirstAdds(n)' => Head(events).action # "add"
  BY <1>0, HandledEvent DEF EventInv
<1>3. CASE name # n
  <2>1. \/ known_devices' = Append(known_devices, <<name, "usb">>)
        \/ known_devices' = known_devices
        \/ known_devices' = RemoveFrom(known_devices, name)
    BY EventEffect
  <2> HIDE DEF name
  <2>2. /\ In(known_devices', n) <=> In(known_devices, n)
        /\ OnceIn(known_devices, n) => OnceIn(known_devices', n)
    <3>1. CASE known_devices' = Append(known_devices, <<name, "usb">>)
      BY <1>0, <1>3, <3>1, AppendedEntry
    <3>2. CASE known_devices' = RemoveFrom(known_devices, name)
      BY <1>0, <1>3, <3>2, RemovedEntry
    <3> QED  BY <2>1, <3>1, <3>2
  <2>3. (Listed(n)' <=> Listed(n)) /\ ListedOnce(n)'
    BY <1>1, <2>2, ListedIsIn, ListedIsInNext DEF NameInv, ListedOnce
  <2>4. plugged'[n] = plugged[n]
    BY <1>0
  <2> QED  BY <1>0, <1>1, <1>2, <1>3, <2>3, <2>4, NameKept
<1>4. CASE name = n
  <2>1. \/ /\ Head(events).action = "add"
           /\ known_devices' = Append(known_devices, <<n, "usb">>)
           /\ ~Pending(n)' => plugged[n] = "gps"
        \/ /\ Head(events).action = "add"
           /\ known_devices' = known_devices
           /\ ~Pending(n)' => plugged[n] # "gps"
        \/ /\ Head(events).action = "remove"
           /\ known_devices' = RemoveFrom(known_devices, n)
           /\ ~Pending(n)' => plugged[n] = "none"
        \/ /\ Head(events).action = "remove"
           /\ known_devices' = known_devices
           /\ ~Listed(n)
           /\ ~Pending(n)' => plugged[n] = "none"
    BY <1>4, EventEffect
  <2>2. ListedOnce(n) /\ (Head(events).action = "add" => ~Listed(n))
    BY <1>1, <1>2, <1>4 DEF NameInv, AddInv
  <2>3. QueryInv(n)' /\ WaitingInv(n)'
    BY <1>0 DEF QueryInv, WaitingInv
  <2>4. CASE /\ Head(events).action = "add"
             /\ known_devices' = Append(known_devices, <<n, "usb">>)
             /\ ~Pending(n)' => plugged[n] = "gps"
    <3>1. Listed(n)' /\ ListedOnce(n)'
      BY <1>0, <1>4, <2>2, <2>4, AppendedEntry, ListedIsIn, ListedIsInNext DEF ListedOnce
    <3> QED  BY <1>0, <1>2, <1>4, <2>3, <2>4, <3>1 DEF NameInv, AddInv, SettledInv
  <2>5. CASE /\ Head(events).action = "add"
             /\ known_devices' = known_devices
             /\ ~Pending(n)' => plugged[n] # "gps"
    <3>1. ~Listed(n)' /\ ListedOnce(n)'
      BY <2>2, <2>5, ListedIsIn, ListedIsInNext DEF ListedOnce
    <3> QED  BY <1>0, <2>3, <2>5, <3>1 DEF NameInv, AddInv, SettledInv
  <2>6. CASE /\ Head(events).action = "remove"
             /\ known_devices' = RemoveFrom(known_devices, n)
             /\ ~Pending(n)' => plugged[n] = "none"
    <3>1. ~Listed(n)' /\ ListedOnce(n)'
      BY <1>0, <2>2, <2>6, RemovedEntry, ListedIsInNext DEF ListedOnce
    <3> QED  BY <1>0, <2>3, <2>6, <3>1 DEF NameInv, AddInv, SettledInv
  <2>7. CASE /\ Head(events).action = "remove"
             /\ known_devices' = known_devices
             /\ ~Listed(n)
             /\ ~Pending(n)' => plugged[n] = "none"
    <3>1. ~Listed(n)' /\ ListedOnce(n)'
      BY <2>2, <2>7, ListedIsIn, ListedIsInNext DEF ListedOnce
    <3> QED  BY <1>0, <2>3, <2>7, <3>1 DEF NameInv, AddInv, SettledInv
  <2> QED  BY <2>1, <2>4, <2>5, <2>6, <2>7
<1> QED  BY <1>3, <1>4

LEMMA StepList ==
    ASSUME Types, EventInv, ListInv, [Next]_vars  PROVE ListInv'
<1>1. StartInv'
  BY StepStart DEF ListInv
<1>2. ASSUME NEW n \in Names \ obscured'  PROVE NameInv(n)'
  <2>1. ASSUME Change  PROVE NameInv(n)'
    BY <2>1, ChangedName DEF Change
  <2>2. ASSUME Start  PROVE NameInv(n)'
    BY <2>2, QueriedName, KnownName, BluetoothName DEF Start
  <2>3. ASSUME HandleEvent  PROVE NameInv(n)'
    BY <2>3, HandledName
  <2>4. ASSUME ListDevices \/ Listen \/ UNCHANGED vars  PROVE NameInv(n)'
    <3>1. UNCHANGED <<plugged, events, phase, todo, known_devices, obscured>>
      BY <2>4 DEF ListDevices, Listen, Ask, TakeReply, TakeSignal, vars, world, daemon
    <3>2. NameInv(n)
      BY <3>1 DEF ListInv
    <3>3. /\ Listed(n)' <=> Listed(n)
          /\ ListedOnce(n)'
          /\ Pending(n)' <=> Pending(n)
          /\ OnlyRemoved(n)' <=> OnlyRemoved(n)
          /\ FirstAdds(n)' <=> FirstAdds(n)
      BY <3>1, <3>2 DEF NameInv, Listed, ListedOnce, Pending, OnlyRemoved, FirstAdds, First, About
    <3> QED  BY <3>1, <3>2, <3>3, NameKept
  <2> QED  BY <2>1, <2>2, <2>3, <2>4 DEF Next
<1> QED  BY <1>1, <1>2 DEF ListInv

-----------------------------------------------------------------------------
Signals(i, path) == wire[i][1] # "list" /\ wire[i][2] = path

Unsaid(path) == \A i \in DOMAIN wire : ~Signals(i, path)

LastWord(path) ==
    \A i \in DOMAIN wire :
        Signals(i, path) /\ (\A j \in DOMAIN wire : Signals(j, path) => j <= i)
            => (wire[i][1] = "DeviceAdded" <=> Listed(path))

ReplyIsRight(path) ==
    Unsaid(path) => \A i \in DOMAIN wire : wire[i][1] = "list" => (path \in wire[i][2] <=> Listed(path))

HeardIsRight(path) ==
    Unsaid(path) /\ asked = "yes" => (path \in heard <=> Listed(path))

PathInv(path) == LastWord(path) /\ ReplyIsRight(path) /\ HeardIsRight(path)

ListenerInv == WireInv /\ \A path \in Paths \ obscured : PathInv(path)

\* A message that is sent, about this path or about another one.
LEMMA AppendedMessage ==
    ASSUME NEW w, wire \in Seq(Messages), w \in Messages, wire' = Append(wire, w), NEW path
    PROVE  /\ Len(wire) \in Nat /\ DOMAIN wire = 1 .. Len(wire)
           /\ DOMAIN wire' = 1 .. Len(wire) + 1
           /\ \A i \in DOMAIN wire : wire'[i] = wire[i]
           /\ wire'[Len(wire) + 1] = w
           /\ ~(w[1] # "list" /\ w[2] = path) =>
                 /\ Unsaid(path)' <=> Unsaid(path)
                 /\ LastWord(path) /\ (Listed(path)' <=> Listed(path)) => LastWord(path)'
           /\ w[1] # "list" /\ w[2] = path =>
                 /\ ~Unsaid(path)'
                 /\ (w[1] = "DeviceAdded" <=> Listed(path)') => LastWord(path)'
<1>1. /\ Len(wire) \in Nat /\ DOMAIN wire = 1 .. Len(wire)
      /\ DOMAIN wire' = 1 .. Len(wire) + 1
      /\ \A i \in DOMAIN wire : wire'[i] = wire[i]
      /\ wire'[Len(wire) + 1] = w
  BY AppendProperties
<1>2. PICK new \in DOMAIN wire' : new = Len(wire) + 1
  BY <1>1
<1>3. /\ new \notin DOMAIN wire /\ wire'[new] = w
      /\ \A i \in DOMAIN wire' : i \in DOMAIN wire \/ i = new
      /\ \A i \in DOMAIN wire : i \in DOMAIN wire' /\ wire'[i] = wire[i] /\ i < new
      /\ new \in Int /\ \A i \in DOMAIN wire : i \in Int
  BY <1>1, <1>2
<1>4. ASSUME ~(w[1] # "list" /\ w[2] = path)
      PROVE  /\ Unsaid(path)' <=> Unsaid(path)
             /\ LastWord(path) /\ (Listed(path)' <=> Listed(path)) => LastWord(path)'
  <2>1. \A i \in DOMAIN wire' : Signals(i, path)' <=> i \in DOMAIN wire /\ Signals(i, path)
    BY <1>3, <1>4 DEF Signals
  <2>2. Unsaid(path)' <=> Unsaid(path)
    BY <1>3, <2>1 DEF Unsaid
  <2>3. ASSUME LastWord(path), Listed(path)' <=> Listed(path)  PROVE LastWord(path)'
    <3> SUFFICES ASSUME NEW i \in DOMAIN wire', Signals(i, path)',
                        \A j \in DOMAIN wire' : Signals(j, path)' => j <= i
                 PROVE  wire'[i][1] = "DeviceAdded" <=> Listed(path)'
      BY DEF LastWord
    <3>1. /\ i \in DOMAIN wire /\ Signals(i, path)
          /\ \A j \in DOMAIN wire : Signals(j, path) => j <= i
      BY <1>3, <2>1
    <3>2. wire[i][1] = "DeviceAdded" <=> Listed(path)
      BY <2>3, <3>1 DEF LastWord
    <3> QED  BY <1>3, <2>3, <3>1, <3>2
  <2> QED  BY <2>2, <2>3
<1>5. ASSUME w[1] # "list", w[2] = path
      PROVE  /\ ~Unsaid(path)'
             /\ (w[1] = "DeviceAdded" <=> Listed(path)') => LastWord(path)'
  <2>1. Signals(new, path)'
    BY <1>3, <1>5 DEF Signals
  <2>2. ~Unsaid(path)'
    BY <2>1 DEF Unsaid
  <2>3. ASSUME w[1] = "DeviceAdded" <=> Listed(path)'  PROVE LastWord(path)'
    <3> SUFFICES ASSUME NEW i \in DOMAIN wire', Signals(i, path)',
                        \A j \in DOMAIN wire' : Signals(j, path)' => j <= i
                 PROVE  wire'[i][1] = "DeviceAdded" <=> Listed(path)'
      BY DEF LastWord
    <3>1. i = new
      BY <1>3, <2>1
    <3> QED  BY <1>3, <2>3, <3>1
  <2> QED  BY <2>2, <2>3
<1> QED  BY <1>1, <1>4, <1>5

LEMMA StepWire ==
    ASSUME Types, WireInv, [Next]_vars  PROVE WireInv'
<1>0. wire \in Seq(Messages)
  BY DEF Types, ListenerTypeOK
<1>1. ASSUME HandleEvent  PROVE WireInv'
  <2>1. phase = "running" /\ phase' = phase /\ asked' = asked
    BY <1>1, EventInFront
  <2>2. CASE wire' = wire
    BY <2>1, <2>2 DEF WireInv
  <2>3. CASE wire' # wire
    <3>1. PICK w \in Messages : w[1] # "list" /\ wire' = Append(wire, w) /\ asked # "no"
      <4>1. Head(events).device.name \in Names
        BY <1>1, EventInFront
      <4>2. \/ Send(<<"DeviceAdded", Head(events).device.name>>)
            \/ Send(<<"DeviceRemoved", Head(events).device.name>>)
        BY <1>1, <2>3, EventInFront DEF Added, Removed
      <4> QED  BY <2>3, <4>1, <4>2 DEF Send, Messages
    <3>2. /\ DOMAIN wire = 1 .. Len(wire) /\ DOMAIN wire' = 1 .. Len(wire) + 1
          /\ Len(wire) \in Nat
          /\ \A i \in DOMAIN wire : wire'[i] = wire[i]
          /\ wire'[Len(wire) + 1] = w
      BY <1>0, <3>1, AppendedMessage
    <3>3. \A i \in DOMAIN wire' : wire'[i][1] = "list" => i \in DOMAIN wire /\ wire[i][1] = "list"
      BY <3>1, <3>2
    <3> QED  BY <2>1, <3>1, <3>3 DEF WireInv
  <2> QED  BY <2>2, <2>3
<1>2. ASSUME ListDevices  PROVE WireInv'
  <2> DEFINE w == <<"list", {known_devices[i][1] : i \in DOMAIN known_devices}>>
  <2>1. /\ phase = "running" /\ phase' = phase /\ asked = "sent" /\ asked' = asked
        /\ \A i \in DOMAIN wire : wire[i][1] # "list"
        /\ wire' = Append(wire, w)
    BY <1>2 DEF ListDevices, daemon
  <2> HIDE DEF w
  <2>2. /\ DOMAIN wire = 1 .. Len(wire) /\ DOMAIN wire' = 1 .. Len(wire) + 1
        /\ Len(wire) \in Nat
        /\ \A i \in DOMAIN wire : wire'[i] = wire[i]
    BY <1>0, <2>1
  <2>3. \A i \in DOMAIN wire' : wire'[i][1] = "list" => i = Len(wire) + 1
    BY <2>1, <2>2
  <2> QED  BY <2>1, <2>3 DEF WireInv
<1>3. ASSUME Ask  PROVE WireInv'
  BY <1>3 DEF Ask, daemon, WireInv
<1>4. ASSUME TakeReply  PROVE WireInv'
  <2>1. PICK k \in DOMAIN wire : /\ wire[k][1] = "list" /\ wire' = RemoveAt(wire, k)
                                 /\ asked' = "yes" /\ phase' = phase
    BY <1>4 DEF TakeReply, daemon
  <2>2. /\ k \in 1 .. Len(wire) /\ Len(wire) \in Nat /\ DOMAIN wire = 1 .. Len(wire)
        /\ wire' \in Seq(Messages) /\ DOMAIN wire' = 1 .. Len(wire) - 1
        /\ \A i \in 1 .. Len(wire) - 1 : wire'[i] = IF i < k THEN wire[i] ELSE wire[i + 1]
    BY <1>0, <2>1, RemoveAtMoves
  <2>3. \A i \in DOMAIN wire' : wire'[i][1] # "list"
    BY <2>1, <2>2 DEF WireInv
  <2>4. phase = "running"
    BY <2>1, <2>2 DEF WireInv
  <2> QED  BY <2>1, <2>3, <2>4 DEF WireInv
<1>5. ASSUME TakeSignal  PROVE WireInv'
  <2>1. wire # << >> /\ wire' = Tail(wire) /\ asked = "yes" /\ asked' = asked /\ phase' = phase
    BY <1>5 DEF TakeSignal, daemon
  <2>2. /\ DOMAIN wire = 1 .. Len(wire) /\ Len(wire) \in Nat
        /\ DOMAIN wire' = 1 .. Len(wire) - 1
        /\ \A i \in DOMAIN wire' : wire'[i] = wire[i + 1]
    <3>1. Len(Tail(wire)) = Len(wire) - 1 /\ Tail(wire) \in Seq(Messages)
          /\ \A i \in 1 .. Len(Tail(wire)) : Tail(wire)[i] = wire[i + 1]
      BY <1>0, <2>1, HeadTailProperties
    <3> QED  BY <1>0, <2>1, <3>1
  <2>3. \A i \in DOMAIN wire' : wire'[i][1] # "list"
    BY <2>1, <2>2 DEF WireInv
  <2>4. phase = "running"
    BY <2>1 DEF WireInv
  <2> QED  BY <2>1, <2>3, <2>4 DEF WireInv
<1>6. ASSUME Change \/ UNCHANGED vars  PROVE WireInv'
  <2>1. UNCHANGED <<wire, asked, phase>>
    BY <1>6 DEF Change, Plug, Unplug, vars, daemon, listener
  <2> QED  BY <2>1 DEF WireInv
<1>7. ASSUME Start  PROVE WireInv'
  <2>1. UNCHANGED <<wire, asked>> /\ (phase = "running" => phase' = "running")
    BY <1>7 DEF Start, Query, AddKnown, SetupBluetooth, listener
  <2> QED  BY <2>1 DEF WireInv
<1> QED  BY <1>1, <1>2, <1>3, <1>4, <1>5, <1>6, <1>7 DEF Next, Listen



\* Before the main loop runs there is nothing to agree about.
LEMMA NothingSaidYet ==
    ASSUME wire = << >>, asked # "yes", NEW path
    PROVE  PathInv(path)
BY DEF PathInv, LastWord, ReplyIsRight, HeardIsRight

LEMMA HandledPath ==
    ASSUME Types, EventInv, ListInv, ListenerInv, HandleEvent, NEW path \in Paths \ obscured'
    PROVE  PathInv(path)'
<1> DEFINE name == Head(events).device.name
<1>0. /\ wire \in Seq(Messages) /\ known_devices \in Seq(Entries)
      /\ name \in Names /\ <<name, "usb">> \in Entries
      /\ <<"DeviceAdded", name>> \in Messages /\ <<"DeviceRemoved", name>> \in Messages
      /\ UNCHANGED <<asked, heard>>
  BY EventInFront DEF Types, ListenerTypeOK, DaemonTypeOK, Entries, Messages
<1>1. PathInv(path) /\ path \notin obscured
  <2>1. \E seen \in Seen(Head(events).device, Tail(events)) :
           Added(Head(events).device, seen) \/ Removed(Head(events).device, seen)
    BY EventInFront
  <2>2. obscured \subseteq obscured'
    BY <2>1 DEF Added, Removed
  <2> QED  BY <2>2 DEF ListenerInv
<1>2. PICK added \in BOOLEAN :
         \/ /\ known_devices' = IF added THEN Append(known_devices, <<name, "usb">>)
                                ELSE RemoveFrom(known_devices, name)
            /\ Send(IF added THEN <<"DeviceAdded", name>> ELSE <<"DeviceRemoved", name>>)
         \/ known_devices' = known_devices /\ wire' = wire
  <2>1. \/ /\ known_devices' = Append(known_devices, <<name, "usb">>)
           /\ Send(<<"DeviceAdded", name>>)
        \/ /\ known_devices' = RemoveFrom(known_devices, name)
           /\ Send(<<"DeviceRemoved", name>>)
        \/ known_devices' = known_devices /\ wire' = wire
    BY EventEffect
  <2> HIDE DEF name
  <2>2. TRUE \in BOOLEAN /\ FALSE \in BOOLEAN
    OBVIOUS
  <2> QED  BY <2>1, <2>2, Zenon
<1>3. CASE known_devices' = known_devices /\ wire' = wire
  BY <1>0, <1>1, <1>3 DEF PathInv, LastWord, ReplyIsRight, HeardIsRight, Unsaid, Signals, Listed
<1> DEFINE w == IF added THEN <<"DeviceAdded", name>> ELSE <<"DeviceRemoved", name>>
<1>4. CASE /\ known_devices' = IF added THEN Append(known_devices, <<name, "usb">>)
                               ELSE RemoveFrom(known_devices, name)
           /\ Send(w)
  <2>1. CASE asked = "no"
    <3>1. wire' = << >> /\ asked' # "yes"
      BY <1>0, <1>4, <2>1 DEF Send, ListenerInv, WireInv
    <3> QED  BY <3>1 DEF PathInv, LastWord, ReplyIsRight, HeardIsRight
  <2>2. CASE asked # "no"
    <3>1. wire' = Append(wire, w) /\ w \in Messages
          /\ w[1] # "list" /\ w[2] = name /\ (w[1] = "DeviceAdded" <=> added)
      BY <1>0, <1>4, <2>2 DEF Send
    <3> HIDE DEF w
    <3>2. CASE path = name
      <4>1. Listed(path)' <=> added
        <5>1. OnceIn(known_devices, name)
          <6>1. name \in Names \ obscured
            BY <1>0, <1>1, <3>2
          <6> QED  BY <6>1 DEF ListInv, NameInv, ListedOnce
        <5>2. CASE added
          <6>1. known_devices' = Append(known_devices, <<name, "usb">>)
            BY <1>4, <5>2
          <6>2. In(Append(known_devices, <<name, "usb">>), name)
            BY <1>0, AppendedEntry
          <6> QED  BY <3>2, <5>2, <6>1, <6>2, ListedIsInNext
        <5>3. CASE ~added
          BY <1>0, <1>4, <3>2, <5>1, <5>3, RemovedEntry, ListedIsInNext
        <5> QED  BY <5>2, <5>3
      <4>2. LastWord(path)' /\ ~Unsaid(path)'
        BY <1>0, <3>1, <3>2, <4>1, AppendedMessage
      <4> QED  BY <4>2 DEF PathInv, ReplyIsRight, HeardIsRight
    <3>3. CASE path # name
      <4>1. Listed(path)' <=> Listed(path)
        <5>1. CASE added
          BY <1>0, <1>4, <3>3, <5>1, AppendedEntry, ListedIsIn, ListedIsInNext
        <5>2. CASE ~added
          BY <1>0, <1>4, <3>3, <5>2, RemovedEntry, ListedIsIn, ListedIsInNext
        <5> QED  BY <5>1, <5>2
      <4>2. /\ LastWord(path)' /\ (Unsaid(path)' <=> Unsaid(path))
            /\ DOMAIN wire = 1 .. Len(wire) /\ DOMAIN wire' = 1 .. Len(wire) + 1
            /\ Len(wire) \in Nat
            /\ \A i \in DOMAIN wire : wire'[i] = wire[i]
            /\ wire'[Len(wire) + 1] = w
        BY <1>0, <1>1, <3>1, <3>3, <4>1, AppendedMessage DEF PathInv
      <4>3. ReplyIsRight(path)'
        <5>1. \A i \in DOMAIN wire' : wire'[i][1] = "list" => i \in DOMAIN wire /\ wire'[i] = wire[i]
          BY <3>1, <4>2
        <5> QED  BY <1>1, <4>1, <4>2, <5>1 DEF PathInv, ReplyIsRight
      <4>4. HeardIsRight(path)'
        BY <1>0, <1>1, <4>1, <4>2 DEF PathInv, HeardIsRight
      <4> QED  BY <4>2, <4>3, <4>4 DEF PathInv
    <3> QED  BY <3>2, <3>3
  <2> QED  BY <2>1, <2>2
<1> QED  BY <1>2, <1>3, <1>4

LEMMA ListedPath ==
    ASSUME Types, ListenerInv, ListDevices, NEW path \in Paths \ obscured'
    PROVE  PathInv(path)'
<1> DEFINE paths == {known_devices[i][1] : i \in DOMAIN known_devices}
           w == <<"list", paths>>
<1>1. /\ UNCHANGED <<obscured, known_devices, asked, heard>> /\ asked = "sent"
      /\ \A i \in DOMAIN wire : wire[i][1] # "list"
      /\ wire' = Append(wire, w)
  BY DEF ListDevices, daemon
<1>2. PathInv(path)
  BY <1>1 DEF ListenerInv
<1>3. path \in paths <=> Listed(path)
  BY DEF Listed
<1>4. w \in Messages
  <2>1. \A i \in DOMAIN known_devices : known_devices[i] \in Entries
    BY DEF Types, DaemonTypeOK
  <2>2. \A e \in Entries : e[1] \in Paths
    BY DEF Entries, Paths
  <2>3. paths \in SUBSET Paths
    BY <2>1, <2>2
  <2> HIDE DEF paths
  <2> QED  BY <2>3 DEF Messages
<1>5. Listed(path)' <=> Listed(path)
  BY <1>1 DEF Listed
<1>6. w[1] = "list" /\ w[2] = paths
  OBVIOUS
<1> HIDE DEF w, paths
<1>7. /\ LastWord(path)' /\ (Unsaid(path)' <=> Unsaid(path))
      /\ DOMAIN wire = 1 .. Len(wire) /\ DOMAIN wire' = 1 .. Len(wire) + 1
      /\ Len(wire) \in Nat
      /\ \A i \in DOMAIN wire : wire'[i] = wire[i]
      /\ wire'[Len(wire) + 1] = w
  BY <1>1, <1>2, <1>4, <1>5, <1>6, AppendedMessage DEF PathInv, Types, ListenerTypeOK
<1>8. ReplyIsRight(path)'
  <2>1. \A i \in DOMAIN wire' : wire'[i][1] = "list" => wire'[i] = w
    BY <1>1, <1>7
  <2> QED  BY <1>3, <1>5, <1>6, <2>1 DEF ReplyIsRight
<1>9. HeardIsRight(path)'
  BY <1>1 DEF HeardIsRight
<1> QED  BY <1>7, <1>8, <1>9 DEF PathInv

\* The reply goes before the signals that crossed it; the last of them counts.
LEMMA RepliedPath ==
    ASSUME Types, ListenerInv, TakeReply, NEW path \in Paths \ obscured'
    PROVE  PathInv(path)'
<1>1. PICK k \in DOMAIN wire : /\ wire[k][1] = "list" /\ heard' = wire[k][2]
                               /\ wire' = RemoveAt(wire, k)
                               /\ UNCHANGED <<known_devices, obscured>>
  BY DEF TakeReply, daemon
<1>2. PathInv(path) /\ wire \in Seq(Messages)
  BY <1>1 DEF ListenerInv, Types, ListenerTypeOK
<1>3. Listed(path)' <=> Listed(path)
  BY <1>1 DEF Listed
<1>4. /\ k \in 1 .. Len(wire) /\ Len(wire) \in Nat /\ DOMAIN wire = 1 .. Len(wire)
      /\ wire' \in Seq(Messages) /\ DOMAIN wire' = 1 .. Len(wire) - 1
      /\ \A i \in 1 .. Len(wire) - 1 : wire'[i] = IF i < k THEN wire[i] ELSE wire[i + 1]
  BY <1>1, <1>2, RemoveAtMoves
<1>5. \A i \in DOMAIN wire : Signals(i, path) =>
         \E j \in DOMAIN wire' : Signals(j, path)' /\ wire'[j] = wire[i]
                                 /\ j = IF i < k THEN i ELSE i - 1
  <2> SUFFICES ASSUME NEW i \in DOMAIN wire, Signals(i, path)
               PROVE  \E j \in DOMAIN wire' : Signals(j, path)' /\ wire'[j] = wire[i]
                                              /\ j = IF i < k THEN i ELSE i - 1
    OBVIOUS
  <2>1. i # k
    BY <1>1 DEF Signals
  <2>2. CASE i < k
    BY <1>4, <2>2 DEF Signals
  <2>3. CASE i > k
    <3>1. i - 1 \in DOMAIN wire' /\ ~(i - 1 < k) /\ i - 1 + 1 = i /\ ~(i < k)
      BY <1>4, <2>3
    <3>2. wire'[i - 1] = wire[i]
      BY <1>4, <3>1
    <3> QED  BY <3>1, <3>2 DEF Signals
  <2> QED  BY <1>4, <2>1, <2>2, <2>3
<1>6. \A j \in DOMAIN wire' : Signals(j, path)' =>
         \E i \in DOMAIN wire : Signals(i, path) /\ wire'[j] = wire[i]
                                /\ i = IF j < k THEN j ELSE j + 1
  BY <1>4 DEF Signals
<1>7. Unsaid(path)' <=> Unsaid(path)
  BY <1>5, <1>6 DEF Unsaid
<1>8. LastWord(path)'
  <2> SUFFICES ASSUME NEW j \in DOMAIN wire', Signals(j, path)',
                      \A l \in DOMAIN wire' : Signals(l, path)' => l <= j
               PROVE  wire'[j][1] = "DeviceAdded" <=> Listed(path)'
    BY DEF LastWord
  <2>1. PICK i \in DOMAIN wire : Signals(i, path) /\ wire'[j] = wire[i]
                                 /\ i = IF j < k THEN j ELSE j + 1
    BY <1>6
  <2>2. \A l \in DOMAIN wire : Signals(l, path) => l <= i
    <3> SUFFICES ASSUME NEW l \in DOMAIN wire, Signals(l, path)  PROVE l <= i
      OBVIOUS
    <3>1. PICK m \in DOMAIN wire' : Signals(m, path)' /\ m = IF l < k THEN l ELSE l - 1
      BY <1>5
    <3>2. m <= j /\ l # k
      BY <1>1, <3>1 DEF Signals
    <3> QED  BY <1>4, <2>1, <3>1, <3>2
  <2> QED  BY <1>2, <1>3, <2>1, <2>2 DEF PathInv, LastWord
<1>9. HeardIsRight(path)'
  BY <1>1, <1>2, <1>3, <1>7 DEF PathInv, HeardIsRight, ReplyIsRight
<1>10. ReplyIsRight(path)'
  <2>1. \A j \in DOMAIN wire' : wire'[j][1] # "list"
    BY <1>1, <1>4 DEF ListenerInv, WireInv
  <2> QED  BY <2>1 DEF ReplyIsRight
<1> QED  BY <1>8, <1>9, <1>10 DEF PathInv

LEMMA SignalledPath ==
    ASSUME Types, ListenerInv, TakeSignal, NEW path \in Paths \ obscured'
    PROVE  PathInv(path)'
<1>1. /\ asked = "yes" /\ asked' = asked /\ wire # << >> /\ wire' = Tail(wire)
      /\ heard' = IF Head(wire)[1] = "DeviceAdded" THEN heard \cup {Head(wire)[2]}
                  ELSE heard \ {Head(wire)[2]}
      /\ UNCHANGED <<known_devices, obscured>>
  BY DEF TakeSignal, daemon
<1>2. PathInv(path) /\ wire \in Seq(Messages) /\ \A i \in DOMAIN wire : wire[i][1] # "list"
  BY <1>1 DEF ListenerInv, WireInv, Types, ListenerTypeOK
<1>3. Listed(path)' <=> Listed(path)
  BY <1>1 DEF Listed
<1>4. /\ DOMAIN wire = 1 .. Len(wire) /\ Len(wire) \in Nat /\ Len(wire) >= 1
      /\ Head(wire) = wire[1]
      /\ DOMAIN wire' = 1 .. Len(wire) - 1
      /\ \A i \in DOMAIN wire' : wire'[i] = wire[i + 1]
  <2>1. Len(Tail(wire)) = Len(wire) - 1 /\ Tail(wire) \in Seq(Messages)
        /\ \A i \in 1 .. Len(Tail(wire)) : Tail(wire)[i] = wire[i + 1]
    BY <1>1, <1>2, HeadTailProperties
  <2>2. Len(wire) >= 1 /\ Head(wire) = wire[1]
    BY <1>1, <1>2
  <2> QED  BY <1>1, <1>2, <2>1, <2>2
<1>5. \A i \in DOMAIN wire : Signals(i, path) =>
         i = 1 \/ (i - 1 \in DOMAIN wire' /\ Signals(i - 1, path)')
  <2> SUFFICES ASSUME NEW i \in DOMAIN wire, Signals(i, path), i # 1
               PROVE  i - 1 \in DOMAIN wire' /\ Signals(i - 1, path)'
    OBVIOUS
  <2>1. i - 1 \in DOMAIN wire' /\ i - 1 + 1 = i
    BY <1>4
  <2>2. wire'[i - 1] = wire[i]
    BY <1>4, <2>1
  <2> QED  BY <2>1, <2>2 DEF Signals
<1>6. \A j \in DOMAIN wire' : Signals(j, path)' => j + 1 \in DOMAIN wire /\ Signals(j + 1, path)
  BY <1>4 DEF Signals
<1>7. LastWord(path)'
  <2> SUFFICES ASSUME NEW j \in DOMAIN wire', Signals(j, path)',
                      \A l \in DOMAIN wire' : Signals(l, path)' => l <= j
               PROVE  wire'[j][1] = "DeviceAdded" <=> Listed(path)'
    BY DEF LastWord
  <2>1. j + 1 \in DOMAIN wire /\ Signals(j + 1, path) /\ wire'[j] = wire[j + 1]
    BY <1>4, <1>6
  <2>2. \A l \in DOMAIN wire : Signals(l, path) => l <= j + 1
    <3> SUFFICES ASSUME NEW l \in DOMAIN wire, Signals(l, path), l # 1  PROVE l <= j + 1
      BY <1>4
    <3>1. l - 1 <= j
      BY <1>5
    <3> QED  BY <1>4, <3>1
  <2> QED  BY <1>2, <1>3, <2>1, <2>2 DEF PathInv, LastWord
<1>8. HeardIsRight(path)'
  <2> SUFFICES ASSUME Unsaid(path)'  PROVE path \in heard' <=> Listed(path)
    BY <1>3 DEF HeardIsRight
  <2>1. \A i \in DOMAIN wire : Signals(i, path) => i = 1
    BY <1>5 DEF Unsaid
  <2>2. CASE Signals(1, path)
    <3>1. wire[1][1] = "DeviceAdded" <=> Listed(path)
      <4>1. 1 \in DOMAIN wire /\ \A j \in DOMAIN wire : Signals(j, path) => j <= 1
        BY <1>4, <2>1
      <4> QED  BY <1>2, <2>2, <4>1 DEF PathInv, LastWord
    <3>2. Head(wire)[2] = path
      BY <1>4, <2>2 DEF Signals
    <3> QED  BY <1>1, <1>4, <3>1, <3>2
  <2>3. CASE ~Signals(1, path)
    <3>1. Unsaid(path)
      BY <2>1, <2>3 DEF Unsaid
    <3>2. Head(wire)[2] # path
      BY <1>2, <1>4, <2>3 DEF Signals
    <3>3. path \in heard <=> Listed(path)
      BY <1>1, <1>2, <3>1 DEF PathInv, HeardIsRight
    <3> QED  BY <1>1, <3>2, <3>3
  <2> QED  BY <2>2, <2>3
<1>9. ReplyIsRight(path)'
  <2>1. \A j \in DOMAIN wire' : wire'[j][1] # "list"
    BY <1>2, <1>4
  <2> QED  BY <2>1 DEF ReplyIsRight
<1> QED  BY <1>7, <1>8, <1>9 DEF PathInv

LEMMA StepListener ==
    ASSUME Types, EventInv, ListInv, ListenerInv, [Next]_vars  PROVE ListenerInv'
<1>1. WireInv'
  BY StepWire DEF ListenerInv
<1>2. ASSUME NEW path \in Paths \ obscured'  PROVE PathInv(path)'
  <2>1. ASSUME HandleEvent  PROVE PathInv(path)'
    BY <2>1, HandledPath
  <2>2. ASSUME ListDevices  PROVE PathInv(path)'
    BY <2>2, ListedPath
  <2>3. ASSUME TakeReply  PROVE PathInv(path)'
    BY <2>3, RepliedPath
  <2>4. ASSUME TakeSignal  PROVE PathInv(path)'
    BY <2>4, SignalledPath
  <2>5. ASSUME Ask  PROVE PathInv(path)'
    <3>1. wire' = << >> /\ asked' = "sent"
      BY <2>5 DEF Ask, ListenerInv, WireInv
    <3> QED  BY <3>1 DEF PathInv, LastWord, ReplyIsRight, HeardIsRight
  <2>6. ASSUME Start  PROVE PathInv(path)'
    <3>1. phase # "running" /\ UNCHANGED <<wire, asked>>
      BY <2>6 DEF Start, Query, AddKnown, SetupBluetooth, listener, ListInv, StartInv
    <3>2. wire' = << >> /\ asked' # "yes"
      BY <3>1 DEF ListenerInv, WireInv
    <3> QED  BY <3>2 DEF PathInv, LastWord, ReplyIsRight, HeardIsRight
  <2>7. ASSUME Change \/ UNCHANGED vars  PROVE PathInv(path)'
    <3>1. UNCHANGED <<wire, asked, heard, known_devices>> /\ obscured \subseteq obscured'
      BY <2>7 DEF Change, Plug, Unplug, vars, daemon, listener
    <3>2. PathInv(path)
      BY <3>1 DEF ListenerInv
    <3> QED  BY <3>1, <3>2 DEF PathInv, LastWord, ReplyIsRight, HeardIsRight, Unsaid, Signals,
                               Listed
  <2> QED  BY <2>1, <2>2, <2>3, <2>4, <2>5, <2>6, <2>7 DEF Next, Listen
<1> QED  BY <1>1, <1>2 DEF ListenerInv

-----------------------------------------------------------------------------
IInv == Types /\ EventInv /\ ListInv /\ ListenerInv

LEMMA InitIInv == Init => IInv
<1> SUFFICES ASSUME Init  PROVE IInv
  OBVIOUS
<1>1. Types
  BY InitTypes
<1>2. EventInv
  BY DEF Init, EventInv, Turns, LatestIsTrue
<1>3. ListInv
  <2>1. StartInv
    BY DEF Init, StartInv
  <2>2. ASSUME NEW n \in Names  PROVE NameInv(n)
    BY DEF Init, NameInv, ListedOnce, OnceIn, QueryInv, OnlyRemoved, WaitingInv, AddInv,
           FirstAdds, SettledInv
  <2> QED  BY <2>1, <2>2 DEF ListInv
<1>4. ListenerInv
  <2>1. WireInv
    BY DEF Init, WireInv
  <2> QED  BY <2>1, NothingSaidYet DEF Init, ListenerInv
<1> QED  BY <1>1, <1>2, <1>3, <1>4 DEF IInv

LEMMA StepIInv == IInv /\ [Next]_vars => IInv'
<1> SUFFICES ASSUME IInv, [Next]_vars  PROVE IInv'
  OBVIOUS
<1> USE DEF IInv
<1>1. Types'
  <2>1. WireInv
    BY DEF ListenerInv
  <2> QED  BY <2>1, StepWorldTypes, StepDaemonTypes, StepListenerTypes DEF Types
<1>2. EventInv'
  BY StepEvents
<1>3. ListInv'
  BY StepList
<1>4. ListenerInv'
  BY StepListener
<1> QED  BY <1>1, <1>2, <1>3, <1>4

\* The inductive invariant of the discovery: udev's events of a device file alternate
\* and end with what is there, the list is behind by the events that wait, and the
\* listener by the messages on the wire.
THEOREM DiscoveryIInv == Spec => []IInv
BY InitIInv, StepIInv, PTL DEF Spec

\* The state keeps its types.
THEOREM DiscoveryTypeOK == Spec => []TypeOK
<1>1. IInv => TypeOK
  <2> SUFFICES ASSUME IInv  PROVE TypeOK
    OBVIOUS
  <2>1. ASSUME NEW i \in DOMAIN wire
        PROVE  \/ wire[i][1] = "list" /\ wire[i][2] \in SUBSET Paths
               \/ wire[i][1] \in {"DeviceAdded", "DeviceRemoved"} /\ wire[i][2] \in Names
    <3>1. wire[i] \in Messages
      BY DEF IInv, Types, ListenerTypeOK
    <3> QED  BY <3>1 DEF Messages
  <2> QED  BY <2>1 DEF IInv, Types, WorldTypeOK, DaemonTypeOK, ListenerTypeOK, TypeOK
<1> QED  BY <1>1, DiscoveryIInv, PTL

\* However events, the query and the devices raced, a device file of which no event
\* waits is in the list once if a GPS is behind it and not at all otherwise, but for
\* the two cases the history variable names.
THEOREM ListsAreCurrent == Spec => []ListIsCurrent
<1>1. IInv => ListIsCurrent
  <2> SUFFICES ASSUME IInv, phase = "running", NEW n \in Names \ obscured,
                      \A i \in DOMAIN events : events[i].device.name # n
               PROVE  Entry(n) = IF plugged[n] = "gps" THEN 1 ELSE 0
    BY DEF ListIsCurrent
  <2>1. NameInv(n) /\ todo = {} /\ ~Pending(n)
    BY DEF IInv, ListInv, StartInv, Pending, About
  <2>2. Listed(n) <=> plugged[n] = "gps"
    BY <2>1 DEF NameInv, SettledInv, Waiting
  <2> DEFINE at == {i \in DOMAIN known_devices : known_devices[i][1] = n}
  <2>3. Entry(n) = Cardinality(at)
    BY DEF Entry
  <2>4. CASE Listed(n)
    <3>1. \E i : at = {i}
      BY <2>1, <2>4 DEF NameInv, ListedOnce, OnceIn, Listed
    <3>2. Cardinality(at) = 1
      BY <3>1, FS_Singleton
    <3> QED  BY <2>2, <2>3, <2>4, <3>2
  <2>5. CASE ~Listed(n)
    <3>1. at = {}
      BY <2>5 DEF Listed
    <3>2. Cardinality(at) = 0
      BY <3>1, FS_EmptySet
    <3> QED  BY <2>2, <2>3, <2>5, <3>2
  <2> QED  BY <2>4, <2>5
<1> QED  BY <1>1, DiscoveryIInv, PTL

\* Signals that cross the reply to ListDevices, or tell of what is not in the list,
\* leave the program with the list the daemon has.
THEOREM ListenersAgree == Spec => []ListenerAgrees
<1>1. IInv => ListenerAgrees
  <2> SUFFICES ASSUME IInv, asked = "yes", wire = << >>, NEW path \in Paths \ obscured
               PROVE  (path \in heard) = Listed(path)
    BY DEF ListenerAgrees
  <2>1. Unsaid(path)
    BY DEF Unsaid
  <2>2. path \in heard <=> Listed(path)
    BY <2>1 DEF IInv, ListenerInv, PathInv, HeardIsRight
  <2>3. Listed(path) \in BOOLEAN /\ (path \in heard) \in BOOLEAN
    BY DEF Listed
  <2> QED  BY <2>2, <2>3
<1> QED  BY <1>1, DiscoveryIInv, PTL

\* No udev event and no call touches what the list says of Bluetooth devices.
THEOREM BluetoothIsKept == Spec => BluetoothStays
<1> DEFINE Kept == phase = "running" => \A a \in Addresses : Listed(a)' = Listed(a)
<1>1. IInv /\ [Next]_vars => [Kept]_vars
  <2> SUFFICES ASSUME IInv, Next, phase = "running", NEW a \in Addresses
               PROVE  Listed(a)' = Listed(a)
    OBVIOUS
  <2>1. Listed(a)' <=> Listed(a)
    <3>1. ASSUME HandleEvent  PROVE Listed(a)' <=> Listed(a)
      <4> DEFINE name == Head(events).device.name
      <4>1. /\ known_devices \in Seq(Entries) /\ name \in Names
            /\ <<name, "usb">> \in Entries /\ a # name
        BY <3>1, EventInFront, NamesAssumption DEF IInv, Types, DaemonTypeOK, Entries
      <4>2. \/ known_devices' = Append(known_devices, <<name, "usb">>)
            \/ known_devices' = known_devices
            \/ known_devices' = RemoveFrom(known_devices, name)
        BY <3>1, EventEffect DEF IInv
      <4> HIDE DEF name
      <4>3. CASE known_devices' = Append(known_devices, <<name, "usb">>)
        BY <4>1, <4>3, AppendedEntry, ListedIsIn, ListedIsInNext
      <4>4. CASE known_devices' = RemoveFrom(known_devices, name)
        BY <4>1, <4>4, RemovedEntry, ListedIsIn, ListedIsInNext
      <4>5. CASE known_devices' = known_devices
        BY <4>5 DEF Listed
      <4> QED  BY <4>2, <4>3, <4>4, <4>5
    <3>2. ASSUME Change \/ ListDevices \/ Listen  PROVE Listed(a)' <=> Listed(a)
      <4>1. known_devices' = known_devices
        BY <3>2 DEF Change, Plug, Unplug, ListDevices, Listen, Ask, TakeReply, TakeSignal, daemon
      <4> QED  BY <4>1 DEF Listed
    <3>3. ~Start
      BY DEF Start, Query, AddKnown, SetupBluetooth, IInv, ListInv, StartInv
    <3> QED  BY <3>1, <3>2, <3>3 DEF Next
  <2> QED  BY <2>1 DEF Listed
<1> HIDE DEF Kept
<1>2. Spec => [][Kept]_vars
  BY <1>1, DiscoveryIInv, PTL DEF Spec
<1> QED  BY <1>2 DEF BluetoothStays, Kept
=============================================================================
