------------------------- MODULE GypsyControlProofs -------------------------
(***************************************************************************)
(* First GypsyServer, for every set of senders, devices, object paths and     *)
(* list nodes, every way Create and Shutdown derive object paths, and every   *)
(* value of the bounds; then what the library does for its programs, for any  *)
(* number of programs with and without it and any number of references.      *)
(***************************************************************************)
EXTENDS GypsyControl, FiniteSetTheorems, TLAPS

-----------------------------------------------------------------------------
(* Counting the list nodes of one object in a set of list nodes.            *)

Of(S, p) == {c \in S : c.client = p}

\* Adding a list node adds one to the entries of its object only.
LEMMA OfAdd ==
    ASSUME NEW S, IsFiniteSet(S), NEW c, c \notin S, NEW p
    PROVE  /\ IsFiniteSet(Of(S, p))
           /\ IsFiniteSet(Of(S \cup {c}, p))
           /\ Cardinality(Of(S \cup {c}, p)) =
                 Cardinality(Of(S, p)) + (IF c.client = p THEN 1 ELSE 0)
<1>1. IsFiniteSet(Of(S, p))
  BY FS_Subset DEF Of
<1>2. CASE c.client = p
  <2>1. Of(S \cup {c}, p) = Of(S, p) \cup {c}  BY <1>2 DEF Of
  <2>2. c \notin Of(S, p)  BY DEF Of
  <2>3. /\ IsFiniteSet(Of(S, p) \cup {c})
        /\ Cardinality(Of(S, p) \cup {c}) = Cardinality(Of(S, p)) + 1
    BY <1>1, <2>2, FS_AddElement
  <2>4. QED  BY <1>1, <1>2, <2>1, <2>3
<1>3. CASE c.client # p
  <2>1. Of(S \cup {c}, p) = Of(S, p)  BY <1>3 DEF Of
  <2>2. Cardinality(Of(S, p)) \in Nat  BY <1>1, FS_CardinalityType
  <2>3. QED  BY <1>1, <1>3, <2>1, <2>2
<1>4. QED  BY <1>2, <1>3

\* Removing a list node takes one from the entries of its object only.
LEMMA OfRemove ==
    ASSUME NEW S, IsFiniteSet(S), NEW c \in S, NEW p
    PROVE  /\ IsFiniteSet(Of(S \ {c}, p))
           /\ Cardinality(Of(S \ {c}, p)) =
                 Cardinality(Of(S, p)) - (IF c.client = p THEN 1 ELSE 0)
<1>1. IsFiniteSet(Of(S, p))
  BY FS_Subset DEF Of
<1>2. CASE c.client = p
  <2>1. Of(S \ {c}, p) = Of(S, p) \ {c}  BY DEF Of
  <2>2. c \in Of(S, p)  BY <1>2 DEF Of
  <2>3. QED  BY <1>1, <1>2, <2>1, <2>2, FS_RemoveElement
<1>3. CASE c.client # p
  <2>1. Of(S \ {c}, p) = Of(S, p)  BY <1>3 DEF Of
  <2>2. Cardinality(Of(S, p)) \in Nat  BY <1>1, FS_CardinalityType
  <2>3. QED  BY <1>1, <1>3, <2>1, <2>2
<1>4. QED  BY <1>2, <1>3

\* Removing a set of list nodes takes from each object as many entries as the
\* set has for it.
LEMMA OfDifference ==
    ASSUME NEW S, IsFiniteSet(S), NEW G \in SUBSET S, NEW p
    PROVE  /\ Cardinality(Of(S \ G, p)) =
                 Cardinality(Of(S, p)) - Cardinality(G \cap Of(S, p))
           /\ Cardinality(G \cap Of(S, p)) \in Nat
<1>1. IsFiniteSet(Of(S, p))  BY FS_Subset DEF Of
<1>2. Of(S \ G, p) = Of(S, p) \ G  BY DEF Of
<1>3. Of(S, p) \cap G = G \cap Of(S, p)  OBVIOUS
<1>4. IsFiniteSet(G \cap Of(S, p))  BY <1>1, FS_Intersection
<1>5. QED  BY <1>1, <1>2, <1>3, <1>4, FS_Difference, FS_CardinalityType

-----------------------------------------------------------------------------
(* Type correctness.                                                        *)

LEMMA CardinalityInt ==
    ASSUME TypeOK, IsFiniteSet(connections)
    PROVE  /\ \A s \in Senders : IsFiniteSet(HeldBy(s)) /\ Cardinality(HeldBy(s)) \in Nat
           /\ \A p \in ObjectPaths : \A s \in Senders :
                 Cardinality(HeldBy(s) \cap Entries(p)) \in Nat
<1>1. \A s \in Senders : IsFiniteSet(HeldBy(s))  BY FS_Subset DEF HeldBy
<1>2. \A s \in Senders, p \in ObjectPaths : IsFiniteSet(HeldBy(s) \cap Entries(p))
  BY <1>1, FS_Intersection
<1>3. QED  BY <1>1, <1>2, FS_CardinalityType

FiniteTypeOK == TypeOK /\ IsFiniteSet(connections)

LEMMA FiniteTypeInit == Init => FiniteTypeOK
<1> SUFFICES ASSUME Init PROVE FiniteTypeOK
  OBVIOUS
<1>1. IsFiniteSet(connections)  BY FS_EmptySet DEF Init
<1>2. connections \in SUBSET Connection  BY DEF Init
<1>3. parser \in [ObjectPaths -> BOOLEAN]  BY DEF Init
<1>4. reply \in Call \cup {NoReply}  BY DEF Init
<1>5. refs \in [ObjectPaths -> Int] /\ leaked \in [ObjectPaths -> Nat]
  BY DEF Init
<1>6. device \in [ObjectPaths -> Devices \cup {NoDevice}]  BY DEF Init
<1>7. client_count \in Int /\ foreign \in Nat  BY DEF Init
<1>8. terminate_id \in BOOLEAN /\ running \in BOOLEAN  BY DEF Init
<1>9. idle \in {"unheld", "held", "drained", "refused"}  BY DEF Init
<1>10. QED
  BY <1>1, <1>2, <1>3, <1>4, <1>5, <1>6, <1>7, <1>8, <1>9
     DEF FiniteTypeOK, TypeOK

LEMMA FiniteTypeStep == FiniteTypeOK /\ [Next]_vars => FiniteTypeOK'
<1> SUFFICES ASSUME FiniteTypeOK, [Next]_vars
             PROVE  FiniteTypeOK'
  OBVIOUS
<1> USE DevicesAssumption DEF FiniteTypeOK, TypeOK, objectVars, Reply, Call, NoReply
<1>1. ASSUME NEW s \in Senders, NEW d \in Devices, CreateRejected(s, d)
      PROVE  FiniteTypeOK'
  BY <1>1 DEF CreateRejected, CancelTimer
<1>2. ASSUME NEW s \in Senders, NEW d \in Devices, Create(s, d)
      PROVE  FiniteTypeOK'
  <2>1. PICK n \in FreeNodes :
           connections' = connections
               \cup {[node |-> n, sender |-> s, client |-> CreatePath[d]]}
    BY <1>2 DEF Create, CancelTimer
  <2>2. CreatePath[d] \in ObjectPaths  OBVIOUS
  <2>3. [node |-> n, sender |-> s, client |-> CreatePath[d]] \in Connection
    BY <2>2 DEF FreeNodes, Connection
  <2>4. connections' \in SUBSET Connection  BY <2>1, <2>3
  <2>5. IsFiniteSet(connections')  BY <2>1, FS_AddElement
  <2>6. device' \in [ObjectPaths -> Devices \cup {NoDevice}]
    BY <1>2, <2>2 DEF Create, CancelTimer, RefOrRegister
  <2>7. refs' \in [ObjectPaths -> Int]
    BY <1>2, <2>2 DEF Create, CancelTimer, RefOrRegister
  <2>8. reply' \in Call \cup {NoReply}
    BY <1>2 DEF Create, CancelTimer
  <2>9. /\ client_count' \in Int
        /\ foreign' \in Nat
        /\ idle' \in {"unheld", "held", "drained", "refused"}
        /\ leaked' \in [ObjectPaths -> Nat]
    BY <1>2 DEF Create, CancelTimer, RefOrRegister
  <2>10. /\ terminate_id' \in BOOLEAN
         /\ running' \in BOOLEAN
         /\ parser' \in [ObjectPaths -> BOOLEAN]
    BY <1>2 DEF Create, CancelTimer, RefOrRegister
  <2>11. QED  BY <2>4, <2>5, <2>6, <2>7, <2>8, <2>9, <2>10
<1>3. ASSUME NEW s \in Senders, NEW a \in ShutdownArgs, ShutdownUnknown(s, a)
      PROVE  FiniteTypeOK'
  BY <1>3 DEF ShutdownUnknown
<1>4. ASSUME NEW s \in Senders, NEW a \in ShutdownArgs, ShutdownHeld(s, a)
      PROVE  FiniteTypeOK'
  <2>1. PICK c \in connections : connections' = connections \ {c}
    BY <1>4 DEF ShutdownHeld, HeldBy
  <2>2. IsFiniteSet(connections')
    BY <2>1, FS_RemoveElement
  <2>3. idle' \in {"drained", idle}
    BY <1>4 DEF ShutdownHeld, IdleAfter
  <2>4. QED  BY <1>4, <2>1, <2>2, <2>3 DEF ShutdownHeld, DecrementCount, Unref
<1>5. ASSUME NEW s \in Senders, NEW a \in ShutdownArgs, ShutdownForeign(s, a)
      PROVE  FiniteTypeOK'
  BY <1>5 DEF ShutdownForeign, DecrementCount
<1>6. ASSUME NEW s \in Senders, RemoveClients(s)
      PROVE  FiniteTypeOK'
  <2>1. /\ Cardinality(HeldBy(s)) \in Nat
        /\ \A p \in ObjectPaths : Cardinality(HeldBy(s) \cap Entries(p)) \in Nat
    BY CardinalityInt
  <2>2. IsFiniteSet(connections \ HeldBy(s))  BY FS_Difference
  <2>3. refs' \in [ObjectPaths -> Int]  BY <1>6, <2>1 DEF RemoveClients
  <2>4. device' \in [ObjectPaths -> Devices \cup {NoDevice}]
    BY <1>6 DEF RemoveClients
  <2>5. QED  BY <1>6, <2>1, <2>2, <2>3, <2>4 DEF RemoveClients, IdleAfter
<1>7. ASSUME Terminate
      PROVE  FiniteTypeOK'
  BY <1>7 DEF Terminate
<1>8. ASSUME NEW p \in ObjectPaths, ConnectNmea(p)
      PROVE  FiniteTypeOK'
  BY <1>8 DEF ConnectNmea
<1>9. ASSUME NEW p \in ObjectPaths, ConnectGarmin(p)
      PROVE  FiniteTypeOK'
  BY <1>9 DEF ConnectGarmin
<1>10. ASSUME NEW p \in ObjectPaths, DropParser(p)
       PROVE  FiniteTypeOK'
  BY <1>10 DEF DropParser
<1>11. CASE UNCHANGED vars
  BY <1>11 DEF vars
<1>12. QED
  BY <1>1, <1>2, <1>3, <1>4, <1>5, <1>6, <1>7, <1>8, <1>9, <1>10, <1>11 DEF Next

\* Every reachable state has the types of the code's fields, and the lists of
\* a sender are finite.
THEOREM TypeCorrect == Spec => [](TypeOK /\ IsFiniteSet(connections))
<1>1. Spec => []FiniteTypeOK
  BY FiniteTypeInit, FiniteTypeStep, PTL DEF Spec
<1>2. FiniteTypeOK => TypeOK /\ IsFiniteSet(connections)
  BY DEF FiniteTypeOK
<1>3. QED  BY <1>1, <1>2, PTL

-----------------------------------------------------------------------------
(* Every reference is owned.                                                *)

\* The reference count of an object changes by what its owners change by.
LEMMA RefsStep ==
    ASSUME FiniteTypeOK, RefsAccounted, [Next]_vars
    PROVE  RefsAccounted'
<1> USE DevicesAssumption DEF FiniteTypeOK, TypeOK, objectVars, RefsAccounted
<1> SUFFICES ASSUME NEW p \in ObjectPaths
             PROVE  refs'[p] = Cardinality(Entries(p)') + ParserRef(p)' + leaked'[p]
  OBVIOUS
<1>a. /\ Entries(p) = Of(connections, p)
      /\ Entries(p)' = Of(connections', p)
  BY DEF Entries, Of
<1>b. Cardinality(Entries(p)) \in Nat
  BY <1>a, FS_Subset, FS_CardinalityType DEF Of
<1>c. ParserRef(p) \in Nat
  BY DEF ParserRef
<1>d. ASSUME UNCHANGED <<connections, refs, parser, leaked>>
      PROVE  refs'[p] = Cardinality(Entries(p)') + ParserRef(p)' + leaked'[p]
  BY <1>a, <1>d DEF ParserRef, Entries
<1>1. ASSUME NEW s \in Senders, NEW d \in Devices, CreateRejected(s, d)
      PROVE  refs'[p] = Cardinality(Entries(p)') + ParserRef(p)' + leaked'[p]
  BY <1>1, <1>d DEF CreateRejected, CancelTimer
<1>2. ASSUME NEW s \in Senders, NEW d \in Devices, Create(s, d)
      PROVE  refs'[p] = Cardinality(Entries(p)') + ParserRef(p)' + leaked'[p]
  <2> DEFINE new(n) == [node |-> n, sender |-> s, client |-> CreatePath[d]]
  <2>1. PICK n \in FreeNodes : connections' = connections \cup {new(n)}
    BY <1>2 DEF Create, CancelTimer
  <2>2. new(n) \notin connections
    BY DEF FreeNodes
  <2>3. Cardinality(Entries(p)') =
           Cardinality(Entries(p)) + (IF CreatePath[d] = p THEN 1 ELSE 0)
    <3>1. new(n).client = CreatePath[d]  OBVIOUS
    <3>2. QED  BY <1>a, <2>1, <2>2, <3>1, OfAdd
  <2>4. refs'[p] = refs[p] + (IF CreatePath[d] = p THEN 1 ELSE 0)
    BY <1>2 DEF Create, CancelTimer, RefOrRegister
  <2>5. ParserRef(p)' = ParserRef(p) /\ leaked'[p] = leaked[p]
    BY <1>2 DEF Create, CancelTimer, RefOrRegister, ParserRef
  <2>6. QED  BY <1>b, <1>c, <2>3, <2>4, <2>5
<1>3. ASSUME NEW s \in Senders, NEW a \in ShutdownArgs, ShutdownUnknown(s, a)
      PROVE  refs'[p] = Cardinality(Entries(p)') + ParserRef(p)' + leaked'[p]
  BY <1>3, <1>d DEF ShutdownUnknown
<1>4. ASSUME NEW s \in Senders, NEW a \in ShutdownArgs, ShutdownHeld(s, a)
      PROVE  refs'[p] = Cardinality(Entries(p)') + ParserRef(p)' + leaked'[p]
  <2>1. PICK c \in connections : /\ c.client = ShutdownPath[a]
                                 /\ connections' = connections \ {c}
    BY <1>4 DEF ShutdownHeld, HeldBy, Entries
  <2>2. Cardinality(Entries(p)') =
           Cardinality(Entries(p)) - (IF ShutdownPath[a] = p THEN 1 ELSE 0)
    BY <1>a, <2>1, OfRemove
  <2>3. refs'[p] = refs[p] - (IF ShutdownPath[a] = p THEN 1 ELSE 0)
    BY <1>4 DEF ShutdownHeld, Unref
  <2>4. ParserRef(p)' = ParserRef(p) /\ leaked'[p] = leaked[p]
    BY <1>4 DEF ShutdownHeld, Unref, ParserRef
  <2>5. QED  BY <1>b, <1>c, <2>2, <2>3, <2>4
<1>5. ASSUME NEW s \in Senders, NEW a \in ShutdownArgs, ShutdownForeign(s, a)
      PROVE  refs'[p] = Cardinality(Entries(p)') + ParserRef(p)' + leaked'[p]
  BY <1>5, <1>d DEF ShutdownForeign
<1>6. ASSUME NEW s \in Senders, RemoveClients(s)
      PROVE  refs'[p] = Cardinality(Entries(p)') + ParserRef(p)' + leaked'[p]
  <2>1. connections' = connections \ HeldBy(s)
    BY <1>6 DEF RemoveClients
  <2>2. HeldBy(s) \in SUBSET connections
    BY DEF HeldBy
  <2>3. /\ Cardinality(Entries(p)') =
              Cardinality(Entries(p)) - Cardinality(HeldBy(s) \cap Entries(p))
        /\ Cardinality(HeldBy(s) \cap Entries(p)) \in Nat
    <3>1. /\ Cardinality(Of(connections \ HeldBy(s), p)) =
                Cardinality(Of(connections, p))
                   - Cardinality(HeldBy(s) \cap Of(connections, p))
          /\ Cardinality(HeldBy(s) \cap Of(connections, p)) \in Nat
      BY <2>2, OfDifference
    <3>2. Entries(p)' = Of(connections \ HeldBy(s), p)  BY <1>a, <2>1
    <3>3. QED  BY <1>a, <3>1, <3>2
  <2>4. refs'[p] = refs[p] - Cardinality(HeldBy(s) \cap Entries(p))
    BY <1>6 DEF RemoveClients
  <2>5. ParserRef(p)' = ParserRef(p) /\ leaked'[p] = leaked[p]
    BY <1>6 DEF RemoveClients, ParserRef
  <2>6. QED  BY <1>b, <1>c, <2>3, <2>4, <2>5
<1>7. ASSUME Terminate
      PROVE  refs'[p] = Cardinality(Entries(p)') + ParserRef(p)' + leaked'[p]
  BY <1>7, <1>d DEF Terminate
<1>8. ASSUME NEW q \in ObjectPaths, ConnectNmea(q)
      PROVE  refs'[p] = Cardinality(Entries(p)') + ParserRef(p)' + leaked'[p]
  <2>1. Entries(p)' = Entries(p)
    BY <1>8 DEF ConnectNmea, Entries
  <2>2. /\ refs'[p] = refs[p] + (IF p = q THEN 2 ELSE 0)
        /\ leaked'[p] = leaked[p] + (IF p = q THEN 1 ELSE 0)
    BY <1>8 DEF ConnectNmea
  <2>3. ParserRef(p)' = ParserRef(p) + (IF p = q THEN 1 ELSE 0)
    BY <1>8 DEF ConnectNmea, ParserRef
  <2>4. QED  BY <1>b, <1>c, <2>1, <2>2, <2>3
<1>9. ASSUME NEW q \in ObjectPaths, ConnectGarmin(q)
      PROVE  refs'[p] = Cardinality(Entries(p)') + ParserRef(p)' + leaked'[p]
  <2>1. Entries(p)' = Entries(p)
    BY <1>9 DEF ConnectGarmin, Entries
  <2>2. /\ refs'[p] = refs[p] + (IF p = q THEN 1 ELSE 0)
        /\ leaked'[p] = leaked[p]
    BY <1>9 DEF ConnectGarmin
  <2>3. ParserRef(p)' = ParserRef(p) + (IF p = q THEN 1 ELSE 0)
    BY <1>9 DEF ConnectGarmin, ParserRef
  <2>4. QED  BY <1>b, <1>c, <2>1, <2>2, <2>3
<1>10. ASSUME NEW q \in ObjectPaths, DropParser(q)
       PROVE  refs'[p] = Cardinality(Entries(p)') + ParserRef(p)' + leaked'[p]
  <2>1. Entries(p)' = Entries(p)
    BY <1>10 DEF DropParser, Entries
  <2>2. /\ refs'[p] = refs[p] - (IF p = q THEN 1 ELSE 0)
        /\ leaked'[p] = leaked[p]
    BY <1>10 DEF DropParser
  <2>3. ParserRef(p)' = ParserRef(p) - (IF p = q THEN 1 ELSE 0)
    BY <1>10 DEF DropParser, ParserRef
  <2>4. QED  BY <1>b, <1>c, <2>1, <2>2, <2>3
<1>11. CASE UNCHANGED vars
  BY <1>11, <1>d DEF vars
<1>12. QED
  BY <1>1, <1>2, <1>3, <1>4, <1>5, <1>6, <1>7, <1>8, <1>9, <1>10, <1>11 DEF Next

-----------------------------------------------------------------------------
(* Objects that exist have a device.                                        *)

LEMMA DeviceStep ==
    ASSUME FiniteTypeOK, ObjectHasDevice, [Next]_vars
    PROVE  ObjectHasDevice'
<1> USE DevicesAssumption DEF FiniteTypeOK, TypeOK, objectVars, ObjectHasDevice
<1> SUFFICES ASSUME NEW p \in ObjectPaths, refs'[p] > 0
             PROVE  device'[p] # NoDevice
  OBVIOUS
<1>1. ASSUME NEW s \in Senders, NEW d \in Devices, CreateRejected(s, d)
      PROVE  device'[p] # NoDevice
  BY <1>1 DEF CreateRejected, CancelTimer
<1>2. ASSUME NEW s \in Senders, NEW d \in Devices, Create(s, d)
      PROVE  device'[p] # NoDevice
  BY <1>2 DEF Create, CancelTimer, RefOrRegister
<1>3. ASSUME NEW s \in Senders, NEW a \in ShutdownArgs, ShutdownUnknown(s, a)
      PROVE  device'[p] # NoDevice
  BY <1>3 DEF ShutdownUnknown
<1>4. ASSUME NEW s \in Senders, NEW a \in ShutdownArgs, ShutdownHeld(s, a)
      PROVE  device'[p] # NoDevice
  BY <1>4 DEF ShutdownHeld, Unref
<1>5. ASSUME NEW s \in Senders, NEW a \in ShutdownArgs, ShutdownForeign(s, a)
      PROVE  device'[p] # NoDevice
  BY <1>5 DEF ShutdownForeign
<1>6. ASSUME NEW s \in Senders, RemoveClients(s)
      PROVE  device'[p] # NoDevice
  <2>1. Cardinality(HeldBy(s) \cap Entries(p)) \in Nat
    BY CardinalityInt
  <2>2. QED  BY <1>6, <2>1 DEF RemoveClients
<1>7. ASSUME Terminate
      PROVE  device'[p] # NoDevice
  BY <1>7 DEF Terminate
<1>8. ASSUME NEW q \in ObjectPaths, ConnectNmea(q)
      PROVE  device'[p] # NoDevice
  BY <1>8 DEF ConnectNmea
<1>9. ASSUME NEW q \in ObjectPaths, ConnectGarmin(q)
      PROVE  device'[p] # NoDevice
  BY <1>9 DEF ConnectGarmin
<1>10. ASSUME NEW q \in ObjectPaths, DropParser(q)
       PROVE  device'[p] # NoDevice
  BY <1>10 DEF DropParser
<1>11. CASE UNCHANGED vars
  BY <1>11 DEF vars
<1>12. QED
  BY <1>1, <1>2, <1>3, <1>4, <1>5, <1>6, <1>7, <1>8, <1>9, <1>10, <1>11 DEF Next

-----------------------------------------------------------------------------
(* The count and the connections.                                           *)

LEMMA CountStep ==
    ASSUME FiniteTypeOK, CountTracksConnections, [Next]_vars
    PROVE  CountTracksConnections'
<1> USE DEF FiniteTypeOK, TypeOK, CountTracksConnections
<1>a. Cardinality(connections) \in Nat  BY FS_CardinalityType
<1>1. ASSUME NEW s \in Senders, NEW d \in Devices, CreateRejected(s, d)
      PROVE  CountTracksConnections'
  BY <1>1 DEF CreateRejected, CancelTimer
<1>2. ASSUME NEW s \in Senders, NEW d \in Devices, Create(s, d)
      PROVE  CountTracksConnections'
  <2> DEFINE new(n) == [node |-> n, sender |-> s, client |-> CreatePath[d]]
  <2>1. PICK n \in FreeNodes : connections' = connections \cup {new(n)}
    BY <1>2 DEF Create, CancelTimer
  <2>2. new(n) \notin connections  BY DEF FreeNodes
  <2>3. Cardinality(connections') = Cardinality(connections) + 1
    BY <2>1, <2>2, FS_AddElement
  <2>4. client_count' = client_count + 1 /\ foreign' = foreign
    BY <1>2 DEF Create, CancelTimer
  <2>5. QED  BY <1>a, <2>3, <2>4
<1>3. ASSUME NEW s \in Senders, NEW a \in ShutdownArgs, ShutdownUnknown(s, a)
      PROVE  CountTracksConnections'
  BY <1>3 DEF ShutdownUnknown
<1>4. ASSUME NEW s \in Senders, NEW a \in ShutdownArgs, ShutdownHeld(s, a)
      PROVE  CountTracksConnections'
  <2>1. PICK c \in connections : connections' = connections \ {c}
    BY <1>4 DEF ShutdownHeld, HeldBy
  <2>2. Cardinality(connections') = Cardinality(connections) - 1
    BY <2>1, FS_RemoveElement
  <2>3. client_count' = client_count - 1 /\ foreign' = foreign
    BY <1>4 DEF ShutdownHeld, DecrementCount
  <2>4. QED  BY <1>a, <2>2, <2>3
<1>5. ASSUME NEW s \in Senders, NEW a \in ShutdownArgs, ShutdownForeign(s, a)
      PROVE  CountTracksConnections'
  <2>1. /\ client_count' = client_count - 1
        /\ foreign' = foreign + 1
        /\ connections' = connections
    BY <1>5 DEF ShutdownForeign, DecrementCount
  <2>2. QED  BY <1>a, <2>1
<1>6. ASSUME NEW s \in Senders, RemoveClients(s)
      PROVE  CountTracksConnections'
  <2>1. /\ connections' = connections \ HeldBy(s)
        /\ client_count' = client_count - Cardinality(HeldBy(s))
        /\ foreign' = foreign
    BY <1>6 DEF RemoveClients
  <2>2. connections \cap HeldBy(s) = HeldBy(s)  BY DEF HeldBy
  <2>3. /\ Cardinality(connections') =
              Cardinality(connections) - Cardinality(HeldBy(s))
        /\ Cardinality(HeldBy(s)) \in Nat
    <3>1. Cardinality(connections \ HeldBy(s)) =
             Cardinality(connections) - Cardinality(connections \cap HeldBy(s))
      BY FS_Difference
    <3>2. QED  BY <2>1, <2>2, <3>1, CardinalityInt
  <2>4. QED  BY <1>a, <2>1, <2>3
<1>7. ASSUME Terminate
      PROVE  CountTracksConnections'
  BY <1>7 DEF Terminate
<1>8. ASSUME NEW q \in ObjectPaths, ConnectNmea(q)
      PROVE  CountTracksConnections'
  BY <1>8 DEF ConnectNmea
<1>9. ASSUME NEW q \in ObjectPaths, ConnectGarmin(q)
      PROVE  CountTracksConnections'
  BY <1>9 DEF ConnectGarmin
<1>10. ASSUME NEW q \in ObjectPaths, DropParser(q)
       PROVE  CountTracksConnections'
  BY <1>10 DEF DropParser
<1>11. CASE UNCHANGED vars
  BY <1>11 DEF vars
<1>12. QED
  BY <1>1, <1>2, <1>3, <1>4, <1>5, <1>6, <1>7, <1>8, <1>9, <1>10, <1>11 DEF Next

-----------------------------------------------------------------------------
(* The timer.  With no Shutdown by a stranger, client_count is exactly the  *)
(* number of connections, so the timer is armed exactly when the last one   *)
(* goes; with one, the premises of both invariants are false for ever.      *)

TimerInv == NeverQuitsUnderClient /\ IdleIsArmed

LEMMA TimerStep ==
    ASSUME FiniteTypeOK, CountTracksConnections, TimerInv, [Next]_vars
    PROVE  TimerInv'
<1> USE DEF FiniteTypeOK, TypeOK
<1> SUFFICES ASSUME foreign' = 0
             PROVE  /\ connections' # {} => running' /\ ~terminate_id'
                    /\ idle' = "drained" => connections' = {} /\ terminate_id'
  BY DEF TimerInv, NeverQuitsUnderClient, IdleIsArmed
<1> DEFINE Goal == /\ connections' # {} => running' /\ ~terminate_id'
                   /\ idle' = "drained" => connections' = {} /\ terminate_id'
<1>a. ASSUME foreign = 0
      PROVE  /\ client_count = Cardinality(connections)
             /\ connections # {} => running /\ ~terminate_id
             /\ idle = "drained" => connections = {} /\ terminate_id
  BY <1>a, FS_CardinalityType
     DEF TimerInv, CountTracksConnections, NeverQuitsUnderClient, IdleIsArmed
<1>b. ASSUME foreign' = foreign, UNCHANGED <<connections, running, terminate_id, idle>>
      PROVE  Goal
  BY <1>a, <1>b
<1>1. ASSUME NEW s \in Senders, NEW d \in Devices, CreateRejected(s, d)
      PROVE  Goal
  BY <1>1, <1>a DEF CreateRejected, CancelTimer
<1>2. ASSUME NEW s \in Senders, NEW d \in Devices, Create(s, d)
      PROVE  Goal
  BY <1>2, <1>a DEF Create, CancelTimer
<1>3. ASSUME NEW s \in Senders, NEW a \in ShutdownArgs, ShutdownUnknown(s, a)
      PROVE  Goal
  BY <1>3, <1>b DEF ShutdownUnknown
<1>4. ASSUME NEW s \in Senders, NEW a \in ShutdownArgs, ShutdownHeld(s, a)
      PROVE  Goal
  <2>1. foreign = 0  BY <1>4 DEF ShutdownHeld
  <2>2. PICK c \in connections : /\ connections' = connections \ {c}
                                 /\ idle' = IdleAfter(connections \ {c})
    BY <1>4 DEF ShutdownHeld, HeldBy
  <2>3. client_count = Cardinality(connections') + 1
    <3>1. Cardinality(connections') = Cardinality(connections) - 1
      BY <2>2, FS_RemoveElement
    <3>2. QED  BY <1>a, <2>1, <3>1, FS_CardinalityType
  <2>4. client_count = 1 <=> connections' = {}
    <3>1. IsFiniteSet(connections')  BY <2>2, FS_RemoveElement
    <3>2. Cardinality(connections') = 0 <=> connections' = {}
      BY <3>1, FS_EmptySet
    <3>3. Cardinality(connections') \in Nat  BY <3>1, FS_CardinalityType
    <3>4. QED  BY <2>3, <3>2, <3>3
  <2>5. terminate_id' = (terminate_id \/ client_count = 1)
    BY <1>4 DEF ShutdownHeld, DecrementCount, auto_terminate, OptionArgNone
  <2>6. running' /\ ~terminate_id /\ idle # "drained"
    BY <1>a, <1>4, <2>1, <2>2 DEF ShutdownHeld
  <2>7. QED  BY <2>2, <2>4, <2>5, <2>6 DEF IdleAfter
<1>5. ASSUME NEW s \in Senders, NEW a \in ShutdownArgs, ShutdownForeign(s, a)
      PROVE  Goal
  <2>1. foreign' = foreign + 1 /\ foreign \in Nat  BY <1>5 DEF ShutdownForeign
  <2>2. QED  BY <2>1
<1>6. ASSUME NEW s \in Senders, RemoveClients(s)
      PROVE  Goal
  <2>1. foreign = 0  BY <1>6 DEF RemoveClients
  <2>2. /\ connections' = connections \ HeldBy(s)
        /\ idle' = IdleAfter(connections')
        /\ HeldBy(s) # {}
    BY <1>6 DEF RemoveClients, IdleAfter
  <2>3. HeldBy(s) \subseteq connections  BY DEF HeldBy
  <2>4. client_count \in 1 .. Cardinality(HeldBy(s)) <=> connections' = {}
    <3>1. /\ IsFiniteSet(HeldBy(s))
          /\ Cardinality(HeldBy(s)) <= Cardinality(connections)
          /\ Cardinality(HeldBy(s)) = Cardinality(connections) => HeldBy(s) = connections
      BY <2>3, FS_Subset
    <3>2. Cardinality(HeldBy(s)) \in Nat \ {0}
      BY <2>2, <3>1, FS_CardinalityType, FS_EmptySet
    <3>3. Cardinality(connections) \in Nat  BY FS_CardinalityType
    <3>4. client_count = Cardinality(connections)  BY <1>a, <2>1
    <3>5. client_count \in 1 .. Cardinality(HeldBy(s))
             <=> HeldBy(s) = connections
      BY <3>1, <3>2, <3>3, <3>4
    <3>6. QED  BY <2>2, <2>3, <3>5
  <2>5. terminate_id' = (terminate_id
                            \/ client_count \in 1 .. Cardinality(HeldBy(s)))
    BY <1>6 DEF RemoveClients
  <2>6. running' /\ ~terminate_id /\ idle # "drained"
    BY <1>a, <1>6, <2>1, <2>2, <2>3 DEF RemoveClients
  <2>7. QED  BY <2>2, <2>4, <2>5, <2>6 DEF IdleAfter
<1>7. ASSUME Terminate
      PROVE  Goal
  <2>1. foreign = 0 /\ terminate_id  BY <1>7 DEF Terminate
  <2>2. connections = {}  BY <1>a, <2>1
  <2>3. QED  BY <1>7, <1>a, <2>1, <2>2 DEF Terminate
<1>8. ASSUME NEW q \in ObjectPaths, ConnectNmea(q)
      PROVE  Goal
  BY <1>8, <1>b DEF ConnectNmea
<1>9. ASSUME NEW q \in ObjectPaths, ConnectGarmin(q)
      PROVE  Goal
  BY <1>9, <1>b DEF ConnectGarmin
<1>10. ASSUME NEW q \in ObjectPaths, DropParser(q)
       PROVE  Goal
  BY <1>10, <1>b DEF DropParser
<1>11. CASE UNCHANGED vars
  BY <1>11, <1>b DEF vars
<1>12. QED
  BY <1>1, <1>2, <1>3, <1>4, <1>5, <1>6, <1>7, <1>8, <1>9, <1>10, <1>11 DEF Next

-----------------------------------------------------------------------------
(* Objects are registered on the paths that Create makes, and on no other.    *)

Registered == \A p \in ObjectPaths : refs[p] # 0 => \E d \in Devices : p = CreatePath[d]

LEMMA RegisteredStep ==
    ASSUME FiniteTypeOK, RefsAccounted, Registered, [Next]_vars
    PROVE  Registered'
<1> USE DevicesAssumption DEF FiniteTypeOK, TypeOK, objectVars
<1> SUFFICES ASSUME NEW p \in ObjectPaths, \A d \in Devices : p # CreatePath[d]
             PROVE  refs'[p] = 0
  BY DEF Registered
<1>a. refs[p] = 0  BY DEF Registered
<1>b. Cardinality(Entries(p)) = 0 /\ ~parser[p]
  <2>1. Cardinality(Entries(p)) \in Nat
    BY FS_Subset, FS_CardinalityType DEF Entries
  <2>2. refs[p] = Cardinality(Entries(p)) + ParserRef(p) + leaked[p]
    BY DEF RefsAccounted
  <2>3. ParserRef(p) \in {0, 1} /\ (parser[p] => ParserRef(p) = 1)  BY DEF ParserRef
  <2> QED  BY <1>a, <2>1, <2>2, <2>3
<1>1. ASSUME NEW s \in Senders, NEW d \in Devices, CreateRejected(s, d)
      PROVE  refs'[p] = 0
  BY <1>a, <1>1 DEF CreateRejected
<1>2. ASSUME NEW s \in Senders, NEW d \in Devices, Create(s, d)
      PROVE  refs'[p] = 0
  BY <1>a, <1>2 DEF Create, RefOrRegister
<1>3. ASSUME NEW s \in Senders, NEW a \in ShutdownArgs,
             ShutdownUnknown(s, a) \/ ShutdownForeign(s, a)
      PROVE  refs'[p] = 0
  BY <1>a, <1>3 DEF ShutdownUnknown, ShutdownForeign
<1>4. ASSUME NEW s \in Senders, NEW a \in ShutdownArgs, ShutdownHeld(s, a)
      PROVE  refs'[p] = 0
  BY <1>a, <1>4 DEF ShutdownHeld, Unref
<1>5. ASSUME NEW s \in Senders, RemoveClients(s)
      PROVE  refs'[p] = 0
  <2>1. IsFiniteSet(Entries(p))  BY FS_Subset DEF Entries
  <2>2. Entries(p) = {}  BY <1>b, <2>1, FS_EmptySet
  <2>3. Cardinality(HeldBy(s) \cap Entries(p)) = 0  BY <2>2, FS_EmptySet
  <2> QED  BY <1>a, <1>5, <2>3 DEF RemoveClients
<1>6. ASSUME Terminate
      PROVE  refs'[p] = 0
  BY <1>a, <1>6 DEF Terminate
<1>7. ASSUME NEW q \in ObjectPaths, ConnectNmea(q) \/ ConnectGarmin(q) \/ DropParser(q)
      PROVE  refs'[p] = 0
  BY <1>a, <1>b, <1>7 DEF ConnectNmea, ConnectGarmin, DropParser
<1>8. CASE UNCHANGED vars
  BY <1>a, <1>8 DEF vars
<1> QED
  BY <1>1, <1>2, <1>3, <1>4, <1>5, <1>6, <1>7, <1>8 DEF Next

-----------------------------------------------------------------------------
(* The inductive invariant and the theorems.                                *)

IInv == /\ FiniteTypeOK
        /\ RefsAccounted
        /\ Registered
        /\ ObjectHasDevice
        /\ CountTracksConnections
        /\ TimerInv

LEMMA IInvInit == Init => IInv
<1> SUFFICES ASSUME Init PROVE IInv
  OBVIOUS
<1>1. FiniteTypeOK  BY FiniteTypeInit
<1>2. Cardinality({}) = 0  BY FS_EmptySet
<1>3. RefsAccounted
  <2>1. \A p \in ObjectPaths : Entries(p) = {}  BY DEF Init, Entries
  <2>2. QED  BY <1>2, <2>1 DEF Init, RefsAccounted, ParserRef
<1>r. Registered  BY DEF Init, Registered
<1>4. ObjectHasDevice  BY DEF Init, ObjectHasDevice
<1>5. CountTracksConnections  BY <1>2 DEF Init, CountTracksConnections
<1>6. TimerInv  BY DEF Init, TimerInv, NeverQuitsUnderClient, IdleIsArmed
<1>7. QED  BY <1>1, <1>3, <1>r, <1>4, <1>5, <1>6 DEF IInv

LEMMA IInvStep == IInv /\ [Next]_vars => IInv'
BY FiniteTypeStep, RefsStep, RegisteredStep, DeviceStep, CountStep, TimerStep DEF IInv

LEMMA Inductive == Spec => []IInv
BY IInvInit, IInvStep, PTL DEF Spec

\* Every reference on a Client object belongs to a list node, to its live
\* parser or to a leaked NMEA context, whatever the clients do.
THEOREM RefsAreAccounted == Spec => []RefsAccounted
BY Inductive, PTL DEF IInv

\* client_count is short of the number of connections by exactly the number
\* of Shutdowns by senders that did not hold the object.
THEOREM CountIsExact == Spec => []CountTracksConnections
BY Inductive, PTL DEF IInv

\* Without such Shutdowns the daemon neither stops nor is about to stop while
\* a sender holds an object.
THEOREM NoQuitUnderClient == Spec => []NeverQuitsUnderClient
BY Inductive, PTL DEF IInv, TimerInv

\* Without such Shutdowns the timer runs from the last release until a Create.
THEOREM DrainedIsArmed == Spec => []IdleIsArmed
BY Inductive, PTL DEF IInv, TimerInv

\* An object has references if and only if something accounts for one.
LEMMA RefsSplit ==
    ASSUME IInv, NEW p \in ObjectPaths
    PROVE  /\ refs[p] \in Nat
           /\ Entries(p) # {} => refs[p] > 0
           /\ parser[p] /\ refs[p] = 1 => Entries(p) = {}
<1>1. IsFiniteSet(Entries(p))
  BY FS_Subset DEF IInv, FiniteTypeOK, Entries
<1>2. Cardinality(Entries(p)) \in Nat /\ (Cardinality(Entries(p)) = 0 <=> Entries(p) = {})
  BY <1>1, FS_CardinalityType, FS_EmptySet
<1>3. ParserRef(p) \in Nat /\ (parser[p] => ParserRef(p) = 1)
  BY DEF ParserRef
<1>4. leaked[p] \in Nat
  BY DEF IInv, FiniteTypeOK, TypeOK
<1>5. refs[p] = Cardinality(Entries(p)) + ParserRef(p) + leaked[p]
  BY DEF IInv, RefsAccounted
<1>6. QED  BY <1>2, <1>3, <1>4, <1>5

\* One client's Shutdown or departure never destroys an object another client
\* holds.
THEOREM HeldObjectsLive == Spec => []HeldObjectsAlive
<1>1. IInv => HeldObjectsAlive
  <2> SUFFICES ASSUME IInv, NEW c \in connections
               PROVE  refs[c.client] > 0 /\ device[c.client] # NoDevice
    BY DEF HeldObjectsAlive
  <2>1. c.client \in ObjectPaths
    BY DEF IInv, FiniteTypeOK, TypeOK, Connection
  <2>2. c \in Entries(c.client)  BY DEF Entries
  <2>3. refs[c.client] > 0  BY <2>1, <2>2, RefsSplit
  <2>4. QED  BY <2>1, <2>3 DEF IInv, ObjectHasDevice
<1>2. QED  BY <1>1, Inductive, PTL

-----------------------------------------------------------------------------
(* Refinement: the leases.                                                  *)

heldBar == [s \in Senders |-> {c.client : c \in HeldBy(s)}]
liveBar == {p \in ObjectPaths : refs[p] > 0}
stoppedBar == ~running /\ foreign = 0

LEMMA ClientsAdd ==
    ASSUME NEW S, NEW x
    PROVE  {c.client : c \in S \cup {x}} = {c.client : c \in S} \cup {x.client}
OBVIOUS

LEMMA LeaseSame ==
    ASSUME UNCHANGED <<connections, stoppedBar>>,
           \A p \in ObjectPaths : refs'[p] > 0 <=> refs[p] > 0
    PROVE  UNCHANGED <<heldBar, liveBar, stoppedBar>>
BY DEF heldBar, liveBar, HeldBy

LEMMA StillRunning ==
    ASSUME running, running'
    PROVE  ~stoppedBar /\ UNCHANGED stoppedBar
BY DEF stoppedBar

\* Whatever is leased is alive.
LeasesAlive == \A s \in Senders : heldBar[s] \subseteq liveBar

LEMMA LeasedAlive == IInv => LeasesAlive
<1> SUFFICES ASSUME IInv
             PROVE  LeasesAlive
  OBVIOUS
<1>1. ASSUME NEW s \in Senders, NEW c \in HeldBy(s)
      PROVE  c.client \in liveBar
  <2>1. c.client \in ObjectPaths
    BY <1>1 DEF HeldBy, IInv, FiniteTypeOK, TypeOK, Connection
  <2>2. c \in Entries(c.client)  BY <1>1 DEF HeldBy, Entries
  <2>3. QED  BY <2>1, <2>2, RefsSplit DEF liveBar
<1>2. QED  BY <1>1 DEF heldBar, LeasesAlive

LEMMA LeaseStep ==
    ASSUME IInv, IInv', [Next]_vars
    PROVE  Lease!LeaseNext \/ UNCHANGED <<heldBar, liveBar, stoppedBar>>
<1> USE DevicesAssumption
<1>t. FiniteTypeOK /\ TypeOK  BY DEF IInv, FiniteTypeOK
<1>n. \A p \in ObjectPaths : refs[p] \in Nat  BY RefsSplit
<1>l. LeasesAlive'
  BY LeasedAlive, PTL
<1>h. /\ heldBar = [r \in Senders |-> heldBar[r]]
      /\ heldBar' = [r \in Senders |-> heldBar'[r]]
  BY DEF heldBar
<1>1. ASSUME NEW s \in Senders, NEW d \in Devices, CreateRejected(s, d)
      PROVE  UNCHANGED <<heldBar, liveBar, stoppedBar>>
  BY <1>1, LeaseSame, StillRunning DEF CreateRejected, objectVars
<1>2. ASSUME NEW s \in Senders, NEW d \in Devices, Create(s, d)
      PROVE  Lease!Acquire(s, CreatePath[d])
  <2> DEFINE new(n) == [node |-> n, sender |-> s, client |-> CreatePath[d]]
  <2>1. PICK n \in FreeNodes : connections' = connections \cup {new(n)}
    BY <1>2 DEF Create, CancelTimer
  <2>2. ASSUME NEW r \in Senders
        PROVE  heldBar'[r] = IF r = s THEN heldBar[r] \cup {CreatePath[d]}
                                      ELSE heldBar[r]
    <3>1. heldBar[r] = {c.client : c \in HeldBy(r)}
          /\ heldBar'[r] = {c.client : c \in HeldBy(r)'}
      BY DEF heldBar
    <3>2. CASE r = s
      <4>1. HeldBy(r)' = HeldBy(r) \cup {new(n)}  BY <2>1, <3>2 DEF HeldBy
      <4>2. new(n).client = CreatePath[d]  OBVIOUS
      <4>3. heldBar'[r] = {c.client : c \in HeldBy(r) \cup {new(n)}}
        BY <3>1, <4>1
      <4>4. heldBar'[r] = {c.client : c \in HeldBy(r)} \cup {new(n).client}
        <5> HIDE DEF new
        <5>1. {c.client : c \in HeldBy(r) \cup {new(n)}}
                 = {c.client : c \in HeldBy(r)} \cup {new(n).client}
          BY ClientsAdd
        <5>2. QED  BY <4>3, <5>1
      <4>5. QED  BY <3>1, <3>2, <4>2, <4>4
    <3>3. CASE r # s
      <4>1. HeldBy(r)' = HeldBy(r)  BY <2>1, <3>3 DEF HeldBy
      <4>2. QED  BY <3>1, <3>3, <4>1
    <3>4. QED  BY <3>2, <3>3
  <2>3. heldBar' = [heldBar EXCEPT ![s] = @ \cup {CreatePath[d]}]
    BY <1>h, <2>2
  <2>4. liveBar' = liveBar \cup {CreatePath[d]}
    <3>1. \A p \in ObjectPaths :
             refs'[p] > 0 <=> (refs[p] > 0 \/ p = CreatePath[d])
      BY <1>2, <1>n, <1>t DEF Create, CancelTimer, RefOrRegister, TypeOK
    <3>2. CreatePath[d] \in ObjectPaths  OBVIOUS
    <3>3. QED  BY <3>1, <3>2 DEF liveBar
  <2>5. ~stoppedBar /\ UNCHANGED stoppedBar  BY <1>2, StillRunning DEF Create
  <2>6. QED  BY <2>3, <2>4, <2>5 DEF Lease!Acquire, heldBar, liveBar, stoppedBar
<1>3. ASSUME NEW s \in Senders, NEW a \in ShutdownArgs, ShutdownUnknown(s, a)
      PROVE  UNCHANGED <<heldBar, liveBar, stoppedBar>>
  BY <1>3, LeaseSame, StillRunning DEF ShutdownUnknown, objectVars
<1>r. ASSUME NEW s \in Senders, running, running', heldBar'[s] \subseteq heldBar[s],
             \A r \in Senders : r # s => heldBar'[r] = heldBar[r],
             liveBar' \subseteq liveBar,
             liveBar \ liveBar' \subseteq heldBar[s] \ heldBar'[s]
      PROVE  Lease!LeaseNext
  <2> DEFINE gone == heldBar[s] \ heldBar'[s]
  <2>1. heldBar' = [heldBar EXCEPT ![s] = @ \ gone]
    BY <1>h, <1>r
  <2>2. \A r \in Senders : heldBar'[r] \subseteq liveBar'
    BY <1>l DEF LeasesAlive
  <2>3. gone \in SUBSET ObjectPaths
    BY <1>t DEF heldBar, HeldBy, TypeOK, Connection
  <2>4. Lease!Release(s, gone)
    <3>1. Lease!Leased' \subseteq liveBar'
      BY <2>2 DEF Lease!Leased, heldBar
    <3>2. ~stoppedBar /\ UNCHANGED stoppedBar  BY <1>r, StillRunning
    <3>3. liveBar' \in SUBSET liveBar /\ liveBar \ liveBar' \subseteq gone
      BY <1>r
    <3>4. QED  BY <2>1, <3>1, <3>2, <3>3 DEF Lease!Release, heldBar, liveBar, stoppedBar
  <2>5. \E g \in SUBSET ObjectPaths : Lease!Release(s, g)
    BY <2>3, <2>4 DEF Lease!Release
  <2>6. QED  BY <2>5 DEF Lease!LeaseNext
<1>4. ASSUME NEW s \in Senders, NEW a \in ShutdownArgs, ShutdownHeld(s, a)
      PROVE  Lease!LeaseNext
  <2> DEFINE q == ShutdownPath[a]
  <2>1. PICK c \in connections : /\ c.sender = s /\ c.client = q
                                 /\ connections' = connections \ {c}
    BY <1>4 DEF ShutdownHeld, HeldBy, Entries
  <2>2. running /\ running'  BY <1>4 DEF ShutdownHeld
  <2>3. \A r \in Senders : HeldBy(r)' = HeldBy(r) \ {c}  BY <2>1 DEF HeldBy
  <2>4. \A r \in Senders : r # s => heldBar'[r] = heldBar[r]
    <3>1. ASSUME NEW r \in Senders, r # s
          PROVE  HeldBy(r)' = HeldBy(r)
      BY <2>1, <2>3, <3>1 DEF HeldBy
    <3>2. QED  BY <3>1 DEF heldBar
  <2>5. heldBar'[s] \subseteq heldBar[s] /\ q \in heldBar[s]
    BY <2>1, <2>3 DEF heldBar, HeldBy
  <2>6. \A p \in ObjectPaths : refs'[p] = IF p = q THEN refs[p] - 1 ELSE refs[p]
    BY <1>4, <1>t DEF ShutdownHeld, Unref, TypeOK
  <2>7. liveBar' \subseteq liveBar
    BY <2>6, <1>n DEF liveBar
  <2>8. liveBar \ liveBar' \subseteq {q}
    BY <2>6, <1>n DEF liveBar
  <2>9. q \notin liveBar' => q \notin heldBar'[s]
    BY <1>l DEF LeasesAlive
  <2>10. QED  BY <1>r, <2>2, <2>4, <2>5, <2>7, <2>8, <2>9
<1>5. ASSUME NEW s \in Senders, NEW a \in ShutdownArgs, ShutdownForeign(s, a)
      PROVE  UNCHANGED <<heldBar, liveBar, stoppedBar>>
  BY <1>5, LeaseSame, StillRunning DEF ShutdownForeign, objectVars
<1>6. ASSUME NEW s \in Senders, RemoveClients(s)
      PROVE  Lease!LeaseNext
  <2>1. connections' = connections \ HeldBy(s)  BY <1>6 DEF RemoveClients
  <2>2. running /\ running'  BY <1>6 DEF RemoveClients
  <2>3. heldBar'[s] = {}
    BY <2>1 DEF heldBar, HeldBy
  <2>4. \A r \in Senders : r # s => heldBar'[r] = heldBar[r]
    <3>1. ASSUME NEW r \in Senders, r # s
          PROVE  HeldBy(r)' = HeldBy(r)
      BY <2>1, <3>1 DEF HeldBy
    <3>2. QED  BY <3>1 DEF heldBar
  <2>5. ASSUME NEW p \in ObjectPaths
        PROVE  /\ refs'[p] <= refs[p]
               /\ p \notin heldBar[s] => refs'[p] = refs[p]
    <3>1. refs'[p] = refs[p] - Cardinality(HeldBy(s) \cap Entries(p))
      BY <1>6 DEF RemoveClients
    <3>2. Cardinality(HeldBy(s) \cap Entries(p)) \in Nat
      BY <1>t, CardinalityInt DEF FiniteTypeOK
    <3>3. p \notin heldBar[s] => Cardinality(HeldBy(s) \cap Entries(p)) = 0
      <4>1. p \notin heldBar[s] => HeldBy(s) \cap Entries(p) = {}
        BY DEF heldBar, Entries
      <4>2. QED  BY <4>1, FS_EmptySet
    <3>4. refs[p] \in Nat  BY <1>n
    <3>5. QED  BY <3>1, <3>2, <3>3, <3>4
  <2>6. liveBar' \subseteq liveBar /\ liveBar \ liveBar' \subseteq heldBar[s]
    <3>1. \A p \in ObjectPaths : refs'[p] \in Int
      BY <1>n DEF IInv, FiniteTypeOK, TypeOK
    <3>2. QED  BY <1>n, <2>5, <3>1 DEF liveBar
  <2>7. QED  BY <1>r, <2>2, <2>3, <2>4, <2>6
<1>7. ASSUME Terminate
      PROVE  Lease!Stop \/ UNCHANGED <<heldBar, liveBar, stoppedBar>>
  <2>1. terminate_id /\ running /\ ~running' /\ foreign' = foreign
    BY <1>7 DEF Terminate
  <2>2. UNCHANGED <<heldBar, liveBar>>
    BY <1>7 DEF Terminate, heldBar, liveBar, HeldBy, objectVars
  <2>3. CASE foreign = 0
    <3>1. connections = {}
      BY <2>1, <2>3 DEF IInv, TimerInv, NeverQuitsUnderClient
    <3>2. Lease!Leased = {}  BY <3>1 DEF Lease!Leased, HeldBy
    <3> QED  BY <2>1, <2>2, <2>3, <3>2 DEF Lease!Stop, heldBar, liveBar, stoppedBar
  <2>4. CASE foreign # 0  BY <2>1, <2>2, <2>4 DEF stoppedBar
  <2> QED  BY <2>3, <2>4
<1>8. ASSUME NEW q \in ObjectPaths, ConnectNmea(q)
      PROVE  UNCHANGED <<heldBar, liveBar, stoppedBar>>
  <2>1. \A p \in ObjectPaths : refs'[p] > 0 <=> refs[p] > 0
    BY <1>8, <1>t, <1>n DEF ConnectNmea, TypeOK
  <2>2. QED  BY <1>8, <2>1, LeaseSame, StillRunning DEF ConnectNmea
<1>9. ASSUME NEW q \in ObjectPaths, ConnectGarmin(q)
      PROVE  UNCHANGED <<heldBar, liveBar, stoppedBar>>
  <2>1. \A p \in ObjectPaths : refs'[p] > 0 <=> refs[p] > 0
    BY <1>9, <1>t, <1>n DEF ConnectGarmin, TypeOK
  <2>2. QED  BY <1>9, <2>1, LeaseSame, StillRunning DEF ConnectGarmin
<1>10. ASSUME NEW q \in ObjectPaths, DropParser(q)
       PROVE  Lease!LeaseNext \/ UNCHANGED <<heldBar, liveBar, stoppedBar>>
  <2>1. \A p \in ObjectPaths : refs'[p] = IF p = q THEN refs[p] - 1 ELSE refs[p]
    BY <1>10, <1>t DEF DropParser, TypeOK
  <2>2. CASE refs[q] = 1
    <3>1. Entries(q) = {}  BY <1>10, <2>2, RefsSplit DEF DropParser
    <3>2. q \in liveBar \ Lease!Leased
      BY <2>2, <3>1 DEF liveBar, Lease!Leased, HeldBy, Entries
    <3>3. liveBar' = liveBar \ {q}
      BY <1>n, <2>1, <2>2 DEF liveBar
    <3>4. UNCHANGED <<heldBar, stoppedBar>> /\ ~stoppedBar
      BY <1>10, StillRunning DEF DropParser, heldBar, HeldBy
    <3>5. Lease!Reclaim(q)
      BY <3>2, <3>3, <3>4 DEF Lease!Reclaim, heldBar, liveBar, stoppedBar
    <3>6. QED  BY <3>5 DEF Lease!LeaseNext
  <2>3. CASE refs[q] # 1
    <3>1. refs[q] > 1
      <4>1. refs[q] = Cardinality(Entries(q)) + ParserRef(q) + leaked[q]
        BY DEF IInv, RefsAccounted
      <4>2. ParserRef(q) = 1  BY <1>10 DEF DropParser, ParserRef
      <4>3. Cardinality(Entries(q)) \in Nat
        BY <1>t, FS_Subset, FS_CardinalityType DEF FiniteTypeOK, Entries
      <4>4. QED  BY <1>t, <2>3, <4>1, <4>2, <4>3 DEF TypeOK
    <3>2. \A p \in ObjectPaths : refs'[p] > 0 <=> refs[p] > 0
      BY <1>n, <2>1, <3>1
    <3>3. QED  BY <1>10, <3>2, LeaseSame, StillRunning DEF DropParser
  <2>4. QED  BY <2>2, <2>3
<1>11. CASE UNCHANGED vars
  BY <1>11, LeaseSame DEF vars, stoppedBar
<1>12. QED
  <2>1. \A s \in Senders, d \in Devices : Create(s, d) => Lease!LeaseNext
    BY <1>2 DEF Lease!LeaseNext
  <2>2. Terminate => Lease!LeaseNext \/ UNCHANGED <<heldBar, liveBar, stoppedBar>>
    BY <1>7 DEF Lease!LeaseNext
  <2>3. QED
    BY <1>1, <1>3, <1>4, <1>5, <1>6, <1>8, <1>9, <1>10, <1>11, <2>1, <2>2 DEF Next

LEMMA LeaseStart == Init => Lease!LeaseInit
<1> SUFFICES ASSUME Init PROVE Lease!LeaseInit
  OBVIOUS
<1>1. heldBar = [s \in Senders |-> {}]  BY DEF Init, heldBar, HeldBy
<1>2. liveBar = {}  BY DEF Init, liveBar
<1>3. stoppedBar = FALSE  BY DEF Init, stoppedBar
<1>4. QED  BY <1>1, <1>2, <1>3 DEF Lease!LeaseInit, heldBar, liveBar, stoppedBar

\* The daemon implements the lease table of ClientLease: no step of any client
\* takes a lease or an object from another one, and unless a sender has shut down
\* what it did not hold, the daemon stops only when nothing is leased.
THEOREM ServerRefinesLease == Spec => ServerImplementsLease
<1>1. IInv /\ IInv' /\ [Next]_vars => [Lease!LeaseNext]_(Lease!leaseVars)
  BY LeaseStep DEF Lease!leaseVars, heldBar, liveBar, stoppedBar
<1>2. QED
  BY LeaseStart, <1>1, Inductive, PTL
     DEF Spec, ServerImplementsLease, Lease!LeaseSpec

-----------------------------------------------------------------------------
(* The programs and the library (GypsyControl).                              *)

\* A program holds what the library remembers, one more for every name that was
\* written over, and one more for every Shutdown of dispose that found nothing.
Accounted(s) ==
    /\ device_name[s] # NoDevice => Of(HeldBy(s), CreatePath[device_name[s]]) # {}
    /\ Cardinality(HeldBy(s)) = forgotten[s] + stranded[s]
                                   + IF device_name[s] = NoDevice THEN 0 ELSE 1

LibraryTypeOK ==
    /\ control \in [Programs -> 0 .. MaxRefs]
    /\ device_name \in [Programs -> Devices \cup {NoDevice}]
    /\ forgotten \in [Programs -> Nat]
    /\ stranded \in [Programs -> Nat]

\* What the library keeps, and the inductive invariant: that of the server as well.
LibraryInv ==
    /\ LibraryTypeOK
    /\ \A s \in Programs : Accounted(s)

ControlInv == IInv /\ LibraryInv

LEMMA HeldEntries == \A s, p : HeldBy(s) \cap Entries(p) = Of(HeldBy(s), p)
BY DEF HeldBy, Entries, Of

NamesAreHeld ==
    \A s \in Programs : device_name[s] # NoDevice =>
        HeldBy(s) \cap Entries(CreatePath[device_name[s]]) # {}

LEMMA ControlInvImplies ==
    ControlInv => ControlTypeOK /\ NamesAreHeld /\ LibraryAccounts
BY HeldEntries
   DEF ControlInv, LibraryInv, ControlTypeOK, LibraryTypeOK, IInv, FiniteTypeOK,
       NamesAreHeld, LibraryAccounts, Accounted

-----------------------------------------------------------------------------
(* What the calls of one sender do to what senders hold.                    *)

LEMMA CreateHolds ==
    ASSUME FiniteTypeOK, NEW s \in Senders, NEW d \in Devices, Create(s, d)
    PROVE  /\ \A t : t # s => HeldBy(t)' = HeldBy(t)
           /\ \A p : Of(HeldBy(s), p) \subseteq Of(HeldBy(s)', p)
           /\ Of(HeldBy(s)', CreatePath[d]) # {}
           /\ Cardinality(HeldBy(s)') = Cardinality(HeldBy(s)) + 1
<1>1. PICK n \in FreeNodes :
        connections' = connections \cup {[node |-> n, sender |-> s, client |-> CreatePath[d]]}
  BY DEF Create
<1> DEFINE c == [node |-> n, sender |-> s, client |-> CreatePath[d]]
<1>2. c \notin connections  BY DEF FreeNodes
<1>3. HeldBy(s)' = HeldBy(s) \cup {c} /\ c \notin HeldBy(s)
  BY <1>1, <1>2 DEF HeldBy
<1>4. Cardinality(HeldBy(s)') = Cardinality(HeldBy(s)) + 1
  <2>1. IsFiniteSet(HeldBy(s))  BY FS_Subset DEF FiniteTypeOK, HeldBy
  <2> QED  BY <1>3, <2>1, FS_AddElement
<1>5. \A t : t # s => HeldBy(t)' = HeldBy(t)  BY <1>1 DEF HeldBy
<1>6. c \in Of(HeldBy(s)', CreatePath[d])  BY <1>3 DEF Of
<1>7. \A p : Of(HeldBy(s), p) \subseteq Of(HeldBy(s)', p)  BY <1>3 DEF Of
<1> QED  BY <1>4, <1>5, <1>6, <1>7

LEMMA ShutdownHolds ==
    ASSUME FiniteTypeOK, NEW s \in Senders, NEW a \in ShutdownArgs, ShutdownHeld(s, a)
    PROVE  /\ \A t : t # s => HeldBy(t)' = HeldBy(t)
           /\ Cardinality(HeldBy(s)') = Cardinality(HeldBy(s)) - 1
<1>1. PICK c \in HeldBy(s) : connections' = connections \ {c}
  BY DEF ShutdownHeld
<1>2. HeldBy(s)' = HeldBy(s) \ {c} /\ \A t : t # s => HeldBy(t)' = HeldBy(t)
  BY <1>1 DEF HeldBy
<1>3. IsFiniteSet(HeldBy(s))  BY FS_Subset DEF FiniteTypeOK, HeldBy
<1> QED  BY <1>1, <1>2, <1>3, FS_RemoveElement

LEMMA RemoveHolds ==
    ASSUME NEW s \in Senders, RemoveClients(s)
    PROVE  HeldBy(s)' = {} /\ \A t : t # s => HeldBy(t)' = HeldBy(t)
BY DEF RemoveClients, HeldBy

LEMMA HeldSame ==
    ASSUME UNCHANGED connections PROVE \A t : HeldBy(t)' = HeldBy(t)
BY DEF HeldBy

LEMMA Untouched ==
    ASSUME NEW t, Accounted(t), HeldBy(t)' = HeldBy(t),
           device_name'[t] = device_name[t], forgotten'[t] = forgotten[t],
           stranded'[t] = stranded[t]
    PROVE  Accounted(t)'
<1>1. \A p : Of(HeldBy(t), p)' = Of(HeldBy(t)', p)  BY DEF Of
<1> QED  BY <1>1 DEF Accounted

-----------------------------------------------------------------------------
(* One lemma for each action of the composition.                            *)

\* Steps that leave the list nodes and the names alone.
LEMMA QuietStep ==
    ASSUME LibraryInv, UNCHANGED <<connections, device_name, forgotten, stranded>>,
           control' \in [Programs -> 0 .. MaxRefs]
    PROVE  LibraryInv'
<1>1. \A t \in Programs : Accounted(t)'  BY HeldSame, Untouched DEF LibraryInv
<1> QED  BY <1>1 DEF LibraryInv, LibraryTypeOK

\* Steps of the daemon itself never touch them.
LEMMA DaemonStep ==
    ASSUME Daemon PROVE UNCHANGED <<connections, foreign, library>>
BY DEF Daemon, Terminate, ConnectNmea, ConnectGarmin, DropParser

LEMMA RefsStepOfLibrary ==
    ASSUME LibraryInv, NEW s \in Programs, GetDefault(s) \/ UnrefShared(s)
    PROVE  LibraryInv'
<1>1. control \in [Programs -> 0 .. MaxRefs] /\ MaxRefs \in Nat
  BY ProgramsAssumption DEF LibraryInv, LibraryTypeOK
<1>2. control[s] \in 0 .. MaxRefs  BY <1>1
<1>3. control' \in [Programs -> 0 .. MaxRefs]
  <2>1. CASE GetDefault(s)
    <3>1. control[s] + 1 \in 0 .. MaxRefs  BY <1>1, <1>2, <2>1 DEF GetDefault
    <3> QED  BY <1>1, <2>1, <3>1 DEF GetDefault
  <2>2. CASE UnrefShared(s)
    <3>1. control[s] - 1 \in 0 .. MaxRefs  BY <1>1, <1>2, <2>2 DEF UnrefShared
    <3> QED  BY <1>1, <2>2, <3>1 DEF UnrefShared
  <2> QED  BY <2>1, <2>2
<1>4. UNCHANGED <<connections, device_name, forgotten, stranded>>
  BY DEF GetDefault, UnrefShared, vars
<1> QED  BY <1>3, <1>4, QuietStep

LEMMA CreateStep ==
    ASSUME ControlInv, NEW s \in Programs, NEW d \in Devices, ControlCreate(s, d)
    PROVE  LibraryInv'
<1>0. s \in Senders /\ d # NoDevice /\ FiniteTypeOK
  BY ProgramsAssumption, DevicesAssumption DEF ControlInv, IInv
<1>1. LibraryInv /\ LibraryTypeOK  BY DEF ControlInv, LibraryInv
<1>2. control' \in [Programs -> 0 .. MaxRefs]
  BY <1>1 DEF ControlCreate, LibraryTypeOK
<1>3. CASE CreateRejected(s, d)
  <2>1. reply'.result # "ok"  BY <1>3 DEF CreateRejected, Reply
  <2>2. UNCHANGED <<device_name, forgotten, stranded>>
    BY <2>1 DEF ControlCreate, Remember
  <2>3. UNCHANGED connections  BY <1>3 DEF CreateRejected
  <2> QED  BY <1>1, <1>2, <2>2, <2>3, QuietStep
<1>4. CASE Create(s, d)
  <2>1. reply'.result = "ok"  BY <1>4 DEF Create, Reply
  <2>2. /\ device_name' = [device_name EXCEPT ![s] = d]
        /\ forgotten' = [forgotten EXCEPT
                           ![s] = IF device_name[s] # NoDevice THEN @ + 1 ELSE @]
        /\ stranded' = stranded
    BY <2>1 DEF ControlCreate, Remember
  <2>3. device_name'[s] = d
    BY <1>1, <2>2 DEF LibraryTypeOK
  <2>4. forgotten[s] \in Nat /\ stranded[s] \in Nat
        /\ forgotten'[s] = forgotten[s] + (IF device_name[s] = NoDevice THEN 0 ELSE 1)
    BY <1>1, <2>2 DEF LibraryTypeOK
  <2>5. LibraryTypeOK'
    <3>1. device_name' \in [Programs -> Devices \cup {NoDevice}]
      BY <1>1, <2>2 DEF LibraryTypeOK
    <3>2. forgotten' \in [Programs -> Nat]
      BY <1>1, <2>2, <2>4 DEF LibraryTypeOK
    <3> QED  BY <1>1, <1>2, <2>2, <3>1, <3>2 DEF LibraryTypeOK
  <2>6. /\ \A t : t # s => HeldBy(t)' = HeldBy(t)
        /\ Of(HeldBy(s)', CreatePath[d]) # {}
        /\ Cardinality(HeldBy(s)') = Cardinality(HeldBy(s)) + 1
    BY <1>0, <1>4, CreateHolds
  <2>7. Accounted(s)'
    <3>1. Of(HeldBy(s), CreatePath[device_name[s]])'
             = Of(HeldBy(s)', CreatePath[device_name'[s]])
      BY DEF Of
    <3>2. Cardinality(HeldBy(s))' = forgotten'[s] + stranded'[s] + 1
      <4>1. Cardinality(HeldBy(s))
               = forgotten[s] + stranded[s] + (IF device_name[s] = NoDevice THEN 0 ELSE 1)
        BY <1>1 DEF LibraryInv, Accounted
      <4> QED  BY <2>2, <2>4, <2>6, <4>1
    <3> QED  BY <1>0, <2>3, <2>6, <3>1, <3>2 DEF Accounted
  <2>8. ASSUME NEW t \in Programs, t # s PROVE Accounted(t)'
    <3>1. /\ device_name'[t] = device_name[t]
          /\ forgotten'[t] = forgotten[t] /\ stranded'[t] = stranded[t]
      BY <1>1, <2>2, <2>8 DEF LibraryTypeOK
    <3> QED  BY <1>1, <2>6, <2>8, <3>1, Untouched DEF LibraryInv
  <2> QED  BY <2>5, <2>7, <2>8 DEF LibraryInv
<1> QED  BY <1>3, <1>4 DEF ControlCreate

\* The program drops its last reference: the name stands for a connection.  The
\* Shutdown finds it and drops nothing else; if Shutdown makes another path of the
\* name than Create, no object is there.
LEMMA DisposeCalls ==
    ASSUME ControlInv, NEW s \in Programs, Dispose(s), device_name[s] # NoDevice
    PROVE  /\ device_name[s] \in Devices
           /\ \/ /\ ShutdownHeld(s, device_name[s])
                 /\ stranded' = stranded
              \/ /\ ShutdownUnknown(s, device_name[s])
                 /\ stranded' = [stranded EXCEPT ![s] = @ + 1]
<1> DEFINE d == device_name[s]
           p == CreatePath[d]
           q == ShutdownPath[d]
<1>1. d \in Devices /\ p \in ObjectPaths /\ d \in ShutdownArgs /\ q \in ObjectPaths
  BY ProgramsAssumption, DevicesAssumption DEF ControlInv, LibraryInv, LibraryTypeOK
<1>2. Of(HeldBy(s), p) # {}  BY DEF ControlInv, LibraryInv, Accounted
<1>3. HeldBy(s) \cap Entries(p) # {} /\ Entries(p) # {}
  BY <1>2, HeldEntries
<1>4. Shutdown(s, d)
  BY DEF Dispose, ShutdownRemembered
<1>5. stranded' = [stranded EXCEPT ![s] = IF reply'.result = "ok" THEN @ ELSE @ + 1]
  BY DEF Dispose, ShutdownRemembered
<1>6. CASE q = p
  <2>1. refs[p] > 0 /\ refs[p] # 0  BY <1>1, <1>3, RefsSplit DEF ControlInv
  <2>2. ~ShutdownUnknown(s, d)  BY <1>6, <2>1 DEF ShutdownUnknown
  <2>3. ~ShutdownForeign(s, d)  BY <1>3, <1>6 DEF ShutdownForeign
  <2>4. ShutdownHeld(s, d)  BY <1>4, <2>2, <2>3 DEF Shutdown
  <2>5. reply'.result = "ok"  BY <2>4 DEF ShutdownHeld, Reply
  <2>6. stranded' = stranded
    BY <1>5, <2>5 DEF ControlInv, LibraryInv, LibraryTypeOK
  <2> QED  BY <1>1, <2>4, <2>6
<1>7. CASE q # p
  <2>1. \A e \in Devices : q # CreatePath[e]  BY <1>1, <1>7, ProgramsAssumption
  <2>2. refs[q] = 0  BY <1>1, <2>1 DEF ControlInv, IInv, Registered
  <2>3. ~ShutdownHeld(s, d) /\ ~ShutdownForeign(s, d)
    BY <2>2 DEF ShutdownHeld, ShutdownForeign
  <2>4. ShutdownUnknown(s, d)  BY <1>4, <2>3 DEF Shutdown
  <2>5. reply'.result = "NO_CLIENT"  BY <2>4 DEF ShutdownUnknown, Reply
  <2> QED  BY <1>1, <1>5, <2>4, <2>5
<1> QED  BY <1>6, <1>7

LEMMA DisposeStep ==
    ASSUME ControlInv, NEW s \in Programs, Dispose(s)
    PROVE  LibraryInv'
<1>0. s \in Senders /\ Devices \subseteq ShutdownArgs /\ FiniteTypeOK
  BY ProgramsAssumption DEF ControlInv, IInv
<1>1. LibraryInv /\ LibraryTypeOK  BY DEF ControlInv, LibraryInv
<1>2. /\ control' = [control EXCEPT ![s] = 0]
      /\ device_name' = [device_name EXCEPT ![s] = NoDevice]
      /\ forgotten' = forgotten
  BY DEF Dispose
<1>3. /\ control' \in [Programs -> 0 .. MaxRefs]
      /\ device_name' \in [Programs -> Devices \cup {NoDevice}]
      /\ forgotten' \in [Programs -> Nat]
      /\ forgotten[s] \in Nat /\ stranded[s] \in Nat
      /\ device_name'[s] = NoDevice
  BY <1>1, <1>2, ProgramsAssumption DEF LibraryTypeOK
<1>4. CASE device_name[s] = NoDevice
  <2>1. UNCHANGED <<connections, stranded>>
    BY <1>4 DEF Dispose, ShutdownRemembered, vars
  <2>2. device_name' = device_name  BY <1>1, <1>2, <1>4 DEF LibraryTypeOK
  <2> QED  BY <1>1, <1>2, <1>3, <2>1, <2>2, QuietStep
<1>5. ASSUME device_name[s] # NoDevice,
             \A t : t # s => HeldBy(t)' = HeldBy(t),
             stranded' \in [Programs -> Nat],
             \A t \in Programs : t # s => stranded'[t] = stranded[t],
             Cardinality(HeldBy(s)') = forgotten[s] + stranded'[s]
      PROVE  LibraryInv'
  <2>1. LibraryTypeOK'  BY <1>3, <1>5 DEF LibraryTypeOK
  <2>2. Accounted(s)'
    <3>1. Cardinality(HeldBy(s))' = forgotten'[s] + stranded'[s] + 0
      <4>1. stranded'[s] \in Nat  BY <1>5
      <4> QED  BY <1>2, <1>3, <1>5, <4>1
    <3> QED  BY <1>3, <3>1 DEF Accounted
  <2>3. ASSUME NEW t \in Programs, t # s PROVE Accounted(t)'
    <3>1. /\ device_name'[t] = device_name[t]
          /\ forgotten'[t] = forgotten[t] /\ stranded'[t] = stranded[t]
      BY <1>1, <1>2, <1>5, <2>3 DEF LibraryTypeOK
    <3> QED  BY <1>1, <1>5, <2>3, <3>1, Untouched DEF LibraryInv
  <2> QED  BY <2>1, <2>2, <2>3 DEF LibraryInv
<1>6. CASE device_name[s] # NoDevice
  <2>0. Cardinality(HeldBy(s)) = forgotten[s] + stranded[s] + 1
    BY <1>1, <1>6 DEF LibraryInv, Accounted
  <2>1. CASE ShutdownHeld(s, device_name[s]) /\ stranded' = stranded
    <3>1. /\ \A t : t # s => HeldBy(t)' = HeldBy(t)
          /\ Cardinality(HeldBy(s)') = Cardinality(HeldBy(s)) - 1
      BY <1>0, <1>6, <2>1, DisposeCalls, ShutdownHolds
    <3>2. Cardinality(HeldBy(s)') = forgotten[s] + stranded'[s]
      BY <1>3, <2>0, <2>1, <3>1
    <3>3. stranded' \in [Programs -> Nat]  BY <1>1, <2>1 DEF LibraryTypeOK
    <3> QED  BY <1>5, <1>6, <2>1, <3>1, <3>2, <3>3
  <2>2. CASE /\ ShutdownUnknown(s, device_name[s])
             /\ stranded' = [stranded EXCEPT ![s] = @ + 1]
    <3>1. \A t : HeldBy(t)' = HeldBy(t)  BY <2>2, HeldSame DEF ShutdownUnknown
    <3>2. /\ stranded' \in [Programs -> Nat]
          /\ stranded'[s] = stranded[s] + 1
          /\ \A t \in Programs : t # s => stranded'[t] = stranded[t]
      BY <1>1, <2>2 DEF LibraryTypeOK
    <3>3. Cardinality(HeldBy(s)') = forgotten[s] + stranded'[s]
      BY <1>3, <2>0, <3>1, <3>2
    <3> QED  BY <1>5, <1>6, <3>1, <3>2, <3>3
  <2> QED  BY <1>6, <2>1, <2>2, DisposeCalls
<1> QED  BY <1>4, <1>6

LEMMA ExitStep ==
    ASSUME ControlInv, NEW s \in Programs, Exit(s)
    PROVE  LibraryInv'
<1>0. s \in Senders  BY ProgramsAssumption
<1>1. LibraryInv /\ LibraryTypeOK  BY DEF ControlInv, LibraryInv
<1>2. /\ control' = [control EXCEPT ![s] = 0]
      /\ device_name' = [device_name EXCEPT ![s] = NoDevice]
      /\ forgotten' = [forgotten EXCEPT ![s] = 0]
      /\ stranded' = [stranded EXCEPT ![s] = 0]
  BY DEF Exit
<1>3. 0 \in 0 .. MaxRefs  BY ProgramsAssumption
<1>4. LibraryTypeOK'  BY <1>1, <1>2, <1>3 DEF LibraryTypeOK
<1>5. /\ HeldBy(s)' = {}
      /\ \A t : t # s => HeldBy(t)' = HeldBy(t)
  <2>1. CASE HeldBy(s) = {}
    <3>1. UNCHANGED connections  BY <2>1 DEF Exit, vars
    <3> QED  BY <2>1, <3>1, HeldSame
  <2>2. CASE HeldBy(s) # {}
    <3>1. RemoveClients(s)  BY <2>2 DEF Exit
    <3> QED  BY <1>0, <3>1, RemoveHolds
  <2> QED  BY <2>1, <2>2
<1>6. Accounted(s)'
  <2>1. device_name'[s] = NoDevice /\ forgotten'[s] = 0 /\ stranded'[s] = 0
    BY <1>1, <1>2 DEF LibraryTypeOK
  <2>2. Cardinality(HeldBy(s)') = 0  BY <1>5, FS_EmptySet
  <2> QED  BY <2>1, <2>2 DEF Accounted
<1>7. ASSUME NEW t \in Programs, t # s PROVE Accounted(t)'
  <2>1. /\ device_name'[t] = device_name[t]
        /\ forgotten'[t] = forgotten[t] /\ stranded'[t] = stranded[t]
    BY <1>1, <1>2, <1>7 DEF LibraryTypeOK
  <2> QED  BY <1>1, <1>5, <1>7, <2>1, Untouched DEF LibraryInv
<1> QED  BY <1>1, <1>4, <1>5, <1>6, <1>7 DEF LibraryInv

\* What a sender without the library does is no business of the programs.
LEMMA DirectStep ==
    ASSUME ControlInv, NEW s \in Senders \ Programs, Direct(s)
    PROVE  LibraryInv'
<1>1. LibraryInv /\ FiniteTypeOK  BY DEF ControlInv, IInv
<1>2. \A t : t # s => HeldBy(t)' = HeldBy(t)
  <2>1. ASSUME NEW d \in Devices, Create(s, d)
        PROVE  \A t : t # s => HeldBy(t)' = HeldBy(t)
    BY <1>1, <2>1, CreateHolds
  <2>2. ASSUME NEW d \in Devices, CreateRejected(s, d)
        PROVE  UNCHANGED connections
    BY <2>2 DEF CreateRejected
  <2>3. ASSUME NEW a \in ShutdownArgs, ShutdownUnknown(s, a) \/ ShutdownForeign(s, a)
        PROVE  UNCHANGED connections
    BY <2>3 DEF ShutdownUnknown, ShutdownForeign
  <2>4. ASSUME NEW a \in ShutdownArgs, ShutdownHeld(s, a)
        PROVE  \A t : t # s => HeldBy(t)' = HeldBy(t)
    BY <1>1, <2>4, ShutdownHolds
  <2>5. ASSUME RemoveClients(s)
        PROVE  \A t : t # s => HeldBy(t)' = HeldBy(t)
    BY <2>5, RemoveHolds
  <2> QED  BY <2>1, <2>2, <2>3, <2>4, <2>5, HeldSame DEF Direct, Shutdown
<1>3. UNCHANGED library  BY DEF Direct
<1>4. \A t \in Programs : Accounted(t)'
  BY <1>1, <1>2, <1>3, Untouched DEF LibraryInv, library
<1> QED  BY <1>1, <1>2, <1>3, <1>4 DEF LibraryInv, LibraryTypeOK, library

-----------------------------------------------------------------------------
\* A step of the composition is a step of the server or does not concern it.
LEMMA ServerStep == ControlInv /\ [ControlNext]_controlVars => [Next]_vars
<1> SUFFICES ASSUME ControlInv, [ControlNext]_controlVars PROVE [Next]_vars
  OBVIOUS
<1>0. Programs \subseteq Senders /\ Devices \subseteq ShutdownArgs  BY ProgramsAssumption
<1>1. ASSUME NEW s \in Programs, GetDefault(s) \/ UnrefShared(s) PROVE UNCHANGED vars
  BY <1>1 DEF GetDefault, UnrefShared
<1>2. ASSUME NEW s \in Programs, NEW d \in Devices, ControlCreate(s, d) PROVE Next
  BY <1>0, <1>2 DEF ControlCreate, Next
<1>3. ASSUME NEW s \in Programs, Dispose(s) PROVE [Next]_vars
  <2>1. CASE device_name[s] = NoDevice  BY <1>3, <2>1 DEF Dispose, ShutdownRemembered
  <2>2. CASE device_name[s] # NoDevice
    BY <1>0, <1>3, <2>2, DisposeCalls DEF Next
  <2> QED  BY <2>1, <2>2
<1>4. ASSUME NEW s \in Programs, Exit(s) PROVE [Next]_vars
  BY <1>0, <1>4 DEF Exit, Next
<1>5. ASSUME NEW s \in Senders, Direct(s) PROVE Next
  BY <1>5 DEF Direct, Shutdown, Next
<1>6. ASSUME Daemon PROVE Next  BY <1>6 DEF Daemon, Next
<1>7. CASE UNCHANGED controlVars  BY <1>7 DEF controlVars
<1> QED  BY <1>1, <1>2, <1>3, <1>4, <1>5, <1>6, <1>7 DEF ControlNext

LEMMA LibraryStep == ControlInv /\ [ControlNext]_controlVars => LibraryInv'
<1> SUFFICES ASSUME ControlInv, [ControlNext]_controlVars PROVE LibraryInv'
  OBVIOUS
<1>1. LibraryInv  BY DEF ControlInv
<1>2. control \in [Programs -> 0 .. MaxRefs]  BY <1>1 DEF LibraryInv, LibraryTypeOK
<1>3. ASSUME Daemon PROVE LibraryInv'
  <2>1. UNCHANGED <<connections, foreign, library>>  BY <1>3, DaemonStep
  <2> QED  BY <1>1, <1>2, <2>1, QuietStep DEF library
<1>4. CASE UNCHANGED controlVars
  <2>1. UNCHANGED <<connections, foreign, library>>  BY <1>4 DEF controlVars, vars
  <2> QED  BY <1>1, <1>2, <2>1, QuietStep DEF library
<1> QED
  BY <1>1, <1>3, <1>4, RefsStepOfLibrary, CreateStep, DisposeStep, ExitStep, DirectStep
     DEF ControlNext

LEMMA ControlInvInit == ControlInit => ControlInv
<1> SUFFICES ASSUME ControlInit PROVE ControlInv
  OBVIOUS
<1>1. IInv  BY IInvInit DEF ControlInit
<1>2. LibraryTypeOK  BY ProgramsAssumption DEF ControlInit, LibraryTypeOK
<1>3. connections = {}  BY DEF ControlInit, Init
<1>4. ASSUME NEW s \in Programs PROVE Accounted(s)
  <2>1. HeldBy(s) = {}  BY <1>3 DEF HeldBy
  <2>2. Cardinality(HeldBy(s)) = 0  BY <2>1, FS_EmptySet
  <2>3. device_name[s] = NoDevice /\ forgotten[s] = 0 /\ stranded[s] = 0
    BY DEF ControlInit
  <2> QED  BY <2>2, <2>3 DEF Accounted
<1> QED  BY <1>1, <1>2, <1>3, <1>4 DEF ControlInv, LibraryInv

LEMMA ControlInductive == ControlSpec => []ControlInv
<1>1. ControlInv /\ [ControlNext]_controlVars => ControlInv'
  <2> SUFFICES ASSUME ControlInv, [ControlNext]_controlVars PROVE ControlInv'
    OBVIOUS
  <2>1. LibraryInv'  BY LibraryStep
  <2>2. IInv'  BY ServerStep, IInvStep DEF ControlInv
  <2> QED  BY <2>1, <2>2 DEF ControlInv
<1> QED  BY <1>1, ControlInvInit, PTL DEF ControlSpec

\* The types of what the library and the server keep.
THEOREM ControlTypeCorrect == ControlSpec => []ControlTypeOK
BY ControlInductive, ControlInvImplies, PTL

\* Only a sender without the library makes a Shutdown of what it does not hold.
LEMMA ForeignStep ==
    ASSUME ControlInv, [ControlNext]_controlVars
    PROVE  \/ foreign' = foreign
           \/ \E s \in Senders \ Programs : reply'.sender = s
<1>0. Programs \subseteq Senders /\ Devices \subseteq ShutdownArgs  BY ProgramsAssumption
<1>1. ASSUME NEW s \in Senders, NEW d \in Devices, Create(s, d) \/ CreateRejected(s, d)
      PROVE  foreign' = foreign
  BY <1>1 DEF Create, CreateRejected
<1>2. ASSUME NEW s \in Senders, NEW a \in ShutdownArgs,
             ShutdownUnknown(s, a) \/ ShutdownHeld(s, a)
      PROVE  foreign' = foreign
  BY <1>2 DEF ShutdownUnknown, ShutdownHeld
<1>3. ASSUME NEW s \in Senders, NEW a \in ShutdownArgs, ShutdownForeign(s, a)
      PROVE  reply'.sender = s
  BY <1>3 DEF ShutdownForeign, Reply
<1>4. ASSUME NEW s \in Senders, RemoveClients(s)
      PROVE  foreign' = foreign
  BY <1>4 DEF RemoveClients
<1>5. ASSUME NEW s \in Programs, GetDefault(s) \/ UnrefShared(s)
      PROVE  foreign' = foreign
  BY <1>5 DEF GetDefault, UnrefShared, vars
<1>6. ASSUME NEW s \in Programs, NEW d \in Devices, ControlCreate(s, d)
      PROVE  foreign' = foreign
  BY <1>0, <1>1, <1>6 DEF ControlCreate
<1>7. ASSUME NEW s \in Programs, Dispose(s)
      PROVE  foreign' = foreign
  <2>1. CASE device_name[s] = NoDevice
    BY <1>7, <2>1 DEF Dispose, ShutdownRemembered, vars
  <2>2. CASE device_name[s] # NoDevice
    BY <1>0, <1>2, <1>7, <2>2, DisposeCalls
  <2> QED  BY <2>1, <2>2
<1>8. ASSUME NEW s \in Programs, Exit(s)
      PROVE  foreign' = foreign
  BY <1>0, <1>4, <1>8 DEF Exit, vars
<1>9. ASSUME NEW s \in Senders \ Programs, Direct(s)
      PROVE  foreign' = foreign \/ reply'.sender = s
  BY <1>1, <1>2, <1>3, <1>4, <1>9 DEF Direct, Shutdown
<1>10. ASSUME Daemon \/ UNCHANGED controlVars
       PROVE  foreign' = foreign
  BY <1>10, DaemonStep DEF controlVars, vars
<1> QED  BY <1>5, <1>6, <1>7, <1>8, <1>9, <1>10 DEF ControlNext

\* However programs create, take and drop references, dispose, exit and mix with
\* senders that do without the library, the name a program remembers stands for a
\* connection of its own, and no Shutdown of dispose takes one from the count of
\* the server that the program does not hold; for every way Shutdown may spell a
\* device differently from Create.
THEOREM ShutdownsAreOwn == ControlSpec => OnlyOwnShutdowns
<1>1. ControlInv /\ [ControlNext]_controlVars
         => [foreign' # foreign => reply'.sender \notin Programs]_controlVars
  BY ForeignStep
<1> QED
  BY <1>1, ControlInductive, ControlInvImplies, PTL
     DEF ControlSpec, OnlyOwnShutdowns, NamesAreHeld

\* The connections of a program are what its library remembers, the names it wrote
\* over, and the devices whose Shutdown found no object.
THEOREM LibraryIsAccounted == ControlSpec => []LibraryAccounts
BY ControlInductive, ControlInvImplies, PTL

\* When every sender uses the library, the daemon neither stops nor is about to stop
\* while one of them holds an object.
THEOREM ServesItsPrograms ==
    ASSUME Programs = Senders
    PROVE  ControlSpec => [](connections # {} => running /\ ~terminate_id)
<1>1. ControlInit => foreign = 0  BY DEF ControlInit, Init
<1>2. ControlInv /\ [ControlNext]_controlVars => foreign' = foreign
  BY ForeignStep
<1>3. ControlSpec => [](foreign = 0)
  <2>1. foreign = 0 /\ foreign' = foreign => (foreign = 0)'  OBVIOUS
  <2> QED  BY <1>1, <1>2, <2>1, ControlInductive, PTL DEF ControlSpec
<1>4. ControlInv /\ foreign = 0 => (connections # {} => running /\ ~terminate_id)
  BY DEF ControlInv, IInv, TimerInv, NeverQuitsUnderClient
<1> QED  BY <1>3, <1>4, ControlInductive, PTL

\* Programs with and without the library together are clients of the lease table of
\* ClientLease.
THEOREM LibraryImplementsLease == ControlSpec => ServerImplementsLease
<1>1. ControlInv => IInv  BY DEF ControlInv
<1>2. ControlInv /\ ControlInv' /\ [ControlNext]_controlVars
         => [Lease!LeaseNext]_(Lease!leaseVars)
  BY ServerStep, LeaseStep DEF ControlInv, Lease!leaseVars, heldBar, liveBar, stoppedBar
<1>3. ControlInit => Lease!LeaseInit  BY LeaseStart DEF ControlInit
<1> QED
  BY <1>2, <1>3, ControlInductive, PTL
     DEF ControlSpec, ServerImplementsLease, Lease!LeaseSpec
=============================================================================
