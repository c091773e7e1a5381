---------------------------- MODULE GypsyControl ----------------------------
(***************************************************************************)
(* Programs and the server.  A program either calls the Server object over   *)
(* D-Bus itself, or uses the GypsyControl object of the library              *)
(* (src/gypsy/gypsy-control.c): a singleton of the program that forwards      *)
(* Create, remembers the device, and shuts it down when its last reference is *)
(* dropped.  It remembers one device.                                       *)
(***************************************************************************)
EXTENDS GypsyServer

CONSTANTS
    Programs,    \* the senders that use the library
    MaxRefs      \* bound: references a program takes on its GypsyControl

\* Create and Shutdown both take the base name of the device path, and the library
\* passes the same device path to both.  But only Create writes '_' for ':' (lines
\* 167 and 214 of gypsy-server.c): what Shutdown makes of a Bluetooth address has
\* its colons, and no object is ever registered on such a path.
ASSUME ProgramsAssumption ==
    /\ Programs \subseteq Senders
    /\ MaxRefs \in Nat
    /\ Devices \subseteq ShutdownArgs
    /\ \A d \in Devices : \/ ShutdownPath[d] = CreatePath[d]
                           \/ \A e \in Devices : ShutdownPath[d] # CreatePath[e]

VARIABLES
    control,       \* references on the GypsyControl of a program, 0: none
    device_name,   \* GypsyControlPrivate.device_name, NoDevice is NULL
    forgotten,     \* history: devices whose name was written over
    stranded       \* history: devices whose Shutdown found no object

library == <<control, device_name, forgotten, stranded>>
controlVars == <<vars, library>>

ControlTypeOK ==
    /\ TypeOK
    /\ control \in [Programs -> 0 .. MaxRefs]
    /\ device_name \in [Programs -> Devices \cup {NoDevice}]
    /\ forgotten \in [Programs -> Nat]
    /\ stranded \in [Programs -> Nat]

ControlInit ==
    /\ Init
    /\ control = [s \in Programs |-> 0]
    /\ device_name = [s \in Programs |-> NoDevice]
    /\ forgotten = [s \in Programs |-> 0]
    /\ stranded = [s \in Programs |-> 0]

-----------------------------------------------------------------------------
\* gypsy_control_get_default: the first call makes the object.
GetDefault(s) ==
    /\ control[s] < MaxRefs
    /\ control' = [control EXCEPT ![s] = @ + 1]
    /\ UNCHANGED <<vars, device_name, forgotten, stranded>>

\* Mutant: the name is stored even when the server refused.
RememberAlways(s, d) ==
    /\ device_name' = [device_name EXCEPT ![s] = d]
    /\ forgotten' = [forgotten EXCEPT
                       ![s] = IF device_name[s] # NoDevice THEN @ + 1 ELSE @]

\* A name that was there is written over, and leaks.
Remember(s, d) ==
    IF reply'.result = "ok"
      THEN /\ device_name' = [device_name EXCEPT ![s] = d]
           /\ forgotten' = [forgotten EXCEPT
                              ![s] = IF device_name[s] # NoDevice THEN @ + 1 ELSE @]
      ELSE UNCHANGED <<device_name, forgotten>>

\* gypsy_control_create.
ControlCreate(s, d) ==
    /\ control[s] > 0
    /\ Create(s, d) \/ CreateRejected(s, d)
    /\ Remember(s, d)
    /\ UNCHANGED <<control, stranded>>

UnrefShared(s) ==
    /\ control[s] > 1
    /\ control' = [control EXCEPT ![s] = @ - 1]
    /\ UNCHANGED <<vars, device_name, forgotten, stranded>>

Shutdown(s, a) == ShutdownUnknown(s, a) \/ ShutdownHeld(s, a) \/ ShutdownForeign(s, a)

\* What dispose does with the name: the reply is not looked at.
ShutdownRemembered(s) ==
    IF device_name[s] = NoDevice
      THEN UNCHANGED <<vars, stranded>>
      ELSE /\ Shutdown(s, device_name[s])
           /\ stranded' = [stranded EXCEPT ![s] = IF reply'.result = "ok" THEN @ ELSE @ + 1]

\* Mutant: dispose may run again and finds the name still there.
DisposeAgain(s) ==
    /\ control[s] = 1
    /\ ShutdownRemembered(s)
    /\ control' = [control EXCEPT ![s] = 0]
    /\ UNCHANGED <<device_name, forgotten>>

\* dispose: the device whose name is there is shut down.
Dispose(s) ==
    /\ control[s] = 1
    /\ ShutdownRemembered(s)
    /\ control' = [control EXCEPT ![s] = 0]
    /\ device_name' = [device_name EXCEPT ![s] = NoDevice]
    /\ UNCHANGED forgotten

\* The program ends; the bus tells the server, if it has anything of it.
Exit(s) ==
    /\ IF HeldBy(s) = {} THEN UNCHANGED vars ELSE RemoveClients(s)
    /\ control' = [control EXCEPT ![s] = 0]
    /\ device_name' = [device_name EXCEPT ![s] = NoDevice]
    /\ forgotten' = [forgotten EXCEPT ![s] = 0]
    /\ stranded' = [stranded EXCEPT ![s] = 0]

-----------------------------------------------------------------------------
\* A program without the library, which may shut down what it does not hold.
Direct(s) ==
    /\ \/ \E d \in Devices : Create(s, d) \/ CreateRejected(s, d)
       \/ \E a \in ShutdownArgs : Shutdown(s, a)
       \/ RemoveClients(s)
    /\ UNCHANGED library

Daemon ==
    /\ \/ Terminate
       \/ \E p \in ObjectPaths : ConnectNmea(p) \/ ConnectGarmin(p) \/ DropParser(p)
    /\ UNCHANGED library

ControlNext ==
    \/ \E s \in Programs :
          \/ GetDefault(s)
          \/ \E d \in Devices : ControlCreate(s, d)
          \/ UnrefShared(s)
          \/ Dispose(s)
          \/ Exit(s)
    \/ \E s \in Senders \ Programs : Direct(s)
    \/ Daemon

\* The timer is dispatched once it has expired; nobody has to call anything.
ControlSpec ==
    /\ ControlInit
    /\ [][ControlNext]_controlVars
    /\ WF_controlVars(Terminate /\ UNCHANGED library)

-----------------------------------------------------------------------------
\* The library never shuts down what the program does not hold, which would take
\* one from the count of the server for good: however creates, references and
\* exits of several programs interleave, the name stands for a connection, and
\* the Shutdowns that do take one are of programs without the library.
OnlyOwnShutdowns ==
    /\ [](\A s \in Programs : device_name[s] # NoDevice =>
             HeldBy(s) \cap Entries(CreatePath[device_name[s]]) # {})
    /\ [][foreign' # foreign => reply'.sender \notin Programs]_controlVars

\* What a program holds is the device the library remembers, one more for every
\* name that was written over, and one more for every Bluetooth device that was
\* disposed of, because its Shutdown finds no object: those stay until the
\* program ends, although "when this object is finalized, the remote object on
\* the server will be shutdown" (gypsy-control.c:229-232).
LibraryAccounts ==
    \A s \in Programs :
        Cardinality(HeldBy(s)) = forgotten[s] + stranded[s]
                                    + IF device_name[s] = NoDevice THEN 0 ELSE 1
=============================================================================
