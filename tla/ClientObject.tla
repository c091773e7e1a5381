---------------------------- MODULE ClientObject ----------------------------
(***************************************************************************)
(* The whole life of a Client object: the server makes it and counts who     *)
(* holds it (GypsyServer), programs start and stop it and the device hangs   *)
(* up (ClientConnection), and a parser holds references on it too            *)
(* (src/src/gypsy-parser.c).  The two modules are put together here: their    *)
(* actions are conjoined where one callback does both, and the references of *)
(* the parser follow the parser of the connection.                           *)
(***************************************************************************)
EXTENDS ClientConnection, Integers, FiniteSets

CONSTANTS
    Senders, Devices, ShutdownArgs, ObjectPaths, CreatePath, ShutdownPath,
    Allowed, Garmin, NoAutoTerminate, Nodes, NoDevice, MaxForeign, MaxLeaks,
    Path       \* the object looked at; those on other paths are not started

\* Only a device that may be recognised as a Garmin is probed for one.
ASSUME PathAssumption ==
    /\ Path \in ObjectPaths
    /\ CreatePath \in [Devices -> ObjectPaths]
    /\ ShutdownPath \in [ShutdownArgs -> ObjectPaths]
    /\ "usb0" \in DeviceKinds => {d \in Allowed : CreatePath[d] = Path} \subseteq Garmin

VARIABLES connections, client_count, terminate_id, running, refs, device,
          leaked, answer, foreign, idle

serverVars == <<connections, client_count, terminate_id, running, refs, device,
                leaked, answer, foreign, idle>>

Server == INSTANCE GypsyServer WITH
    parser <- [p \in ObjectPaths |-> p = Path /\ parser # "none"],
    reply <- answer

Alive == refs[Path] > 0

ObjectInit == Init /\ Server!Init

-----------------------------------------------------------------------------
(* The calls of the server.  A new object is told its device path, and what   *)
(* is there shows when it is opened.                                        *)

NewObject ==
    /\ kind' \in DeviceKinds
    /\ fd' = "none"
    /\ type' = "UNKNOWN"
    /\ channel' = FALSE
    /\ debug_log' = FALSE
    /\ error_id' = FALSE
    /\ connect_id' = FALSE
    /\ input_id' = FALSE
    /\ parser' = "none"
    /\ baudrate' = NoBaudRate
    /\ termios' = NoBaudRate
    /\ signalled' = "none"
    /\ reply' = NoReply

\* Mutant: the object is freed and its connection is not shut down.
FreeOnly == UNCHANGED vars

\* The object is gone, and with it what it signalled last.
Finalize ==
    /\ ShutdownConnection
    /\ signalled' = "none"
    /\ reply' = NoReply

CreateObject(s, d) ==
    /\ IF CreatePath[d] = Path /\ ~Alive THEN NewObject ELSE UNCHANGED vars
    /\ Server!Create(s, d)

Drop(n) == IF n > 0 /\ refs[Path] = n THEN Finalize ELSE UNCHANGED vars

ShutdownObject(s, a) ==
    /\ Drop(IF ShutdownPath[a] = Path THEN 1 ELSE 0)
    /\ Server!ShutdownHeld(s, a)

SenderLeaves(s) ==
    /\ Drop(Cardinality(Server!HeldBy(s) \cap Server!Entries(Path)))
    /\ Server!RemoveClients(s)

\* The calls and the timer that touch no object.
ServerOnly ==
    /\ UNCHANGED vars
    /\ \/ \E s \in Senders, d \in Devices : Server!CreateRejected(s, d)
       \/ \E s \in Senders, a \in ShutdownArgs :
             Server!ShutdownUnknown(s, a) \/ Server!ShutdownForeign(s, a)
       \/ Server!Terminate

-----------------------------------------------------------------------------
(* The methods of the object and the callbacks of its sources.  D-Bus holds a *)
(* reference on the object while it calls a method of it, so that Stop may    *)
(* drop the last other one; GLib holds none for a source.                    *)

References(n) ==
    /\ refs' = [refs EXCEPT ![Path] = @ + n]
    /\ device' = [device EXCEPT ![Path] = IF refs[Path] + n > 0 THEN @ ELSE NoDevice]
    /\ answer' = Server!NoReply
    /\ UNCHANGED <<connections, client_count, terminate_id, foreign, idle>>

\* Mutant: the parser is unreferenced though Start never made one.
UnrefAlways == References(-1) /\ UNCHANGED <<running, leaked>>

UnrefParser ==
    IF parser = "none" THEN UNCHANGED serverVars
    ELSE References(-1) /\ UNCHANGED <<running, leaked>>

MethodCall ==
    /\ running /\ Alive
    /\ \/ \E rate \in BaudRates : SetBaudRate(rate)
       \/ OtherStartOptions
       \/ Start
    /\ UNCHANGED serverVars

StopObject == running /\ Alive /\ Stop /\ UnrefParser

ConnectWithoutParser == running /\ ConnectProbeFails /\ UNCHANGED serverVars

ConnectToGarmin ==
    /\ running
    /\ ConnectGarmin
    /\ References(1)
    /\ UNCHANGED <<running, leaked>>

ConnectToNmea ==
    /\ running
    /\ leaked[Path] < MaxLeaks
    /\ ConnectNmea
    /\ References(2)
    /\ leaked' = [leaked EXCEPT ![Path] = @ + 1]
    /\ UNCHANGED running

HangUp ==
    /\ running
    /\ parser = "none" \/ refs[Path] > 1
    /\ ChannelError
    /\ UnrefParser

\* The parser had the last reference: the object is finalized in the middle of
\* shutdown_connection, which then runs within itself and drops the parser once
\* more.  What follows uses freed memory: the daemon dies of it or goes on.
HangUpFinalizes ==
    /\ running
    /\ error_id
    /\ parser # "none"
    /\ refs[Path] = 1
    /\ Finalize
    /\ References(-1)
    /\ running' \in BOOLEAN
    /\ UNCHANGED leaked

-----------------------------------------------------------------------------
ObjectNext ==
    \/ \E s \in Senders, d \in Devices : CreateObject(s, d)
    \/ \E s \in Senders, a \in ShutdownArgs : ShutdownObject(s, a)
    \/ \E s \in Senders : SenderLeaves(s)
    \/ ServerOnly
    \/ MethodCall
    \/ StopObject
    \/ ConnectWithoutParser
    \/ ConnectToGarmin
    \/ ConnectToNmea
    \/ HangUp
    \/ HangUpFinalizes

ObjectSpec == ObjectInit /\ [][ObjectNext]_<<vars, serverVars>>

-----------------------------------------------------------------------------
\* A device is open, and a source is installed whose callback is given the
\* object, only as long as the object exists: whoever drops the last reference,
\* a program, the server or the parser, at whatever point of a Start.
ResourcesAreOwned ==
    (Connected \/ channel \/ error_id \/ connect_id \/ input_id) => Alive

\* Starting, stopping and losing the device does to the references just what
\* the server's view of the object says (its ConnectNmea, ConnectGarmin and
\* DropParser), so that what holds for the server holds here.  The exception is
\* the hang-up of a device that only its Garmin parser still holds, of which
\* the daemon may die.
StepsOfServer ==
    Server!Init /\ [][Server!Next \/ (HangUpFinalizes /\ parser = "garmin")]_serverVars
=============================================================================
