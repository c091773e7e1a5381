---------------------------- MODULE GypsyServer ----------------------------
(***************************************************************************)
(* The Server object of the daemon (src/src/gypsy-server.c) and the part of *)
(* main.c that drives it.  D-Bus clients call Create and Shutdown with a    *)
(* device path; the server keeps, per D-Bus sender, a list of the Client    *)
(* objects the sender created, counts them, and arms a timer that stops the *)
(* daemon once the count returns to zero.                                   *)
(*                                                                         *)
(* A Client object is identified with the D-Bus object path it is           *)
(* registered on, and exists while its GObject reference count is positive. *)
(* The references a parser takes on its Client (gypsy-parser.c,             *)
(* gypsy-nmea-parser.c) are part of the model, because they decide when the *)
(* object really goes away.                                                 *)
(***************************************************************************)
EXTENDS Integers, FiniteSets

CONSTANTS
    Senders,         \* unique names on the system bus
    Devices,         \* device paths a caller may pass to Create
    ShutdownArgs,    \* D-Bus paths a caller may pass to Shutdown
    ObjectPaths,     \* D-Bus object paths of Client objects
    CreatePath,      \* base name of the device path, ':' replaced by '_'
    ShutdownPath,    \* base name of the argument of Shutdown
    Allowed,         \* device paths matching AllowedDeviceGlobs
    Garmin,          \* devices that may be recognised as a Garmin
    NoAutoTerminate, \* --no-auto-terminate was given on the command line
    Nodes,           \* list nodes: bounds the clients that can be held
    NoDevice,        \* the "device" of an object path with no object on it
    MaxForeign,      \* bound on Shutdowns by senders that hold nothing
    MaxLeaks         \* bound on leaked references per object

ASSUME DevicesAssumption ==
    /\ CreatePath \in [Devices -> ObjectPaths]
    /\ ShutdownPath \in [ShutdownArgs -> ObjectPaths]
    /\ Allowed \subseteq Devices
    /\ Garmin \subseteq Devices
    /\ NoDevice \notin Devices
    /\ NoAutoTerminate \in BOOLEAN
    /\ MaxForeign \in Nat
    /\ MaxLeaks \in Nat

VARIABLES
    connections,   \* the list nodes of all senders: who holds which object
    client_count,  \* GypsyServerPrivate.client_count
    terminate_id,  \* TRUE while the terminate timer is installed
    running,       \* the main loop runs
    refs,          \* GObject reference count per object path, 0: no object
    device,        \* the device path the object was created with
    parser,        \* the object has a live parser, which holds a reference
    leaked,        \* references taken by NMEA contexts and never dropped
    reply,         \* the D-Bus reply of the last step
    foreign,       \* history: Shutdowns by senders that did not hold the object
    idle           \* history: how the daemon came to hold nothing

vars == <<connections, client_count, terminate_id, running, refs, device,
          parser, leaked, reply, foreign, idle>>

objectVars  == <<refs, device, parser, leaked>>

Connection == [node : Nodes, sender : Senders, client : ObjectPaths]

NoReply == [op |-> "none"]
Call == [op : {"Create", "Shutdown"}, sender : Senders,
         arg : Devices \cup ShutdownArgs,
         result : {"ok", "BAD_PATH", "NO_CLIENT"}]
Reply(op, s, arg, result) ==
    [op |-> op, sender |-> s, arg |-> arg, result |-> result]

\* A G_OPTION_ARG_NONE entry stores TRUE when the option is given and leaves
\* the variable alone otherwise; main.c points it at auto_terminate = TRUE.
OptionArgNone(given, default) == IF given THEN TRUE ELSE default
auto_terminate == OptionArgNone(NoAutoTerminate, TRUE)

HeldBy(s) == {c \in connections : c.sender = s}
Entries(p) == {c \in connections : c.client = p}
FreeNodes == {n \in Nodes : \A c \in connections : c.node # n}

\* Removing the given list nodes: the history of an idle daemon.
IdleAfter(conns) == IF conns = {} THEN "drained" ELSE idle

TypeOK ==
    /\ connections \in SUBSET Connection
    /\ client_count \in Int
    /\ terminate_id \in BOOLEAN
    /\ running \in BOOLEAN
    /\ refs \in [ObjectPaths -> Int]
    /\ device \in [ObjectPaths -> Devices \cup {NoDevice}]
    /\ parser \in [ObjectPaths -> BOOLEAN]
    /\ leaked \in [ObjectPaths -> Nat]
    /\ reply \in Call \cup {NoReply}
    /\ foreign \in Nat
    /\ idle \in {"unheld", "held", "drained", "refused"}

Init ==
    /\ connections = {}
    /\ client_count = 0
    /\ terminate_id = FALSE
    /\ running = TRUE
    /\ refs = [p \in ObjectPaths |-> 0]
    /\ device = [p \in ObjectPaths |-> NoDevice]
    /\ parser = [p \in ObjectPaths |-> FALSE]
    /\ leaked = [p \in ObjectPaths |-> 0]
    /\ reply = NoReply
    /\ foreign = 0
    /\ idle = "unheld"

-----------------------------------------------------------------------------
(* gypsy_server_create.  The timer is cancelled before the path is checked. *)

\* Mutant: Create leaves the timer running.
KeepTimer == UNCHANGED terminate_id
CancelTimer == terminate_id' = FALSE

CreateRejected(s, d) ==
    /\ running
    /\ d \notin Allowed
    /\ CancelTimer
    /\ idle' = IF idle = "drained" THEN "refused" ELSE idle
    /\ reply' = Reply("Create", s, d, "BAD_PATH")
    /\ UNCHANGED <<connections, client_count, running, objectVars, foreign>>

\* Mutants: an object found on the path is not referenced again, or the new
\* object is given its object path for a device path.
RefNewOnly(p, d) ==
    /\ refs' = [refs EXCEPT ![p] = IF @ = 0 THEN 1 ELSE @]
    /\ device' = [device EXCEPT ![p] = IF refs[p] = 0 THEN d ELSE @]
    /\ UNCHANGED <<parser, leaked>>
RegisterPath(p, d) ==
    /\ refs' = [refs EXCEPT ![p] = @ + 1]
    /\ device' = [device EXCEPT ![p] = IF refs[p] = 0 THEN p ELSE @]
    /\ UNCHANGED <<parser, leaked>>

\* The object registered on the path, with one reference more, or a new one.
RefOrRegister(p, d) ==
    /\ refs' = [refs EXCEPT ![p] = @ + 1]
    /\ device' = [device EXCEPT ![p] = IF refs[p] = 0 THEN d ELSE @]
    /\ UNCHANGED <<parser, leaked>>

Create(s, d) ==
    /\ running
    /\ d \in Allowed
    /\ \E n \in FreeNodes :
          connections' = connections
              \cup {[node |-> n, sender |-> s, client |-> CreatePath[d]]}
    /\ CancelTimer
    /\ client_count' = client_count + 1
    /\ RefOrRegister(CreatePath[d], d)
    /\ idle' = "held"
    /\ reply' = Reply("Create", s, d, "ok")
    /\ UNCHANGED <<running, foreign>>

-----------------------------------------------------------------------------
(* gypsy_server_shutdown.  The count drops before ownership is looked at.   *)

\* Dropping k references; the last one finalizes the object, which takes it
\* off the bus (refs = 0).
Unref(p, k) ==
    /\ refs' = [refs EXCEPT ![p] = @ - k]
    /\ device' = [device EXCEPT ![p] = IF refs[p] - k > 0 THEN @ ELSE NoDevice]
    /\ UNCHANGED <<parser, leaked>>

ShutdownUnknown(s, a) ==
    /\ running
    /\ refs[ShutdownPath[a]] = 0
    /\ reply' = Reply("Shutdown", s, a, "NO_CLIENT")
    /\ UNCHANGED <<connections, client_count, terminate_id, running,
                   objectVars, foreign, idle>>

\* Mutants: the timer is armed one Shutdown late, or only the last Shutdown
\* counts.
ArmsLate ==
    /\ client_count' = client_count - 1
    /\ terminate_id' = (terminate_id \/ (client_count = 0 /\ auto_terminate))
CountsLastOnly ==
    /\ client_count' = IF client_count = 1 THEN 0 ELSE client_count
    /\ terminate_id' = (terminate_id \/ (client_count = 1 /\ auto_terminate))

DecrementCount ==
    /\ client_count' = client_count - 1
    /\ terminate_id' = (terminate_id \/ (client_count = 1 /\ auto_terminate))

ShutdownHeld(s, a) ==
    /\ running
    /\ refs[ShutdownPath[a]] > 0
    /\ DecrementCount
    /\ \E c \in HeldBy(s) \cap Entries(ShutdownPath[a]) :
          /\ connections' = connections \ {c}
          /\ idle' = IdleAfter(connections \ {c})
    /\ Unref(ShutdownPath[a], 1)
    /\ reply' = Reply("Shutdown", s, a, "ok")
    /\ UNCHANGED <<running, foreign>>

ShutdownForeign(s, a) ==
    /\ running
    /\ foreign < MaxForeign
    /\ refs[ShutdownPath[a]] > 0
    /\ HeldBy(s) \cap Entries(ShutdownPath[a]) = {}
    /\ DecrementCount
    /\ foreign' = foreign + 1
    /\ reply' = Reply("Shutdown", s, a, "ok")
    /\ UNCHANGED <<connections, running, objectVars, idle>>

-----------------------------------------------------------------------------
(* gypsy_server_remove_clients, called by name_owner_changed when a sender  *)
(* leaves the bus.  The loop arms the timer when the count passes zero.     *)

RemoveClients(s) ==
    /\ running
    /\ HeldBy(s) # {}
    /\ LET gone == HeldBy(s)
           of(p) == Cardinality(gone \cap Entries(p))
       IN /\ connections' = connections \ gone
          /\ client_count' = client_count - Cardinality(gone)
          /\ terminate_id' = (terminate_id
                                \/ client_count \in 1 .. Cardinality(gone))
          /\ refs' = [p \in ObjectPaths |-> refs[p] - of(p)]
          /\ device' = [p \in ObjectPaths |->
                          IF refs[p] - of(p) > 0 THEN device[p] ELSE NoDevice]
          /\ idle' = IdleAfter(connections \ gone)
    /\ reply' = NoReply
    /\ UNCHANGED <<running, parser, leaked, foreign>>

-----------------------------------------------------------------------------
(* gypsy_terminate: the timeout fires and main.c quits the main loop.       *)

Terminate ==
    /\ running
    /\ terminate_id
    /\ running' = FALSE
    /\ reply' = NoReply
    /\ UNCHANGED <<connections, client_count, terminate_id, objectVars,
                   foreign, idle>>

-----------------------------------------------------------------------------
(* The references of a parser.  Its construction takes one (the "client"    *)
(* property), an NMEA parser takes another one that nothing ever drops;     *)
(* shutdown_connection in the Client drops the parser and with it the first.*)

ConnectNmea(p) ==
    /\ running
    /\ refs[p] > 0
    /\ ~parser[p]
    /\ leaked[p] < MaxLeaks
    /\ parser' = [parser EXCEPT ![p] = TRUE]
    /\ refs' = [refs EXCEPT ![p] = @ + 2]
    /\ leaked' = [leaked EXCEPT ![p] = @ + 1]
    /\ reply' = NoReply
    /\ UNCHANGED <<connections, client_count, terminate_id, running, device,
                   foreign, idle>>

ConnectGarmin(p) ==
    /\ running
    /\ refs[p] > 0
    /\ ~parser[p]
    /\ device[p] \in Garmin
    /\ parser' = [parser EXCEPT ![p] = TRUE]
    /\ refs' = [refs EXCEPT ![p] = @ + 1]
    /\ reply' = NoReply
    /\ UNCHANGED <<connections, client_count, terminate_id, running, device,
                   leaked, foreign, idle>>

DropParser(p) ==
    /\ running
    /\ parser[p]
    /\ parser' = [parser EXCEPT ![p] = FALSE]
    /\ refs' = [refs EXCEPT ![p] = @ - 1]
    /\ device' = [device EXCEPT ![p] = IF refs[p] > 1 THEN @ ELSE NoDevice]
    /\ reply' = NoReply
    /\ UNCHANGED <<connections, client_count, terminate_id, running, leaked,
                   foreign, idle>>

-----------------------------------------------------------------------------
Next ==
    \/ \E s \in Senders, d \in Devices :
          \/ CreateRejected(s, d)
          \/ Create(s, d)
    \/ \E s \in Senders, a \in ShutdownArgs :
          \/ ShutdownUnknown(s, a)
          \/ ShutdownHeld(s, a)
          \/ ShutdownForeign(s, a)
    \/ \E s \in Senders : RemoveClients(s)
    \/ Terminate
    \/ \E p \in ObjectPaths :
          \/ ConnectNmea(p)
          \/ ConnectGarmin(p)
          \/ DropParser(p)

Spec == Init /\ [][Next]_vars

-----------------------------------------------------------------------------
(* Safety.                                                                  *)

ParserRef(p) == IF parser[p] THEN 1 ELSE 0

\* Every reference on a Client object is owned: by a list node, by the live
\* parser, or by a leaked NMEA context.  The g_object_ref of a second Create,
\* the unrefs of Shutdown and of a vanished sender, and the parser's own
\* references have to match one to one for this.
RefsAccounted ==
    \A p \in ObjectPaths :
        refs[p] = Cardinality(Entries(p)) + ParserRef(p) + leaked[p]

\* "When one client calls shutdown we won't destroy another client's object":
\* whatever others do, an object some sender holds is alive, and still drives
\* a device.
HeldObjectsAlive ==
    \A c \in connections : refs[c.client] > 0 /\ device[c.client] # NoDevice

\* An object drives the device it was created with as long as it exists.
ObjectHasDevice == \A p \in ObjectPaths : refs[p] > 0 => device[p] # NoDevice

\* client_count is the number of connections held, but for the Shutdowns of
\* senders that did not hold the object, each of which loses one for good.
CountTracksConnections == client_count + foreign = Cardinality(connections)

\* As long as senders only shut down what they hold, the daemon never stops
\* under a client: the timer is not even installed while one is connected.
NeverQuitsUnderClient ==
    (foreign = 0 /\ connections # {}) => (running /\ ~terminate_id)

\* Once the last connection is released the timer is installed and stays so
\* until a Create, unless a Create was refused meanwhile (which cancels the
\* timer and does not install it again).
IdleIsArmed ==
    (foreign = 0 /\ idle = "drained") => (connections = {} /\ terminate_id)

\* The daemon stops only after the last connection closes.
QuitsOnlyAfterLastClose == ~running => connections = {}

\* "Don't terminate after last connection closes": with --no-auto-terminate the
\* daemon is not stopped by its timer (main.c:140).
StaysOnRequest == NoAutoTerminate => running

(* Liveness. *)

\* Without --no-auto-terminate: after the last connection is released the daemon
\* stops, or a Create call (served or refused) has reached it meanwhile.
DrainedQuits ==
    (~NoAutoTerminate /\ foreign = 0 /\ idle = "drained") ~> (~running \/ idle # "drained")

-----------------------------------------------------------------------------
(* Refinement.  To its D-Bus clients the server is a table of leases.       *)

Lease == INSTANCE ClientLease WITH
    held <- [s \in Senders |-> {c.client : c \in HeldBy(s)}],
    live <- {p \in ObjectPaths : refs[p] > 0},
    stopped <- ~running /\ foreign = 0

\* The server implements the lease table: an object stays while somebody leases
\* it, only its own sender gives a lease up, and the daemon stops when none is
\* left.  A Shutdown of what the sender does not hold takes no lease from
\* anybody, but the promise when the daemon stops is void from there on.
ServerImplementsLease == Lease!LeaseSpec
=============================================================================
