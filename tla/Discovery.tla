------------------------------ MODULE Discovery ------------------------------
(***************************************************************************)
(* The discovery object (src/src/gypsy-discovery.c) keeps a list of the GPS  *)
(* devices that are plugged in.  It starts to watch udev, then asks udev for  *)
(* the devices there are, then lists the Bluetooth ones, and from then on     *)
(* follows the udev events and tells a listener of each change.              *)
(*                                                                         *)
(* udev runs on its own: an event may be handled when its device is gone     *)
(* again, or another one has its name, and what the daemon then sees of the   *)
(* device and its parents may be old, or nothing.                            *)
(***************************************************************************)
EXTENDS Integers, Sequences, SequencesExt, FiniteSets

CONSTANTS
    Names,        \* device files of ttys
    Addresses,    \* of the Bluetooth devices that are known to the adapter
    MaxPlugs      \* bound: devices plugged in while the model runs

ASSUME NamesAssumption ==
    /\ IsFiniteSet(Names) /\ IsFiniteSet(Addresses)
    /\ Names \cap Addresses = {}
    /\ MaxPlugs \in Nat

\* A product of the known_ids, any other one, and none.
Products == {"gps", "other"}
Views == Products \cup {"none"}

VARIABLES
    plugged,         \* what is behind each device file
    events,          \* udev events that were not handled yet
    positioning,     \* the Bluetooth devices whose class says they are GPSs
    phase,           \* how far gypsy_discovery_init is: query, udev, running
    todo,            \* devices the query returned that were not looked at yet
    known_devices,   \* the list, each entry a path and a type
    wire,            \* messages to the listener
    heard,           \* the paths the listener knows, once it has asked
    asked,           \* whether it has called ListDevices: no, sent, yes
    plugs,           \* bound
    obscured         \* history: names whose events came out of order or blank

world == <<plugged, events, positioning, plugs>>
daemon == <<phase, todo, known_devices>>
listener == <<wire, heard, asked>>
vars == <<world, daemon, listener, obscured>>

Devices == [name : Names, product : Products]
Events == [action : {"add", "remove"}, device : Devices]
Entries == (Names \X {"usb"}) \cup (Addresses \X {"bluetooth"})
Paths == Names \cup Addresses

TypeOK ==
    /\ plugged \in [Names -> Views]
    /\ events \in Seq(Events)
    /\ positioning \subseteq Addresses
    /\ phase \in {"query", "udev", "running"}
    /\ todo \subseteq Devices
    /\ known_devices \in Seq(Entries)
    /\ \A i \in DOMAIN wire :
         \/ wire[i][1] = "list" /\ wire[i][2] \in SUBSET Paths
         \/ wire[i][1] \in {"DeviceAdded", "DeviceRemoved"} /\ wire[i][2] \in Names
    /\ heard \subseteq Paths
    /\ asked \in {"no", "sent", "yes"}
    /\ plugs \in 0 .. MaxPlugs
    /\ obscured \subseteq Names

\* The watch on udev is set up and nothing else.
Init ==
    /\ plugged \in [Names -> Views]
    /\ events = << >>
    /\ positioning \in SUBSET Addresses
    /\ phase = "query"
    /\ todo = {}
    /\ known_devices = << >>
    /\ wire = << >>
    /\ heard = {}
    /\ asked = "no"
    /\ plugs = 0
    /\ obscured = {}

-----------------------------------------------------------------------------
(* The devices.                                                            *)

Device(n, p) == [name |-> n, product |-> p]

\* A device that comes before the query is both queried and announced, and so is
\* one that takes the place of another that was queried.
Plug(n, p) ==
    /\ plugs < MaxPlugs
    /\ plugged[n] = "none"
    /\ plugs' = plugs + 1
    /\ plugged' = [plugged EXCEPT ![n] = p]
    /\ events' = Append(events, [action |-> "add", device |-> Device(n, p)])
    /\ obscured' = IF phase = "query" \/ (\E d \in todo : d.name = n)
                     THEN obscured \cup {n} ELSE obscured
    /\ UNCHANGED <<positioning, daemon, listener>>

Unplug(n) ==
    /\ plugged[n] # "none"
    /\ events' = Append(events, [action |-> "remove", device |-> Device(n, plugged[n])])
    /\ plugged' = [plugged EXCEPT ![n] = "none"]
    /\ UNCHANGED <<positioning, plugs, daemon, listener, obscured>>

-----------------------------------------------------------------------------
(* What the daemon sees of a device: the PRODUCT of the USB device among its   *)
(* parents ("often (only?) the USB port or hub rather than the device"), and  *)
(* the ID_ properties of the tty.                                           *)

StillThere(d, later) ==
    plugged[d.name] = d.product /\ \A i \in DOMAIN later : later[i].device.name # d.name

Seen(d, later) ==
    IF StillThere(d, later)
      THEN {[parent |-> d.product, ids |-> d.product]}
      ELSE [parent : {d.product, plugged[d.name], "other", "none"},
            ids : {d.product, "none"}]

\* maybe_add_device.
Known(seen) == seen.parent = "gps"

\* Mutant: the properties of the tty are not looked at.
RecognisedByParent(seen) == seen.parent = "gps"

\* maybe_remove_device: without a parent that has a PRODUCT it gives up.
Recognised(seen) ==
    \/ seen.parent = "gps"
    \/ seen.parent # "none" /\ seen.ids = "gps"

\* Nothing the daemon could look at says that this is a GPS.
Blank(seen) == seen.parent # "gps" /\ (seen.parent = "none" \/ seen.ids # "gps")

Listed(path) == \E i \in DOMAIN known_devices : known_devices[i][1] = path

\* Mutant: the entry in front of the device is removed.
RemoveBefore(list, name) ==
    LET at == SelectInSeq(list, LAMBDA entry : entry[1] = name)
    IN  IF at = 0 THEN list ELSE RemoveAt(list, IF at > 1 THEN at - 1 ELSE at)

\* remove_device_from_array: the first entry with that path.
RemoveFrom(list, name) ==
    LET at == SelectInSeq(list, LAMBDA entry : entry[1] = name)
    IN  IF at = 0 THEN list ELSE RemoveAt(list, at)

-----------------------------------------------------------------------------
(* gypsy_discovery_init.                                                    *)

\* g_udev_client_query_by_subsystem.
Query ==
    /\ phase = "query"
    /\ phase' = "udev"
    /\ todo' = {Device(n, plugged[n]) : n \in {m \in Names : plugged[m] # "none"}}
    /\ UNCHANGED <<world, known_devices, listener, obscured>>

\* One turn of the loop in add_known_udev_devices.
AddKnown(d) ==
    /\ d \in todo
    /\ todo' = todo \ {d}
    /\ \E seen \in Seen(d, << >>) :
         known_devices' = IF Known(seen) THEN Append(known_devices, <<d.name, "usb">>)
                          ELSE known_devices
    /\ UNCHANGED <<world, phase, listener, obscured>>

\* setup_bluetooth_discovery: the calls to BlueZ block, and the first that fails
\* ends it; what was found before stays.
SetupBluetooth ==
    /\ phase = "udev"
    /\ todo = {}
    /\ phase' = "running"
    /\ \E found \in SUBSET positioning :
         known_devices' = known_devices
             \o SetToSeq({<<a, "bluetooth">> : a \in found})
    /\ UNCHANGED <<world, todo, listener, obscured>>

-----------------------------------------------------------------------------
(* The main loop: uevent_occurred_cb and ListDevices.                        *)

Send(message) ==
    wire' = IF asked = "no" THEN wire ELSE Append(wire, message)

\* Mutant: the signal is sent for devices that are not known, too.
AddedAlways(d, seen) ==
    /\ known_devices' = IF Known(seen) THEN Append(known_devices, <<d.name, "usb">>)
                        ELSE known_devices
    /\ Send(<<"DeviceAdded", d.name>>)
    /\ UNCHANGED obscured

Added(d, seen) ==
    /\ IF Known(seen)
         THEN /\ known_devices' = Append(known_devices, <<d.name, "usb">>)
              /\ Send(<<"DeviceAdded", d.name>>)
         ELSE UNCHANGED <<known_devices, wire>>
    /\ UNCHANGED obscured

\* The signal is sent for a device that is not in the list, too.
Removed(d, seen) ==
    /\ IF Recognised(seen)
         THEN /\ known_devices' = RemoveFrom(known_devices, d.name)
              /\ Send(<<"DeviceRemoved", d.name>>)
         ELSE UNCHANGED <<known_devices, wire>>
    /\ obscured' = IF Blank(seen) /\ Listed(d.name) THEN obscured \cup {d.name}
                   ELSE obscured

HandleEvent ==
    /\ phase = "running"
    /\ events # << >>
    /\ events' = Tail(events)
    /\ LET event == Head(events)
       IN  \E seen \in Seen(event.device, Tail(events)) :
             IF event.action = "add" THEN Added(event.device, seen)
             ELSE Removed(event.device, seen)
    /\ UNCHANGED <<plugged, positioning, plugs, phase, todo, heard, asked>>

ListDevices ==
    /\ phase = "running"
    /\ asked = "sent"
    /\ \A i \in DOMAIN wire : wire[i][1] # "list"
    /\ wire' = Append(wire, <<"list", {known_devices[i][1] : i \in DOMAIN known_devices}>>)
    /\ UNCHANGED <<world, daemon, heard, asked, obscured>>

-----------------------------------------------------------------------------
(* A program that uses the library: it connects to the signals, asks for the   *)
(* list, and waits for the reply; signals that come first wait with it.       *)

Ask ==
    /\ asked = "no"
    /\ asked' = "sent"
    /\ UNCHANGED <<world, daemon, wire, heard, obscured>>

TakeReply ==
    \E i \in DOMAIN wire :
        /\ wire[i][1] = "list"
        /\ heard' = wire[i][2]
        /\ wire' = RemoveAt(wire, i)
        /\ asked' = "yes"
        /\ UNCHANGED <<world, daemon, obscured>>

TakeSignal ==
    /\ asked = "yes"
    /\ wire # << >>
    /\ wire' = Tail(wire)
    /\ heard' = IF Head(wire)[1] = "DeviceAdded" THEN heard \cup {Head(wire)[2]}
                ELSE heard \ {Head(wire)[2]}
    /\ UNCHANGED <<world, daemon, asked, obscured>>

-----------------------------------------------------------------------------
Change == \E n \in Names : (\E p \in Products : Plug(n, p)) \/ Unplug(n)

Start == Query \/ (\E d \in todo : AddKnown(d)) \/ SetupBluetooth

Listen == Ask \/ TakeReply \/ TakeSignal

Next == Change \/ Start \/ HandleEvent \/ ListDevices \/ Listen

Spec == Init /\ [][Next]_vars

\* The daemon and the program are scheduled; nobody has to plug anything.
FairSpec ==
    Spec /\ WF_vars(Start) /\ WF_vars(HandleEvent) /\ WF_vars(ListDevices) /\ WF_vars(Listen)

-----------------------------------------------------------------------------
Entry(path) == Cardinality({i \in DOMAIN known_devices : known_devices[i][1] = path})

\* When no event of a device file waits, it is in the list once if a GPS is behind
\* it and not at all otherwise, however the events, the query and the devices
\* raced; unless the device came just before the query or its removal was blank.
ListIsCurrent ==
    phase = "running" =>
        \A n \in Names \ obscured :
            (\A i \in DOMAIN events : events[i].device.name # n)
                => Entry(n) = IF plugged[n] = "gps" THEN 1 ELSE 0

\* Bluetooth devices are listed at the start, and no udev event touches them.
BluetoothStays ==
    [][phase = "running" => \A a \in Addresses : Listed(a)' = Listed(a)]_vars

\* A program that asked for the list and follows the signals knows what is in the
\* list, although signals and the reply cross, and signals tell of devices that
\* are not in it.  A device that came just before the query, or whose removal was
\* blank, is excepted: the list may have it twice, or without a device, and one
\* removal is told for both.
ListenerAgrees ==
    (asked = "yes" /\ wire = << >>) =>
        \A path \in Paths \ obscured : (path \in heard) = Listed(path)

\* In the end a program knows which devices are plugged in.
HeardInTheEnd ==
    <>[](\A n \in Names \ obscured : (n \in heard) = (plugged[n] = "gps"))
=============================================================================
