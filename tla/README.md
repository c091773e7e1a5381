# Gypsy in TLA+

Gypsy is a GPS multiplexing daemon with a small client library. The daemon
(`src/src/`) is single-threaded: a GLib main loop dispatches D-Bus calls, timers,
I/O on the devices and udev events, one callback at a time. What makes it hard is
that many programs share one device object, that a connection is built and torn
down in pieces by different callbacks, that a receiver tells one thing in several
sentences that may come in any order, get lost or be cut anywhere, and that udev
and the bus deliver what happened some time after it happened.

This directory models the logic of the daemon, checks it with TLC on small
instances, and proves part of it with TLAPS for every instance. Line numbers below
are those of the files under `src/src/` unless a directory is given.

## The system

| Part | State | Operations | What makes it correct | Where |
|---|---|---|---|---|
| Server (`gypsy-server.c`, `main.c`) | lists of clients per D-Bus sender, `client_count`, `terminate_id` | Create, Shutdown, a sender leaves the bus, the timer | references match owners; the daemon stops when, and only when, nobody is connected | `GypsyServer`, `ClientLease` |
| Client connection (`gypsy-client.c`) | descriptor, channel, three sources, parser, start options | SetStartOptions, Start, Stop, connect callback, hang-up | no source outlives what its callback uses, or the object; listeners are told the truth | `ClientConnection`, `ClientObject` |
| Satellites (`nmea-parser.c`, `gypsy-client.c`, `gypsy-garmin-parser.c`) | collected list, current list, group counters | GSV, GSA, Garmin satellite record | a list is one whole group; no overflow | `Satellites` |
| Fix data (same files) | time, fix type, position, course, accuracy | RMC, GGA, GSA, Garmin PVT, the getters | no quantity changes without its signal, and a receiver at rest is quiet | `FixData`, `GarminTime`, `Notifier` |
| NMEA framing (`gypsy-nmea-parser.c`) | a byte buffer and its count | a read; a sentence is taken out | every sentence is seen, however the bytes are cut | `NmeaFraming` |
| Garmin framing (`gypsy-garmin-parser.c`) | a byte buffer and its count | a read; a packet is taken out | every packet is seen once | `GarminFraming` |
| Discovery (`gypsy-discovery.c`, `src/gypsy/gypsy-discovery.c`) | the list of known devices | query, udev events, Bluetooth listing, ListDevices | the list is what is plugged in, and programs know it | `Discovery` |
| Library control (`src/gypsy/gypsy-control.c`) | references, one device name | get_default, Create, dispose | a program shuts down only what is its own | `GypsyControl` |
| Library listeners (`src/gypsy/gypsy-position.c`, `-accuracy.c`, `-course.c`, `-satellite.c`, `-time.c`, `-device.c`) | a proxy with a signal handler, one pending call | constructor, signal, answer, getter, Start and Stop, dispose | the last word a program has is the present value | `Listeners` |
| Fields of a sentence (`nmea-parser.c`) | none | checksum, tag, split, conversion | the fields are what the commas separate, the numbers what was written | `NmeaFields` |
| Process start, N810, log | | | | not modelled |

How they interact. A program calls Create on the Server with a device path and gets
the path of a Client object, shared with every other program that asked for the
same base name. It calls Start on the Client, which opens the device and adds two
sources; the connect callback chooses a parser, NMEA or Garmin, and adds the input
source. The input callback asks the parser for room in its buffer, reads, and hands
over the bytes; the parser cuts them into sentences or packets and calls
`gypsy_client_set_*` back, which store and signal. A parser holds references on its
Client, which ties the connection to the reference counts of the Server. Programs
follow a Client object through the listener objects of the library. Discovery stands
beside all that.

Three abstract specifications hold the parts together: the server implements
`ClientLease` and the setters implement `Notifier`, and `Listeners` assumes nothing else of the
daemon, but that the connection changes in Start without a signal; `ClientObject` shows that the connection does to the references
what `GypsyServer` takes it to do.

## Modules

**GypsyServer** models `gypsy_server_create`, `_shutdown`, `_remove_clients`,
`gypsy_terminate` and the references on Client objects, including those a parser
takes (`gypsy-parser.c:35-52`, `gypsy-nmea-parser.c:70-92`). `connections` is the set
of list nodes, one per successful Create and not yet released; the order inside a
list does not matter. An object is identified with its object path (`CreatePath`, the
base name), so two device paths may share one. Each handler is an action, split by
its early returns. `foreign` and `idle` are history variables. The object path a
Shutdown argument means is `ShutdownPath`.

**ClientLease** is what the Server promises its callers: leases held by senders,
objects that live at least as long as somebody leases them, and a daemon that stops
only when no lease is left. `GypsyServer` refines it with held, live and stopped
computed from the lists, the references and the main loop.

**GypsyControl** composes the server with programs: some use the library, whose
singleton remembers one device and shuts it down in `dispose`, others call the server
themselves and may shut down what they do not hold. `forgotten` counts the names that were
written over (`src/gypsy/gypsy-control.c:254`), `stranded` the Shutdowns of `dispose` that found
no object: Create writes `_` for the `:` of a Bluetooth address and Shutdown does not
(167-168 and 214-215 of `gypsy-server.c`), so `ShutdownPath` may differ from `CreatePath`
there. The devices of both are released only when the program ends.

**ClientConnection** has one action for each way through `gypsy_client_start`
(551-713), so that what each failure leaves behind is in the state, and one for each
callback. What kind of device the path names is chosen in `Init`.

**ClientObject** puts `GypsyServer` and `ClientConnection` together for one object.
The server's references on the parser are those of the connection's parser
(`INSTANCE GypsyServer WITH parser <- ...`), and a callback that does both is the
conjunction of two actions. A program's last Shutdown, its leaving the bus, a Stop and a
hang-up can each drop the last reference; then `finalize` runs `shutdown_connection`.
`HangUpFinalizes` is the one case in which `finalize` runs in the middle of
`shutdown_connection` (`gypsy-client.c:240`): a Garmin that only its parser still holds is
unplugged. What follows uses freed memory; the action lets the daemon die or go on.

**Satellites** has the GSV group logic (280-366 of `nmea-parser.c`), the flags that
GSA sets, `gypsy_client_clear_/add_/set_satellites` (1294-1409 of `gypsy-client.c`) and
the receiver, which sends groups of which sentences may be lost. The array
`satellites` keeps its stale entries, as in the code. `pending` and `groupLost` are history:
how many restarts left something in the list that is being collected, and whether as many
sentences as a group has were lost in a row since it was last added to.

**FixData** merges RMC, GGA and GSA, or the Garmin PVT record. A group of quantities
is a function on the fields that are set, so the bit mask is its domain. The receiver
measures one thing at a time, once or more often in a second, and every sentence describes
that; of the time it sends the code reads whole seconds. It may find and lose the time: then
the fields of date and time are empty, the code keeps the date it has
(`nmea-parser.c:256`), and what it makes of an empty time is one of `BlankTimes`. `told`,
`lapsed` and `smooth` are history: the time told last, whether a midnight has passed or the
clock was lost since the last date, and whether the conditions of `ClimbIsFinite` still hold.
`heard` is what a listener knows that keeps the last signal of each kind. **GarminTime** is
`calculate_utc` in integers, by way of a calendar date. **Notifier** is what a Client
object promises: no value that a method returns changes without its signal.
`FixData` implements it with `values <- Stored`: the answers of the getters, but for
GetCourse, which answers with the mask of the position (`gypsy-client.c:814`) and so
changes without a signal; of the course it is the value that is stored (`CourseAnswer` is
the answer).

**NmeaFraming** and **GarminFraming** have the buffers byte by byte; `Ends` says where in the
stream each sentence or packet ends. A byte
is a member of a small set (which sentence it belongs to, CR, LF, NUL), and a sentence
passes the checksum if it is whole. In NmeaFraming what is behind the terminating NUL
stays in the buffer, since `memmove` may move it; the line may lose a burst of bytes in
front of any byte of a read, and `fault` remembers where in the stream the last read ended
in which bytes were missing or which ended between a CR and its LF. When the size handed to
`memmove` wraps around, `crashed` is set and nothing happens any more.

**NmeaFields** has operators only: `split_sentence`, the number of fields each parser
asks for, the checks in front of the parsers, and the conversions of positions and courses.
The loop of the split is a recursive function on the room left in the array. A text is a sequence of digits, commas, points and other characters. `MCNmeaFraming`
compares them with what they are meant to compute (see below).

**Listeners** is one program with a listener object of any of the six classes, on a bus
that keeps the order of messages between two processes; the two halves of a GypsyDevice,
the fix and the connection, are kinds of their own. It extends `ClientLease`: the object
lives as long as that says, may be replaced on its path, and changes values only with a
signal, but for the connection. That has a state of its own, `link`: Start opens the device
and returns (`DaemonStarts`), the signal comes from the connect callback (`DaemonConnects`), or
never when Start fails with the device open. GetCourse answers the present course, or
`Masked` when the mask of the position takes something of it away. A daemon that has stopped neither signals nor answers until the bus starts it
again. The constructor sends the match of the signal, and for Position and Accuracy a
Get without waiting; getters wait for their own answer and so overtake signals that are
queued. A value is a version number of one object. `since` and `steady` are history: the
value at the match, and whether the program has leased the object ever since.

**Discovery** puts udev, the daemon and a program that follows the list side by
side. An event waits in `events` until the main loop handles it, and what the daemon
then sees of the device (`Seen`) is current only if nothing happened to it since.
Signals and replies travel to the program in `wire`.

`MC*` modules give the constants their values.

## Runs

Every property is broken by a mutant of the code (definitions marked "Mutant"), which
PROJECT.json lists with the run.

| Run | Shows | Instance |
|---|---|---|
| library_lease | references, count, timer and ownership stay in step whatever two senders do; the one that uses the library never shuts down what is not its own, and holds what it remembers, what it forgot and what its Shutdown did not find; the server refines `ClientLease`; a drained daemon stops unless a Create comes first | one program with the library, one without; 3 list nodes, 4 devices (two share a path, one has a Bluetooth address, one is refused), 2 foreign Shutdowns, 2 references on the library's object |
| client_object | sources, channel, parser and descriptor fit together and do not outlive the object, whoever drops it; the listeners' view; the speed; the connection takes steps of the server | 2 senders, 2 list nodes, all five kinds of device, two speeds, a second object, 1 foreign Shutdown, 2 leaked references |
| satellites_groups | whole groups but in the two cases that are named, no overflow, a signal for each change, recovery | groups of up to 3 sentences, up to two in a row lost, one restart |
| fix_listeners | `Notifier` is implemented, the time is right, climb is finite, a receiver at rest is quiet | 5 readings, up to two measurements a second, the clock found and lost, the end of a GPS week and a midnight, 1 restart |
| framing_safety | every sentence parsed on a clean line; no overrun; a crash of the daemon right behind a split line end, or every sentence parsed that begins a buffer-full behind the last disturbed read; and the assumptions about NmeaFields | 7 sentences, a buffer of 9 bytes, 2 lost bytes in front of or inside reads, 1 split line end |
| garmin_reads | every packet translated once and in order | 5 packets of two lengths, a buffer of two packets |
| listeners | a program that keeps its lease ends up with the present value, however answers and signals cross, but for a course read with GetCourse and a connection that Start has opened in silence; what is queued never goes back; a disposed listener is quiet | one listener of any class, another program that holds the object; 2 objects, 3 changes of each quantity, 3 messages queued |
| discovery_events | the list is what is plugged in; a program agrees with it | 2 ports, 2 devices plugged in besides those there are, 1 Bluetooth device |

Bounds. Three list nodes let one sender hold an object twice while the other holds it
too; a foreign Shutdown needs one sender, the second lets the count go wrong twice. Three sentences are the least that have a first, a
middle and a last, and two lost in a row are the fewest after which the numbers of two groups
fit together; two groups in a row appear in every behaviour, since `NextGroup` repeats. A receiver that
is switched on in the last second of a day (of four seconds) meets midnight at once, and two
measurements in a second are the fewest that share a timestamp. The buffers hold two sentences or packets and part of a third, so that
finished and unfinished ones meet in every way; a lost CR with a lost LF takes two
lost bytes, and seven sentences leave more than a buffer-full behind the last loss. Two ports let an event of one overtake the query of the other, and two
plugs let a name be taken again while its old events still wait. One listener is
enough, since listeners share nothing; two objects let the path change hands once, and
three queued messages let the answer to the Get have a signal on either side. In
client_object two list nodes let both senders, or one of them twice, hold the object. `MaxLeaks` bounds
the references that NMEA contexts never drop; without it a counter grows for ever.

The operators of NmeaFields are compared by TLC when it starts framing_safety: the split
with the pieces between commas, for every text of up to six characters and one to four
fields (`SplitFindsThePieces`); that a GSV sentence that is taken has every field its parser
reads (`GsvReadsWhatIsThere`); that angles written in whole degrees of either hemisphere
and in minutes are read back (`AnglesAreReadBack`); which texts set no field
(`BlankIsNotSet`); and which sentences get as far as a parser (`OnlySoundSentences`,
`BlankFieldsCount`).

Four runs are violated by the code. Each checks what a comment or a document says:

- *server_foreign*: `client_count` drops before ownership is checked (227), so a
  Shutdown by a sender that holds nothing lets the daemon stop under one that does.
- *server_option*: "Don't terminate after last connection closes" is the help of
  `--no-auto-terminate` (`main.c:140`), but the option stores TRUE in a variable that is
  TRUE by default (130), and the daemon stops.
- *connection_listens*: a Start that fails after `open` leaves the descriptor; the
  next Start returns TRUE (559) and listens to nothing.
- *fix_midnight*: a GGA that comes after midnight but before an RMC is dated a day
  back (`nmea-parser.c:232`).

In consequence the passing runs state the conditions under which the code is right:
no foreign Shutdown in `NeverQuitsUnderClient` and `IdleIsArmed`, no split line end in
`ParsedAll` and `NeverRunsOff`, no midnight since the last date in `TimestampIsUtc`
(`lapsed = {}`), one measurement a second in `ClimbIsFinite` (`smooth`), no leftover and no lost
group in `CommitsWholeGroup` (`OneGroup`), and so on. Each condition is in the property and in
its comment, and the bounds of the runs let the excepted case happen.

## Fairness

The main loop serves every source that is ready, so a callback that stays enabled is
run: weak fairness of the timer in `GypsyControl` (nothing but `Terminate`; no caller has
to call), of the reads and the loop over the buffer in `GarminFraming`, and of start-up,
events and replies in `Discovery`. A receiver sends its sentences every second without
being asked: weak fairness of `Gsv`, `GarminSatData` and `NextGroup`, and of `Rmc`,
`Gga`, `Gsa` and `GarminPvt`. In `Listeners` the bus takes a match, the daemon
answers and the program dispatches what has arrived: weak fairness of each. A loss, a restart, a plug and a call are never fair.

## Proofs

Under the assumptions named in the modules and nothing else, for any number of
senders, devices and paths:

**GypsyControlProofs**, the server. The inductive invariant is `IInv`: the types, with finitely many
nodes in use; `RefsAccounted`; `ObjectHasDevice`; `CountTracksConnections`; and `TimerInv`,
which ties the timer to the lists. The types alone do not say that a held object is
alive: that follows from `RefsAccounted`, since a node in use is a reference. That the
timer is off while somebody is connected needs the exact count, since it is armed when
the *count* reaches zero; `CountTracksConnections` in turn needs cardinalities of the
sets of nodes, for which a few lemmas on finite sets come first. From `IInv` follow the
theorems on types, references, live objects, the count and the timer, and
`ServerRefinesLease`: each step of the server is a step of `ClientLease` or leaves its
variables alone, foreign Shutdowns included; a daemon that stops after one of those does not
count as stopped there, since what the lease table promises of the end is void then.

**ClientObjectProofs**, the connection. `IInv` is the types and the six safety properties together
with `ConnectBeforeGarmin` (while the connect source is there the type is not
GARMIN); no one of the six is inductive alone, because Stop and a hang-up rely
on all three sources being torn down together. Each action preserves it.

The second part of GypsyControlProofs is about programs, library and server together. `ControlInv` adds to `IInv` that the name the library keeps
stands for a connection of its program, and how many connections a program has. They need
each other: an alias or a second Create may not take away the connection the name stands
for, and a Shutdown made by dispose either finds that connection or nothing at all. Under
`ControlInv` every step of the composition is a step of the server or leaves its variables
alone (`ServerStep`), so what was proved of the server holds here. The theorems:
`OnlyOwnShutdowns` (with `ForeignStep`: who makes `foreign` grow is no program of the library) and
`LibraryAccounts`; that the composition implements `ClientLease`; and `ServesItsPrograms`: where
all senders use the library the daemon does not stop under a connected one. Assumed of
paths (`ProgramsAssumption`): a device path may be passed to Shutdown, and what Shutdown makes
of it is what Create made of it, or a path no object is ever registered on.

The second part of ClientObjectProofs is about a connection whose object is made, shared
and finalized by the server, over any number of lives. `ObjectInv` is the invariant of the
connection together with `OwnersInv`: the references on the object are its list
nodes, the one of its parser and what NMEA contexts leaked (`PathRefs`); an NMEA parser
has leaked at least one (`NmeaLeaks`), so no hang-up of it can be the end of the object; a
living object has a device that makes its path (`DeviceOfPath`); and an object that is
gone holds nothing (`GoneIsBare`). They need one another: who drops the last reference is
known only from `PathRefs`, and that he leaves nothing open from `GoneIsBare` and
from knowing which parser there is. The theorems: `ConnectionIsSafe` (all safety
properties of ClientConnection, in the daemon), `NothingOutlivesTheObject`, and
`ObjectRefinesServer`: each callback is a step of `GypsyServer`, but for the case that
`StepsOfServer` excepts. `PathAssumption` says what `GypsyServer` is told of devices too: a
device that may be a USB Garmin is one of those a Garmin parser may be made for.

**FixDataProofs**. `ListenersAreCurrent` (what a listener heard last is
what is stored, and what the getter returns but for GetCourse) and `FixDataNotifies` hold for any readings and
restarts. `IInv` adds only that the groups are functions: a setter compares field by
field, and "no field differs" makes two groups equal only when there is nothing besides
the fields. Each handler then comes down to `EmitTells` and `EmitNotifies`: what is not
signalled has not changed. `UtcIsRight` proves `calculate_utc`: whatever week the record
counts from and whatever the leap seconds, the moment it was made at comes back. The
code finds the date by divisions and counts the days of its years and months again, so
the argument is about one count of days (`DaysOfDate`), by months from March and by
years in fours, for every day to February 2100; `PvtIsNow` applies it. `TimeIsUtc` has the
invariant `TimeInv`: while `lapsed` is empty a time that is there is the one told last and the
date kept is that of now. No bound on midnights, restarts or losses of the clock is needed.
`TimeLags` says what is left of a receiver that keeps its time when a midnight has passed:
the time is never ahead and is behind by whole days only. `ClimbsAreFinite` has `ClimbInv` on
top of `TimeInv`: while `smooth` holds no altitude is from later than now, and one from this
second is the altitude the receiver still measures, so that no climb is computed from it
(`AltitudeIsTimed`). `smooth` is given up at a second measurement in one second, at a GGA while
`lapsed` is not empty and at a restart, the three cases in which the code divides by
something else than the time gone by. `FixTypeOK` are the types.
The last part is about a receiver at rest. `TimeSettled`, `CourseSettled`, `PositionSettled`,
`HdopSettled`, `DopSettled` and `FixSettled` say that what one sentence tells is stored.
`SentencesSettle`: each sentence settles what it tells, from any state (the time only if
the receiver knows it or never did, `TimeCanSettle`). `RestIsQuiet`: as long as
the receiver measures the same, the connection goes on and GGA and GSA agree on the fix
(`AtRest`), no sentence unsettles what another one has settled, and when all is settled none
signals. Together: one sentence of each kind, in any order and with any repetition, and there
is silence. That is `PositionQuiet` and `FixQuiet` without the fairness that brings the
sentences. `PvtSettlesAndIsQuiet` says it of the one record of a Garmin.
All that use the time assume `Before2038`, since the code returns it in an `int` of 32
bits. `ReadingsAssumption` says what a reading is: no parser reads a climb, and a Garmin
that moves has a direction.

**SatellitesProofs**. `SizeInv` bounds the list collected in two ways, by
the sentences counted and by the length of some sky that was in view, plus one sky for each
restart in mid-group since the list was last emptied (`pending`): nothing empties it when the
connection stops (`gypsy-client.c:201`). From it `NothingOverflows`, for any losses and
restarts. The arrays have a fixed length and `gypsy_client_add_satellite` does not look at it
(1310): `ArraysAreLongEnough` says that both lists stay within them as long as `RoomLeft` holds,
room for one sky more than `pending`; restarts as such are not bounded. Nothing
bounds them in the code, so enough of them in mid-group, one after the other, run over the end. `SignalsAreExact` uses that the current list is then compared over its whole
length. `GroupsAreWhole` is the one that is hard: a new list is the sky that one group
described, although sentences are lost. `GroupInv` says that what was collected is, where no
restart left something and no whole group was lost, the front of some sky of which either more
is to come (`StillSent`) or the rest was lost since (`SentBefore`); a sentence that does not
fit the count starts the list again. `OneGroup` excepts the two cases, and it does so at the
sentence that completes the list: what was left over by a restart, and as many sentences
lost in a row as the group has, after which number and total may fit (`nmea-parser.c:308`).
`SkiesAssumption` says that what the receiver sees fits into the arrays. `GroupsGetThrough` is what `Recovers` says, without the fairness, and with no bound
on losses, restarts or arrays. `Counted` means that no sentence of the present group was lost,
`Collecting` that besides nothing was left over before it. A group always begins
counted; without a loss or a restart it stays so; behind its end nothing is left over
(`Clean`), so that the next group begins collecting; and a group that is collected to its end is
the list GetSatellites returns. It takes two groups and not one because a restart leaves a
list behind that the first group is committed with. satellites_groups has skies of up to three
satellites, arrays of six and one restart, so `RoomLeft` always holds there.

**DiscoveryProofs**. Conditions are only that the sets of names are finite and disjoint.
`IInv` has four parts beside the types. `EventInv`: the events of one device file that wait
alternate between add and remove, and the last of them says what is there. `ListInv`, name
by name: it is listed once at most; if its next event is an add it is not listed
(`AddInv`); if the query returned it and it was not looked at yet it is not listed, and
is still there unless its removal waits (`WaitingInv`); and if neither holds it is listed
just when a GPS is behind it (`SettledInv`). `StartInv` and `QueryInv` say that nothing is
known, and nothing waits but removals, before the query. `ListenerInv`: at
most one reply is on the wire, and for every path the last message about it, or the reply if
none follows it, or what was heard if there is no message at all, says what the list says.
The names in `obscured` are excepted, as in the properties. The theorems:
`ListsAreCurrent`, `ListenersAgree`, `BluetoothIsKept` and the types.

**ListenersProofs**, for any programs and listeners of any classes. `LeaseInv` ties the
lease to the object: what is held is alive, and a daemon that has stopped is leased by
nobody. Of each listener, `NotAhead` (no word on its way is newer than the daemon's),
`Ascending` (words on their way are in order), `Leases` (a steady program holds the
object) and `ToldRight` (the last word of a settled, steady one is right, masked, or of a
connection nobody was told of). The last depends
on the others: only while the lease lasts is there one object on the path, and a listener
that asks at construction is not settled before its reply is on the way. The theorems: `WiresNeverGoBack`,
`LastWordsAreRight`, `TheGoneAreQuiet`.

**GarminFramingProofs** and **NmeaFramingProofs**, for any stream: the constant `Ends` says
where its packets or sentences end, and the buffer must hold the longest. In
both, the invariant is that what the buffer holds is the piece of the stream up to `pos`,
that it begins where a packet or a sentence begins, and that those in front of it were
handed on, each once and in order (`OrderInv`, `StreamInv`). For Garmin that needs that the
packets in the buffer have the length that was computed for the first of them
(`PacketsAreHandled`). For NMEA it needs `DataInv`, which survives lost bytes as well: there
is no NUL in the data and one behind it, and a CR in it has its LF. With that the first CR
lies in the data (`NothingRunsOff`), the move takes the NUL along, and a full buffer
without a CR, which the code gives up, never comes up on a clean line, since a whole
sentence would be in it (`SentencesAreParsed`). The types hold without any condition
(`GarminTypeOK`, `NmeaTypeOK`), in particular that no read goes past the buffer.

A disturbed read of NMEA may leave anything in the buffer: a NUL in the middle, a count one
too high, half a sentence. `Recovering` says what becomes of it when the parser has read on. It
is in one of three modes. `Deaf`: a NUL in the data hides all line ends behind it, until the
buffer is full and given up. `Listening`: what was left has no line end, and what came since is
behind it. `InStep`: the data is a piece of the stream that begins where a sentence begins, or at
least not later than a buffer-full behind the fault. The first two hold all that came since the
fault in one buffer (`pos - fault <= chars_in_buffer`), so they end when it is full; and `InStep`
is not left without another disturbed read. `CrashIsPrompt` uses the same invariant: the size
handed to `memmove` wraps around (`gypsy-nmea-parser.c:136`), which ends the daemon, only behind a
split line end and before the next read (`CrashFollowsSplit`). `SilenceIsShort` is `LossIsBounded`
for any number of lost bytes and split line ends: the daemon has crashed in that way, or it has
got away, and then the silence is no longer than a buffer-full.

The last part of NmeaFramingProofs is about `split_sentence`, for every text and any number of
fields. `SplitFindsFields`: the fields are what lies between cuts, and the cuts are the place in
front of the text, one comma after the other, and the end; none is left out while there is room,
and one too many is found only if it is the blank one behind the last comma. The provers know
nothing of a recursive function, and an induction theorem with an operator for a parameter cannot be
used; so the recursion is written as the values of a function that is iterated
(`Iteration`), its being there and its being the only one are shown by taking the least number
at which it fails, and so is what it finds (`FieldsAreCut`). `GsvReadsWhatWasFound`: a GSV
sentence that is taken has every field its parser reads.

Only model-checked: liveness (`DrainedQuits`, `Recovers`, `PositionQuiet`, `FixQuiet`,
`HandlesAll`, `HeardInTheEnd`, `EndsUpRight`), since fairness is out of the prover's reach
(what `RestIsQuiet`, `GroupsGetThrough`, `LastWordsAreRight` and `ListenersAgree` prove is the part of
it that needs none); and the conversions of NmeaFields, which fold over the digits of a number.
`UtcAssumption` in `MCFixData` checks `calculate_utc` for every day from 1990 to 2037 (with
a day of four seconds) besides the proof, so that the operators of the proof are
also run.

## Noticed and not checked by a run

The models follow the code here too; no property asks for the opposite.

- A refused Create cancels the timer, and nothing installs it again
  (`gypsy-server.c:125`).
- For a Bluetooth address the Shutdown that `dispose` makes finds nothing, since only Create
  writes `_` for `:` (`gypsy-server.c:167-168, 214-215`); the connection stays until the program
  ends, although "when this object is finalized, the remote object on the server will be
  shutdown" (`src/gypsy/gypsy-control.c:229-232`). `LibraryAccounts` counts it.
- Two device paths of one base name share one object, and the second caller gets
  the first one's device (`gypsy-server.c:165`).
- An NMEA context never drops its reference on the Client, so that an object that was
  once connected is never finalized, and its device stays open when the last holder
  goes (`gypsy-nmea-parser.c:70-92`).
- After a failed Garmin probe the connection is announced without a parser
  (`gypsy-client.c:442-489`).
- `new_sat_count` outlives a Stop, and what was collected is committed with the
  next group (`gypsy-client.c:201`); enough such Stops, one after the other, overflow the
  array (1310). When as many sentences in a row are lost as the group has, two
  groups may be mixed (`nmea-parser.c:308`). `CommitsWholeGroup` excepts both.
- After a read that ends between CR and LF the move starts two bytes behind the CR though
  the LF has not come yet (`gypsy-nmea-parser.c:132`). The next sentence is lost, or a stale CR
  behind the data is found next and the size handed to `memmove` wraps around (136), which
  ends the daemon. `ParsedAll` and `NeverRunsOff` except it, `LossIsBounded` says when.
- `check_checksum` refuses a sentence without a checksum, its comment says it returns TRUE
  (`nmea-parser.c:614-615`).
- A blank field behind the last comma is stored even when it is one more than the array
  was made for (`nmea-parser.c:78-83`).
- A Garmin that nobody holds any more and that is unplugged finalizes its object in
  the middle of `shutdown_connection` (`gypsy-client.c:240`); `StepsOfServer` excepts it.
- With an NMEA log `shutdown_connection` flushes the channel it has just set to NULL, not
  the log (`gypsy-client.c:230`).
- A listener that outlives its object is not told so: when another object takes the path
  it keeps the old values until the new ones change (`src/gypsy/gypsy-position.c:241`). An
  error in the answer to its first Get is only logged, and is not asked again.
- After a getter returned, signals that were queued before it are still delivered, older
  than what it returned; the last of them is current again.
- The mask of a position signal is documented as the fields that have changed
  (`src/gypsy/gypsy-position.c:298-300`); it is that of all known fields.
- A receiver that reports a held altitude in 2D mode makes GGA and GSA flip the fix type
  (`nmea-parser.c:487`); `FixQuiet` excepts it.
- After a restart the first GGA has no date, and a climb is divided by zero
  (`gypsy-client.c:1110`); so is one between two measurements in one second, since fractions
  of it are not read (`nmea-parser.c:229`), and around a midnight or a lost clock the time is
  wrong or runs back. `ClimbIsFinite` excepts all three.
- A receiver that has lost the time sends empty fields: the date is kept and an empty time
  makes a wrong timestamp (`nmea-parser.c:225-232, 256-260`); `TimestampIsUtc` excepts it.
- GetConnectionStatus tells of the descriptor (`gypsy-client.c:740`), which Start opens long
  before anything is signalled (481-489); after a Start that failed behind the open it is TRUE
  and no signal comes (605-617, 659-672). `LastWordIsRight` and `EndsUpRight` except both.
- GetCourse returns the mask of the position fields (`gypsy-client.c:814`), the signals
  carry the mask of all known fields (1132), so that its answer may lack fields that are known
  and change without a signal; and `?:` binds weaker than `|` in the mask
  of a GSA sentence (`nmea-parser.c:420`).
- The length of a Garmin packet is computed once for a read (`gypsy-garmin-parser.c:242`);
  `HandledInOrder` and `HandlesAll` except packets of two lengths in one buffer.
- A device plugged in between the start of the watch on udev and the query is listed
  twice (`gypsy-discovery.c:589-593`), and a removal that shows neither a known parent nor
  the properties of the tty is ignored; `ListIsCurrent` excepts both.

## Not modelled

Floating point, signs and exponents of numbers, the NMEA log, the configuration file
(`Allowed` stands for its globs), process start and the N810 chip. In `ClientConnection`
bytes do not appear: a read is a step of the framing modules. In `Listeners` a value is a
version number, so which results a getter stores for fields that are not set is left
out, but that GetCourse may leave some. In `FixData` an empty date and an empty time come
together, as of a receiver that does not know the time.

## Plan

Done, in this order: GypsyServer with ClientLease and proofs, ClientConnection and
proofs, Satellites, FixData with GarminTime and a proof, NmeaFraming, GarminFraming,
Discovery, GypsyControl and proofs, Notifier and the proof that FixData implements it,
ClientObject, Listeners, NmeaFields; then the proofs of Listeners, ClientObject, the time
and the climb in FixData, Satellites, Discovery and the framings; then how long the NMEA
parser stays deaf, what the split finds, and the safety half of `Recovers`, `PositionQuiet`
and `FixQuiet`.

Dropped: that the daemon inside `Listeners` implements `Notifier`. It would show that the
environment Listeners assumes is one that Notifier allows. What the proof about listeners
needs is the other direction, that Listeners assumes of a Client object no more than
Notifier promises, and its daemon may change any value at any time with a signal.

Left for whoever goes on: the listing of Bluetooth devices one by one, and GSV flags that belong to one list of satellites in use.
