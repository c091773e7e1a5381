----------------------------- MODULE Listeners -----------------------------
(***************************************************************************)
(* The objects of libgypsy that follow one Client object of the daemon:     *)
(* GypsyPosition, GypsyAccuracy, GypsyCourse, GypsySatellite, GypsyTime and *)
(* GypsyDevice.  Each is a proxy that connects to one signal (Device: to    *)
(* two, and a listener here is one half of it, "fix" or "connection"),      *)
(* repeats it to the program, and has a blocking getter; Position and       *)
(* Accuracy also ask for the value once, from the constructor, without      *)
(* waiting.                                                                 *)
(*                                                                          *)
(* A listener is a program with one such object, a sender on the bus.  The  *)
(* bus keeps the order of what one process sends to another.  The daemon is *)
(* what the other modules show it to be: the object lives as ClientLease    *)
(* says, and, as Notifier says, no value changes without its signal; but    *)
(* the connection does, in Start.  A value is a word <<object, version>>:   *)
(* the object that took the path for the object-th time, after that many    *)
(* changes.                                                                 *)
(***************************************************************************)
EXTENDS ClientLease, Naturals, Sequences, SequencesExt

CONSTANTS
    Listeners,     \* the senders that have a listener
    Path,          \* the path the listeners are made for
    MaxObjects,    \* bound: how often an object takes the path
    MaxChanges,    \* bound: changes of one quantity of one object
    MaxWire        \* bound: messages on their way to one program

ASSUME PathIsObject == ObjectPaths = {Path}
ASSUME ListenersAreSenders == Listeners \subseteq Senders

VARIABLES
    object,   \* how many objects have taken the path
    value,    \* the version of each quantity of the last of them
    link,     \* its connection: "closed", "opening", "open", or "stuck" when
              \* Start failed with the device open
    kind,     \* what each listener follows, "none" before it is made
    stage,    \* "none", "sent", "matched", "settled", "deaf" or "gone"
    wire,     \* the words on their way to each listener, signals and replies
    known,    \* the last word the listener's program was told or has read
    since,    \* history: the value when the bus took the listener's match
    steady    \* history: the program leases the object since it made the
              \* listener

daemonVars == <<object, value, link>>
listenerVars == <<kind, stage, wire, known, since, steady>>
vars == <<leaseVars, daemonVars, listenerVars>>

Kinds == {"position", "accuracy", "course", "satellite", "time", "fix", "connection"}
Asking == {"position", "accuracy"}

Nothing == <<0, 0>>   \* no word yet; on the wire: the error for a Get
Masked == <<0, 1>>    \* the present course, but under the mask of the position

Word(l) == <<object, value[kind[l]]>>
Hears(l) == stage[l] \in {"matched", "settled"}

\* The device is open and nobody was told: the connect callback of the daemon is
\* still to come, or after a Start that failed will not.
Untold(l) == kind[l] = "connection" /\ link \in {"opening", "stuck"}

-----------------------------------------------------------------------------
(* The daemon and its bus.                                                  *)

\* Mutant: the signals are sent before the values are set.
EmitBefore(changed, signalled) ==
    /\ Path \in live /\ ~stopped
    /\ \A l \in Listeners : Len(wire[l]) < MaxWire
    /\ \A q \in changed : value[q] < MaxChanges
    /\ value' = [q \in Kinds |-> IF q \in changed THEN value[q] + 1 ELSE value[q]]
    /\ wire' = [l \in Listeners |->
                   IF Hears(l) /\ kind[l] \in signalled
                   THEN Append(wire[l], Word(l))
                   ELSE wire[l]]
    /\ UNCHANGED <<leaseVars, object, kind, stage, known, since, steady>>

\* The quantities in changed change and the signals in signalled go out to
\* whoever has a match for them.
Emit(changed, signalled) ==
    /\ Path \in live /\ ~stopped
    /\ \A l \in Listeners : Len(wire[l]) < MaxWire
    /\ \A q \in changed : value[q] < MaxChanges
    /\ value' = [q \in Kinds |-> IF q \in changed THEN value[q] + 1 ELSE value[q]]
    /\ wire' = [l \in Listeners |->
                   IF Hears(l) /\ kind[l] \in signalled
                   THEN Append(wire[l], <<object, value'[kind[l]]>>)
                   ELSE wire[l]]
    /\ UNCHANGED <<leaseVars, object, kind, stage, known, since, steady>>

\* What the parser stores and signals; what nobody listens to, or is about to, is
\* left out.
Followed == ({kind[l] : l \in Listeners} \cap Kinds) \ {"connection"}

DaemonReports ==
    \E signalled \in SUBSET Followed \ {{}}, changed \in SUBSET Followed :
        /\ changed \subseteq signalled
        /\ Emit(changed, signalled)
        /\ UNCHANGED link

\* gypsy_client_start: GetConnectionStatus tells of the descriptor, which is open
\* from here on; the signal is left to gps_channel_connect, and does not come when
\* Start fails after the open.  A second Start changes nothing.
DaemonStarts ==
    /\ Path \in live /\ ~stopped
    /\ link = "closed"
    /\ link' \in {"opening", "stuck"}
    /\ value["connection"] < MaxChanges
    /\ value' = [value EXCEPT !["connection"] = @ + 1]
    /\ UNCHANGED <<leaseVars, object, listenerVars>>

\* gps_channel_connect.
DaemonConnects ==
    /\ link = "opening"
    /\ Emit({}, {"connection"})
    /\ link' = "open"

\* gypsy_client_stop, and gps_channel_error for a device that hangs up.
DaemonDisconnects ==
    /\ Emit(IF link = "closed" THEN {} ELSE {"connection"}, {"connection"})
    /\ link' = "closed"

\* The bus takes the match of the signal; from here on the program hears it.
\* A Get sent by the constructor travels behind the match.
BusMatches(l) ==
    /\ stage[l] = "sent"
    /\ stage' = [stage EXCEPT ![l] = IF kind[l] \in Asking THEN "matched"
                                                           ELSE "settled"]
    /\ since' = [since EXCEPT ![l] = Word(l)]
    /\ UNCHANGED <<leaseVars, daemonVars, kind, wire, known, steady>>

\* Mutant: the answer is the value of an earlier moment.
AnswersStale(l) ==
    /\ stage[l] = "matched"
    /\ ~stopped
    /\ stage' = [stage EXCEPT ![l] = "settled"]
    /\ wire' = [wire EXCEPT ![l] = Append(@, since[l])]
    /\ UNCHANGED <<leaseVars, daemonVars, kind, known, since, steady>>

\* Mutant: the constructor does not ask.
AnswersNever(l) ==
    /\ stage[l] = "matched"
    /\ ~stopped
    /\ stage' = [stage EXCEPT ![l] = "settled"]
    /\ UNCHANGED <<leaseVars, daemonVars, kind, wire, known, since, steady>>

\* A daemon that has stopped is started again before it answers.
DaemonAnswers(l) ==
    /\ stage[l] = "matched"
    /\ ~stopped
    /\ stage' = [stage EXCEPT ![l] = "settled"]
    /\ wire' = [wire EXCEPT
         ![l] = Append(@, IF Path \in live THEN Word(l) ELSE Nothing)]
    /\ UNCHANGED <<leaseVars, daemonVars, kind, known, since, steady>>

\* An object takes the path, or another sender joins the one that has it.
\* A new object starts afresh and says nothing of it.
Create(s) ==
    /\ Acquire(s, Path)
    /\ IF Path \in live
       THEN UNCHANGED daemonVars
       ELSE /\ object < MaxObjects
            /\ object' = object + 1
            /\ value' = [q \in Kinds |-> 0]
            /\ link' = "closed"
    /\ UNCHANGED listenerVars

Shutdown(s) ==
    /\ Path \in held[s]
    /\ Release(s, {Path})
    /\ steady' = [l \in Listeners |-> steady[l] /\ l # s]
    /\ UNCHANGED <<daemonVars, kind, stage, wire, known, since>>

DaemonReclaims == Reclaim(Path) /\ UNCHANGED <<daemonVars, listenerVars>>

DaemonStops == Stop /\ UNCHANGED <<daemonVars, listenerVars>>

\* The bus starts the daemon again for the next call.
Activate ==
    /\ stopped
    /\ stopped' = FALSE
    /\ live' = {}
    /\ UNCHANGED <<held, daemonVars, listenerVars>>

-----------------------------------------------------------------------------
(* The listeners.                                                           *)

\* The proxy, its match and, for a kind that asks, its Get are sent.
Construct(l, k) ==
    /\ stage[l] = "none"
    /\ kind' = [kind EXCEPT ![l] = k]
    /\ stage' = [stage EXCEPT ![l] = "sent"]
    /\ steady' = [steady EXCEPT ![l] = Path \in held[l]]
    /\ UNCHANGED <<leaseVars, daemonVars, wire, known, since>>

NewPosition(l) == Construct(l, "position")
NewAccuracy(l) == Construct(l, "accuracy")
NewCourse(l) == Construct(l, "course")
NewSatellite(l) == Construct(l, "satellite")
NewTime(l) == Construct(l, "time")
NewDevice(l) == Construct(l, "fix") \/ Construct(l, "connection")

\* The program cannot reach the bus: an object without a proxy is returned.
ConstructDeaf(l) ==
    /\ stage[l] = "none"
    /\ stage' = [stage EXCEPT ![l] = "deaf"]
    /\ UNCHANGED <<leaseVars, daemonVars, kind, wire, known, since, steady>>

\* A signal is passed on to the program.
Repeat(l) ==
    /\ wire[l] # <<>>
    /\ known' = [known EXCEPT ![l] = Head(wire[l])]
    /\ wire' = [wire EXCEPT ![l] = Tail(@)]
    /\ UNCHANGED <<leaseVars, daemonVars, kind, stage, since, steady>>

\* The answer to the constructor's Get: a value is passed on as if it had
\* been signalled, an error is only logged.
Answered(l) ==
    IF wire[l] # <<>> /\ Head(wire[l]) = Nothing
    THEN /\ wire' = [wire EXCEPT ![l] = Tail(@)]
         /\ UNCHANGED <<leaseVars, daemonVars, kind, stage, known, since, steady>>
    ELSE Repeat(l)

PositionChanged(l) == kind[l] = "position" /\ Answered(l)
AccuracyChanged(l) == kind[l] = "accuracy" /\ Answered(l)
CourseChanged(l) == kind[l] = "course" /\ Repeat(l)
SatellitesChanged(l) == kind[l] = "satellite" /\ Repeat(l)
TimeChanged(l) == kind[l] = "time" /\ Repeat(l)
DeviceChanged(l) == kind[l] \in {"fix", "connection"} /\ Repeat(l)

Deliver(l) ==
    \/ PositionChanged(l)
    \/ AccuracyChanged(l)
    \/ CourseChanged(l)
    \/ SatellitesChanged(l)
    \/ TimeChanged(l)
    \/ DeviceChanged(l)

\* A getter waits for its own answer and leaves what else has arrived on the
\* wire: what it returns is newer than the signals dispatched after it.  On
\* an error it sets no result.
Get(l, word) ==
    /\ stage[l] = "settled"
    /\ Path \in live /\ ~stopped
    /\ known' = [known EXCEPT ![l] = word]
    /\ UNCHANGED <<leaseVars, daemonVars, kind, stage, wire, since, steady>>

GetPosition(l) == kind[l] = "position" /\ Get(l, Word(l))
GetAccuracy(l) == kind[l] = "accuracy" /\ Get(l, Word(l))

\* The daemon answers with the mask of the position, and the library sets only the
\* results that the mask has: all of the course when the position happens to have
\* the mask the course ought to have.
GetCourse(l) == kind[l] = "course" /\ (Get(l, Word(l)) \/ Get(l, Masked))

GetSatellites(l) == kind[l] = "satellite" /\ Get(l, Word(l))
GetTime(l) == kind[l] = "time" /\ Get(l, Word(l))
GetFixStatus(l) == kind[l] = "fix" /\ Get(l, Word(l))
GetConnectionStatus(l) == kind[l] = "connection" /\ Get(l, Word(l))

Read(l) ==
    \/ GetPosition(l)
    \/ GetAccuracy(l)
    \/ GetCourse(l)
    \/ GetSatellites(l)
    \/ GetTime(l)
    \/ GetFixStatus(l)
    \/ GetConnectionStatus(l)

\* Mutant: the handler stays connected and the Get pending.
DisposeOnly(l) ==
    /\ stage[l] \in {"sent", "matched", "settled", "deaf"}
    /\ stage' = [stage EXCEPT ![l] = "gone"]
    /\ steady' = [steady EXCEPT ![l] = FALSE]
    /\ UNCHANGED <<leaseVars, daemonVars, kind, wire, known, since>>

\* The handler is disconnected and the proxy dropped, the Get with it.
Dispose(l) ==
    /\ stage[l] \in {"sent", "matched", "settled", "deaf"}
    /\ stage' = [stage EXCEPT ![l] = "gone"]
    /\ wire' = [wire EXCEPT ![l] = <<>>]
    /\ steady' = [steady EXCEPT ![l] = FALSE]
    /\ UNCHANGED <<leaseVars, daemonVars, kind, known, since>>
-----------------------------------------------------------------------------
Init ==
    /\ LeaseInit
    /\ object = 0
    /\ value = [q \in Kinds |-> 0]
    /\ link = "closed"
    /\ kind = [l \in Listeners |-> "none"]
    /\ stage = [l \in Listeners |-> "none"]
    /\ wire = [l \in Listeners |-> <<>>]
    /\ known = [l \in Listeners |-> Nothing]
    /\ since = [l \in Listeners |-> Nothing]
    /\ steady = [l \in Listeners |-> FALSE]

Make(l) ==
    \/ NewPosition(l)
    \/ NewAccuracy(l)
    \/ NewCourse(l)
    \/ NewSatellite(l)
    \/ NewTime(l)
    \/ NewDevice(l)
    \/ ConstructDeaf(l)

Next ==
    \/ DaemonReports
    \/ DaemonStarts
    \/ DaemonConnects
    \/ DaemonDisconnects
    \/ DaemonReclaims
    \/ DaemonStops
    \/ Activate
    \/ \E s \in Senders : Create(s) \/ Shutdown(s)
    \/ \E l \in Listeners :
          \/ BusMatches(l)
          \/ DaemonAnswers(l)
          \/ Make(l)
          \/ Deliver(l)
          \/ Read(l)
          \/ Dispose(l)

\* The bus delivers, the daemon returns to its main loop and so does the
\* program; nothing is assumed of what the programs or the device do.
Fairness ==
    \A l \in Listeners : WF_vars(BusMatches(l)) /\ WF_vars(DaemonAnswers(l)) /\ WF_vars(Deliver(l))

Spec == Init /\ [][Next]_vars /\ Fairness

-----------------------------------------------------------------------------
(* Properties.                                                              *)

\* A word is right for l when it is the present value, or when l, of a kind
\* that does not ask, has no word and the value is still the one l started
\* with.
IsRight(l, word) ==
    /\ kind[l] # "none"
    /\ \/ word = Word(l)
       \/ word = Nothing /\ kind[l] \notin Asking /\ since[l] = Word(l)

\* A course as GetCourse answered it.
IsMasked(l, word) == kind[l] = "course" /\ word = Masked

LastWord(l) == IF wire[l] = <<>> THEN known[l] ELSE Last(wire[l])

\* However the answer to the constructor's Get, the getters and the signals
\* cross, the last thing a listener of a program that keeps its lease is told
\* is the present value (gypsy-position.c:246-254, gypsy-accuracy.c:244-252).
\* Two exceptions: a course read with GetCourse after the last signal, and the
\* connection from Start to its signal, or to the next Stop or hang-up when a
\* Start that failed left the device open.
LastWordIsRight ==
    \A l \in Listeners :
        steady[l] /\ stage[l] = "settled" /\ ~Untold(l)
          => IsRight(l, LastWord(l)) \/ IsMasked(l, LastWord(l))

InOrder(older, newer) ==
    older[1] < newer[1] \/ (older[1] = newer[1] /\ older[2] <= newer[2])

\* What is on its way to a listener never goes back: the answer to the
\* constructor's Get takes its place among the signals
\* (gypsy-position.c:193-212, gypsy-accuracy.c:192-210).
WireNeverGoesBack ==
    \A l \in Listeners : \A i, j \in DOMAIN wire[l] :
        i < j /\ Nothing \notin {wire[l][i], wire[l][j]} => InOrder(wire[l][i], wire[l][j])

\* A disposed listener calls its program no more, whatever was on its way
\* and whether or not its Get was answered (gypsy-position.c:129-135).
GoneIsQuiet ==
    [][\A l \in Listeners : stage[l] = "gone" => UNCHANGED known[l]]_vars

\* A program that keeps its lease ends up with the present value, once the
\* device is quiet; the bound on the changes makes it quiet
\* (gypsy-position.c:179-190 and its counterparts).  A course read with GetCourse
\* and a device left open by a Start are the exceptions.
EndsUpRight ==
    \A l \in Listeners :
        <>[](steady[l] /\ ~Untold(l))
          => <>[](IsRight(l, known[l]) \/ IsMasked(l, known[l]))
=============================================================================
