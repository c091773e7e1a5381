------------------------------ MODULE FixData -------------------------------
(***************************************************************************)
(* Time, fix, position, course and accuracy: the sentences RMC, GGA and GSA  *)
(* (src/src/nmea-parser.c) each carry some of them, and the client object    *)
(* (gypsy_client_set_* in src/src/gypsy-client.c) merges what they say,      *)
(* computes the climb, and signals what changed.  The sentences describe one *)
(* receiver, so they ought to agree; the date comes with RMC only.  A Garmin *)
(* receiver sends one PVT record with all of it (gypsy-garmin-parser.c).     *)
(*                                                                         *)
(* A group of quantities is a function on the fields that are set: its       *)
(* domain is the bit mask in the code.                                      *)
(***************************************************************************)
EXTENDS Integers, FiniteSets, GarminTime

CONSTANTS
    Readings,        \* what the receiver may measure
    Leap,            \* the leap seconds a Garmin receiver knows of
    Starts,          \* the moments the receiver may be switched on
    BlankTimes,      \* what an empty time field may be read as
    PerSecond,       \* how often the receiver may measure in a second
    Seconds,         \* bound: how long it is looked at
    MaxReconnects    \* bound: Stop and Start of the connection

\* No receiver is older than the GPS weeks.
ASSUME TimesAssumption ==
    /\ Day \in Nat \ {0}
    /\ Leap \in Nat
    /\ Starts \subseteq Nat
    /\ \A s \in Starts : s >= (FirstWeek + DAYS_PER_WEEK) * Day
    /\ BlankTimes \subseteq Int
    /\ PerSecond \in Nat \ {0}
    /\ Seconds \in Nat
    /\ MaxReconnects \in Nat

Moments == UNION {s .. s + Seconds : s \in Starts}

PositionFields == {"latitude", "longitude", "altitude"}
CourseFields == {"speed", "direction", "climb"}
AccuracyFields == {"position", "horizontal", "vertical"}

FIX_INVALID == 0
FIX_NONE == 1
FIX_2D == 2
FIX_3D == 3

Signals == {"TimeChanged", "FixStatusChanged", "PositionChanged",
            "CourseChanged", "AccuracyChanged"}

NoField == [f \in {} |-> 0]

\* The climb is never measured, and where there is speed there is a direction.
ASSUME ReadingsAssumption ==
    \A r \in Readings :
        /\ r.fix \in FIX_NONE .. FIX_3D
        /\ DOMAIN r.position \subseteq PositionFields
        /\ DOMAIN r.course \subseteq {"speed", "direction"}
        /\ DOMAIN r.accuracy \subseteq AccuracyFields
        /\ ("speed" \in DOMAIN r.course /\ r.course["speed"] >= 1)
             => "direction" \in DOMAIN r.course /\ r.course["direction"] \in 0 .. 360

VARIABLES
    now, fraction,             \* the receiver: its clock and the measurement in
    reading, clock_set,        \* the second, what it measures, and whether it
                               \* knows the time
    parser,                    \* the parser of the connection, "nmea" or "garmin"
    datestamp,                 \* NMEAParseContext: midnight of the last RMC
    lastcourse,                \* the Garmin parser: the direction last computed
    timestamp, last_alt_timestamp, fix_type, position, course, accuracy,
    emitted,                   \* the signals of this step
    heard,                     \* what the last signal of each kind said
    told,                      \* history: the time of the last timed sentence
    lapsed,                    \* history: a midnight has passed, or the clock was
                               \* lost, since the last sentence with a date
    smooth,                    \* history: no climb had to be computed from times
                               \* that are equal or wrong
    reconnects

receiver == <<now, fraction, reading, clock_set>>
context == <<parser, datestamp, lastcourse>>
store == <<timestamp, last_alt_timestamp, fix_type, position, course, accuracy>>
history == <<told, lapsed, smooth>>
vars == <<receiver, context, store, emitted, heard, history, reconnects>>

Known(group, fields) == DOMAIN group \subseteq fields

TypeOK ==
    /\ now \in Moments
    /\ fraction \in 0 .. PerSecond - 1
    /\ reading \in Readings
    /\ clock_set \in BOOLEAN
    /\ parser \in {"nmea", "garmin"}
    /\ datestamp \in Nat
    /\ lastcourse \in -1 .. 360
    /\ timestamp \in Int
    /\ last_alt_timestamp \in Int
    /\ fix_type \in FIX_INVALID .. FIX_3D
    /\ Known(position, PositionFields)
    /\ Known(course, CourseFields)
    /\ Known(accuracy, AccuracyFields)
    /\ emitted \subseteq Signals
    /\ DOMAIN heard = Signals
    /\ told \in Int
    /\ lapsed \subseteq {"midnight", "lost"}
    /\ smooth \in BOOLEAN
    /\ reconnects \in 0 .. MaxReconnects

\* gypsy_client_get_course: the values of the course, zero where there is none,
\* under the bit mask of the position.
CourseField == [latitude |-> "speed", longitude |-> "direction", altitude |-> "climb"]
CourseAnswer ==
    [f \in {CourseField[g] : g \in DOMAIN position} |->
        IF f \in DOMAIN course THEN course[f] ELSE 0]

\* What the methods GetTime, GetFixStatus, GetPosition, GetCourse and GetAccuracy
\* return.
Current ==
    [TimeChanged |-> timestamp,
     FixStatusChanged |-> fix_type,
     PositionChanged |-> position,
     CourseChanged |-> CourseAnswer,
     AccuracyChanged |-> accuracy]

\* What the signals say: the course has its own mask here.
Stored == [Current EXCEPT !["CourseChanged"] = course]

Init ==
    /\ now \in Starts
    /\ fraction = 0
    /\ reading \in Readings
    /\ clock_set \in BOOLEAN
    /\ parser \in {"nmea", "garmin"}
    /\ datestamp = 0
    /\ lastcourse = -1
    /\ timestamp = 0
    /\ last_alt_timestamp = 0
    /\ fix_type = FIX_INVALID
    /\ position = NoField
    /\ course = NoField
    /\ accuracy = NoField
    /\ emitted = {}
    /\ heard = Stored
    /\ told = 0
    /\ lapsed = {}
    /\ smooth = TRUE
    /\ reconnects = 0

-----------------------------------------------------------------------------
(* gypsy_client_set_position, _course and _accuracy: each field that is new, *)
(* or has another value, is stored and makes the signal due.                 *)

Update(known, new) ==
    [f \in DOMAIN known \cup DOMAIN new |-> IF f \in DOMAIN new THEN new[f] ELSE known[f]]

\* Mutants: a field set for the first time is no change; every sentence is one.
ChangesValue(known, new) ==
    \E f \in DOMAIN new \cap DOMAIN known : known[f] # new[f]
ChangesAlways(known, new) == DOMAIN new # {}

Changes(known, new) ==
    \E f \in DOMAIN new : f \notin DOMAIN known \/ known[f] # new[f]

NewAltitude(new) ==
    /\ "altitude" \in DOMAIN new
    /\ "altitude" \in DOMAIN position => new["altitude"] # position["altitude"]

\* Mutant: the position is stored before the time of the sentence is.
ElapsedBefore(time) == timestamp - last_alt_timestamp

Elapsed(time) == time - last_alt_timestamp

\* The climb, as the pair whose quotient it is; only a change from a known
\* altitude at a known time makes one.
Climb(new, time) ==
    IF NewAltitude(new) /\ "altitude" \in DOMAIN position /\ last_alt_timestamp > 0
      THEN [climb |-> <<new["altitude"] - position["altitude"], Elapsed(time)>>]
      ELSE NoField

SetPosition(new, time) ==
    /\ position' = Update(position, new)
    /\ last_alt_timestamp' = IF NewAltitude(new) THEN time ELSE last_alt_timestamp

-----------------------------------------------------------------------------
(* gypsy_client_set_fix_type.  RMC only tells a fix from none, so its fix is *)
(* weak and does not demote a 3D fix.                                       *)

\* Mutant: a weak fix is taken for a strong one.
FixStrong(weak) == fix_type

ComparedFix(weak) == IF weak /\ fix_type = FIX_3D THEN FIX_2D ELSE fix_type

SetFixType(type, weak) ==
    fix_type' = IF ComparedFix(weak) # type THEN type ELSE fix_type

\* The signals due, each with the values just stored.
Emit(due) ==
    /\ emitted' = due
    /\ heard' = [s \in Signals |-> IF s \in due THEN Stored'[s] ELSE heard[s]]

When(condition, signal) == IF condition THEN {signal} ELSE {}

-----------------------------------------------------------------------------
(* The date and time of a sentence.  The fraction of a second is not read; of *)
(* an empty field the separators and what follows them are.                  *)

TimesOfDay == IF clock_set THEN {now % Day} ELSE BlankTimes

\* Mutant: a time before the first date counts from the epoch.
TimestampsAnyway(date) == {date + t : t \in TimesOfDay}

Timestamps(date) == IF date = 0 THEN {0} ELSE {date + t : t \in TimesOfDay}

\* The date of an RMC sentence.  An empty one is no valid date for GDate, which
\* keeps the one it has: the last one, or none (0).
Datestamp == IF clock_set THEN now - (now % Day) ELSE datestamp

Dated == IF clock_set THEN {} ELSE lapsed

-----------------------------------------------------------------------------
(* parse_rmc, parse_gga and parse_gsa.                                      *)

RmcAt(time) ==
    LET new == [f \in DOMAIN reading.position \ {"altitude"} |-> reading.position[f]]
        valid == reading.fix > FIX_NONE
    IN  /\ parser = "nmea"
        /\ datestamp' = Datestamp
        /\ timestamp' = time
        /\ told' = IF clock_set THEN now ELSE told
        /\ lapsed' = Dated
        /\ SetPosition(new, time)
        /\ SetFixType(IF valid THEN FIX_2D ELSE FIX_NONE, valid)
        /\ course' = Update(course, reading.course)
        /\ UNCHANGED <<receiver, parser, lastcourse, accuracy, smooth, reconnects>>
        /\ Emit(When(time # timestamp, "TimeChanged")
                \cup When(Changes(position, new), "PositionChanged")
                \cup When(ComparedFix(valid) # (IF valid THEN FIX_2D ELSE FIX_NONE),
                          "FixStatusChanged")
                \cup When(Changes(course, reading.course), "CourseChanged"))

Rmc == \E time \in Timestamps(Datestamp) : RmcAt(time)

\* "We can fake the fix type here by checking what fields are set".
FixOf(new) ==
    IF ~({"latitude", "longitude"} \subseteq DOMAIN new) THEN FIX_NONE
    ELSE IF "altitude" \in DOMAIN new THEN FIX_3D ELSE FIX_2D

\* An empty horizontal dilution is read as 0.
Hdop == [horizontal |-> IF "horizontal" \in DOMAIN reading.accuracy
                          THEN reading.accuracy["horizontal"] ELSE 0]

GgaAt(sent) ==
    LET time == IF sent > 0 THEN sent ELSE timestamp
        new == reading.position
    IN  /\ parser = "nmea"
        /\ timestamp' = time
        /\ told' = IF sent > 0 /\ clock_set THEN now ELSE told
        /\ smooth' = (smooth /\ lapsed = {})
        /\ SetPosition(new, time)
        /\ course' = Update(course, Climb(new, time))
        /\ SetFixType(FixOf(new), FALSE)
        /\ accuracy' = Update(accuracy, Hdop)
        /\ UNCHANGED <<receiver, context, lapsed, reconnects>>
        /\ Emit(When(time # timestamp, "TimeChanged")
                \cup When(Changes(position, new), "PositionChanged")
                \cup When(Changes(course, Climb(new, time)), "CourseChanged")
                \cup When(ComparedFix(FALSE) # FixOf(new), "FixStatusChanged")
                \cup When(Changes(accuracy, Hdop), "AccuracyChanged"))

Gga == \E sent \in Timestamps(datestamp) : GgaAt(sent)

\* ?: binds weaker than |, so only the first dilution that is there counts.
GsaFields ==
    LET there(f) == f \in DOMAIN reading.accuracy
    IN  IF there("position") THEN {"position"}
        ELSE IF there("horizontal") THEN {"horizontal"}
        ELSE IF there("vertical") THEN {"vertical"} ELSE {}

Gsa ==
    LET new == [f \in GsaFields |-> reading.accuracy[f]]
    IN  /\ parser = "nmea"
        /\ SetFixType(reading.fix, FALSE)
        /\ accuracy' = Update(accuracy, new)
        /\ UNCHANGED <<receiver, context, timestamp, last_alt_timestamp,
                       position, course, history, reconnects>>
        /\ Emit(When(ComparedFix(FALSE) # reading.fix, "FixStatusChanged")
                \cup When(Changes(accuracy, new), "AccuracyChanged"))

-----------------------------------------------------------------------------
(* The PVT record of a Garmin receiver has every value, zero where there is   *)
(* none, and a fix that also tells whether it is differential.               *)

PvtFixes == [f \in FIX_NONE .. FIX_3D |->
               IF f = FIX_NONE THEN {0, 1} ELSE {f, f + 2}]

PvtFixType(fix) ==
    IF fix \in {0, 1} THEN FIX_NONE
    ELSE IF fix \in {2, 4} THEN FIX_2D
    ELSE IF fix \in {3, 5} THEN FIX_3D
    ELSE FIX_INVALID

Whole(group, fields) ==
    [f \in fields |-> IF f \in DOMAIN group THEN group[f] ELSE 0]

\* calculate_speed_course: below one knot the direction is the last one.
Direction ==
    IF Whole(reading.course, {"speed"})["speed"] >= 1 THEN reading.course["direction"]
    ELSE IF lastcourse >= 0 THEN lastcourse ELSE 0

Pvt(time, fix) ==
    LET new == Whole(reading.position, PositionFields)
        moving == Whole(reading.course, {"speed"})["speed"] >= 1
        motion == [speed |-> Whole(reading.course, {"speed"})["speed"],
                   direction |-> Direction]
        climbed == Update(course, Climb(new, time))
    IN  /\ timestamp' = time
        /\ told' = now
        /\ lapsed' = {}
        /\ SetPosition(new, time)
        /\ course' = Update(climbed, motion)
        /\ lastcourse' = IF moving THEN Direction ELSE lastcourse
        /\ UNCHANGED <<receiver, parser, datestamp, accuracy, smooth, reconnects>>
        /\ SetFixType(PvtFixType(fix), FALSE)
        /\ Emit(When(time # timestamp, "TimeChanged")
                \cup When(Changes(position, new), "PositionChanged")
                \cup When(ComparedFix(FALSE) # PvtFixType(fix), "FixStatusChanged")
                \cup When(\/ Changes(course, Climb(new, time))
                         \/ Changes(climbed, motion), "CourseChanged"))

GarminPvt ==
    /\ parser = "garmin"
    /\ clock_set
    /\ \E time \in {CalculateUtc(pvt) : pvt \in PvtTimes(now, Leap)},
          fix \in PvtFixes[reading.fix] : Pvt(time, fix)

-----------------------------------------------------------------------------
(* The receiver measures again, in the same second or in the next one, finds  *)
(* out the time at some point and may lose it.                               *)

Tick ==
    \/ /\ now + 1 \in Moments
       /\ now' = now + 1
       /\ fraction' = 0
    \/ /\ fraction + 1 < PerSecond
       /\ fraction' = fraction + 1
       /\ UNCHANGED now

Measure ==
    /\ Tick
    /\ reading' \in Readings
    /\ clock_set' \in BOOLEAN
    /\ lapsed' = lapsed \cup When(now' # now /\ now' % Day = 0, "midnight")
                       \cup When(clock_set /\ ~clock_set', "lost")
    /\ smooth' = (smooth /\ now' # now)
    /\ emitted' = {}
    /\ UNCHANGED <<context, store, heard, told, reconnects>>

\* Stop and Start make a new parser; the client object keeps its data.
Reconnect ==
    /\ reconnects < MaxReconnects
    /\ reconnects' = reconnects + 1
    /\ parser' \in {"nmea", "garmin"}
    /\ datestamp' = 0
    /\ lastcourse' = -1
    /\ smooth' = FALSE
    /\ emitted' = {}
    /\ UNCHANGED <<receiver, store, heard, told, lapsed>>

-----------------------------------------------------------------------------
Next == Rmc \/ Gga \/ Gsa \/ GarminPvt \/ Measure \/ Reconnect

Spec == Init /\ [][Next]_vars

\* The receiver sends each sentence again and again.
FairSpec ==
    Spec /\ WF_vars(Rmc) /\ WF_vars(Gga) /\ WF_vars(Gsa) /\ WF_vars(GarminPvt)

-----------------------------------------------------------------------------
\* A listener that keeps the last signal of each kind knows what the methods
\* would return, in any order of sentences; but GetCourse has the mask of the
\* position, and there the listener knows the course and the answer may not.
HeardIsCurrent ==
    /\ \A s \in Signals \ {"CourseChanged"} : heard[s] = Current[s]
    /\ heard["CourseChanged"] = course

\* To its listeners the client object is a notifier: it keeps a value for each
\* signal and changes none in silence, whatever sentence or record it comes by.
\* The values are the answers of GetTime, GetFixStatus, GetPosition and
\* GetAccuracy, and the course; not the answer of GetCourse, whose mask changes
\* with the position and without a CourseChanged.
Notifier == INSTANCE Notifier WITH values <- Stored
ImplementsNotifier == Notifier!NotifierSpec

\* The time is that of the last sentence that had one, although only RMC has
\* the date and any sentence may be the first, in whatever order the receiver
\* finds and loses the time and connections come and go; except from a midnight,
\* or from the moment the receiver loses the time, to the next RMC with a date
\* or the next PVT record.
TimestampIsUtc == lapsed = {} => timestamp \in {0, told}

\* "This is stored as only RMC supplies it but other sentences can supply the UTC
\* time. We convert UTC time into seconds and add it to this to get the timestamp":
\* of a receiver that does not lose the time, the timestamp is the time the
\* sentence was sent at.
TimestampIsTold == "lost" \notin lapsed => timestamp \in {0, told}

\* The climb is a change of altitude over a time that is not zero or negative, as
\* long as the receiver measures at most once a second, no GGA sentence comes
\* between a midnight or a lost clock and the next RMC with a date, and the
\* connection is not restarted: the first GGA after that has no date, and is
\* taken for as old as the last one.
ClimbIsFinite ==
    (smooth /\ "climb" \in DOMAIN course) => course["climb"][2] > 0

\* "If the device is stationary, no PositionChanged signals will be emitted
\* until the device starts to move again": the receiver stays where it is when
\* Seconds have gone by, and RMC and GGA, of which only one has the altitude, go on.
PositionQuiet == <>[]("PositionChanged" \notin emitted)

\* "It will not be woken up if the satellite position changes, only if the fix
\* status changes": the three sentences of a receiver that measures the same
\* settle on one fix type, though RMC and GGA do not state one.  A receiver that
\* gives an altitude with a 2D fix is the exception: GGA and GSA disagree.
FixQuiet ==
    <>[](FixOf(reading.position) = reading.fix)
        => <>[]("FixStatusChanged" \notin emitted)
=============================================================================
