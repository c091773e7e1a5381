----------------------------- MODULE Satellites -----------------------------
(***************************************************************************)
(* How the satellites in view travel from the receiver to the listeners.    *)
(* A receiver describes the sky once a second in a group of GSV sentences,   *)
(* numbered 1..n; parse_gsv (src/src/nmea-parser.c) collects them into the   *)
(* new_satellites of the client object, and when the last one is in,          *)
(* gypsy_client_set_satellites (src/src/gypsy-client.c) compares the new     *)
(* list with the old one and emits SatellitesChanged.  Sentences get lost (a *)
(* bad checksum, a full buffer) and the connection may be stopped and        *)
(* started in the middle of a group: that makes a new parser, but the client *)
(* object and what it has collected stay.  Two histories say what the list   *)
(* collected is made of.                                                    *)
(***************************************************************************)
EXTENDS Integers, Sequences

CONSTANTS
    Skies,          \* the lists of satellites, as <<id, data>>, in view
    InUseSets,      \* the sets of ids a GSA sentence names
    PerSentence,    \* satellites in a full GSV sentence, 4 in the code
    MAX_SAT_SVID,   \* length of the satellite arrays, 32 in the code
    MaxBurst,       \* bound: sentences lost in a row
    MaxRestarts     \* bound: Stop and Start of the connection

ASSUME SizesAssumption ==
    /\ PerSentence \in Nat \ {0}
    /\ MAX_SAT_SVID \in Nat \ {0}
    /\ MaxBurst \in Nat
    /\ MaxRestarts \in Nat

\* The lists are sequences of pairs, and fit into the arrays.
ASSUME SkiesAssumption ==
    \A s \in Skies : /\ Len(s) \in 1 .. MAX_SAT_SVID
                     /\ s = [i \in 1 .. Len(s) |-> <<s[i][1], s[i][2]>>]

VARIABLES
    parser,               \* the parser of the connection, "nmea" or "garmin"
    message_count,        \* NMEAParseContext: the GSV sentences of the group seen
    number_of_messages,   \* ... and the number expected
    in_use,               \* ... and the ids of the last GSA sentence
    new_satellites,       \* the list collected, new_sat_count long
    satellites,           \* the array of the current list
    sat_count,
    emitted,              \* this step emitted SatellitesChanged
    sky, next,            \* the receiver: the group it sends, the sentence to come
    burst, restarts,      \* sentences lost in a row, restarts so far
    pending,              \* history: the restarts that left something in the list
    groupLost             \* history: as many sentences as the group expected has were
                          \* lost in a row, since the list was last added to

context == <<message_count, number_of_messages, in_use>>
client == <<new_satellites, satellites, sat_count, emitted>>
device == <<sky, next, burst>>
history == <<pending, groupLost>>
vars == <<parser, context, client, device, restarts, history>>

Ids == UNION {{s[i][1] : i \in DOMAIN s} : s \in Skies}
Satellite == UNION {{<<s[i][1], s[i][2], used>> : i \in DOMAIN s, used \in BOOLEAN}
                    : s \in Skies}

\* A zeroed GypsyClientSatellite.
Zero == <<0, 0, FALSE>>

TypeOK ==
    /\ parser \in {"nmea", "garmin"}
    /\ message_count \in Nat
    /\ number_of_messages \in Nat
    /\ in_use \in InUseSets \cup {{}}
    /\ new_satellites \in Seq(Satellite)
    /\ satellites \in [1 .. MAX_SAT_SVID -> Satellite \cup {Zero}]
    /\ sat_count \in 0 .. MAX_SAT_SVID
    /\ emitted \in BOOLEAN
    /\ sky \in Skies
    /\ next \in Nat \ {0}
    /\ burst \in 0 .. MaxBurst
    /\ restarts \in 0 .. MaxRestarts
    /\ pending \in 0 .. restarts
    /\ groupLost \in BOOLEAN

Sentences(s) == (Len(s) + PerSentence - 1) \div PerSentence

\* The satellites in sentence i of the group that describes s.
Part(s, i) == SubSeq(s, (i - 1) * PerSentence + 1,
                        IF i * PerSentence < Len(s) THEN i * PerSentence ELSE Len(s))

Flagged(part, ids) ==
    [i \in DOMAIN part |-> <<part[i][1], part[i][2], part[i][1] \in ids>>]

Init ==
    /\ parser \in {"nmea", "garmin"}
    /\ message_count = 0
    /\ number_of_messages = 0
    /\ in_use = {}
    /\ new_satellites = << >>
    /\ satellites = [i \in 1 .. MAX_SAT_SVID |-> Zero]
    /\ sat_count = 0
    /\ emitted = FALSE
    /\ sky \in Skies
    /\ next = 1
    /\ burst = 0
    /\ restarts = 0
    /\ pending = 0
    /\ groupLost = FALSE

-----------------------------------------------------------------------------
(* gypsy_client_set_satellites, given the list collected.                   *)

\* Mutant: a shorter list whose satellites are the old ones is no change.
DiffersInContent(list) == \E i \in DOMAIN list : list[i] # satellites[i]

Differs(list) ==
    \/ Len(list) # sat_count
    \/ \E i \in DOMAIN list : list[i] # satellites[i]

SetSatellites(list) ==
    /\ satellites' = [i \in 1 .. MAX_SAT_SVID |->
                         IF i \in DOMAIN list THEN list[i] ELSE satellites[i]]
    /\ sat_count' = Len(list)
    /\ emitted' = Differs(list)
    /\ new_satellites' = << >>
    /\ pending' = 0
    /\ groupLost' = FALSE

-----------------------------------------------------------------------------
(* parse_gsv, for the next sentence of the group.                           *)

Missed == next # message_count + 1

\* Mutant: a gap does not clear what was collected.
CollectedAlways == new_satellites

\* What was collected before this sentence: nothing after a gap.
Collected == IF Missed THEN << >> ELSE new_satellites

\* Mutant: the sentence that announces the number is not counted itself.
ExpectedMore == IF next = 1 THEN Sentences(sky) + 1 ELSE number_of_messages

Expected == IF next = 1 THEN Sentences(sky) ELSE number_of_messages

List == Collected \o Flagged(Part(sky, next), in_use)

SentenceArrives ==
    /\ parser = "nmea"
    /\ next <= Sentences(sky)
    /\ next' = next + 1
    /\ burst' = 0
    /\ UNCHANGED <<parser, in_use, sky, restarts>>

\* After a gap the sentences are skipped until the next number 1.
GsvSkipped ==
    /\ SentenceArrives
    /\ Missed
    /\ next # 1
    /\ new_satellites' = << >>
    /\ message_count' = 0
    /\ number_of_messages' = 0
    /\ emitted' = FALSE
    /\ pending' = 0
    /\ groupLost' = FALSE
    /\ UNCHANGED <<satellites, sat_count>>

GsvCollected ==
    /\ SentenceArrives
    /\ Missed => next = 1
    /\ next # Expected
    /\ new_satellites' = List
    /\ message_count' = next
    /\ number_of_messages' = Expected
    /\ emitted' = FALSE
    /\ pending' = IF Missed THEN 0 ELSE pending
    /\ groupLost' = (groupLost /\ ~Missed)
    /\ UNCHANGED <<satellites, sat_count>>

GsvCompletes ==
    /\ SentenceArrives
    /\ Missed => next = 1
    /\ next = Expected
    /\ SetSatellites(List)
    /\ message_count' = 0
    /\ number_of_messages' = Expected

\* parse_gsa takes down the satellites in use; the flags are read by the next
\* GSV sentence, wherever in its group that is.
Gsa(ids) ==
    /\ parser = "nmea"
    /\ in_use' = ids
    /\ emitted' = FALSE
    /\ UNCHANGED <<parser, message_count, number_of_messages, new_satellites,
                   satellites, sat_count, device, restarts, history>>

-----------------------------------------------------------------------------
(* A satellite record of the Garmin protocol has the good satellites of the  *)
(* whole sky, all in use.                                                   *)

GarminSatData ==
    /\ parser = "garmin"
    /\ next <= Sentences(sky)
    /\ SetSatellites(Flagged(sky, Ids))
    /\ next' = Sentences(sky) + 1
    /\ burst' = 0
    /\ UNCHANGED <<parser, context, sky, restarts>>

-----------------------------------------------------------------------------
(* The receiver and the line.                                               *)

NextGroup ==
    /\ next > Sentences(sky)
    /\ sky' \in Skies
    /\ next' = 1
    /\ emitted' = FALSE
    /\ UNCHANGED <<parser, context, new_satellites, satellites, sat_count,
                   burst, restarts, history>>

\* A sentence is lost, or is dropped because its checksum or its number of
\* fields is wrong, which leaves the context as it is.
Lose ==
    /\ next <= Sentences(sky)
    /\ burst < MaxBurst
    /\ burst' = burst + 1
    /\ next' = IF parser = "nmea" THEN next + 1 ELSE Sentences(sky) + 1
    /\ emitted' = FALSE
    /\ groupLost' = (groupLost \/ (message_count # 0 /\ burst' >= number_of_messages))
    /\ UNCHANGED <<parser, context, new_satellites, satellites, sat_count,
                   sky, restarts, pending>>

\* Stop drops the parser and its context; Start makes another one, and the
\* device may be recognised as a Garmin this time.  The receiver goes on in
\* between, and is heard again from any sentence of any group on.
Restart ==
    /\ restarts < MaxRestarts
    /\ restarts' = restarts + 1
    /\ parser' \in {"nmea", "garmin"}
    /\ message_count' = 0
    /\ number_of_messages' = 0
    /\ in_use' = {}
    /\ sky' \in Skies
    /\ next' \in 1 .. Sentences(sky') + 1
    /\ burst' = 0
    /\ emitted' = FALSE
    /\ pending' = IF new_satellites = << >> THEN 0 ELSE pending + 1
    /\ groupLost' = FALSE
    /\ UNCHANGED <<new_satellites, satellites, sat_count>>

-----------------------------------------------------------------------------
Gsv == GsvSkipped \/ GsvCollected \/ GsvCompletes

Next ==
    \/ Gsv
    \/ \E ids \in InUseSets : Gsa(ids)
    \/ GarminSatData
    \/ NextGroup
    \/ Lose
    \/ Restart

Spec == Init /\ [][Next]_vars

\* The receiver keeps sending, and the daemon reads what arrives.
FairSpec ==
    /\ Spec
    /\ WF_vars(Gsv)
    /\ WF_vars(GarminSatData)
    /\ WF_vars(NextGroup)

-----------------------------------------------------------------------------
\* What GetSatellites returns, and the same without the in-use flags.
Visible == [i \in 1 .. sat_count |-> satellites[i]]
VisibleSky == [i \in 1 .. sat_count |-> <<satellites[i][1], satellites[i][2]>>]

\* However sentences get lost, no more is collected than one group has, and for
\* every restart in mid-group once more as much: Stop does not empty the list
\* (add_satellite asks for no room, gypsy-client.c:1310).
NoOverflow == \E s \in Skies : Len(new_satellites) <= (pending + 1) * Len(s)

\* SatellitesChanged is emitted exactly when the list GetSatellites returns
\* changes, although the array keeps stale entries behind its end.
SignalIffChanged == [][emitted' <=> Visible' # Visible]_vars

\* A sentence that completes a list begins it again, or adds to what one group
\* gave: nothing was left over by a restart, and not so many sentences were lost
\* in a row that those of another group could take their numbers.
OneGroup == Missed \/ (pending = 0 /\ ~groupLost)

\* A new list is the sky one group described, never a mixture: a gap in the
\* numbers makes parse_gsv start again.  Two cases are excepted, in which it is
\* one: what a restart in mid-group left behind is committed with the next group,
\* and after the loss of as many sentences as the group has, the numbers fit
\* and the tail of another group is taken for its own (nmea-parser.c:308).
CommitsWholeGroup ==
    [][(parser = "garmin" \/ OneGroup) /\ Visible' # Visible => VisibleSky' = sky]_vars

\* When sentences are lost no more, complete lists get through again, whatever
\* state the loss or a restart left the parser in.
Recovers == <>[](burst = 0) => []<>(VisibleSky = sky)
=============================================================================
