----------------------------- MODULE MCFixData ------------------------------
(* Receivers for FixData.  A reading has no fix, a 2D fix with or without the *)
(* altitude the receiver holds from before, or a 3D fix at one of two heights. *)
EXTENDS FixData, TLC

Place(alt) == [latitude |-> 57, longitude |-> 12] @@ alt
NoAltitude == [f \in {} |-> 0]
Altitude(a) == [altitude |-> a]
Moving == [speed |-> 5, direction |-> 90]
AllDops == [position |-> 2, horizontal |-> 1, vertical |-> 1]

Lost == [fix |-> FIX_NONE, position |-> NoField, course |-> NoField, accuracy |-> NoField]
Flat == [fix |-> FIX_2D, position |-> Place(NoAltitude), course |-> Moving, accuracy |-> [horizontal |-> 3]]
Held == [fix |-> FIX_2D, position |-> Place(Altitude(10)), course |-> Moving, accuracy |-> [horizontal |-> 3]]
Low == [fix |-> FIX_3D, position |-> Place(Altitude(10)), course |-> Moving, accuracy |-> AllDops]
High == [fix |-> FIX_3D, position |-> Place(Altitude(20)), course |-> Moving, accuracy |-> AllDops]

const_All == {Lost, Flat, Held, Low, High}

\* The last second of 1 January 2000, a Saturday: with one leap second a GPS week
\* begins in it, and midnight follows.
const_Starts == {4 * 10957 + 3}

\* An empty time is read as about half a day before midnight.
const_BlankTimes == {-2}

\* calculate_utc is right for every day from 1990 to 2037, at each second of a
\* short day, with up to two leap seconds, however the record counts the week.
ASSUME UtcAssumption ==
    \A day \in FirstWeek + DAYS_PER_WEEK .. 24836, second \in 0 .. Day - 1, leap \in 0 .. 2 :
        LET moment == day * Day + second
        IN  \A pvt \in PvtTimes(moment, leap) : CalculateUtc(pvt) = moment
=============================================================================
