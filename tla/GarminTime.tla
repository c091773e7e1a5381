----------------------------- MODULE GarminTime -----------------------------
(***************************************************************************)
(* calculate_utc of src/src/gypsy-garmin-parser.c: from the second of the    *)
(* GPS week, the day the week began on (counted from 31 December 1989) and   *)
(* the leap seconds to seconds since 1970, by way of a calendar date.        *)
(***************************************************************************)
EXTENDS Integers

CONSTANT Day      \* SECONDS_PER_DAY

SECONDS_PER_WEEK == 7 * Day
DAYS_PER_WEEK == 7

\* The date of a Julian day number, by integers: the code divides doubles and
\* truncates, (jd - 1867216.25) / 36524.25 and so on.
Date(jd) ==
    LET w == (4 * jd - 7468865) \div 146097
        b == jd + 1 + w - (w \div 4) + 1524
        c == (20 * b - 2442) \div 7305
        d == (1461 * c) \div 4
        e == (10000 * (b - d)) \div 306001
        month == IF e - 1 > 12 THEN e - 13 ELSE e - 1
    IN  [day |-> b - d - ((306001 * e) \div 10000),
         month |-> month,
         year |-> c - 4716 + (IF month \in {1, 2} THEN 1 ELSE 0)]

IsLeapYear(y) == y % 4 = 0 /\ (y % 100 # 0 \/ y % 400 = 0)

DaysBeforeMonth(y, m) ==
    <<0, 31, 59, 90, 120, 151, 181, 212, 243, 273, 304, 334>>[m]
        + (IF m > 2 /\ IsLeapYear(y) THEN 1 ELSE 0)

\* g_date_days_between, from 1 January 1970.
DaysSinceEpoch(date) ==
    LET years == date.year - 1
    IN  365 * (date.year - 1970)
        + (years \div 4) - (years \div 100) + (years \div 400) - 477
        + DaysBeforeMonth(date.year, date.month) + date.day - 1

\* The first sample of a week may be given as the end of the last one.
WeekRounded(tow, wn_days) ==
    IF tow >= SECONDS_PER_WEEK THEN <<0, wn_days + DAYS_PER_WEEK>> ELSE <<tow, wn_days>>

\* Mutant: leap seconds that lead back into the last week keep the new one's day.
LeapInWeek(tmp, dtmp, leap_scnds) ==
    IF tmp < leap_scnds THEN <<tmp - leap_scnds + SECONDS_PER_WEEK, dtmp>>
    ELSE <<tmp - leap_scnds, dtmp>>

LeapCorrected(tmp, dtmp, leap_scnds) ==
    IF tmp < leap_scnds
      THEN <<tmp - leap_scnds + SECONDS_PER_WEEK, dtmp - DAYS_PER_WEEK>>
      ELSE <<tmp - leap_scnds, dtmp>>

CalculateUtc(pvt) ==
    LET rounded == WeekRounded(pvt.tow, pvt.wn_days)
        corrected == LeapCorrected(rounded[1], rounded[2], pvt.leap_scnds)
        jd == corrected[2] + (corrected[1] \div Day) + 2447892
    IN  DaysSinceEpoch(Date(jd)) * Day + (corrected[1] % Day)

-----------------------------------------------------------------------------
\* What the record for a moment looks like: 31 December 1989 is day 7304, and
\* GPS time is ahead of UTC by the leap seconds.  The first second of a week may
\* be the last of the week before.
FirstWeek == 7304

PvtTimes(now, leap) ==
    LET days == (now + leap) \div Day - FirstWeek
        week == days - (days % DAYS_PER_WEEK)
        tow == now + leap - (FirstWeek + week) * Day
        at(t, w) == [tow |-> t, wn_days |-> w, leap_scnds |-> leap]
    IN  {at(tow, week)}
        \cup (IF tow = 0 THEN {at(SECONDS_PER_WEEK, week - DAYS_PER_WEEK)} ELSE {})
=============================================================================
