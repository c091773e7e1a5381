--------------------------- MODULE FixDataProofs ----------------------------
(***************************************************************************)
(* FixData for any readings, any length of a day and of the look at the       *)
(* receiver, and any number of restarts: calculate_utc is right, the time is *)
(* that of the last sentence that had one or whole days behind it, the types *)
(* are kept, a climb takes time, and listeners are never left behind.         *)
(***************************************************************************)
EXTENDS FixData, TLAPS

-----------------------------------------------------------------------------
(* calculate_utc, by way of the calendar.                                   *)

\* The first days of the months, as the date algorithm counts them from March on.
LEMMA Months ==
    ASSUME NEW y \in Int
    PROVE  DaysBeforeMonth(y, 1) = 0 /\ DaysBeforeMonth(y, 2) = 31
BY DEF DaysBeforeMonth

LEMMA MonthsFromMarch ==
    ASSUME NEW y \in Int, NEW month \in 3 .. 12
    PROVE  DaysBeforeMonth(y, month)
             = ((306001 * (month + 1)) \div 10000) - 63 + (IF IsLeapYear(y) THEN 1 ELSE 0)
<1>1. <<0, 31, 59, 90, 120, 151, 181, 212, 243, 273, 304, 334>>[month]
        = ((306001 * (month + 1)) \div 10000) - 63
  OBVIOUS
<1> QED  BY <1>1 DEF DaysBeforeMonth

\* From 1968 to 2099 each fourth year is a leap year.
LEMMA LeapYears ==
    ASSUME NEW y \in Int, 1968 <= y, y <= 2099
    PROVE  /\ IsLeapYear(y) <=> y % 4 = 0
           /\ (y \div 400) - (y \div 100) = -15
<1>1. y <= 1999 \/ y >= 2000  OBVIOUS
<1>2. CASE y <= 1999
  <2>1. y \div 400 = 4 /\ y \div 100 = 19  BY <1>2
  <2>2. y % 100 # 0  BY <1>2
  <2> QED  BY <2>1, <2>2 DEF IsLeapYear
<1>3. CASE y >= 2000
  <2>1. y \div 400 = 5 /\ y \div 100 = 20  BY <1>3
  <2>2. y % 100 = 0 => y = 2000  BY <1>3
  <2>3. 2000 % 400 = 0 /\ 2000 % 4 = 0  OBVIOUS
  <2> QED  BY <2>1, <2>2, <2>3 DEF IsLeapYear
<1> QED  BY <1>1, <1>2, <1>3

\* Four years are 1461 days.
LEMMA FourYears ==
    ASSUME NEW y \in Int
    PROVE  (1461 * (y + 4716)) \div 4
             = 365 * y + ((y - 1) \div 4) + (IF y % 4 = 0 THEN 1 ELSE 0) + 1722519
<1> DEFINE k == y \div 4
           r == y % 4
           d == (1461 * (y + 4716)) \div 4
           p == (y - 1) \div 4
<1>1. k \in Int /\ r \in 0 .. 3 /\ y = 4 * k + r  OBVIOUS
<1>2. d \in Int /\ 4 * d <= 1461 * (y + 4716) /\ 1461 * (y + 4716) < 4 * d + 4  OBVIOUS
<1>3. p \in Int /\ 4 * p <= y - 1 /\ y - 1 < 4 * p + 4  OBVIOUS
<1> HIDE DEF k, r, d, p
<1>4. r = 0 => d = 1461 * k + 1722519 /\ p = k - 1  BY <1>1, <1>2, <1>3
<1>5. r = 1 => d = 1461 * k + 365 + 1722519 /\ p = k  BY <1>1, <1>2, <1>3
<1>6. r = 2 => d = 1461 * k + 730 + 1722519 /\ p = k  BY <1>1, <1>2, <1>3
<1>7. r = 3 => d = 1461 * k + 1095 + 1722519 /\ p = k  BY <1>1, <1>2, <1>3
<1>8. d = 365 * y + p + (IF r = 0 THEN 1 ELSE 0) + 1722519
  BY <1>1, <1>4, <1>5, <1>6, <1>7
<1> QED  BY <1>8 DEF r, d, p

\* The days since 1970, by month, against the count of days that d and z divide.
LEMMA SumFromMarch ==
    ASSUME NEW y \in Int, 1969 <= y, y <= 2099, NEW z \in Int, NEW m \in Int
    PROVE  365 * (y - 1970)
             + ((y - 1) \div 4) - ((y - 1) \div 100) + ((y - 1) \div 400) - 477
             + (m - 63 + (IF IsLeapYear(y) THEN 1 ELSE 0)) + (z - m) - 1
           = z + ((1461 * (y + 4716)) \div 4) - 2442125
<1>1. ((y - 1) \div 400) - ((y - 1) \div 100) = -15
  BY LeapYears
<1>2. IsLeapYear(y) <=> y % 4 = 0
  BY LeapYears
<1>3. (1461 * (y + 4716)) \div 4
        = 365 * y + ((y - 1) \div 4) + (IF IsLeapYear(y) THEN 1 ELSE 0) + 1722519
  BY <1>2, FourYears
<1> QED  BY <1>1, <1>3

LEMMA SumToFebruary ==
    ASSUME NEW y \in Int, 1968 <= y, y <= 2099, NEW z \in Int, NEW m \in Int
    PROVE  365 * (y + 1 - 1970)
             + (y \div 4) - (y \div 100) + (y \div 400) - 477
             + (m - 428) + (z - m) - 1
           = z + ((1461 * (y + 4716)) \div 4) - 2442125
<1>1. (y \div 400) - (y \div 100) = -15
  BY LeapYears
<1>2. y \div 4 = ((y - 1) \div 4) + (IF y % 4 = 0 THEN 1 ELSE 0)
  OBVIOUS
<1>3. (1461 * (y + 4716)) \div 4 = 365 * y + (y \div 4) + 1722519
  BY <1>2, FourYears
<1> QED  BY <1>1, <1>3

\* The date that the numbers y, z, e, m and d of the algorithm stand for.
IsDate(y, z, e, m, d, day, month, year) ==
    /\ y \in Int /\ 1969 <= y /\ y <= 2099 /\ z \in Int /\ e \in 4 .. 15 /\ m \in Int /\ d \in Int
    /\ m = (306001 * e) \div 10000
    /\ d = (1461 * (y + 4716)) \div 4
    /\ day = z - m
    /\ month = IF e - 1 > 12 THEN e - 13 ELSE e - 1
    /\ year = y + (IF month \in {1, 2} THEN 1 ELSE 0)

LEMMA DaysOfDate ==
    ASSUME NEW y, NEW z, NEW e, NEW m, NEW d, NEW day, NEW month, NEW year,
           IsDate(y, z, e, m, d, day, month, year)
    PROVE  DaysSinceEpoch([day |-> day, month |-> month, year |-> year]) = z + d - 2442125
<1>0. /\ y \in Int /\ 1969 <= y /\ y <= 2099 /\ z \in Int /\ e \in 4 .. 15 /\ m \in Int /\ d \in Int
      /\ m = (306001 * e) \div 10000
      /\ d = (1461 * (y + 4716)) \div 4
      /\ day = z - m
      /\ month = IF e - 1 > 12 THEN e - 13 ELSE e - 1
      /\ year = y + (IF month \in {1, 2} THEN 1 ELSE 0)
  BY DEF IsDate
<1>1. DaysSinceEpoch([day |-> day, month |-> month, year |-> year])
        = 365 * (year - 1970)
            + ((year - 1) \div 4) - ((year - 1) \div 100) + ((year - 1) \div 400) - 477
            + DaysBeforeMonth(year, month) + day - 1
  BY DEF DaysSinceEpoch
<1>2. CASE e \in 4 .. 13
  <2>1. month = e - 1 /\ year = y /\ month \in 3 .. 12 /\ month + 1 = e
    BY <1>0, <1>2
  <2>2. DaysBeforeMonth(year, month) = m - 63 + (IF IsLeapYear(y) THEN 1 ELSE 0)
    BY <1>0, <2>1, MonthsFromMarch
  <2>3. DaysSinceEpoch([day |-> day, month |-> month, year |-> year])
          = 365 * (y - 1970)
              + ((y - 1) \div 4) - ((y - 1) \div 100) + ((y - 1) \div 400) - 477
              + (m - 63 + (IF IsLeapYear(y) THEN 1 ELSE 0)) + (z - m) - 1
    BY <1>0, <1>1, <2>1, <2>2
  <2> QED  BY <1>0, <2>3, SumFromMarch, SMT
<1>3. CASE e \in {14, 15}
  <2>1. month = e - 13 /\ year = y + 1 /\ month \in {1, 2} /\ year - 1 = y
    BY <1>0, <1>3
  <2>2. DaysBeforeMonth(year, month) = m - 428
    BY <1>0, <1>3, <2>1, Months
  <2>3. DaysSinceEpoch([day |-> day, month |-> month, year |-> year])
          = 365 * (y + 1 - 1970)
              + (y \div 4) - (y \div 100) + (y \div 400) - 477
              + (m - 428) + (z - m) - 1
    BY <1>0, <1>1, <2>1, <2>2
  <2> QED  BY <1>0, <2>3, SumToFebruary, SMT
<1> QED  BY <1>0, <1>2, <1>3, SMT

\* A Julian day number goes by way of its date to the days since 1 January 1970,
\* for every day from then to 28 February 2100.
LEMMA DaysAreCounted ==
    ASSUME NEW jd \in Int, 2440588 <= jd, jd <= 2488128
    PROVE  DaysSinceEpoch(Date(jd)) = jd - 2440588
<1>0. PICK j \in Int : j = 4 * jd - 7468865 /\ 15 * 146097 <= j /\ j < 17 * 146097
  OBVIOUS
<1>1. PICK w \in {15, 16} : w = j \div 146097
  BY <1>0
<1>2. PICK b \in Int : b = jd + 1537 /\ b = jd + 1 + w - (w \div 4) + 1524
  OBVIOUS
<1>2a. PICK k \in Int : k = 20 * b - 2442 /\ 6685 * 7305 <= k /\ k < 6816 * 7305
  BY <1>2
<1>2b. k \div 7305 \in Int /\ 6685 <= k \div 7305 /\ k \div 7305 <= 6815
      /\ 7305 * (k \div 7305) <= k /\ k < 7305 * (k \div 7305) + 7305
  BY <1>2a
<1>3. PICK c \in Int :
        6685 <= c /\ c <= 6815 /\ c = k \div 7305 /\ 7305 * c <= k /\ k < 7305 * c + 7305
  BY <1>2b
<1>4. PICK y \in Int : 1969 <= y /\ y <= 2099 /\ y = c - 4716 /\ c = y + 4716
  BY <1>3
<1>5. PICK d \in Int : d = (1461 * c) \div 4 /\ 4 * d <= 1461 * c /\ 1461 * c < 4 * d + 4
  OBVIOUS
<1>6. PICK z \in Int : z = b - d /\ 123 <= z /\ z <= 488
  BY <1>2, <1>2a, <1>3, <1>5
<1>7. PICK e \in 4 .. 15 : e = (10000 * z) \div 306001
  BY <1>6
<1>8. PICK m \in Int : m = (306001 * e) \div 10000
  OBVIOUS
<1>9. PICK day \in Int : day = z - m
  OBVIOUS
<1>10. PICK month \in Int : month = IF e - 1 > 12 THEN e - 13 ELSE e - 1
  OBVIOUS
<1>11. PICK year \in Int : year = y + (IF month \in {1, 2} THEN 1 ELSE 0)
  OBVIOUS
<1>12. Date(jd) = [day |-> day, month |-> month, year |-> year]
  <2>1. w = (4 * jd - 7468865) \div 146097
    BY <1>0, <1>1
  <2>2. c = (20 * b - 2442) \div 7305
    BY <1>2a, <1>3
  <2>3. e = (10000 * (b - d)) \div 306001
    BY <1>6, <1>7
  <2>4. day = b - d - ((306001 * e) \div 10000)
    BY <1>6, <1>8, <1>9
  <2>5. year = c - 4716 + (IF month \in {1, 2} THEN 1 ELSE 0)
    BY <1>4, <1>11
  <2> DEFINE ww == (4 * jd - 7468865) \div 146097
             bb == jd + 1 + ww - (ww \div 4) + 1524
             cc == (20 * bb - 2442) \div 7305
             dd == (1461 * cc) \div 4
             ee == (10000 * (bb - dd)) \div 306001
             mm == IF ee - 1 > 12 THEN ee - 13 ELSE ee - 1
  <2>6. Date(jd) = [day |-> bb - dd - ((306001 * ee) \div 10000),
                    month |-> mm,
                    year |-> cc - 4716 + (IF mm \in {1, 2} THEN 1 ELSE 0)]
    BY DEF Date
  <2>7. ww = w
    BY <2>1
  <2> HIDE DEF ww
  <2>8. bb = b
    BY <1>2, <2>7
  <2> HIDE DEF bb
  <2>9. cc = c
    BY <2>2, <2>8
  <2> HIDE DEF cc
  <2>10. dd = d
    BY <1>5, <2>9
  <2> HIDE DEF dd
  <2>11. ee = e
    BY <2>3, <2>8, <2>10
  <2> HIDE DEF ee
  <2>12. mm = month
    BY <1>10, <2>11
  <2> HIDE DEF mm
  <2> QED  BY <2>4, <2>5, <2>6, <2>8, <2>9, <2>10, <2>11, <2>12
<1>13. IsDate(y, z, e, m, d, day, month, year)
  BY <1>4, <1>5, <1>8, <1>9, <1>10, <1>11 DEF IsDate
<1>14. DaysSinceEpoch([day |-> day, month |-> month, year |-> year]) = z + d - 2442125
  BY <1>13, DaysOfDate, SMTT(30)
<1>15. DaysSinceEpoch(Date(jd)) = z + d - 2442125
  BY <1>12, <1>14
<1> QED  BY <1>2, <1>6, <1>15

LEMMA DayIsPositive == Day \in Nat \ {0}
BY TimesAssumption

\* Seconds and days.
LEMMA DivisionIsUnique ==
    ASSUME NEW q \in Int, NEW r \in 0 .. Day - 1
    PROVE  (q * Day + r) \div Day = q /\ (q * Day + r) % Day = r
BY DayIsPositive

LEMMA DayOfSecond ==
    ASSUME NEW a \in Int
    PROVE  \E q \in Int, r \in 0 .. Day - 1 :
             q = a \div Day /\ r = a % Day /\ a = q * Day + r
BY DayIsPositive

LEMMA DaysBefore ==
    ASSUME NEW a \in Int, NEW k \in Int
    PROVE  /\ (a + k * Day) \div Day = (a \div Day) + k
           /\ (a + k * Day) % Day = a % Day
<1>1. PICK q \in Int, r \in 0 .. Day - 1 : q = a \div Day /\ r = a % Day /\ a = q * Day + r
  BY DayOfSecond
<1>2. a + k * Day = (q + k) * Day + r
  BY <1>1, DayIsPositive
<1>3. (a + k * Day) \div Day = q + k /\ (a + k * Day) % Day = r
  BY <1>1, <1>2, DivisionIsUnique
<1> QED  BY <1>1, <1>3

\* The week, the second in it and the leap seconds of a record make its moment,
\* also when the record counts the first second as the last of the week before.
LEMMA RecordOfMoment ==
    ASSUME NEW moment \in Nat, NEW leap \in Nat, NEW pvt \in PvtTimes(moment, leap)
    PROVE  \E tmp, dtmp \in Int :
             /\ LET rounded == WeekRounded(pvt.tow, pvt.wn_days)
                IN  LeapCorrected(rounded[1], rounded[2], pvt.leap_scnds) = <<tmp, dtmp>>
             /\ moment = tmp + (FirstWeek + dtmp) * Day
<1> DEFINE q == (moment + leap) \div Day
           r == (moment + leap) % Day
           days == q - FirstWeek
           week == days - (days % DAYS_PER_WEEK)
           tow == moment + leap - (FirstWeek + week) * Day
           rounded == WeekRounded(pvt.tow, pvt.wn_days)
           tmp == IF tow < leap THEN tow - leap + 7 * Day ELSE tow - leap
           dtmp == IF tow < leap THEN week - 7 ELSE week
<1>0. Day \in Int /\ Day > 0 /\ FirstWeek \in Int
  BY DayIsPositive DEF FirstWeek
<1>1. q \in Int /\ r \in 0 .. Day - 1 /\ moment + leap = q * Day + r
  <2>1. moment + leap \in Int  OBVIOUS
  <2> QED  BY <2>1, DayOfSecond
<1>2. pvt.leap_scnds = leap
  BY DEF PvtTimes
<1>3. \/ pvt.tow = tow /\ pvt.wn_days = week
      \/ tow = 0 /\ pvt.tow = 7 * Day /\ pvt.wn_days = week - 7
  BY DEF PvtTimes, DAYS_PER_WEEK, SECONDS_PER_WEEK
<1> HIDE DEF q, r
<1>4. days \in Int /\ q = FirstWeek + days
  BY <1>0, <1>1
<1>5. week \in Int /\ days - week \in 0 .. 6
  BY <1>4 DEF DAYS_PER_WEEK
<1> HIDE DEF week
<1>6. tow \in Int
  BY <1>0, <1>5
<1>7. tow = (days - week) * Day + r
  BY <1>0, <1>1, <1>4, <1>5
<1>8. 0 <= tow /\ tow < 7 * Day
  <2> HIDE DEF days, tow
  <2>1. PICK i \in 0 .. 6 : i = days - week  BY <1>5
  <2>2. tow = i * Day + r  BY <1>7, <2>1
  <2>3. i = 0 \/ i = 1 \/ i = 2 \/ i = 3 \/ i = 4 \/ i = 5 \/ i = 6  OBVIOUS
  <2> QED  BY <1>0, <1>1, <2>2, <2>3
<1>9. tmp \in Int /\ dtmp \in Int /\ moment = tmp + (FirstWeek + dtmp) * Day
  BY <1>0, <1>5, <1>6
<1> HIDE DEF days, tow
<1>10. rounded = <<tow, week>>
  BY <1>0, <1>3, <1>5, <1>6, <1>8 DEF WeekRounded, SECONDS_PER_WEEK, DAYS_PER_WEEK
<1>11. LeapCorrected(rounded[1], rounded[2], pvt.leap_scnds) = <<tmp, dtmp>>
  BY <1>2, <1>10 DEF LeapCorrected, SECONDS_PER_WEEK, DAYS_PER_WEEK
<1> QED  BY <1>9, <1>11

\* calculate_utc gives back the moment a record was made at, for every moment to
\* February 2100, any leap seconds and either way to count the week; the int it
\* is returned in ends in January 2038 (gypsy-garmin-parser.c:104-213).
THEOREM UtcIsRight ==
    ASSUME NEW moment \in Nat, moment < 47541 * Day, NEW leap \in Nat,
           NEW pvt \in PvtTimes(moment, leap)
    PROVE  CalculateUtc(pvt) = moment
<1>1. PICK tmp \in Int, dtmp \in Int :
        /\ LET rounded == WeekRounded(pvt.tow, pvt.wn_days)
           IN  LeapCorrected(rounded[1], rounded[2], pvt.leap_scnds) = <<tmp, dtmp>>
        /\ moment = tmp + (FirstWeek + dtmp) * Day
  BY RecordOfMoment
<1>2. PICK n \in Int, second \in 0 .. Day - 1 :
        n = moment \div Day /\ second = moment % Day /\ moment = n * Day + second
  BY DayOfSecond
<1>3. n \in Int /\ 0 <= n /\ n <= 47540
  <2>1. n * Day \in Int /\ n * Day <= moment /\ moment < n * Day + Day
    BY <1>2, DayIsPositive
  <2>2. n >= 47541 => n * Day >= 47541 * Day
    BY DayIsPositive
  <2>3. n <= -1 => n * Day <= -Day
    BY DayIsPositive
  <2>4. 47541 * Day \in Int /\ Day \in Int /\ Day > 0
    BY DayIsPositive
  <2>5. ~(n >= 47541)
    BY <2>1, <2>2, <2>4, SMT
  <2>6. ~(n <= -1)
    BY <2>1, <2>3, <2>4, SMT
  <2>7. n \in Int
    BY <1>2
  <2> QED  BY <2>5, <2>6, <2>7, SMT
<1>4. /\ n = (tmp \div Day) + (FirstWeek + dtmp)
      /\ second = tmp % Day
  BY <1>1, <1>2, DaysBefore DEF FirstWeek
<1>5. tmp \div Day \in Int
  BY DayIsPositive
<1> DEFINE julian == dtmp + (tmp \div Day) + 2447892
<1>6. julian = n + 2440588
  BY <1>4, <1>5, SMT DEF FirstWeek
<1>7. CalculateUtc(pvt) = DaysSinceEpoch(Date(julian)) * Day + second
  BY <1>1, <1>4 DEF CalculateUtc
<1> HIDE DEF julian
<1>8. julian \in Int /\ 2440588 <= julian /\ julian <= 2488128
  BY <1>3, <1>6, SMT
<1>9. DaysSinceEpoch(Date(julian)) = julian - 2440588
  BY <1>8, DaysAreCounted, SMT
<1>10. DaysSinceEpoch(Date(julian)) = n
  BY <1>3, <1>6, <1>9, SMT
<1> QED  BY <1>2, <1>7, <1>10, SMT

-----------------------------------------------------------------------------
(* The time and the date.                                                   *)

\* Nobody looks at the receiver after 2037: the time is an int.
Before2038 == \A m \in Moments : m < 24837 * Day

LEMMA MomentsAreLate == \A m \in Moments : m \in Nat /\ m >= Day
<1> SUFFICES ASSUME NEW m \in Moments PROVE m \in Nat /\ m >= Day
  OBVIOUS
<1>1. PICK s \in Starts : m \in s .. s + Seconds
  BY DEF Moments
<1>2. s \in Nat /\ s >= 7311 * Day
  BY TimesAssumption DEF FirstWeek, DAYS_PER_WEEK
<1>3. 7311 * Day >= Day
  BY DayIsPositive
<1> QED  BY <1>1, <1>2, <1>3, DayIsPositive, TimesAssumption

LEMMA Midnight ==
    ASSUME NEW m \in Nat, m >= Day
    PROVE  /\ m - (m % Day) \in Nat \ {0}
           /\ m % Day \in Nat
           /\ (m - (m % Day)) + (m % Day) = m
<1>1. PICK q \in Int, r \in 0 .. Day - 1 : q = m \div Day /\ r = m % Day /\ m = q * Day + r
  BY DayOfSecond
<1> QED  BY <1>1, DayIsPositive

LEMMA SameDay ==
    ASSUME NEW m \in Nat
    PROVE  (m + 1) % Day = 0 \/ (m + 1) - ((m + 1) % Day) = m - (m % Day)
<1>1. PICK q \in Int, r \in 0 .. Day - 1 : q = m \div Day /\ r = m % Day /\ m = q * Day + r
  <2>1. m \in Int  OBVIOUS
  <2> QED  BY <2>1, DayOfSecond, Zenon
<1>2. CASE r = Day - 1
  <2>1. m + 1 = (q + 1) * Day + 0 /\ q + 1 \in Int /\ 0 \in 0 .. Day - 1
    BY <1>1, <1>2, DayIsPositive
  <2>2. ((q + 1) * Day + 0) % Day = 0
    BY <2>1, DivisionIsUnique
  <2> QED  BY <2>1, <2>2
<1>3. CASE r + 1 \in 0 .. Day - 1
  <2>1. m + 1 = q * Day + (r + 1)
    BY <1>1, DayIsPositive
  <2>2. (q * Day + (r + 1)) % Day = r + 1
    BY <1>3, DivisionIsUnique
  <2>3. q * Day \in Int
    BY DayIsPositive
  <2> QED  BY <1>1, <2>1, <2>2, <2>3
<1> QED  BY <1>2, <1>3, DayIsPositive

\* The PVT record tells the moment it was made at.
LEMMA PvtIsNow ==
    ASSUME Before2038, now \in Moments
    PROVE  \A pvt \in PvtTimes(now, Leap) : CalculateUtc(pvt) = now
<1>1. now \in Nat /\ now < 24837 * Day
  BY MomentsAreLate DEF Before2038
<1>2. Leap \in Nat
  BY TimesAssumption
<1>3. now < 47541 * Day
  BY <1>1, DayIsPositive
<1> QED  BY <1>1, <1>2, <1>3, UtcIsRight

\* A receiver that has given a date and has not lost the time since knows it.
DateIsOfClock == (datestamp # 0 /\ "lost" \notin lapsed) => clock_set

TimeInv ==
    /\ now \in Moments
    /\ parser = "garmin" => datestamp = 0
    /\ DateIsOfClock
    /\ lapsed = {} => datestamp \in {0, now - (now % Day)} /\ timestamp \in {0, told}

LEMMA InitTimeInv == Init => TimeInv
<1> SUFFICES ASSUME Init PROVE TimeInv
  OBVIOUS
<1>1. now \in Nat /\ Seconds \in Nat
  BY TimesAssumption DEF Init
<1>2. now \in now .. now + Seconds
  BY <1>1
<1>3. now \in Moments
  BY <1>2 DEF Moments, Init
<1> QED  BY <1>3 DEF Init, TimeInv, DateIsOfClock

LEMMA RmcTimeInv ==
    ASSUME TimeInv, Rmc  PROVE TimeInv'
<1>1. now \in Nat /\ now >= Day
  BY MomentsAreLate DEF TimeInv
<1>2. /\ now - (now % Day) \in Nat \ {0}
      /\ now % Day \in Nat
      /\ (now - (now % Day)) + (now % Day) = now
  BY <1>1, Midnight
<1>3. PICK time \in Timestamps(Datestamp) : RmcAt(time)
  BY DEF Rmc
<1>4. /\ UNCHANGED <<now, clock_set, parser>> /\ parser = "nmea"
      /\ datestamp' = Datestamp /\ timestamp' = time /\ lapsed' = Dated
      /\ told' = IF clock_set THEN now ELSE told
  BY <1>3 DEF RmcAt, receiver
<1>5. CASE clock_set
  <2>1. datestamp' = now - (now % Day) /\ time = now /\ told' = now /\ lapsed' = {}
    BY <1>2, <1>4, <1>5 DEF Timestamps, TimesOfDay, Datestamp, Dated
  <2> QED  BY <1>4, <1>5, <2>1 DEF TimeInv, DateIsOfClock
<1>6. CASE ~clock_set
  <2>1. datestamp' = datestamp /\ lapsed' = lapsed /\ (datestamp = 0 => time = 0)
    BY <1>4, <1>6 DEF Timestamps, Datestamp, Dated
  <2>2. lapsed = {} => datestamp = 0
    BY <1>6 DEF TimeInv, DateIsOfClock
  <2> QED  BY <1>4, <1>6, <2>1, <2>2 DEF TimeInv, DateIsOfClock
<1> QED  BY <1>5, <1>6

LEMMA GgaTimeInv ==
    ASSUME TimeInv, Gga  PROVE TimeInv'
<1>1. now \in Nat /\ now >= Day
  BY MomentsAreLate DEF TimeInv
<1>2. /\ now - (now % Day) \in Nat \ {0}
      /\ now % Day \in Nat
      /\ (now - (now % Day)) + (now % Day) = now
  BY <1>1, Midnight
<1>3. PICK sent \in Timestamps(datestamp) : GgaAt(sent)
  BY DEF Gga
<1>4. /\ UNCHANGED <<now, clock_set, parser, datestamp, lapsed>>
      /\ timestamp' = IF sent > 0 THEN sent ELSE timestamp
      /\ told' = IF sent > 0 /\ clock_set THEN now ELSE told
  BY <1>3 DEF GgaAt, receiver, context
<1>5. ASSUME lapsed = {}  PROVE timestamp' \in {0, told'}
  <2>1. CASE datestamp = 0
    <3>1. sent = 0
      BY <2>1 DEF Timestamps
    <3> QED  BY <1>4, <1>5, <3>1 DEF TimeInv
  <2>2. CASE datestamp # 0
    <3>1. clock_set /\ datestamp = now - (now % Day)
      BY <1>5, <2>2 DEF TimeInv, DateIsOfClock
    <3>2. sent = now
      BY <1>2, <2>2, <3>1 DEF Timestamps, TimesOfDay
    <3>3. sent > 0
      BY <1>1, <3>2, DayIsPositive
    <3> QED  BY <1>4, <3>1, <3>2, <3>3
  <2> QED  BY <2>1, <2>2
<1> QED  BY <1>4, <1>5 DEF TimeInv, DateIsOfClock

\* A moment later the date is the same, or midnight has passed.
LEMMA MeasureTimeInv ==
    ASSUME TimeInv, Measure  PROVE TimeInv'
<1>1. now \in Nat /\ now >= Day
  BY MomentsAreLate DEF TimeInv
<1>2. /\ now' = now \/ now' = now + 1
      /\ now' \in Moments
  BY DEF Measure, Tick, TimeInv
<1>3. /\ lapsed' = lapsed \cup When(now' # now /\ now' % Day = 0, "midnight")
                       \cup When(clock_set /\ ~clock_set', "lost")
      /\ UNCHANGED <<parser, datestamp, timestamp, told>>
  BY DEF Measure, context, store
<1>4. ASSUME lapsed' = {}
      PROVE  lapsed = {} /\ now' - (now' % Day) = now - (now % Day)
  <2>1. lapsed = {} /\ ~(now' # now /\ now' % Day = 0)
    BY <1>3, <1>4 DEF When
  <2> QED  BY <1>1, <1>2, <2>1, SameDay
<1>5. "lost" \notin lapsed' => "lost" \notin lapsed /\ (clock_set => clock_set')
  BY <1>3 DEF When
<1> QED  BY <1>2, <1>3, <1>4, <1>5 DEF TimeInv, DateIsOfClock

LEMMA NextTimeInv ==
    ASSUME Before2038, TimeInv, [Next]_vars
    PROVE  TimeInv'
<1>1. CASE Rmc
  BY <1>1, RmcTimeInv
<1>2. CASE Gga
  BY <1>2, GgaTimeInv
<1>3. CASE Gsa
  BY <1>3 DEF Gsa, TimeInv, DateIsOfClock, receiver, context, history
<1>4. CASE GarminPvt
  <2>1. PICK pvt \in PvtTimes(now, Leap), fix \in PvtFixes[reading.fix] : Pvt(CalculateUtc(pvt), fix)
    BY <1>4 DEF GarminPvt
  <2>2. CalculateUtc(pvt) = now
    BY <2>1, PvtIsNow DEF TimeInv
  <2>3. datestamp = 0 /\ clock_set
    BY <1>4 DEF GarminPvt, TimeInv
  <2> QED  BY <2>1, <2>2, <2>3 DEF Pvt, TimeInv, DateIsOfClock, receiver
<1>5. CASE Measure
  BY <1>5, MeasureTimeInv
<1>6. CASE Reconnect
  BY <1>6 DEF Reconnect, TimeInv, DateIsOfClock, receiver, store
<1>7. CASE UNCHANGED vars
  BY <1>7 DEF TimeInv, DateIsOfClock, vars, receiver, context, store, history
<1> QED  BY <1>1, <1>2, <1>3, <1>4, <1>5, <1>6, <1>7 DEF Next

\* The time is that of the last sentence that had one, although only RMC has the
\* date, whatever fields are empty and however often the receiver is restarted;
\* from a midnight, or from the loss of the time, to the next sentence with a date
\* nothing is said (nmea-parser.c:215-262, gypsy-garmin-parser.c:256).
THEOREM TimeIsUtc == Before2038 => (Spec => []TimestampIsUtc)
<1> SUFFICES ASSUME Before2038 PROVE Spec => []TimestampIsUtc
  OBVIOUS
<1>1. TimeInv => TimestampIsUtc
  BY DEF TimeInv, TimestampIsUtc
<1>2. TimeInv /\ [Next]_vars => TimeInv'
  BY NextTimeInv
<1> QED  BY <1>1, <1>2, InitTimeInv, PTL DEF Spec

\* What is left of that when midnights pass: a GGA sentence before the first RMC
\* of the day is dated by the last one, so its time is whole days behind; as long
\* as the receiver has not lost the time since it gave the date.
TimeLagsByDays ==
    ("lost" \notin lapsed /\ timestamp # 0) => \E k \in Nat : told = timestamp + k * Day

DateInv ==
    /\ now \in Moments
    /\ datestamp <= now /\ \E d \in Nat : datestamp = d * Day
    /\ DateIsOfClock
    /\ TimeLagsByDays

LEMMA LagOfDate ==
    ASSUME NEW m \in Nat, NEW d \in Nat, d * Day <= m
    PROVE  \E k \in Nat : m = (d * Day + (m % Day)) + k * Day
<1>1. PICK q \in Int, r \in 0 .. Day - 1 : q = m \div Day /\ r = m % Day /\ m = q * Day + r
  <2>1. m \in Int  OBVIOUS
  <2> QED  BY <2>1, DayOfSecond, Zenon
<1>2. d <= q
  <2> SUFFICES ASSUME q + 1 <= d PROVE FALSE
    BY <1>1
  <2>1. (q + 1) * Day <= d * Day
    BY <1>1, DayIsPositive
  <2> QED  BY <1>1, <2>1, DayIsPositive
<1>3. q - d \in Nat /\ m = (d * Day + r) + (q - d) * Day
  BY <1>1, <1>2, DayIsPositive
<1> QED  BY <1>1, <1>3

LEMMA NowIsTold ==
    ASSUME now \in Nat, timestamp' = now, told' = now  PROVE TimeLagsByDays'
<1>1. told' = timestamp' + 0 * Day
  BY DayIsPositive
<1> QED  BY <1>1 DEF TimeLagsByDays

LEMMA RmcDateInv ==
    ASSUME DateInv, Rmc  PROVE DateInv'
<1>1. now \in Nat /\ now >= Day
  BY MomentsAreLate DEF DateInv
<1>2. /\ now - (now % Day) \in Nat \ {0}
      /\ now % Day \in Nat
      /\ (now - (now % Day)) + (now % Day) = now
  BY <1>1, Midnight
<1>3. PICK time \in Timestamps(Datestamp) : RmcAt(time)
  BY DEF Rmc
<1>4. /\ UNCHANGED <<now, clock_set>>
      /\ datestamp' = Datestamp /\ timestamp' = time /\ lapsed' = Dated
      /\ told' = IF clock_set THEN now ELSE told
  BY <1>3 DEF RmcAt, receiver
<1>5. CASE clock_set
  <2>1. timestamp' = now /\ told' = now /\ datestamp' = now - (now % Day)
    BY <1>2, <1>4, <1>5 DEF Timestamps, TimesOfDay, Datestamp
  <2>2. PICK q \in Int, r \in 0 .. Day - 1 : q = now \div Day /\ r = now % Day /\ now = q * Day + r
    BY <1>1, DayOfSecond
  <2>3. now - (now % Day) = q * Day /\ q \in Nat
    <3> SUFFICES q >= 0
      BY <2>2, DayIsPositive
    <3>1. q <= -1 => q * Day <= -Day
      BY <2>2, DayIsPositive
    <3> QED  BY <1>1, <2>2, <3>1, DayIsPositive
  <2> QED  BY <1>1, <1>2, <1>4, <1>5, <2>1, <2>3, NowIsTold DEF DateInv, DateIsOfClock
<1>6. CASE ~clock_set
  <2>1. datestamp' = datestamp /\ lapsed' = lapsed
    BY <1>4, <1>6 DEF Datestamp, Dated
  <2>2. "lost" \notin lapsed => timestamp' = 0
    BY <1>4, <1>6, <2>1 DEF DateInv, DateIsOfClock, Timestamps
  <2> QED  BY <1>4, <2>1, <2>2 DEF DateInv, DateIsOfClock, TimeLagsByDays
<1> QED  BY <1>5, <1>6

LEMMA GgaDateInv ==
    ASSUME DateInv, Gga  PROVE DateInv'
<1>1. now \in Nat /\ now >= Day
  BY MomentsAreLate DEF DateInv
<1>2. now % Day \in Nat
  BY <1>1, Midnight
<1>3. PICK sent \in Timestamps(datestamp) : GgaAt(sent)
  BY DEF Gga
<1>4. /\ UNCHANGED <<now, clock_set, datestamp, lapsed>>
      /\ timestamp' = IF sent > 0 THEN sent ELSE timestamp
      /\ told' = IF sent > 0 /\ clock_set THEN now ELSE told
  BY <1>3 DEF GgaAt, receiver, context
<1>5. ASSUME "lost" \notin lapsed  PROVE TimeLagsByDays'
  <2>1. CASE datestamp = 0
    <3>1. timestamp' = timestamp /\ told' = told
      BY <1>4, <2>1 DEF Timestamps
    <3> QED  BY <1>4, <3>1 DEF DateInv, TimeLagsByDays
  <2>2. CASE datestamp # 0
    <3>1. clock_set
      BY <1>5, <2>2 DEF DateInv, DateIsOfClock
    <3>2. PICK d \in Nat : datestamp = d * Day
      BY DEF DateInv
    <3>3. sent = datestamp + (now % Day)
      BY <2>2, <3>1 DEF Timestamps, TimesOfDay
    <3>4. datestamp \in Nat
      BY <3>2, DayIsPositive
    <3>5. timestamp' = d * Day + (now % Day) /\ told' = now
      BY <1>2, <1>4, <2>2, <3>1, <3>2, <3>3, <3>4
    <3>6. d * Day <= now
      BY <3>2 DEF DateInv
    <3>7. PICK k \in Nat : now = (d * Day + (now % Day)) + k * Day
      BY <1>1, <3>6, LagOfDate
    <3> QED  BY <3>5, <3>7 DEF TimeLagsByDays
  <2> QED  BY <2>1, <2>2
<1>6. TimeLagsByDays'
  BY <1>4, <1>5 DEF TimeLagsByDays
<1> QED  BY <1>4, <1>6 DEF DateInv, DateIsOfClock

LEMMA NextDateInv ==
    ASSUME Before2038, DateInv, [Next]_vars
    PROVE  DateInv'
<1>1. now \in Nat /\ now >= Day
  BY MomentsAreLate DEF DateInv
<1>2. datestamp \in Nat
  <2>1. PICK d \in Nat : datestamp = d * Day
    BY DEF DateInv
  <2> QED  BY <2>1, DayIsPositive
<1>3. CASE Rmc
  BY <1>3, RmcDateInv
<1>4. CASE Gga
  BY <1>4, GgaDateInv
<1>5. CASE Gsa
  BY <1>5 DEF Gsa, DateInv, DateIsOfClock, TimeLagsByDays, receiver, context, history
<1>6. CASE GarminPvt
  <2>1. PICK pvt \in PvtTimes(now, Leap), fix \in PvtFixes[reading.fix] : Pvt(CalculateUtc(pvt), fix)
    BY <1>6 DEF GarminPvt
  <2>2. CalculateUtc(pvt) = now
    BY <2>1, PvtIsNow DEF DateInv
  <2>3. TimeLagsByDays'
    BY <1>1, <2>1, <2>2, NowIsTold DEF Pvt
  <2>4. clock_set
    BY <1>6 DEF GarminPvt
  <2> QED  BY <2>1, <2>3, <2>4 DEF Pvt, DateInv, DateIsOfClock, receiver
<1>7. CASE Measure
  <2>1. now' \in Moments /\ (now' = now \/ now' = now + 1)
    BY <1>7 DEF Measure, Tick, DateInv
  <2>2. UNCHANGED <<datestamp, timestamp, told>>
    BY <1>7 DEF Measure, context, store
  <2>3. "lost" \notin lapsed' => "lost" \notin lapsed /\ (clock_set => clock_set')
    BY <1>7 DEF Measure, When
  <2> QED  BY <1>1, <1>2, <2>1, <2>2, <2>3 DEF DateInv, DateIsOfClock, TimeLagsByDays
<1>8. CASE Reconnect
  <2>1. 0 = 0 * Day
    BY DayIsPositive
  <2> QED  BY <1>1, <1>8, <2>1 DEF Reconnect, DateInv, DateIsOfClock, TimeLagsByDays, receiver, store
<1>9. CASE UNCHANGED vars
  BY <1>9 DEF DateInv, DateIsOfClock, TimeLagsByDays, vars, receiver, context, store, history
<1> QED  BY <1>3, <1>4, <1>5, <1>6, <1>7, <1>8, <1>9 DEF Next

\* Midnights, restarts and empty fields before the first date included, the time of
\* a receiver that keeps it is never ahead, and behind by nothing but whole days
\* (nmea-parser.c:232).
THEOREM TimeLags == Before2038 => (Spec => []TimeLagsByDays)
<1> SUFFICES ASSUME Before2038 PROVE Spec => []TimeLagsByDays
  OBVIOUS
<1>1. Init => DateInv
  <2> SUFFICES ASSUME Init PROVE DateInv
    OBVIOUS
  <2>1. now \in Moments /\ now \in Nat
    BY InitTimeInv, MomentsAreLate DEF TimeInv
  <2>2. 0 = 0 * Day
    BY DayIsPositive
  <2> QED  BY <2>1, <2>2 DEF Init, DateInv, DateIsOfClock, TimeLagsByDays
<1>2. DateInv => TimeLagsByDays
  BY DEF DateInv
<1>3. DateInv /\ [Next]_vars => DateInv'
  BY NextDateInv
<1> QED  BY <1>1, <1>2, <1>3, PTL DEF Spec

-----------------------------------------------------------------------------
(* Types.                                                                   *)

\* What the setters keep.
LEMMA SetFixTypeOK ==
    ASSUME NEW type \in FIX_NONE .. FIX_3D, NEW weak, SetFixType(type, weak),
           fix_type \in FIX_INVALID .. FIX_3D
    PROVE  fix_type' \in FIX_INVALID .. FIX_3D
BY DEF SetFixType, FIX_INVALID, FIX_NONE, FIX_2D, FIX_3D

LEMMA SetPositionOK ==
    ASSUME NEW new, NEW time \in Int, SetPosition(new, time), DOMAIN new \subseteq PositionFields,
           last_alt_timestamp \in Int, Known(position, PositionFields)
    PROVE  last_alt_timestamp' \in Int /\ Known(position, PositionFields)'
BY DEF SetPosition, Update, Known

LEMMA UpdateKnown ==
    ASSUME NEW known, NEW new, NEW fields, Known(known, fields), DOMAIN new \subseteq fields
    PROVE  Known(Update(known, new), fields)
BY DEF Known, Update

LEMMA ClimbFields == \A new, time : DOMAIN Climb(new, time) \subseteq {"climb"}
BY DEF Climb, NoField

LEMMA EmitOK ==
    ASSUME NEW due, Emit(due), due \subseteq Signals
    PROVE  emitted' \subseteq Signals /\ DOMAIN heard' = Signals
BY DEF Emit

LEMMA TimestampsOK ==
    ASSUME NEW date \in Nat, NEW time \in Timestamps(date), now \in Nat
    PROVE  time \in Int
<1>1. TimesOfDay \subseteq Int
  <2>1. now % Day \in Int
    BY DayIsPositive
  <2>2. BlankTimes \subseteq Int
    BY TimesAssumption
  <2> QED  BY <2>1, <2>2, Zenon DEF TimesOfDay
<1>2. CASE date = 0
  BY <1>2 DEF Timestamps
<1>3. CASE date # 0
  <2>1. PICK t \in TimesOfDay : time = date + t
    BY <1>3 DEF Timestamps
  <2> QED  BY <1>1, <2>1
<1> QED  BY <1>2, <1>3

LEMMA NextTypeOK ==
    ASSUME Before2038, TypeOK, [Next]_vars
    PROVE  TypeOK'
<1>1. now \in Nat /\ now >= Day /\ now - (now % Day) \in Nat /\ now % Day \in Nat
  BY MomentsAreLate, Midnight DEF TypeOK
<1>2. /\ reading.fix \in FIX_NONE .. FIX_3D
      /\ DOMAIN reading.position \subseteq PositionFields
      /\ DOMAIN reading.course \subseteq CourseFields
      /\ DOMAIN reading.accuracy \subseteq AccuracyFields
  BY ReadingsAssumption DEF TypeOK, CourseFields
<1>3. CASE Rmc
  <2>0. PICK time \in Timestamps(Datestamp) : RmcAt(time)
    BY <1>3 DEF Rmc
  <2> DEFINE new == [f \in DOMAIN reading.position \ {"altitude"} |-> reading.position[f]]
             valid == reading.fix > FIX_NONE
             type == IF valid THEN FIX_2D ELSE FIX_NONE
             due == When(time # timestamp, "TimeChanged")
                      \cup When(Changes(position, new), "PositionChanged")
                      \cup When(ComparedFix(valid) # type, "FixStatusChanged")
                      \cup When(Changes(course, reading.course), "CourseChanged")
  <2>1. /\ timestamp' = time /\ datestamp' = Datestamp /\ SetPosition(new, time)
        /\ SetFixType(type, valid) /\ course' = Update(course, reading.course)
        /\ told' = (IF clock_set THEN now ELSE told) /\ lapsed' = Dated /\ Emit(due)
        /\ UNCHANGED <<now, fraction, reading, clock_set, parser, lastcourse, accuracy,
                       smooth, reconnects>>
    BY <2>0 DEF RmcAt, receiver
  <2>2. time \in Int /\ Datestamp \in Nat /\ Dated \subseteq {"midnight", "lost"}
    BY <1>1, <2>0, TimestampsOK DEF TypeOK, Dated, Datestamp
  <2>3. DOMAIN new \subseteq PositionFields /\ type \in FIX_NONE .. FIX_3D /\ due \subseteq Signals
    BY <1>2 DEF When, Signals, FIX_NONE, FIX_2D, FIX_3D
  <2> HIDE DEF new, valid, type, due
  <2> QED
    BY <1>1, <1>2, <2>1, <2>2, <2>3, SetPositionOK, SetFixTypeOK, UpdateKnown, EmitOK DEF TypeOK, Known
<1>4. CASE Gga
  <2>0. PICK sent \in Timestamps(datestamp) : GgaAt(sent)
    BY <1>4 DEF Gga
  <2> DEFINE time == IF sent > 0 THEN sent ELSE timestamp
             new == reading.position
             due == When(time # timestamp, "TimeChanged")
                      \cup When(Changes(position, new), "PositionChanged")
                      \cup When(Changes(course, Climb(new, time)), "CourseChanged")
                      \cup When(ComparedFix(FALSE) # FixOf(new), "FixStatusChanged")
                      \cup When(Changes(accuracy, Hdop), "AccuracyChanged")
  <2>1. /\ timestamp' = time /\ SetPosition(new, time)
        /\ SetFixType(FixOf(new), FALSE) /\ course' = Update(course, Climb(new, time))
        /\ accuracy' = Update(accuracy, Hdop)
        /\ told' = (IF sent > 0 /\ clock_set THEN now ELSE told) /\ Emit(due)
        /\ smooth' = (smooth /\ lapsed = {})
        /\ UNCHANGED <<now, fraction, reading, clock_set, parser, datestamp, lastcourse,
                       lapsed, reconnects>>
    BY <2>0 DEF GgaAt, receiver, context
  <2>2. time \in Int
    BY <1>1, <2>0, TimestampsOK DEF TypeOK
  <2>3. FixOf(new) \in FIX_NONE .. FIX_3D
    BY DEF FixOf, FIX_NONE, FIX_2D, FIX_3D
  <2>3a. due \subseteq Signals
    BY DEF When, Signals
  <2>3b. DOMAIN new \subseteq PositionFields
    BY <1>2
  <2>4. DOMAIN Climb(new, time) \subseteq CourseFields /\ DOMAIN Hdop \subseteq AccuracyFields
    BY ClimbFields DEF CourseFields, Hdop, AccuracyFields
  <2> HIDE DEF time, new, due
  <2>5. Known(position, PositionFields)' /\ last_alt_timestamp' \in Int
    BY <2>1, <2>2, <2>3b, SetPositionOK DEF TypeOK
  <2>6. Known(course, CourseFields)' /\ Known(accuracy, AccuracyFields)'
    BY <2>1, <2>4, UpdateKnown DEF TypeOK, Known
  <2>7. fix_type' \in FIX_INVALID .. FIX_3D
    BY <2>1, <2>3, SetFixTypeOK DEF TypeOK
  <2>8. emitted' \subseteq Signals /\ DOMAIN heard' = Signals
    BY <2>1, <2>3a, EmitOK
  <2> QED  BY <1>1, <2>1, <2>2, <2>5, <2>6, <2>7, <2>8 DEF TypeOK
<1>5. CASE Gsa
  <2> DEFINE new == [f \in GsaFields |-> reading.accuracy[f]]
             due == When(ComparedFix(FALSE) # reading.fix, "FixStatusChanged")
                      \cup When(Changes(accuracy, new), "AccuracyChanged")
  <2>1. /\ SetFixType(reading.fix, FALSE) /\ accuracy' = Update(accuracy, new) /\ Emit(due)
        /\ UNCHANGED <<now, fraction, reading, clock_set, parser, datestamp, lastcourse,
                       timestamp, last_alt_timestamp, position, course, told, lapsed,
                       smooth, reconnects>>
    BY <1>5 DEF Gsa, receiver, context, history
  <2>2. DOMAIN new \subseteq AccuracyFields /\ due \subseteq Signals
    BY DEF GsaFields, AccuracyFields, When, Signals
  <2> HIDE DEF new, due
  <2> QED  BY <1>2, <2>1, <2>2, SetFixTypeOK, UpdateKnown, EmitOK DEF TypeOK, Known
<1>6. CASE GarminPvt
  <2>1. PICK pvt \in PvtTimes(now, Leap), fix \in PvtFixes[reading.fix] : Pvt(CalculateUtc(pvt), fix)
    BY <1>6 DEF GarminPvt
  <2>2. CalculateUtc(pvt) = now
    BY <2>1, PvtIsNow DEF TypeOK
  <2> DEFINE new == Whole(reading.position, PositionFields)
             motion == [speed |-> Whole(reading.course, {"speed"})["speed"],
                        direction |-> Direction]
             climbed == Update(course, Climb(new, now))
             due == When(now # timestamp, "TimeChanged")
                      \cup When(Changes(position, new), "PositionChanged")
                      \cup When(ComparedFix(FALSE) # PvtFixType(fix), "FixStatusChanged")
                      \cup When(\/ Changes(course, Climb(new, now))
                                \/ Changes(climbed, motion), "CourseChanged")
  <2>3. /\ timestamp' = now /\ told' = now /\ SetPosition(new, now)
        /\ SetFixType(PvtFixType(fix), FALSE) /\ course' = Update(climbed, motion)
        /\ lastcourse' = (IF Whole(reading.course, {"speed"})["speed"] >= 1 THEN Direction
                          ELSE lastcourse)
        /\ Emit(due)
        /\ lapsed' = {}
        /\ UNCHANGED <<now, fraction, reading, clock_set, parser, datestamp, accuracy,
                       smooth, reconnects>>
    BY <2>1, <2>2 DEF Pvt, receiver
  <2>4. lastcourse' \in -1 .. 360
    <3>1. CASE Whole(reading.course, {"speed"})["speed"] >= 1
      <4>1. "speed" \in DOMAIN reading.course /\ reading.course["speed"] >= 1
        BY <3>1 DEF Whole
      <4>2. reading.course["direction"] \in 0 .. 360
        BY <4>1, ReadingsAssumption DEF TypeOK
      <4>3. lastcourse' = reading.course["direction"]
        BY <2>3, <3>1 DEF Direction
      <4> QED  BY <4>2, <4>3
    <3>2. CASE ~(Whole(reading.course, {"speed"})["speed"] >= 1)
      BY <2>3, <3>2 DEF TypeOK
    <3> QED  BY <3>1, <3>2
  <2>5. PvtFixType(fix) \in FIX_NONE .. FIX_3D
    BY <1>2, <2>1 DEF PvtFixes, PvtFixType, FIX_NONE, FIX_2D, FIX_3D
  <2>6. DOMAIN new \subseteq PositionFields /\ due \subseteq Signals
    BY DEF Whole, When, Signals
  <2>7. DOMAIN Climb(new, now) \subseteq CourseFields /\ DOMAIN motion \subseteq CourseFields
    BY ClimbFields DEF CourseFields
  <2> HIDE DEF new, motion, due
  <2>8. Known(climbed, CourseFields)
    BY <2>7, UpdateKnown DEF TypeOK
  <2> HIDE DEF climbed
  <2>9. Known(position, PositionFields)' /\ last_alt_timestamp' \in Int
    BY <1>1, <2>3, <2>6, SetPositionOK DEF TypeOK
  <2>10. Known(course, CourseFields)'
    BY <2>3, <2>7, <2>8, UpdateKnown DEF Known
  <2>11. fix_type' \in FIX_INVALID .. FIX_3D
    BY <2>3, <2>5, SetFixTypeOK DEF TypeOK
  <2>12. emitted' \subseteq Signals /\ DOMAIN heard' = Signals
    BY <2>3, <2>6, EmitOK
  <2> QED  BY <1>1, <2>3, <2>4, <2>9, <2>10, <2>11, <2>12 DEF TypeOK, Known
<1>7. CASE Measure
  <2>1. clock_set' \in BOOLEAN /\ smooth' \in BOOLEAN
    BY <1>7, Zenon DEF Measure, TypeOK
  <2>2. /\ now' \in Moments /\ reading' \in Readings /\ emitted' \subseteq Signals
        /\ UNCHANGED <<parser, datestamp, lastcourse, timestamp, last_alt_timestamp, fix_type,
                       position, course, accuracy, heard, told, reconnects>>
    BY <1>7 DEF Measure, Tick, TypeOK, context, store
  <2>3. fraction' \in 0 .. PerSecond - 1
    BY <1>7, TimesAssumption DEF Measure, Tick, TypeOK
  <2>4. lapsed' \subseteq {"midnight", "lost"}
    BY <1>7 DEF Measure, When, TypeOK
  <2> QED  BY <2>1, <2>2, <2>3, <2>4 DEF TypeOK, Known
<1>8. CASE Reconnect
  <2>1. reconnects' \in 0 .. MaxReconnects
    BY <1>8, TimesAssumption DEF Reconnect, TypeOK
  <2>2. lastcourse' \in -1 .. 360
    BY <1>8 DEF Reconnect
  <2>3. /\ parser' \in {"nmea", "garmin"} /\ datestamp' \in Nat /\ emitted' \subseteq Signals
        /\ smooth' = FALSE
        /\ UNCHANGED <<now, fraction, reading, clock_set, timestamp, last_alt_timestamp,
                       fix_type, position, course, accuracy, heard, told, lapsed>>
    BY <1>8 DEF Reconnect, receiver, store
  <2> QED  BY <2>1, <2>2, <2>3 DEF TypeOK, Known
<1>9. CASE UNCHANGED vars
  BY <1>9 DEF TypeOK, Known, vars, receiver, context, store, history
<1> QED  BY <1>3, <1>4, <1>5, <1>6, <1>7, <1>8, <1>9 DEF Next

\* The client object keeps its types, whatever readings come and by which parser.
THEOREM FixTypeOK == Before2038 => (Spec => []TypeOK)
<1> SUFFICES ASSUME Before2038 PROVE Spec => []TypeOK
  OBVIOUS
<1>1. Init => TypeOK
  <2> SUFFICES ASSUME Init PROVE TypeOK
    OBVIOUS
  <2>1. now \in Moments
    BY InitTimeInv DEF TimeInv
  <2>2. reconnects \in 0 .. MaxReconnects /\ lastcourse \in -1 .. 360
    BY TimesAssumption DEF Init
  <2>3. fix_type \in FIX_INVALID .. FIX_3D
    BY DEF Init, FIX_INVALID, FIX_3D
  <2>4. fraction \in 0 .. PerSecond - 1
    BY TimesAssumption DEF Init
  <2>5. DOMAIN heard = Signals
    BY DEF Init, Stored, Current, Signals
  <2> QED  BY <2>1, <2>2, <2>3, <2>4, <2>5 DEF Init, TypeOK, Known, NoField
<1>2. TypeOK /\ [Next]_vars => TypeOK'
  BY NextTypeOK
<1> QED  BY <1>1, <1>2, PTL DEF Spec

-----------------------------------------------------------------------------
(* The climb.                                                               *)

\* What the parser says the altitude is, if it says anything.
SeenAltitude ==
    /\ (parser = "nmea" /\ "altitude" \in DOMAIN reading.position)
         => position["altitude"] = reading.position["altitude"]
    /\ parser = "garmin"
         => position["altitude"] = Whole(reading.position, PositionFields)["altitude"]

\* An altitude as old as this second is that of this reading; before the first
\* date an NMEA parser has no time, nor is there a time for an altitude then.
AltitudeIsTimed ==
    /\ (parser = "nmea" /\ datestamp = 0) => timestamp = 0 /\ last_alt_timestamp = 0
    /\ last_alt_timestamp \in Int /\ 0 <= last_alt_timestamp /\ last_alt_timestamp <= now
    /\ last_alt_timestamp = now => "altitude" \in DOMAIN position /\ SeenAltitude

ClimbInv ==
    /\ reading \in Readings /\ parser \in {"nmea", "garmin"} /\ smooth \in BOOLEAN
    /\ smooth => AltitudeIsTimed
    /\ ClimbIsFinite

LEMMA InitClimbInv == Init => ClimbInv
<1> SUFFICES ASSUME Init PROVE ClimbInv
  OBVIOUS
<1>1. now \in Nat /\ now >= Day
  BY InitTimeInv, MomentsAreLate DEF TimeInv
<1>2. now # 0
  BY <1>1, DayIsPositive
<1>3. AltitudeIsTimed
  BY <1>1, <1>2 DEF Init, AltitudeIsTimed
<1>4. ClimbIsFinite
  BY DEF Init, ClimbIsFinite, NoField
<1> QED  BY <1>3, <1>4 DEF Init, ClimbInv

\* An altitude that is new at this second cannot meet one of this second.
LEMMA ClimbTakesTime ==
    ASSUME NEW new, NEW time, now \in Nat, time = now,
           last_alt_timestamp \in Int, last_alt_timestamp <= now,
           last_alt_timestamp = now => "altitude" \in DOMAIN position,
           last_alt_timestamp = now /\ "altitude" \in DOMAIN new
             => position["altitude"] = new["altitude"],
           "climb" \in DOMAIN Climb(new, time)
    PROVE  Climb(new, time)["climb"][2] > 0
<1>1. NewAltitude(new)
  BY DEF Climb, NoField
<1>2. last_alt_timestamp # now
  BY <1>1 DEF NewAltitude
<1>3. Elapsed(time) > 0
  BY <1>2 DEF Elapsed
<1>4. Climb(new, time)["climb"][2] = Elapsed(time)
  BY DEF Climb, NoField
<1> QED  BY <1>3, <1>4

\* Storing a position keeps the time of the altitude and the altitude together.
LEMMA PositionKeepsAltitude ==
    ASSUME NEW new, NEW time \in Int, time = now, now \in Nat, SetPosition(new, time),
           last_alt_timestamp \in Int, 0 <= last_alt_timestamp, last_alt_timestamp <= now
    PROVE  /\ last_alt_timestamp' \in Int
           /\ 0 <= last_alt_timestamp' /\ last_alt_timestamp' <= now
           /\ "altitude" \in DOMAIN new =>
                "altitude" \in DOMAIN position' /\ position'["altitude"] = new["altitude"]
           /\ "altitude" \notin DOMAIN new =>
                /\ last_alt_timestamp' = last_alt_timestamp
                /\ "altitude" \in DOMAIN position =>
                     /\ "altitude" \in DOMAIN position'
                     /\ position'["altitude"] = position["altitude"]
BY DEF SetPosition, NewAltitude, Update

\* The course has a climb only from Climb.
LEMMA UpdateClimb ==
    ASSUME NEW known, NEW new,
           "climb" \in DOMAIN new => new["climb"][2] > 0,
           "climb" \in DOMAIN known => known["climb"][2] > 0
    PROVE  "climb" \in DOMAIN Update(known, new) => Update(known, new)["climb"][2] > 0
BY DEF Update

LEMMA RmcClimb == TimeInv /\ ClimbInv /\ Rmc => ClimbInv'
<1> SUFFICES ASSUME TimeInv, ClimbInv, Rmc PROVE ClimbInv'
  OBVIOUS
<1>0. PICK time \in Timestamps(Datestamp) : RmcAt(time)
  BY DEF Rmc
<1> DEFINE new == [f \in DOMAIN reading.position \ {"altitude"} |-> reading.position[f]]
<1>1. now \in Nat /\ now >= Day /\ now - (now % Day) \in Nat \ {0}
  BY MomentsAreLate, Midnight DEF TimeInv
<1>2. now' = now /\ reading' = reading /\ parser' = parser
      /\ parser = "nmea" /\ smooth' = smooth /\ datestamp' = Datestamp
      /\ timestamp' = time /\ SetPosition(new, time) /\ course' = Update(course, reading.course)
  BY <1>0 DEF RmcAt, receiver
<1>3. "altitude" \notin DOMAIN new
  OBVIOUS
<1>4. ~NewAltitude(new) /\ last_alt_timestamp' = last_alt_timestamp
  BY <1>2, <1>3 DEF NewAltitude, SetPosition
<1>5. "altitude" \in DOMAIN position =>
        "altitude" \in DOMAIN position' /\ position'["altitude"] = position["altitude"]
  BY <1>2, <1>3 DEF SetPosition, Update
<1>6. ASSUME smooth PROVE AltitudeIsTimed'
  <2>1. AltitudeIsTimed
    BY <1>6 DEF ClimbInv
  <2>2. datestamp' = 0 => datestamp = 0
    BY <1>1, <1>2 DEF Datestamp
  <2>3. datestamp' = 0 => timestamp' = 0 /\ last_alt_timestamp' = 0
    BY <1>0, <1>2, <1>4, <2>1, <2>2 DEF Timestamps, AltitudeIsTimed
  <2>4. last_alt_timestamp' = now => "altitude" \in DOMAIN position' /\ SeenAltitude'
    BY <1>2, <1>4, <1>5, <2>1 DEF AltitudeIsTimed, SeenAltitude
  <2> QED  BY <1>2, <1>4, <2>1, <2>3, <2>4 DEF AltitudeIsTimed
<1>7. ClimbIsFinite'
  <2>1. "climb" \notin DOMAIN reading.course
    BY ReadingsAssumption DEF ClimbInv
  <2> QED  BY <1>2, <2>1, UpdateClimb DEF ClimbInv, ClimbIsFinite
<1> QED  BY <1>2, <1>6, <1>7 DEF ClimbInv

LEMMA GgaClimb == TimeInv /\ ClimbInv /\ Gga => ClimbInv'
<1> SUFFICES ASSUME TimeInv, ClimbInv, Gga PROVE ClimbInv'
  OBVIOUS
<1>0. PICK sent \in Timestamps(datestamp) : GgaAt(sent)
  BY DEF Gga
<1> DEFINE time == IF sent > 0 THEN sent ELSE timestamp
           new == reading.position
<1>1. now \in Nat /\ now >= Day /\ now - (now % Day) \in Nat \ {0} /\ (now % Day) \in Nat
      /\ (now - (now % Day)) + (now % Day) = now
  BY MomentsAreLate, Midnight DEF TimeInv
<1>2. now' = now /\ reading' = reading /\ parser' = parser
      /\ parser = "nmea" /\ datestamp' = datestamp
      /\ timestamp' = time /\ SetPosition(new, time) /\ course' = Update(course, Climb(new, time))
  BY <1>0 DEF GgaAt, receiver, context
<1>2a. smooth' = (smooth /\ lapsed = {})
  BY <1>0 DEF GgaAt
<1>3. lapsed = {} /\ datestamp # 0 => time = now
  <2> SUFFICES ASSUME lapsed = {}, datestamp # 0  PROVE time = now
    OBVIOUS
  <2>1. clock_set /\ datestamp = now - (now % Day)
    BY DEF TimeInv, DateIsOfClock
  <2>2. sent = now
    BY <1>0, <1>1, <2>1 DEF Timestamps, TimesOfDay
  <2> QED  BY <1>1, <2>2, DayIsPositive
<1>4. datestamp = 0 => time = timestamp
  BY <1>0 DEF Timestamps
<1>5. ASSUME smooth, lapsed = {}, datestamp # 0
      PROVE  /\ AltitudeIsTimed'
             /\ "climb" \in DOMAIN Climb(new, time) => Climb(new, time)["climb"][2] > 0
  <2>1. AltitudeIsTimed
    BY <1>5 DEF ClimbInv
  <2>2. time = now
    BY <1>3, <1>5
  <2> HIDE DEF time
  <2>3. "climb" \in DOMAIN Climb(new, time) => Climb(new, time)["climb"][2] > 0
    BY <1>1, <1>2, <2>1, <2>2, ClimbTakesTime DEF AltitudeIsTimed, SeenAltitude
  <2>4. /\ last_alt_timestamp' \in Int
        /\ 0 <= last_alt_timestamp' /\ last_alt_timestamp' <= now
        /\ last_alt_timestamp' = now => "altitude" \in DOMAIN position' /\ SeenAltitude'
    BY <1>1, <1>2, <2>1, <2>2, PositionKeepsAltitude DEF AltitudeIsTimed, SeenAltitude
  <2> QED  BY <1>2, <1>5, <2>3, <2>4 DEF AltitudeIsTimed
<1>6. ASSUME smooth, datestamp = 0
      PROVE  /\ AltitudeIsTimed'
             /\ "climb" \notin DOMAIN Climb(new, time)
  <2>1. AltitudeIsTimed
    BY <1>6 DEF ClimbInv
  <2>2. time = 0 /\ last_alt_timestamp = 0
    BY <1>2, <1>4, <1>6, <2>1 DEF AltitudeIsTimed
  <2> HIDE DEF time
  <2>3. "climb" \notin DOMAIN Climb(new, time)
    BY <2>2 DEF Climb, NoField
  <2>4. last_alt_timestamp' = 0
    BY <1>2, <2>2 DEF SetPosition
  <2>5. now # 0
    BY <1>1, DayIsPositive
  <2> QED  BY <1>1, <1>2, <1>6, <2>2, <2>3, <2>4, <2>5 DEF AltitudeIsTimed
<1>7. ClimbIsFinite'
  <2> SUFFICES ASSUME smooth, lapsed = {}
               PROVE  "climb" \in DOMAIN course' => course'["climb"][2] > 0
    BY <1>2a DEF ClimbIsFinite
  <2>1. "climb" \in DOMAIN Climb(new, time) => Climb(new, time)["climb"][2] > 0
    BY <1>5, <1>6
  <2> HIDE DEF new, time
  <2> QED  BY <1>2, <2>1, UpdateClimb DEF ClimbInv, ClimbIsFinite
<1>8. smooth' => AltitudeIsTimed'
  BY <1>2a, <1>5, <1>6
<1>9. smooth' \in BOOLEAN
  BY <1>2a
<1> QED  BY <1>2, <1>7, <1>8, <1>9 DEF ClimbInv

LEMMA PvtClimb ==
    ASSUME TimeInv, ClimbInv, NEW fix, parser = "garmin", Pvt(now, fix)
    PROVE  ClimbInv'
<1> DEFINE new == Whole(reading.position, PositionFields)
           motion == [speed |-> Whole(reading.course, {"speed"})["speed"],
                      direction |-> Direction]
           climbed == Update(course, Climb(new, now))
<1>1. now \in Nat /\ now >= Day
  BY MomentsAreLate DEF TimeInv
<1>2. now' = now /\ reading' = reading /\ parser' = parser
      /\ smooth' = smooth /\ datestamp' = datestamp
      /\ SetPosition(new, now) /\ course' = Update(climbed, motion)
  BY DEF Pvt, receiver
<1>3. "altitude" \in DOMAIN new
  BY DEF Whole, PositionFields
<1>4. "climb" \notin DOMAIN motion
  OBVIOUS
<1>5. ASSUME smooth
      PROVE  /\ AltitudeIsTimed'
             /\ "climb" \in DOMAIN Climb(new, now) => Climb(new, now)["climb"][2] > 0
  <2>1. AltitudeIsTimed
    BY <1>5 DEF ClimbInv
  <2>2. last_alt_timestamp = now
          => "altitude" \in DOMAIN position /\ position["altitude"] = new["altitude"]
    BY <2>1 DEF AltitudeIsTimed, SeenAltitude
  <2> HIDE DEF new
  <2>3. "climb" \in DOMAIN Climb(new, now) => Climb(new, now)["climb"][2] > 0
    BY <1>1, <2>1, <2>2, ClimbTakesTime DEF AltitudeIsTimed
  <2>4. /\ last_alt_timestamp' \in Int
        /\ 0 <= last_alt_timestamp' /\ last_alt_timestamp' <= now
        /\ "altitude" \in DOMAIN position' /\ position'["altitude"] = new["altitude"]
    BY <1>1, <1>2, <1>3, <2>1, PositionKeepsAltitude DEF AltitudeIsTimed
  <2>5. SeenAltitude'
    BY <1>2, <2>4 DEF SeenAltitude, new
  <2> QED  BY <1>2, <2>1, <2>3, <2>4, <2>5 DEF AltitudeIsTimed
<1> HIDE DEF new, motion
<1>6. ClimbIsFinite'
  <2> SUFFICES ASSUME smooth
               PROVE  "climb" \in DOMAIN course' => course'["climb"][2] > 0
    BY <1>2 DEF ClimbIsFinite
  <2>1. "climb" \in DOMAIN climbed => climbed["climb"][2] > 0
    BY <1>5, UpdateClimb DEF ClimbInv, ClimbIsFinite
  <2> HIDE DEF climbed
  <2> QED  BY <1>2, <1>4, <2>1, UpdateClimb
<1> QED  BY <1>2, <1>5, <1>6 DEF ClimbInv

LEMMA NextClimbInv ==
    ASSUME Before2038, TimeInv, ClimbInv, [Next]_vars
    PROVE  ClimbInv'
<1>1. now \in Nat
  BY MomentsAreLate DEF TimeInv
<1>2. CASE Rmc  BY <1>2, RmcClimb
<1>3. CASE Gga  BY <1>3, GgaClimb
<1>4. CASE Gsa
  BY <1>4 DEF Gsa, ClimbInv, ClimbIsFinite, AltitudeIsTimed, SeenAltitude, receiver, context,
            history
<1>5. CASE GarminPvt
  <2>1. PICK pvt \in PvtTimes(now, Leap), fix \in PvtFixes[reading.fix] : Pvt(CalculateUtc(pvt), fix)
    BY <1>5 DEF GarminPvt
  <2>2. CalculateUtc(pvt) = now
    BY <2>1, PvtIsNow DEF TimeInv
  <2> QED  BY <1>5, <2>1, <2>2, PvtClimb DEF GarminPvt
<1>6. CASE Measure
  <2>1. /\ now' = now \/ now' = now + 1
        /\ reading' \in Readings
        /\ UNCHANGED <<context, store>>
    BY <1>6 DEF Measure, Tick
  <2>2. smooth' = (smooth /\ now' # now)
    BY <1>6 DEF Measure
  <2>3. smooth' => AltitudeIsTimed'
    <3> SUFFICES ASSUME AltitudeIsTimed, now' = now + 1 PROVE AltitudeIsTimed'
      BY <2>1, <2>2 DEF ClimbInv
    <3>1. last_alt_timestamp' <= now' /\ last_alt_timestamp' # now'
      BY <1>1, <2>1 DEF AltitudeIsTimed, store
    <3> QED  BY <2>1, <3>1 DEF AltitudeIsTimed, context, store
  <2>4. smooth' \in BOOLEAN
    BY <2>2
  <2> QED  BY <2>1, <2>2, <2>3, <2>4 DEF ClimbInv, ClimbIsFinite, context, store
<1>7. CASE Reconnect
  BY <1>7 DEF Reconnect, ClimbInv, ClimbIsFinite, receiver, store
<1>8. CASE UNCHANGED vars
  BY <1>8 DEF vars, ClimbInv, ClimbIsFinite, AltitudeIsTimed, SeenAltitude, receiver, context, store,
            history
<1> QED  BY <1>2, <1>3, <1>4, <1>5, <1>6, <1>7, <1>8 DEF Next

\* At one measurement a second, and while no GGA sentence comes between a midnight or
\* a lost clock and the next date, and the connection is not restarted, no climb is
\* divided by zero or by a time that runs back, midnights and empty fields included
\* (gypsy-client.c:1107-1112).
THEOREM ClimbsAreFinite == Before2038 => (Spec => []ClimbIsFinite)
<1> SUFFICES ASSUME Before2038 PROVE Spec => []ClimbIsFinite
  OBVIOUS
<1>1. ClimbInv => ClimbIsFinite
  BY DEF ClimbInv
<1>2. TimeInv /\ ClimbInv /\ [Next]_vars => TimeInv' /\ ClimbInv'
  BY NextTimeInv, NextClimbInv
<1> QED  BY <1>1, <1>2, InitTimeInv, InitClimbInv, PTL DEF Spec

-----------------------------------------------------------------------------
(* The listeners.                                                           *)

\* The groups are functions: what is compared field by field is all there is.
IsGroup(g) == g = [f \in DOMAIN g |-> g[f]]

GroupsOK == IsGroup(position) /\ IsGroup(course) /\ IsGroup(accuracy)

\* The inductive invariant.
IInv == GroupsOK /\ HeardIsCurrent

-----------------------------------------------------------------------------
\* gypsy_client_set_* leave a group as it is when no field of it changes.
LEMMA UpdateUnchanged ==
    ASSUME NEW known, NEW new, IsGroup(known), ~Changes(known, new)
    PROVE  Update(known, new) = known
<1>1. DOMAIN known \cup DOMAIN new = DOMAIN known
  BY DEF Changes
<1>2. \A f \in DOMAIN known :
        (IF f \in DOMAIN new THEN new[f] ELSE known[f]) = known[f]
  BY DEF Changes
<1>3. Update(known, new) = [f \in DOMAIN known |-> known[f]]
  BY <1>1, <1>2 DEF Update
<1> QED  BY <1>3 DEF IsGroup

\* The last signals say what is stored.
LEMMA HeardIsStored == HeardIsCurrent <=> \A s \in Signals : heard[s] = Stored[s]
BY DEF HeardIsCurrent, Stored, Current, Signals

LEMMA UpdateIsGroup == \A known, new : IsGroup(Update(known, new))
BY DEF Update, IsGroup

\* What is not due has not changed; then those who heard the last signal of each
\* kind know everything.
LEMMA EmitTells ==
    ASSUME NEW due, HeardIsCurrent, Emit(due),
           timestamp' # timestamp => "TimeChanged" \in due,
           fix_type' # fix_type => "FixStatusChanged" \in due,
           position' # position => "PositionChanged" \in due,
           course' # course => "CourseChanged" \in due,
           accuracy' # accuracy => "AccuracyChanged" \in due
    PROVE  HeardIsCurrent'
<1>1. \A s \in Signals : s \notin due => Stored'[s] = Stored[s]
  BY DEF Stored, Current, Signals
<1>2. \A s \in Signals : heard[s] = Stored[s]
  BY HeardIsStored
<1>3. \A s \in Signals : heard'[s] = Stored'[s]
  BY <1>1, <1>2 DEF Emit
<1> QED  BY <1>3 DEF HeardIsCurrent, Stored, Current, Signals

\* ... and each step of a sentence is one of a notifier.
LEMMA EmitNotifies ==
    ASSUME NEW due, Emit(due), due \subseteq Signals,
           timestamp' # timestamp => "TimeChanged" \in due,
           fix_type' # fix_type => "FixStatusChanged" \in due,
           position' # position => "PositionChanged" \in due,
           course' # course => "CourseChanged" \in due,
           accuracy' # accuracy => "AccuracyChanged" \in due
    PROVE  Notifier!Notify
<1>1. emitted' = due
  BY DEF Emit
<1>2. \A s \in Signals : Stored'[s] # Stored[s] => s \in due
  BY DEF Stored, Current, Signals
<1> QED  BY <1>1, <1>2 DEF Notifier!Notify, Notifier!Changed

-----------------------------------------------------------------------------
LEMMA InitIInv == Init => IInv
<1> SUFFICES ASSUME Init PROVE IInv
  OBVIOUS
<1>1. HeardIsCurrent
  BY HeardIsStored DEF Init
<1> QED  BY <1>1 DEF Init, IInv, GroupsOK, IsGroup, NoField

LEMMA RmcIInv == IInv /\ Rmc => IInv' /\ Notifier!Notify
<1> SUFFICES ASSUME IInv, Rmc PROVE IInv' /\ Notifier!Notify
  OBVIOUS
<1>0. PICK time \in Timestamps(Datestamp) : RmcAt(time)
  BY DEF Rmc
<1> DEFINE new == [f \in DOMAIN reading.position \ {"altitude"} |-> reading.position[f]]
           valid == reading.fix > FIX_NONE
           type == IF valid THEN FIX_2D ELSE FIX_NONE
           due == When(time # timestamp, "TimeChanged")
                    \cup When(Changes(position, new), "PositionChanged")
                    \cup When(ComparedFix(valid) # type, "FixStatusChanged")
                    \cup When(Changes(course, reading.course), "CourseChanged")
<1>1. /\ timestamp' = time
      /\ position' = Update(position, new)
      /\ SetFixType(type, valid)
      /\ course' = Update(course, reading.course)
      /\ accuracy' = accuracy
      /\ Emit(due)
  BY <1>0 DEF RmcAt, SetPosition
<1> HIDE DEF new, valid, type
<1>2. GroupsOK'
  BY <1>1, UpdateIsGroup DEF IInv, GroupsOK
<1>3. /\ timestamp' # timestamp => "TimeChanged" \in due
      /\ fix_type' # fix_type => "FixStatusChanged" \in due
  BY <1>1 DEF When, SetFixType
<1>4. /\ position' # position => "PositionChanged" \in due
      /\ course' # course => "CourseChanged" \in due
  BY <1>1, UpdateUnchanged DEF When, IInv, GroupsOK
<1>5. HeardIsCurrent'
  BY <1>1, <1>3, <1>4, EmitTells DEF IInv
<1>6. due \subseteq Signals
  BY DEF When, Signals
<1>7. Notifier!Notify
  BY <1>1, <1>3, <1>4, <1>6, EmitNotifies
<1> QED  BY <1>2, <1>5, <1>7 DEF IInv

LEMMA GgaIInv == IInv /\ Gga => IInv' /\ Notifier!Notify
<1> SUFFICES ASSUME IInv, Gga PROVE IInv' /\ Notifier!Notify
  OBVIOUS
<1>0. PICK sent \in Timestamps(datestamp) : GgaAt(sent)
  BY DEF Gga
<1> DEFINE time == IF sent > 0 THEN sent ELSE timestamp
           new == reading.position
           due == When(time # timestamp, "TimeChanged")
                    \cup When(Changes(position, new), "PositionChanged")
                    \cup When(Changes(course, Climb(new, time)), "CourseChanged")
                    \cup When(ComparedFix(FALSE) # FixOf(new), "FixStatusChanged")
                    \cup When(Changes(accuracy, Hdop), "AccuracyChanged")
<1>1. /\ timestamp' = time
      /\ position' = Update(position, new)
      /\ SetFixType(FixOf(new), FALSE)
      /\ course' = Update(course, Climb(new, time))
      /\ accuracy' = Update(accuracy, Hdop)
      /\ Emit(due)
  BY <1>0 DEF GgaAt, SetPosition
<1> HIDE DEF time, new
<1>2. GroupsOK'
  BY <1>1, UpdateIsGroup DEF GroupsOK
<1>3. /\ timestamp' # timestamp => "TimeChanged" \in due
      /\ fix_type' # fix_type => "FixStatusChanged" \in due
  BY <1>1 DEF When, SetFixType
<1>4. /\ position' # position => "PositionChanged" \in due
      /\ course' # course => "CourseChanged" \in due
      /\ accuracy' # accuracy => "AccuracyChanged" \in due
  BY <1>1, UpdateUnchanged DEF When, IInv, GroupsOK
<1>5. HeardIsCurrent'
  BY <1>1, <1>3, <1>4, EmitTells DEF IInv
<1>6. due \subseteq Signals
  BY DEF When, Signals
<1>7. Notifier!Notify
  BY <1>1, <1>3, <1>4, <1>6, EmitNotifies
<1> QED  BY <1>2, <1>5, <1>7 DEF IInv

LEMMA GsaIInv == IInv /\ Gsa => IInv' /\ Notifier!Notify
<1> SUFFICES ASSUME IInv, Gsa PROVE IInv' /\ Notifier!Notify
  OBVIOUS
<1> DEFINE new == [f \in GsaFields |-> reading.accuracy[f]]
           due == When(ComparedFix(FALSE) # reading.fix, "FixStatusChanged")
                    \cup When(Changes(accuracy, new), "AccuracyChanged")
<1>1. /\ UNCHANGED <<timestamp, position, course>>
      /\ SetFixType(reading.fix, FALSE)
      /\ accuracy' = Update(accuracy, new)
      /\ Emit(due)
  BY DEF Gsa
<1> HIDE DEF new
<1>2. GroupsOK'
  BY <1>1, UpdateIsGroup DEF IInv, GroupsOK
<1>3. fix_type' # fix_type => "FixStatusChanged" \in due
  BY <1>1 DEF When, SetFixType
<1>4. accuracy' # accuracy => "AccuracyChanged" \in due
  BY <1>1, UpdateUnchanged DEF When, IInv, GroupsOK
<1>5. HeardIsCurrent'
  BY <1>1, <1>3, <1>4, EmitTells DEF IInv
<1>6. due \subseteq Signals
  BY DEF When, Signals
<1>7. Notifier!Notify
  BY <1>1, <1>3, <1>4, <1>6, EmitNotifies
<1> QED  BY <1>2, <1>5, <1>7 DEF IInv

\* The course is stored twice by a PVT record: the climb first, then the motion.
LEMMA PvtIInv ==
    ASSUME NEW time, NEW fix, IInv, Pvt(time, fix) PROVE IInv' /\ Notifier!Notify
<1> DEFINE new == Whole(reading.position, PositionFields)
           motion == [speed |-> Whole(reading.course, {"speed"})["speed"],
                      direction |-> Direction]
           climbed == Update(course, Climb(new, time))
           due == When(time # timestamp, "TimeChanged")
                    \cup When(Changes(position, new), "PositionChanged")
                    \cup When(ComparedFix(FALSE) # PvtFixType(fix), "FixStatusChanged")
                    \cup When(\/ Changes(course, Climb(new, time))
                              \/ Changes(climbed, motion), "CourseChanged")
<1>1. /\ timestamp' = time
      /\ position' = Update(position, new)
      /\ SetFixType(PvtFixType(fix), FALSE)
      /\ course' = Update(climbed, motion)
      /\ accuracy' = accuracy
      /\ Emit(due)
  BY DEF Pvt, SetPosition
<1> HIDE DEF new, motion
<1>2. IsGroup(climbed)
  BY UpdateIsGroup
<1>3. GroupsOK'
  BY <1>1, UpdateIsGroup DEF IInv, GroupsOK
<1>4. /\ timestamp' # timestamp => "TimeChanged" \in due
      /\ fix_type' # fix_type => "FixStatusChanged" \in due
  BY <1>1 DEF When, SetFixType
<1>5. position' # position => "PositionChanged" \in due
  BY <1>1, UpdateUnchanged DEF When, IInv, GroupsOK
<1>6. course' # course => "CourseChanged" \in due
  <2> SUFFICES ASSUME ~Changes(course, Climb(new, time)), ~Changes(climbed, motion)
               PROVE  course' = course
    BY DEF When
  <2>1. climbed = course
    BY UpdateUnchanged DEF IInv, GroupsOK
  <2> QED  BY <1>1, <1>2, <2>1, UpdateUnchanged
<1>7. HeardIsCurrent'
  BY <1>1, <1>4, <1>5, <1>6, EmitTells DEF IInv
<1>8. due \subseteq Signals
  BY DEF When, Signals
<1>9. Notifier!Notify
  BY <1>1, <1>4, <1>5, <1>6, <1>8, EmitNotifies
<1> QED  BY <1>3, <1>7, <1>9 DEF IInv

-----------------------------------------------------------------------------
LEMMA NextIInv ==
    IInv /\ [Next]_vars => IInv' /\ [Notifier!Notify]_Notifier!notifierVars
<1> SUFFICES ASSUME IInv, [Next]_vars
             PROVE  IInv' /\ [Notifier!Notify]_Notifier!notifierVars
  OBVIOUS
<1>1. CASE Rmc  BY <1>1, RmcIInv
<1>2. CASE Gga  BY <1>2, GgaIInv
<1>3. CASE Gsa  BY <1>3, GsaIInv
<1>4. CASE GarminPvt
  <2>1. PICK time, fix : Pvt(time, fix)  BY <1>4 DEF GarminPvt
  <2> QED  BY <2>1, PvtIInv
<1>5. CASE Measure \/ Reconnect \/ UNCHANGED vars
  <2>1. UNCHANGED <<store, heard>>  BY <1>5 DEF Measure, Reconnect, vars
  <2>2. Stored' = Stored  BY <2>1 DEF Stored, Current, CourseAnswer, store
  <2>3. IInv'
    <3>1. Current' = Current  BY <2>1 DEF Current, CourseAnswer, store
    <3> QED  BY <2>1, <3>1 DEF IInv, GroupsOK, IsGroup, HeardIsCurrent, store
  <2>4. emitted' = {} \/ emitted' = emitted  BY <1>5 DEF Measure, Reconnect, vars
  <2>5. [Notifier!Notify]_Notifier!notifierVars
    BY <2>2, <2>4 DEF Notifier!Notify, Notifier!Changed, Notifier!notifierVars
  <2> QED  BY <2>3, <2>5
<1> QED  BY <1>1, <1>2, <1>3, <1>4, <1>5 DEF Next

\* A listener that keeps the last signal of each kind knows the time, the fix, the
\* position and the accuracy that the methods of the Client object would return, and
\* the course, which GetCourse may not: after any sequence of sentences and records,
\* restarts included, gypsy_client_set_* change nothing without a signal.
THEOREM ListenersAreCurrent == Spec => []HeardIsCurrent
<1>1. IInv => HeardIsCurrent  BY DEF IInv
<1> QED  BY <1>1, InitIInv, NextIInv, PTL DEF Spec

\* The client object is a notifier of what it stores, whatever the receiver measures:
\* the setters called for one sentence or record leave no change without a signal.
THEOREM FixDataNotifies == Spec => ImplementsNotifier
<1>1. Init => emitted = {}  BY DEF Init
<1> QED
  BY <1>1, InitIInv, NextIInv, PTL DEF Spec, ImplementsNotifier, Notifier!NotifierSpec

-----------------------------------------------------------------------------
(* A receiver at rest.  What one kind of sentence says is stored when it has   *)
(* come once; a sentence that says what is stored changes nothing.            *)

TimeSettled ==
    IF clock_set THEN timestamp = now /\ datestamp \in {0, Datestamp}
    ELSE timestamp = 0 /\ datestamp = 0

CourseSettled == ~Changes(course, reading.course)
PositionSettled == ~Changes(position, reading.position)
HdopSettled == ~Changes(accuracy, Hdop)
DopSettled == ~Changes(accuracy, [f \in GsaFields |-> reading.accuracy[f]])
FixSettled == fix_type = reading.fix

Settled ==
    /\ TimeSettled
    /\ CourseSettled
    /\ PositionSettled
    /\ HdopSettled /\ DopSettled
    /\ FixSettled

\* The receiver measures the same, its sentences agree on the fix, and the
\* connection goes on.
AtRest ==
    /\ receiver' = receiver
    /\ reconnects' = reconnects
    /\ FixOf(reading.position) = reading.fix

LEMMA UpdateAgrees ==
    ASSUME NEW known, NEW new  PROVE ~Changes(Update(known, new), new)
  BY DEF Changes, Update

\* What agrees goes on to agree when something else is stored that does.
LEMMA UpdateKeeps ==
    ASSUME NEW known, NEW new, NEW other, ~Changes(known, new),
           \A f \in DOMAIN new \cap DOMAIN other : new[f] = other[f]
    PROVE  ~Changes(Update(known, other), new)
  BY DEF Changes, Update

ReceiverInv == now \in Moments /\ fraction \in Nat /\ reading \in Readings

LEMMA InitReceiver == Init => ReceiverInv
  BY InitTimeInv DEF TimeInv, Init, ReceiverInv

LEMMA NextReceiver == ReceiverInv /\ [Next]_vars => ReceiverInv'
<1> SUFFICES ASSUME ReceiverInv, [Next]_vars  PROVE ReceiverInv'
  OBVIOUS
<1>1. CASE receiver' = receiver
  BY <1>1 DEF ReceiverInv, receiver
<1>2. CASE Measure
  BY <1>2 DEF Measure, Tick, ReceiverInv
<1>3. receiver' = receiver \/ Measure
  BY DEF Next, Rmc, RmcAt, Gga, GgaAt, Gsa, GarminPvt, Pvt, Reconnect, vars
<1> QED  BY <1>1, <1>2, <1>3

\* The time of a sentence is that of the receiver, if both know the date.
LEMMA TimeOfSentence ==
    ASSUME ReceiverInv, clock_set
    PROVE  /\ Datestamp # 0 /\ now > 0
           /\ Timestamps(Datestamp) = {now}
<1>1. now \in Nat /\ now >= Day
  BY MomentsAreLate DEF ReceiverInv
<1>2. /\ now - (now % Day) \in Nat \ {0} /\ (now - (now % Day)) + (now % Day) = now
  BY <1>1, Midnight
<1> QED  BY <1>1, <1>2, DayIsPositive DEF Datestamp, Timestamps, TimesOfDay

\* A reading, in the words of the sentences.
LEMMA ReadingParts ==
    ASSUME ReceiverInv
    PROVE  /\ reading.fix \in FIX_NONE .. FIX_3D
           /\ "climb" \notin DOMAIN reading.course
           /\ \A f \in GsaFields : f \in DOMAIN reading.accuracy
           /\ "horizontal" \in GsaFields =>
                 Hdop["horizontal"] = reading.accuracy["horizontal"]
  BY ReadingsAssumption DEF ReceiverInv, GsaFields, Hdop

\* Nothing new: no altitude, no climb.
LEMMA NoClimb ==
    ASSUME NEW new, NEW time, ~Changes(position, new)
    PROVE  Climb(new, time) = NoField /\ ~NewAltitude(new)
  BY DEF Changes, NewAltitude, Climb

\* Without a clock there is a time to settle on only before the first date: later the
\* empty fields may be read in several ways.
TimeCanSettle == clock_set \/ datestamp = 0

\* Each sentence settles what it says.
LEMMA RmcSettles ==
    ReceiverInv /\ Rmc => (TimeCanSettle => TimeSettled') /\ CourseSettled'
<1> SUFFICES ASSUME ReceiverInv, Rmc
             PROVE  (TimeCanSettle => TimeSettled') /\ CourseSettled'
  OBVIOUS
<1>0. PICK time \in Timestamps(Datestamp) : RmcAt(time)
  BY DEF Rmc
<1>1. now' = now /\ reading' = reading /\ clock_set' = clock_set
  BY <1>0 DEF RmcAt, receiver
<1>2. CourseSettled'
  BY <1>0, <1>1, UpdateAgrees DEF RmcAt, CourseSettled
<1>3. datestamp' = Datestamp /\ timestamp' = time
  BY <1>0 DEF RmcAt
<1>4. CASE clock_set
  <2>1. time = now /\ Datestamp' = Datestamp
    BY <1>0, <1>1, <1>4, TimeOfSentence DEF Datestamp
  <2> QED  BY <1>1, <1>2, <1>3, <1>4, <2>1 DEF TimeSettled
<1>5. CASE ~clock_set
  <2>1. datestamp = 0 => datestamp' = 0 /\ time = 0
    BY <1>0, <1>3, <1>5 DEF Datestamp, Timestamps
  <2> QED  BY <1>1, <1>2, <1>3, <1>5, <2>1 DEF TimeSettled, TimeCanSettle
<1> QED  BY <1>4, <1>5

LEMMA GgaSettles == Gga => PositionSettled' /\ HdopSettled'
  BY UpdateAgrees DEF Gga, GgaAt, SetPosition, PositionSettled, HdopSettled, Hdop, receiver

LEMMA GsaSettles == Gsa => FixSettled' /\ DopSettled'
<1> SUFFICES ASSUME Gsa  PROVE FixSettled' /\ DopSettled'
  OBVIOUS
<1>1. reading' = reading
  BY DEF Gsa, receiver
<1>2. DopSettled'
  BY <1>1, UpdateAgrees DEF Gsa, DopSettled, GsaFields
<1>3. FixSettled'
  BY <1>1 DEF Gsa, SetFixType, ComparedFix, FixSettled
<1> QED  BY <1>2, <1>3

\* Once each of the sentences has come, all that they say is settled, the time if
\* the receiver knows it or never did (nmea-parser.c:379-580).
THEOREM SentencesSettle ==
    Spec => [][/\ Rmc => (TimeCanSettle => TimeSettled') /\ CourseSettled'
               /\ Gga => PositionSettled' /\ HdopSettled'
               /\ Gsa => FixSettled' /\ DopSettled']_vars
<1>1. ReceiverInv /\ [Next]_vars =>
        [/\ Rmc => (TimeCanSettle => TimeSettled') /\ CourseSettled'
         /\ Gga => PositionSettled' /\ HdopSettled'
         /\ Gsa => FixSettled' /\ DopSettled']_vars
  BY RmcSettles, GgaSettles, GsaSettles
<1> QED  BY <1>1, InitReceiver, NextReceiver, PTL DEF Spec

\* What stays settled, sentence by sentence, and the silence of a settled one.
Keeps ==
    /\ TimeSettled => TimeSettled'
    /\ CourseSettled => CourseSettled'
    /\ PositionSettled => PositionSettled'
    /\ HdopSettled => HdopSettled'
    /\ DopSettled => DopSettled'
    /\ FixSettled => FixSettled'

Quiet == Settled => emitted' = {}

LEMMA RmcKeeps ==
    ASSUME ReceiverInv, AtRest, Rmc  PROVE Keeps /\ Quiet
<1> DEFINE new == [f \in DOMAIN reading.position \ {"altitude"} |-> reading.position[f]]
           valid == reading.fix > FIX_NONE
           type == IF valid THEN FIX_2D ELSE FIX_NONE
<1>0. PICK time \in Timestamps(Datestamp) : RmcAt(time)
  BY DEF Rmc
<1>1. now' = now /\ reading' = reading /\ clock_set' = clock_set
  BY DEF AtRest, receiver
<1>2. (TimeSettled => TimeSettled') /\ CourseSettled'
  BY RmcSettles DEF TimeSettled, TimeCanSettle
<1>3. PositionSettled => PositionSettled' /\ ~Changes(position, new)
  <2>1. \A f \in DOMAIN reading.position \cap DOMAIN new : reading.position[f] = new[f]
    OBVIOUS
  <2>2. position' = Update(position, new)
    BY <1>0 DEF RmcAt, SetPosition
  <2>3. PositionSettled => ~Changes(position, new)
    BY DEF PositionSettled, Changes
  <2>4. PositionSettled => ~Changes(Update(position, new), reading.position)
    <3> HIDE DEF new
    <3> QED  BY <2>1, UpdateKeeps DEF PositionSettled
  <2> QED  BY <1>1, <2>2, <2>3, <2>4 DEF PositionSettled
<1>4. accuracy' = accuracy
  BY <1>0 DEF RmcAt
<1>5. (HdopSettled => HdopSettled') /\ (DopSettled => DopSettled')
  BY <1>1, <1>4 DEF HdopSettled, DopSettled, Hdop, GsaFields
<1>6. FixSettled => ComparedFix(valid) = type
  BY ReadingParts DEF FixSettled, ComparedFix, FIX_NONE, FIX_2D, FIX_3D
<1>7. FixSettled => FixSettled'
  BY <1>0, <1>1, <1>6 DEF FixSettled, RmcAt, SetFixType
<1>8. TimeSettled => time = timestamp
  <2>1. CASE clock_set
    BY <1>0, <2>1, TimeOfSentence DEF TimeSettled
  <2>2. CASE ~clock_set
    BY <1>0, <2>2 DEF TimeSettled, Timestamps, Datestamp
  <2> QED  BY <2>1, <2>2
<1>9. Quiet
  <2> SUFFICES ASSUME Settled  PROVE emitted' = {}
    BY DEF Quiet
  <2>1. /\ emitted' = When(time # timestamp, "TimeChanged")
                \cup When(Changes(position, new), "PositionChanged")
                \cup When(ComparedFix(valid) # type, "FixStatusChanged")
                \cup When(Changes(course, reading.course), "CourseChanged")
    BY <1>0 DEF RmcAt, Emit
  <2>2. time = timestamp /\ ~Changes(position, new) /\ ComparedFix(valid) = type
        /\ ~Changes(course, reading.course)
    BY <1>3, <1>6, <1>8 DEF Settled, CourseSettled
  <2> HIDE DEF new, type, valid
  <2> QED  BY <2>1, <2>2 DEF When
<1> QED  BY <1>2, <1>3, <1>5, <1>7, <1>9 DEF Keeps

LEMMA GgaKeeps ==
    ASSUME ReceiverInv, AtRest, Gga  PROVE Keeps /\ Quiet
<1>0. PICK sent \in Timestamps(datestamp) : GgaAt(sent)
  BY DEF Gga
<1> DEFINE new == reading.position
           time == IF sent > 0 THEN sent ELSE timestamp
<1>1. now' = now /\ reading' = reading /\ clock_set' = clock_set
  BY DEF AtRest, receiver
<1>2. PositionSettled' /\ HdopSettled'
  BY GgaSettles
<1>3. datestamp' = datestamp /\ timestamp' = time
  BY <1>0 DEF GgaAt, context
<1>4. TimeSettled => time = timestamp
  <2>1. CASE datestamp = 0
    BY <1>0, <2>1 DEF Timestamps
  <2>2. CASE datestamp # 0
    <3> SUFFICES ASSUME TimeSettled  PROVE time = timestamp
      OBVIOUS
    <3>1. clock_set /\ timestamp = now /\ datestamp = Datestamp
      BY <2>2 DEF TimeSettled
    <3>2. sent = now /\ now > 0
      BY <1>0, <3>1, TimeOfSentence
    <3> QED  BY <3>1, <3>2
  <2> QED  BY <2>1, <2>2
<1>5. TimeSettled => TimeSettled'
  BY <1>1, <1>3, <1>4 DEF TimeSettled, Datestamp
<1>6. CourseSettled => CourseSettled'
  <2>1. DOMAIN Climb(new, time) \subseteq {"climb"}
    BY DEF Climb, NoField
  <2>2. \A f \in DOMAIN reading.course \cap DOMAIN Climb(new, time) :
            reading.course[f] = Climb(new, time)[f]
    BY <2>1, ReadingParts
  <2>3. course' = Update(course, Climb(new, time))
    BY <1>0 DEF GgaAt
  <2> QED  BY <1>1, <2>2, <2>3, UpdateKeeps DEF CourseSettled
<1>7. DopSettled => DopSettled'
  <2> DEFINE dop == [f \in GsaFields |-> reading.accuracy[f]]
  <2>1. \A f \in DOMAIN dop \cap DOMAIN Hdop : dop[f] = Hdop[f]
    BY ReadingParts DEF Hdop
  <2>2. accuracy' = Update(accuracy, Hdop) /\ dop' = dop
    BY <1>0, <1>1 DEF GgaAt, GsaFields
  <2> HIDE DEF dop
  <2>3. DopSettled <=> ~Changes(accuracy, dop)
    BY DEF DopSettled, dop
  <2>4. DopSettled' <=> ~Changes(accuracy', dop')
    BY DEF DopSettled, dop, Changes
  <2> QED  BY <2>1, <2>2, <2>3, <2>4, UpdateKeeps
<1>8. FixSettled => ComparedFix(FALSE) = FixOf(new)
  BY DEF AtRest, FixSettled, ComparedFix
<1>9. FixSettled => FixSettled'
  BY <1>0, <1>1, <1>8 DEF FixSettled, GgaAt, SetFixType
<1>10. Quiet
  <2> SUFFICES ASSUME Settled  PROVE emitted' = {}
    BY DEF Quiet
  <2>1. /\ emitted' = When(time # timestamp, "TimeChanged")
                \cup When(Changes(position, new), "PositionChanged")
                \cup When(Changes(course, Climb(new, time)), "CourseChanged")
                \cup When(ComparedFix(FALSE) # FixOf(new), "FixStatusChanged")
                \cup When(Changes(accuracy, Hdop), "AccuracyChanged")
    BY <1>0 DEF GgaAt, Emit
  <2>2. time = timestamp /\ ~Changes(position, new) /\ ComparedFix(FALSE) = FixOf(new)
        /\ ~Changes(accuracy, Hdop)
    BY <1>4, <1>8 DEF Settled, PositionSettled, HdopSettled
  <2>3. ~Changes(course, Climb(new, time))
    <3>1. Climb(new, time) = NoField
      BY <2>2, NoClimb
    <3> QED  BY <3>1 DEF Changes, NoField
  <2> HIDE DEF new, time
  <2> QED  BY <2>1, <2>2, <2>3 DEF When
<1> QED  BY <1>2, <1>5, <1>6, <1>7, <1>9, <1>10 DEF Keeps

LEMMA GsaKeeps ==
    ASSUME ReceiverInv, AtRest, Gsa  PROVE Keeps /\ Quiet
<1> DEFINE dop == [f \in GsaFields |-> reading.accuracy[f]]
<1>1. now' = now /\ reading' = reading /\ clock_set' = clock_set
  BY DEF AtRest, receiver
<1>2. FixSettled' /\ DopSettled'
  BY GsaSettles
<1>3. /\ timestamp' = timestamp /\ datestamp' = datestamp
      /\ position' = position /\ course' = course
  BY DEF Gsa, context
<1>4. /\ TimeSettled => TimeSettled'
      /\ CourseSettled => CourseSettled'
      /\ PositionSettled => PositionSettled'
  BY <1>1, <1>3 DEF TimeSettled, Datestamp, CourseSettled, PositionSettled
<1>5. HdopSettled => HdopSettled'
  <2>1. \A f \in DOMAIN Hdop \cap DOMAIN dop : Hdop[f] = dop[f]
    BY ReadingParts DEF Hdop
  <2>2. accuracy' = Update(accuracy, dop) /\ Hdop' = Hdop
    BY <1>1 DEF Gsa, Hdop
  <2> HIDE DEF dop
  <2> QED  BY <2>1, <2>2, UpdateKeeps DEF HdopSettled, Changes
<1>6. Quiet
  <2> SUFFICES ASSUME Settled  PROVE emitted' = {}
    BY DEF Quiet
  <2>1. emitted' = When(ComparedFix(FALSE) # reading.fix, "FixStatusChanged")
                \cup When(Changes(accuracy, dop), "AccuracyChanged")
    BY DEF Gsa, Emit
  <2>2. ComparedFix(FALSE) = reading.fix /\ ~Changes(accuracy, dop)
    BY DEF Settled, FixSettled, DopSettled, ComparedFix
  <2> HIDE DEF dop
  <2> QED  BY <2>1, <2>2 DEF When
<1> QED  BY <1>2, <1>4, <1>5, <1>6 DEF Keeps

\* At rest nothing that is settled is unsettled by a sentence, in any order of
\* them, and once everything is settled no sentence makes a signal due
\* (gypsy_client_set_* in gypsy-client.c:1063-1295, nmea-parser.c:379-580).
THEOREM RestIsQuiet ==
    Spec => [][AtRest /\ parser = "nmea" => Keeps /\ Quiet]_vars
<1>1. ReceiverInv /\ [Next]_vars => [AtRest /\ parser = "nmea" => Keeps /\ Quiet]_vars
  <2> SUFFICES ASSUME ReceiverInv, Next, AtRest, parser = "nmea"
               PROVE  Keeps /\ Quiet
    OBVIOUS
  <2>1. CASE Rmc
    BY <2>1, RmcKeeps
  <2>2. CASE Gga
    BY <2>2, GgaKeeps
  <2>3. CASE Gsa
    BY <2>3, GsaKeeps
  <2>4. CASE GarminPvt
    BY <2>4 DEF GarminPvt
  <2>5. CASE Measure
    <3>1. now' = now /\ fraction' = fraction
      BY DEF AtRest, receiver
    <3>2. now' = now + 1 \/ fraction' = fraction + 1
      BY <2>5 DEF Measure, Tick
    <3> QED  BY <3>1, <3>2, MomentsAreLate DEF ReceiverInv
  <2>6. CASE Reconnect
    <3>1. reconnects' = reconnects + 1 /\ reconnects' = reconnects
      BY <2>6 DEF Reconnect, AtRest
    <3> QED  BY <3>1
  <2> QED  BY <2>1, <2>2, <2>3, <2>4, <2>5, <2>6 DEF Next
<1> QED  BY <1>1, InitReceiver, NextReceiver, PTL DEF Spec

\* The same for the record of a Garmin receiver, which says everything at once.
PvtMotion == [speed |-> Whole(reading.course, {"speed"})["speed"], direction |-> Direction]

PvtSettled ==
    /\ timestamp = now
    /\ ~Changes(position, Whole(reading.position, PositionFields))
    /\ ~Changes(course, PvtMotion)
    /\ FixSettled

\* One PVT record settles everything it says, and the next one, of a receiver
\* that measures the same, signals nothing (gypsy-garmin-parser.c:226-323).
THEOREM PvtSettlesAndIsQuiet ==
    Before2038 =>
      (Spec => [][GarminPvt => /\ PvtSettled'
                               /\ PvtSettled => emitted' = {}]_vars)
<1> SUFFICES ASSUME Before2038
             PROVE  Spec => [][GarminPvt => /\ PvtSettled'
                                            /\ PvtSettled => emitted' = {}]_vars
  OBVIOUS
<1>1. ASSUME ReceiverInv, GarminPvt
      PROVE  PvtSettled' /\ (PvtSettled => emitted' = {})
  <2> DEFINE new == Whole(reading.position, PositionFields)
             climb == Climb(new, now)
  <2>1. PICK pvt \in PvtTimes(now, Leap), fix \in PvtFixes[reading.fix] :
            Pvt(CalculateUtc(pvt), fix)
    BY <1>1 DEF GarminPvt
  <2>2. CalculateUtc(pvt) = now
    BY <1>1, PvtIsNow DEF ReceiverInv
  <2>3. PvtFixType(fix) = reading.fix
    BY <1>1, ReadingParts DEF PvtFixes, PvtFixType, FIX_NONE, FIX_2D, FIX_3D
  <2>4. now' = now /\ reading' = reading /\ new' = new
    BY <2>1 DEF Pvt, receiver
  <2>5. /\ timestamp' = now
        /\ position' = Update(position, new)
        /\ course' = Update(Update(course, climb), PvtMotion)
        /\ fix_type' = (IF ComparedFix(FALSE) # reading.fix THEN reading.fix ELSE fix_type)
    BY <2>1, <2>2, <2>3 DEF Pvt, SetPosition, SetFixType, PvtMotion
  <2>6. PvtMotion' = PvtMotion
    <3>1. lastcourse' = (IF Whole(reading.course, {"speed"})["speed"] >= 1 THEN Direction
                         ELSE lastcourse)
      BY <2>1 DEF Pvt
    <3> QED  BY <2>4, <3>1 DEF PvtMotion, Direction
  <2>7. PvtSettled'
    <3>1. FixSettled'
      BY <2>4, <2>5 DEF FixSettled, ComparedFix
    <3>2. ~Changes(position', new) /\ ~Changes(course', PvtMotion)
      BY <2>5, UpdateAgrees
    <3> HIDE DEF new
    <3>3. ~Changes(position', new') /\ ~Changes(course', PvtMotion')
      BY <2>4, <2>6, <3>2
    <3> QED  BY <2>4, <2>5, <3>1, <3>3 DEF PvtSettled, Changes, new
  <2>8. ASSUME PvtSettled  PROVE emitted' = {}
    <3>1. ~Changes(position, new) /\ ~Changes(course, PvtMotion) /\ timestamp = now
          /\ ComparedFix(FALSE) = reading.fix
      BY <2>8 DEF PvtSettled, FixSettled, ComparedFix
    <3>2. climb = NoField
      BY <3>1, NoClimb
    <3>3. ~Changes(course, climb)
      BY <3>2 DEF Changes, NoField
    <3>4. ~Changes(Update(course, climb), PvtMotion)
      BY <3>1, <3>2 DEF Changes, Update, NoField
    <3>5. emitted' = When(now # timestamp, "TimeChanged")
                \cup When(Changes(position, new), "PositionChanged")
                \cup When(ComparedFix(FALSE) # reading.fix, "FixStatusChanged")
                \cup When(\/ Changes(course, climb)
                         \/ Changes(Update(course, climb), PvtMotion), "CourseChanged")
      BY <2>1, <2>2, <2>3 DEF Pvt, Emit, PvtMotion
    <3> HIDE DEF new, climb
    <3> QED  BY <3>1, <3>3, <3>4, <3>5 DEF When
  <2> QED  BY <2>7, <2>8
<1>2. ReceiverInv /\ [Next]_vars =>
        [GarminPvt => /\ PvtSettled'
                      /\ PvtSettled => emitted' = {}]_vars
  BY <1>1
<1> QED  BY <1>2, InitReceiver, NextReceiver, PTL DEF Spec
=============================================================================
