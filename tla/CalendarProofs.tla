--------------------------- MODULE CalendarProofs ---------------------------
(***************************************************************************)
(* The calendar arithmetic of the executor is the calendar, for every year *)
(* and however long the walk: no formula is compared with another, only    *)
(* with a count of days.                                                   *)
(*                                                                         *)
(* A date's number is the number of its March year, which begins after the *)
(* leap day, and a fixed number of days for the month.  For the weeks the  *)
(* walk needs an invariant of its own: the ISO year is the year of the     *)
(* week's Thursday.                                                        *)
(***************************************************************************)
EXTENDS CalendarWalk, TLAPS

-----------------------------------------------------------------------------
\* Day numbers.

\* The days of the March years before y.
MarchDays(y) ==
    (y \div 400) * 146097 + (y % 400) * 365 + ((y % 400) \div 4) - ((y % 400) \div 100)

\* The days before 1970, and the days of a March year before a month.
DayZero == 719469

MonthStart == <<306, 337, 0, 31, 61, 92, 122, 153, 184, 214, 245, 275>>

MarchYear(y, m) == IF m <= 2 THEN y - 1 ELSE y

\* A date's number is its March year's, its month's and its day's.
LEMMA NumberInParts ==
    ASSUME NEW y \in Int, NEW m \in 1..12, NEW d \in Int
    PROVE  DaysFromCivilExact(y, m, d) =
               MarchDays(MarchYear(y, m)) + MonthStart[m] + d - DayZero
<1> DEFINE z == MarchYear(y, m)
<1>1. z \in Int /\ (m - 1) \div 12 = 0 /\ (m - 1) % 12 = m - 1
  BY DEF MarchYear
<1>2. z = y + ((m - 1) \div 12) - (IF (m - 1) % 12 < 2 THEN 1 ELSE 0)
  BY <1>1 DEF MarchYear
<1>3. (153 * ((m + 9) % 12) + 2) \div 5 = MonthStart[m]
  BY DEF MonthStart
<1>4. z - (z \div 400) * 400 = z % 400
  BY <1>1
<1> QED
  BY <1>1, <1>2, <1>3, <1>4, SMT DEF DaysFromCivilExact, MarchDays, DayZero

LEMMA DayZeroIsInteger == DayZero \in Int
  BY SMT DEF DayZero

LEMMA MarchDaysIsInteger ==
    ASSUME NEW y \in Int PROVE MarchDays(y) \in Int
  BY SMT DEF MarchDays

LEMMA NumberIsInteger ==
    ASSUME NEW y \in Int, NEW m \in 1..12, NEW d \in Int
    PROVE  DaysFromCivilExact(y, m, d) \in Int
<1>1. MarchYear(y, m) \in Int /\ MonthStart[m] \in Int
  BY DEF MarchYear, MonthStart
<1>2. MarchDays(MarchYear(y, m)) \in Int /\ DayZero \in Int
  BY <1>1, MarchDaysIsInteger, DayZeroIsInteger
<1>3. DaysFromCivilExact(y, m, d) = MarchDays(MarchYear(y, m)) + MonthStart[m] + d - DayZero
  BY NumberInParts
<1> QED
  BY <1>1, <1>2, <1>3

\* A March year has a leap day at its end when the year it ends in is leap.
LEMMA MarchYearLength ==
    ASSUME NEW y \in Int
    PROVE  MarchDays(y) = MarchDays(y - 1) + (IF IsLeap(y) THEN 366 ELSE 365)
<1>1. CASE y % 400 = 0
  <2>1. (y - 1) % 400 = 399 /\ (y - 1) \div 400 = (y \div 400) - 1
    BY <1>1
  <2>2. IsLeap(y)
    BY <1>1 DEF IsLeap
  <2> QED
    BY <1>1, <2>1, <2>2, SMT DEF MarchDays
<1>2. CASE y % 400 # 0
  <2> DEFINE r == y % 400
  <2>1. r \in 1..399 /\ (y - 1) % 400 = r - 1 /\ (y - 1) \div 400 = y \div 400
    BY <1>2
  <2>2. IsLeap(y) <=> r % 4 = 0 /\ r % 100 # 0
    BY <1>2, <2>1 DEF IsLeap
  <2>3. (r \div 4) - ((r - 1) \div 4) = IF r % 4 = 0 THEN 1 ELSE 0
    BY <2>1
  <2>4. (r \div 100) - ((r - 1) \div 100) = IF r % 100 = 0 THEN 1 ELSE 0
    BY <2>1
  <2>5. r % 100 = 0 => r % 4 = 0
    BY <2>1
  <2> QED
    BY <2>1, <2>2, <2>3, <2>4, <2>5, SMT DEF MarchDays
<1> QED
  BY <1>1, <1>2

\* The table of real years and the arithmetic agree.
LEMMA TableAgrees ==
    ASSUME NEW y \in Int, NEW m \in 1..12, NEW d \in Int
    PROVE  DaysFromCivil(y, m, d) = DaysFromCivilExact(y, m, d)
<1>1. DaysFromCivilExact(y, 1, 1) = MarchDays(y - 1) + 307 - DayZero
  BY NumberInParts, MarchDaysIsInteger, DayZeroIsInteger DEF MarchYear, MonthStart
<1>2. DaysFromCivilExact(y, m, d) = MarchDays(MarchYear(y, m)) + MonthStart[m] + d - DayZero
  BY NumberInParts
<1>3. DayZero \in Int /\ MarchDays(y) \in Int /\ MarchDays(y - 1) \in Int
  BY MarchDaysIsInteger, DayZeroIsInteger
<1>4. MarchDays(y) = MarchDays(y - 1) + (IF IsLeap(y) THEN 366 ELSE 365)
  BY MarchYearLength
<1>5. MarchDays(MarchYear(y, m)) + MonthStart[m]
          = MarchDays(y - 1) + 306 + DaysBeforeMonth[m] + (IF m > 2 /\ IsLeap(y) THEN 1 ELSE 0)
  <2>1. CASE m <= 2
    BY <1>3, <2>1 DEF MarchYear, MonthStart, DaysBeforeMonth
  <2>2. CASE m > 2
    <3>1. MonthStart[m] + (IF IsLeap(y) THEN 366 ELSE 365)
              = 306 + DaysBeforeMonth[m] + (IF IsLeap(y) THEN 1 ELSE 0)
      BY <2>2 DEF MonthStart, DaysBeforeMonth
    <3>2. MarchYear(y, m) = y /\ MonthStart[m] \in Int /\ DaysBeforeMonth[m] \in Int
      BY <2>2 DEF MarchYear, MonthStart, DaysBeforeMonth
    <3>3. MarchDays(y) + MonthStart[m]
              = MarchDays(y - 1) + 306 + DaysBeforeMonth[m] + (IF IsLeap(y) THEN 1 ELSE 0)
      BY <1>3, <1>4, <3>1, <3>2
    <3> QED
      BY <2>2, <3>2, <3>3
  <2> QED
    BY <2>1, <2>2
<1>6. MonthStart[m] \in Int /\ DaysBeforeMonth[m] \in Int /\ MarchDays(MarchYear(y, m)) \in Int
  BY <1>3 DEF MonthStart, DaysBeforeMonth, MarchYear
<1>7. DaysFromCivilExact(y, m, d) = DaysFromCivilExact(y, 1, 1) + DaysBeforeMonth[m] + d - 1
                                        + (IF m > 2 /\ IsLeap(y) THEN 1 ELSE 0)
  <2> DEFINE leap == IF m > 2 /\ IsLeap(y) THEN 1 ELSE 0
             a == MarchDays(MarchYear(y, m))
             b == DaysBeforeMonth[m]
             s == MonthStart[m]
  <2>1. leap \in Int /\ a \in Int /\ b \in Int /\ s \in Int
    BY <1>6
  <2>2. a + s = MarchDays(y - 1) + 306 + b + leap /\ DaysFromCivilExact(y, m, d) = a + s + d - DayZero
    BY <1>2, <1>5
  <2> HIDE DEF leap, a, b, s
  <2>3. DaysFromCivilExact(y, m, d) = DaysFromCivilExact(y, 1, 1) + b + d - 1 + leap
    BY <1>1, <1>3, <2>1, <2>2
  <2> QED
    BY <2>3 DEF leap, b
<1> QED
  BY <1>7 DEF DaysFromCivil

\* Tomorrow's date exists.
LEMMA TomorrowExists ==
    ASSUME year \in Int, month \in 1..12, day \in 1..31, DayExists(year, month, day), NextDate
    PROVE  /\ year' \in Int /\ month' \in 1..12 /\ day' \in 1..31
           /\ DayExists(year', month', day')
           /\ \/ year' = year /\ month' = month /\ day' = day + 1
              \/ /\ day = IF month = 2 THEN (IF IsLeap(year) THEN 29 ELSE 28)
                                       ELSE MonthLengths[month]
                 /\ day' = 1
                 /\ IF month = 12 THEN month' = 1 /\ year' = year + 1
                                  ELSE month' = month + 1 /\ year' = year
<1>1. CASE DayExists(year, month, day + 1)
  <2>1. year' = year /\ month' = month /\ day' = day + 1
    BY <1>1 DEF NextDate
  <2>2. day' \in 1..31
    BY <1>1, <2>1 DEF DayExists, MonthLengths
  <2> QED
    BY <1>1, <2>1, <2>2
<1>2. CASE ~DayExists(year, month, day + 1)
  <2>1. day' = 1 /\ IF month = 12 THEN month' = 1 /\ year' = year + 1
                                  ELSE month' = month + 1 /\ year' = year
    BY <1>2 DEF NextDate
  <2>2. day = IF month = 2 THEN (IF IsLeap(year) THEN 29 ELSE 28) ELSE MonthLengths[month]
    BY <1>2 DEF DayExists, MonthLengths
  <2>3. year' \in Int /\ month' \in 1..12 /\ day' \in 1..31 /\ DayExists(year', month', day')
    BY <2>1 DEF DayExists
  <2> QED
    BY <2>1, <2>2, <2>3
<1> QED
  BY <1>1, <1>2

\* The number of the day after the last of a month.
LEMMA NumberAfterMonth ==
    ASSUME NEW y \in Int, NEW m \in 1..12, NEW y2, NEW m2,
           IF m = 12 THEN m2 = 1 /\ y2 = y + 1 ELSE m2 = m + 1 /\ y2 = y
    PROVE  DaysFromCivilExact(y2, m2, 1) = 1 + DaysFromCivilExact(y, m,
               IF m = 2 THEN (IF IsLeap(y) THEN 29 ELSE 28) ELSE MonthLengths[m])
<1> DEFINE d == IF m = 2 THEN (IF IsLeap(y) THEN 29 ELSE 28) ELSE MonthLengths[m]
<1>1. y2 \in Int /\ m2 \in 1..12 /\ d \in Int
  BY DEF MonthLengths
<1>2. /\ DaysFromCivilExact(y, m, d) = MarchDays(MarchYear(y, m)) + MonthStart[m] + d - DayZero
      /\ DaysFromCivilExact(y2, m2, 1) = MarchDays(MarchYear(y2, m2)) + MonthStart[m2] + 1 - DayZero
  <2> HIDE DEF d
  <2> QED
    BY <1>1, NumberInParts
<1>3. DayZero \in Int /\ MarchDays(y) \in Int /\ MarchDays(y - 1) \in Int
  BY MarchDaysIsInteger, DayZeroIsInteger
<1>4. MarchDays(MarchYear(y2, m2)) + MonthStart[m2] = MarchDays(MarchYear(y, m)) + MonthStart[m] + d
  <2>1. CASE m = 2
    <3>1. MarchDays(y) = MarchDays(y - 1) + (IF IsLeap(y) THEN 366 ELSE 365)
      BY MarchYearLength
    <3>2. MarchYear(y2, m2) = y /\ MarchYear(y, m) = y - 1 /\ MonthStart[m2] = 0 /\ MonthStart[m] = 337
      BY <2>1 DEF MarchYear, MonthStart
    <3> QED
      BY <1>3, <2>1, <3>1, <3>2
  <2>2. CASE m # 2
    <3>1. MarchYear(y2, m2) = MarchYear(y, m)
      BY <2>2 DEF MarchYear
    <3>2. MonthStart[m2] = MonthStart[m] + d /\ MonthStart[m] \in Int
      BY <2>2 DEF MonthStart, MonthLengths
    <3>3. MarchDays(MarchYear(y, m)) \in Int
      BY <1>3 DEF MarchYear
    <3> QED
      BY <1>1, <3>1, <3>2, <3>3
  <2> QED
    BY <2>1, <2>2
<1>5. MarchDays(MarchYear(y, m)) \in Int /\ MonthStart[m] \in Int
      /\ MarchDays(MarchYear(y2, m2)) \in Int /\ MonthStart[m2] \in Int
  BY <1>1, MarchDaysIsInteger DEF MarchYear, MonthStart
<1>6. DaysFromCivilExact(y2, m2, 1) = 1 + DaysFromCivilExact(y, m, d)
  <2> HIDE DEF d
  <2> QED
    BY <1>1, <1>2, <1>3, <1>4, <1>5
<1> QED
  BY <1>6

\* Tomorrow's number is one more.
LEMMA NumberOfTomorrow ==
    ASSUME year \in Int, month \in 1..12, day \in 1..31, DayExists(year, month, day), NextDate
    PROVE  DaysFromCivilExact(year', month', day') = DaysFromCivilExact(year, month, day) + 1
<1>1. CASE year' = year /\ month' = month /\ day' = day + 1
  <2>1. /\ DaysFromCivilExact(year, month, day)
               = MarchDays(MarchYear(year, month)) + MonthStart[month] + day - DayZero
        /\ DaysFromCivilExact(year, month, day + 1)
               = MarchDays(MarchYear(year, month)) + MonthStart[month] + (day + 1) - DayZero
    BY NumberInParts
  <2>2. MarchYear(year, month) \in Int /\ MonthStart[month] \in Int
    BY DEF MarchYear, MonthStart
  <2>3. MarchDays(MarchYear(year, month)) \in Int /\ DayZero \in Int
    BY <2>2, MarchDaysIsInteger, DayZeroIsInteger
  <2> QED
    BY <1>1, <2>1, <2>2, <2>3
<1>2. CASE day' = 1 /\ ~(year' = year /\ month' = month /\ day' = day + 1)
  <2>1. /\ day = IF month = 2 THEN (IF IsLeap(year) THEN 29 ELSE 28) ELSE MonthLengths[month]
        /\ IF month = 12 THEN month' = 1 /\ year' = year + 1
                         ELSE month' = month + 1 /\ year' = year
    BY <1>2, TomorrowExists
  <2>2. DaysFromCivilExact(year', month', 1) = 1 + DaysFromCivilExact(year, month, day)
    BY <2>1, NumberAfterMonth
  <2>3. DaysFromCivilExact(year, month, day) \in Int
    <3>1. day \in Int
      OBVIOUS
    <3> QED
      BY <3>1, NumberIsInteger
  <2> QED
    BY <1>2, <2>2, <2>3
<1> QED
  BY <1>1, <1>2, TomorrowExists

-----------------------------------------------------------------------------
\* Weeks.

\* The first Monday is the Monday of the week 4 January is in.
LEMMA WeekOfJanuary4 ==
    ASSUME NEW y \in Int, NEW m \in {1, 12}, NEW d \in 1..31, NEW n,
           n = DaysFromCivilExact(y, m, d), Weekday(n) = 1
    PROVE  /\ m = 1 /\ d <= 4 => Week1Monday(y) = n
           /\ m = 12 /\ d >= 29 => Week1Monday(y + 1) = n
<1>1. n \in Int
  <2>1. m \in 1..12 /\ d \in Int
    OBVIOUS
  <2> QED
    BY <2>1, NumberIsInteger
<1>2. ASSUME NEW z \in Int, NEW k \in 0..6, DaysFromCivilExact(z, 1, 4) = n + k
      PROVE  Week1Monday(z) = n
  <2>1. DaysFromCivil(z, 1, 4) = n + k
    BY <1>2, TableAgrees
  <2>2. (n + 4) % 7 = 1
    BY DEF Weekday
  <2>3. (n + k + 4) % 7 = IF k = 6 THEN 0 ELSE k + 1
    BY <1>1, <2>2
  <2> QED
    BY <1>1, <2>1, <2>3 DEF Week1Monday, Weekday
<1>0. MarchDays(y - 1) \in Int /\ MarchDays(y) \in Int /\ DayZero \in Int
  BY MarchDaysIsInteger, DayZeroIsInteger
<1>3. CASE m = 1 /\ d <= 4
  <2>1. n = MarchDays(y - 1) + 306 + d - DayZero
    BY <1>3, NumberInParts DEF MarchYear, MonthStart
  <2>2. DaysFromCivilExact(y, 1, 4) = MarchDays(y - 1) + 306 + 4 - DayZero
    BY NumberInParts DEF MarchYear, MonthStart
  <2>3. DaysFromCivilExact(y, 1, 4) = n + (4 - d) /\ 4 - d \in 0..6
    BY <1>0, <1>1, <1>3, <2>1, <2>2
  <2> QED
    BY <1>2, <1>3, <2>3
<1>4. CASE m = 12 /\ d >= 29
  <2>1. n = MarchDays(y) + 275 + d - DayZero
    BY <1>4, NumberInParts DEF MarchYear, MonthStart
  <2>2. DaysFromCivilExact(y + 1, 1, 4) = MarchDays(y) + 306 + 4 - DayZero
    <3>1. (y + 1) - 1 = y /\ y + 1 \in Int
      OBVIOUS
    <3> QED
      BY <3>1, NumberInParts DEF MarchYear, MonthStart
  <2>3. DaysFromCivilExact(y + 1, 1, 4) = n + (35 - d) /\ 35 - d \in 0..6
    BY <1>0, <1>1, <1>4, <2>1, <2>2
  <2> QED
    BY <1>2, <1>4, <2>3
<1> QED
  BY <1>3, <1>4

-----------------------------------------------------------------------------
\* The inductive invariant, in parts.

DateInv ==
    /\ year \in Int /\ month \in 1..12 /\ day \in 1..31
    /\ DayExists(year, month, day)
    /\ number = DaysFromCivilExact(year, month, day)

\* The year of this week's Thursday.
ThursdaysYear ==
    CASE month = 1 /\ day + 4 - weekday < 1    -> year - 1
      [] month = 12 /\ day + 4 - weekday > 31  -> year + 1
      [] OTHER                                 -> year

WeekInv ==
    /\ weekday \in 1..7 /\ isoWeek \in Int
    /\ Weekday(number) = weekday % 7
    /\ isoYear = ThursdaysYear
    /\ number = Week1Monday(isoYear) + 7 * (isoWeek - 1) + weekday - 1

CalendarInv == DateInv /\ WeekInv

LEMMA InitDate == Init => DateInv
<1> SUFFICES ASSUME Init PROVE DateInv
  OBVIOUS
<1>1. PICK s \in Starts : year = s.year /\ month = s.month /\ day = s.day /\ number = s.number
  BY DEF Init
<1> QED
  BY <1>1, StartsAssumption DEF DateInv, DayExists, MonthLengths

LEMMA InitWeek == Init => WeekInv
<1> SUFFICES ASSUME Init PROVE WeekInv
  OBVIOUS
<1>1. PICK s \in Starts : /\ year = s.year /\ month = s.month /\ day = s.day
                          /\ isoYear = s.isoYear /\ isoWeek = 1 /\ weekday = 1
                          /\ number = s.number
  BY DEF Init
<1>2. /\ year \in Int
      /\ \/ month = 1 /\ day \in 1..4 /\ isoYear = year
         \/ month = 12 /\ day \in 29..31 /\ isoYear = year + 1
      /\ number = DaysFromCivilExact(year, month, day)
      /\ Weekday(number) = 1
  BY <1>1, StartsAssumption
<1>3. isoYear = ThursdaysYear
  BY <1>1, <1>2 DEF ThursdaysYear
<1>4. Week1Monday(isoYear) = number
  <2>1. month \in {1, 12} /\ day \in 1..31
    BY <1>2
  <2> QED
    BY <1>2, <2>1, WeekOfJanuary4
<1>5. number \in Int
  <2>1. month \in 1..12 /\ day \in Int
    BY <1>2
  <2> QED
    BY <1>2, <2>1, NumberIsInteger
<1> QED
  BY <1>1, <1>2, <1>3, <1>4, <1>5 DEF WeekInv

LEMMA DateStep == DateInv /\ NextDay => DateInv'
<1> SUFFICES ASSUME DateInv, NextDay PROVE DateInv'
  OBVIOUS
<1>1. number' = number + 1 /\ NextDate
  BY DEF NextDay
<1>2. year' \in Int /\ month' \in 1..12 /\ day' \in 1..31 /\ DayExists(year', month', day')
  BY <1>1, TomorrowExists DEF DateInv
<1>3. DaysFromCivilExact(year', month', day') = DaysFromCivilExact(year, month, day) + 1
  BY <1>1, NumberOfTomorrow DEF DateInv
<1> QED
  BY <1>1, <1>2, <1>3 DEF DateInv

\* The year of the Thursday turns with the week that has 4 January in it.
LEMMA ThursdayStep ==
    ASSUME DateInv, WeekInv, NextDay
    PROVE  /\ isoYear' = ThursdaysYear'
           /\ weekday = 7 => (isoYear' = isoYear + 1 <=> BeginsIsoYear)
           /\ isoYear' # isoYear => weekday = 7 /\ isoYear' = isoYear + 1
           /\ isoYear \in Int
<1>1. /\ NextDate /\ NextWeekday
      /\ year \in Int /\ month \in 1..12 /\ day \in 1..31 /\ weekday \in 1..7
      /\ isoYear = ThursdaysYear
  BY DEF NextDay, DateInv, WeekInv
<1>2. /\ year' \in Int /\ month' \in 1..12 /\ day' \in 1..31
      /\ \/ year' = year /\ month' = month /\ day' = day + 1
         \/ /\ day = IF month = 2 THEN (IF IsLeap(year) THEN 29 ELSE 28) ELSE MonthLengths[month]
            /\ day' = 1
            /\ IF month = 12 THEN month' = 1 /\ year' = year + 1
                             ELSE month' = month + 1 /\ year' = year
  BY TomorrowExists DEF DateInv, NextDay
<1>3. month \in {1, 12} /\ day' = 1 /\ ~(day' = day + 1) => day = 31
  BY <1>1, <1>2 DEF MonthLengths
<1>4. ThursdaysYear \in Int
  BY <1>1 DEF ThursdaysYear
<1>5. CASE weekday < 7
  BY <1>1, <1>2, <1>3, <1>5 DEF ThursdaysYear, NextWeekday
<1>6. CASE weekday = 7
  BY <1>1, <1>2, <1>3, <1>6 DEF ThursdaysYear, NextWeekday, BeginsIsoYear
<1> QED
  BY <1>1, <1>4, <1>5, <1>6

\* A new ISO year begins on the Monday of its first week.
LEMMA IsoYearBegins ==
    ASSUME DateInv, WeekInv, NextDay, isoYear' # isoYear
    PROVE  Week1Monday(isoYear') = number'
<1>1. weekday = 7 /\ isoYear' = isoYear + 1 /\ BeginsIsoYear /\ isoYear' = ThursdaysYear'
  BY ThursdayStep
<1>2. DateInv'
  BY DateStep
<1>3. weekday' = 1
  BY <1>1 DEF NextDay, NextWeekday
<1>4. Weekday(number') = 1
  <2>1. number \in Int /\ number' = number + 1
    <3>1. day \in Int
      BY DEF DateInv
    <3> QED
      BY <3>1, NumberIsInteger DEF DateInv, NextDay
  <2>2. (number + 4) % 7 = 0
    BY <1>1 DEF WeekInv, Weekday
  <2> QED
    BY <2>1, <2>2 DEF Weekday
<1>5. CASE month' = 1 /\ day' <= 4
  <2>1. isoYear' = year'
    BY <1>1, <1>2, <1>3, <1>5 DEF ThursdaysYear, DateInv
  <2> QED
    BY <1>2, <1>4, <1>5, <2>1, WeekOfJanuary4 DEF DateInv
<1>6. CASE month' = 12 /\ day' >= 29
  <2>1. isoYear' = year' + 1
    BY <1>1, <1>2, <1>3, <1>6 DEF ThursdaysYear, DateInv
  <2> QED
    BY <1>2, <1>4, <1>6, <2>1, WeekOfJanuary4 DEF DateInv
<1> QED
  BY <1>1, <1>5, <1>6 DEF BeginsIsoYear

LEMMA Week1MondayIsInteger ==
    ASSUME NEW y \in Int
    PROVE  Week1Monday(y) \in Int
<1>1. DaysFromCivil(y, 1, 4) \in Int
  BY NumberIsInteger, TableAgrees
<1> QED
  BY <1>1 DEF Week1Monday, Weekday

LEMMA WeekStep == DateInv /\ WeekInv /\ NextDay => WeekInv'
<1> SUFFICES ASSUME DateInv, WeekInv, NextDay PROVE WeekInv'
  OBVIOUS
<1>1. number' = number + 1 /\ NextWeekday /\ weekday \in 1..7 /\ isoWeek \in Int
  BY DEF NextDay, WeekInv
<1>2. number \in Int
  <2>1. day \in Int
    BY DEF DateInv
  <2> QED
    BY <2>1, NumberIsInteger DEF DateInv
<1>3. weekday' \in 1..7 /\ isoWeek' \in Int
  BY <1>1 DEF NextWeekday
<1>4. Weekday(number') = weekday' % 7
  <2>1. (number + 4) % 7 = weekday % 7
    BY DEF WeekInv, Weekday
  <2>2. weekday' = IF weekday = 7 THEN 1 ELSE weekday + 1
    BY <1>1 DEF NextWeekday
  <2> QED
    BY <1>1, <1>2, <2>1, <2>2 DEF Weekday
<1>5. isoYear' = ThursdaysYear' /\ isoYear \in Int
  BY ThursdayStep
<1>6. number' = Week1Monday(isoYear') + 7 * (isoWeek' - 1) + weekday' - 1
  <2>1. CASE isoYear' = isoYear
    <3>1. isoWeek' = (IF weekday = 7 THEN isoWeek + 1 ELSE isoWeek)
          /\ weekday' = (IF weekday = 7 THEN 1 ELSE weekday + 1)
      BY <1>1, <1>5, <2>1 DEF NextWeekday
    <3>2. Week1Monday(isoYear) \in Int
      BY <1>5, Week1MondayIsInteger
    <3>3. number = Week1Monday(isoYear) + 7 * (isoWeek - 1) + weekday - 1
      BY DEF WeekInv
    <3> QED
      BY <1>1, <1>2, <2>1, <3>1, <3>2, <3>3
  <2>2. CASE isoYear' # isoYear
    <3>1. Week1Monday(isoYear') = number' /\ weekday = 7
      BY <2>2, IsoYearBegins, ThursdayStep
    <3>2. isoWeek' = 1 /\ weekday' = 1
      BY <1>1, <1>5, <2>2, <3>1, ThursdayStep DEF NextWeekday
    <3> QED
      BY <1>1, <1>2, <3>1, <3>2
  <2> QED
    BY <2>1, <2>2
<1> QED
  BY <1>3, <1>4, <1>5, <1>6 DEF WeekInv

\* A week date's year has its weeks between two first Mondays.
LEMMA WeeksBetweenMondays ==
    ASSUME NEW y \in Int
    PROVE  Week1Monday(y + 1) = Week1Monday(y) + 7 * WeeksIn(y)
<1> DEFINE a == DaysFromCivil(y, 1, 4)
           b == DaysFromCivil(y + 1, 1, 4)
<1>1. a \in Int
  BY NumberIsInteger, TableAgrees
<1>2. b = a + (IF IsLeap(y) THEN 366 ELSE 365)
  <2>1. /\ a = MarchDays(y - 1) + 310 - DayZero
        /\ b = MarchDays((y + 1) - 1) + 310 - DayZero
    <3>1. MarchDays(y - 1) \in Int /\ MarchDays((y + 1) - 1) \in Int /\ DayZero \in Int
      BY MarchDaysIsInteger, DayZeroIsInteger
    <3>2. /\ DaysFromCivilExact(y, 1, 4) = MarchDays(y - 1) + 306 + 4 - DayZero
          /\ DaysFromCivilExact(y + 1, 1, 4) = MarchDays((y + 1) - 1) + 306 + 4 - DayZero
      BY NumberInParts DEF MarchYear, MonthStart
    <3> QED
      BY <3>1, <3>2, TableAgrees
  <2>2. (y + 1) - 1 = y
    OBVIOUS
  <2>3. MarchDays(y) = MarchDays(y - 1) + (IF IsLeap(y) THEN 366 ELSE 365)
    BY MarchYearLength
  <2>4. MarchDays(y - 1) \in Int /\ DayZero \in Int
    BY MarchDaysIsInteger, DayZeroIsInteger
  <2> HIDE DEF a, b
  <2> QED
    BY <2>1, <2>2, <2>3, <2>4
<1>3. /\ Week1Monday(y) = a + (IF 1 - ((a + 4) % 7) > 0 THEN -6 ELSE 1 - ((a + 4) % 7))
      /\ Week1Monday(y + 1) = b + (IF 1 - ((b + 4) % 7) > 0 THEN -6 ELSE 1 - ((b + 4) % 7))
      /\ WeeksIn(y) = IF \/ (((a + 4) % 7) + 4) % 7 = 4
                         \/ IsLeap(y) /\ (((a + 4) % 7) + 4) % 7 = 3 THEN 53 ELSE 52
  <2>1. (a + 4) % 7 \in 0..6 /\ (b + 4) % 7 \in 0..6
    BY <1>1, <1>2
  <2> HIDE DEF a, b
  <2>2. \A k \in 0..6 : (IF 1 - k > 0 THEN 1 - k - 7 ELSE 1 - k) = (IF 1 - k > 0 THEN -6 ELSE 1 - k)
    OBVIOUS
  <2> QED
    BY <2>1, <2>2 DEF Week1Monday, WeeksIn, Weekday, a, b
<1> HIDE DEF a, b
<1>4. CASE IsLeap(y)
  BY <1>1, <1>2, <1>3, <1>4
<1>5. CASE ~IsLeap(y)
  BY <1>1, <1>2, <1>3, <1>5
<1> QED
  BY <1>4, <1>5

LEMMA WeeksStep == DateInv /\ WeekInv /\ NextDay /\ isoYear' # isoYear => isoWeek = WeeksIn(isoYear)
<1> SUFFICES ASSUME DateInv, WeekInv, NextDay, isoYear' # isoYear
             PROVE  isoWeek = WeeksIn(isoYear)
  OBVIOUS
<1>1. isoYear \in Int /\ isoYear' = isoYear + 1 /\ weekday = 7 /\ isoWeek \in Int
  BY ThursdayStep DEF WeekInv
<1>2. Week1Monday(isoYear + 1) = number + 1
  BY <1>1, IsoYearBegins DEF NextDay
<1>3. number = Week1Monday(isoYear) + 7 * (isoWeek - 1) + 6
  <2>1. Week1Monday(isoYear) \in Int
    BY <1>1, Week1MondayIsInteger
  <2> QED
    BY <1>1, <2>1 DEF WeekInv
<1>4. Week1Monday(isoYear + 1) = Week1Monday(isoYear) + 7 * WeeksIn(isoYear)
  BY <1>1, WeeksBetweenMondays
<1>5. Week1Monday(isoYear) \in Int /\ WeeksIn(isoYear) \in Int
  BY <1>1, Week1MondayIsInteger DEF WeeksIn
<1> QED
  BY <1>1, <1>2, <1>3, <1>4, <1>5

-----------------------------------------------------------------------------
\* The theorems.

LEMMA CalendarHolds == Spec => []CalendarInv
<1>1. Init => CalendarInv
  BY InitDate, InitWeek DEF CalendarInv
<1>2. CalendarInv /\ [Next]_vars => CalendarInv'
  <2> SUFFICES ASSUME CalendarInv, [Next]_vars PROVE CalendarInv'
    OBVIOUS
  <2>1. CASE NextDay
    BY <2>1, DateStep, WeekStep DEF CalendarInv
  <2>2. CASE UNCHANGED vars
    BY <2>2 DEF vars, CalendarInv, DateInv, WeekInv, ThursdaysYear
  <2> QED
    BY <2>1, <2>2 DEF Next
<1> QED
  BY <1>1, <1>2, PTL DEF Spec

\* The day number of every date, from the table and from the formula, is the
\* number of days counted, in every year and however far the walk goes
\* (daysFromCivil, daysFromCivilExact).
THEOREM DayNumbersCountAlways == Spec => []DayNumbersCount
<1>1. CalendarInv => DayNumbersCount
  <2> SUFFICES ASSUME CalendarInv PROVE DayNumbersCount
    OBVIOUS
  <2>1. year \in Int /\ month \in 1..12 /\ day \in Int
    BY DEF CalendarInv, DateInv
  <2> QED
    BY <2>1, TableAgrees DEF CalendarInv, DateInv, DayNumbersCount
<1> QED
  BY <1>1, CalendarHolds, PTL

\* An ISO week date is the day its week and weekday are counted to be, in every
\* year (isoWeek1, isoWeekToDate).
THEOREM WeekDatesCountAlways == Spec => []WeekDatesCount
<1>1. CalendarInv => WeekDatesCount
  <2> SUFFICES ASSUME CalendarInv PROVE WeekDatesCount
    OBVIOUS
  <2>1. /\ weekday \in 1..7 /\ isoWeek \in Int
        /\ number = Week1Monday(isoYear) + 7 * (isoWeek - 1) + weekday - 1
    BY DEF CalendarInv, WeekInv
  <2>2. Week1Monday(isoYear) \in Int
    <3>1. isoYear \in Int
      BY DEF CalendarInv, WeekInv, DateInv, ThursdaysYear
    <3> QED
      BY <3>1, Week1MondayIsInteger
  <2>3. ((weekday % 7) - 1) % 7 = weekday - 1
    BY <2>1
  <2> QED
    BY <2>1, <2>2, <2>3 DEF WeekDatesCount, IsoWeekToDate
<1> QED
  BY <1>1, CalendarHolds, PTL

\* An ISO year has as many weeks as are counted before the next begins, so that
\* week 53 is accepted in exactly the years that have one (isoWeek1).
THEOREM WeeksCountAlways == Spec => WeeksCount
<1>1. CalendarInv /\ [Next]_vars => [isoYear' # isoYear => isoWeek = WeeksIn(isoYear)]_vars
  BY WeeksStep DEF Next, CalendarInv
<1> QED
  BY <1>1, CalendarHolds, PTL DEF Spec, WeeksCount

=============================================================================
