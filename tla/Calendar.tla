--------------------------------- MODULE Calendar ---------------------------------
(***************************************************************************)
(* Dates, datetimes and intervals: their literals and operators, the       *)
(* conversion between seconds and calendar fields, printing, parsing, and  *)
(* extraction of a field (src/types, src/types/port, DateExtractOperation).*)
(*                                                                         *)
(* The units of time are parameters, so that centuries fit the integers of *)
(* the model checker; days, months and years are those of the calendar.    *)
(* gmtime_r() is external.  A text is a record of the fields a scanner     *)
(* finds in it, with rest when characters are left over after them.        *)
(***************************************************************************)
EXTENDS TypedValues

CONSTANTS TicksPerSecond,    \* 10^SubsecondDigits
          SubsecondDigits,   \* 6
          SecondsInMinute,   \* 60
          MinutesInHour,     \* 60
          MillisecondsInSecond, \* 1000
          HoursInDay         \* 24

ASSUME UnitsAssumption ==
    {TicksPerSecond, SecondsInMinute, MinutesInHour, HoursInDay} \subseteq Nat \ {0}

SecondsInHour == SecondsInMinute * MinutesInHour
SecondsInDay  == SecondsInHour * HoursInDay

\* Integer division of C++ rounds to zero, the remainder has the dividend's sign.
Quotient(a, b)  == IF a < 0 THEN -((-a) \div b) ELSE a \div b
Remainder(a, b) == a - b * Quotient(a, b)

(* ---- calendar ---- *)

\* The days of a month, as a date that is parsed is tested.
LeapYear(year) == year % 4 = 0 /\ (year % 25 # 0 \/ year % 16 = 0)
DaysInMonth(year, month) ==
    CASE month = 2             -> IF LeapYear(year) THEN 29 ELSE 28
      [] month \in {4, 6, 9, 11} -> 30
      [] OTHER                 -> 31

\* gmtime_r(): the proleptic Gregorian calendar.  tm_mon counts from 0.
DayNumber(year) == 365 * (year - 1970) + (year - 1) \div 4 - (year - 1) \div 100
                   + (year - 1) \div 400 - 477
\* 400 years have 146097 days: the mean year finds the year to within one.
YearOfDay(day) ==
    LET mean == 1970 + (400 * day) \div 146097
    IN  CHOOSE y \in (mean - 1)..(mean + 1) : DayNumber(y) <= day /\ day < DayNumber(y + 1)
\* The days of a year before its month m, and all of them for 12.
DaysBefore(leap, m) ==
    LET upto[i \in 0..12] == IF i = 0 THEN 0 ELSE upto[i - 1] +
            (IF i = 2 THEN (IF leap THEN 29 ELSE 28) ELSE IF i \in {4, 6, 9, 11} THEN 30 ELSE 31)
    IN  upto[m]
MonthOfDay(leap, day) ==
    CHOOSE m \in 0..11 : DaysBefore(leap, m) <= day /\ day < DaysBefore(leap, m + 1)
GmTime(time) ==
    LET day   == time \div SecondsInDay
        sec   == time % SecondsInDay
        year  == YearOfDay(day)
        leap  == DayNumber(year + 1) - DayNumber(year) = 366
        yday  == day - DayNumber(year)
        month == MonthOfDay(leap, yday)
    IN  [year |-> year - 1900, mon |-> month, mday |-> yday - DaysBefore(leap, month) + 1,
         hour |-> sec \div SecondsInHour, min |-> (sec \div SecondsInMinute) % MinutesInHour,
         sec |-> sec % SecondsInMinute]

DaysUptoMonth         == <<0, 31, 59, 90, 120, 151, 181, 212, 243, 273, 304, 334>>
DaysUptoMonthLeapYear == <<0, 31, 60, 91, 121, 152, 182, 213, 244, 274, 305, 335>>

\* Of a year since 1900; and the leap days from 1970 to a year since 1970.
IsLeapYear(year) ==
    ~(year % 4 # 0 \/ (Remainder(year + 1900, 100) = 0 /\ Remainder(year + 1900, 400) # 0))
NumLeapDays(years) ==
    IF years >= 0
    THEN (years + 1) \div 4 - (years + 69) \div 100 + (years + 369) \div 400
    ELSE Quotient(years - 2, 4) - Quotient(years - 30, 100) + Quotient(years - 30, 400)

\* timegmCustom() normalizes nothing: a month that is none reads past its table.
OutOfTable == "read out of bounds"
TimeGm(tm) ==
    LET years  == tm.year + 1900 - 1970
        months == IF IsLeapYear(tm.year) THEN DaysUptoMonthLeapYear ELSE DaysUptoMonth
    IN  IF tm.mon \notin 0..11 THEN OutOfTable
        ELSE years * 365 * SecondsInDay + NumLeapDays(years) * SecondsInDay
             + months[tm.mon + 1] * SecondsInDay + (tm.mday - 1) * SecondsInDay
             + tm.hour * SecondsInHour + tm.min * SecondsInMinute + tm.sec

(* ---- literals ---- *)

DateLit(year, month, day) == [year |-> year, month |-> month, day |-> day]
DateLess(left, right) ==
    IF left.year # right.year THEN left.year < right.year
    ELSE IF left.month # right.month THEN left.month < right.month ELSE left.day < right.day
DateGreater(left, right) ==
    IF left.year # right.year THEN left.year > right.year
    ELSE IF left.month # right.month THEN left.month > right.month ELSE left.day > right.day
DateHolds(id, left, right) ==
    CASE id = "Less"           -> DateLess(left, right)
      [] id = "Greater"        -> DateGreater(left, right)
      [] id = "LessOrEqual"    -> ~DateGreater(left, right)
      [] id = "GreaterOrEqual" -> ~DateLess(left, right)
      [] id = "Equal"          -> left = right
      [] OTHER                 -> left # right

FromEpochTime(time, subseconds) == time * TicksPerSecond + subseconds
EpochTime(ticks)                == Quotient(ticks, TicksPerSecond)
Subseconds(ticks)               == Remainder(ticks, TicksPerSecond)

Field(unit, ticks) ==
    LET tm == GmTime(EpochTime(ticks))
    IN  CASE unit = "YEAR"   -> tm.year + 1900
          [] unit = "MONTH"  -> tm.mon + 1
          [] unit = "DAY"    -> tm.mday
          [] unit = "HOUR"   -> tm.hour
          [] unit = "MINUTE" -> tm.min
          [] OTHER           -> tm.sec

(* ---- the operators of DateOperatorOverloads.hpp ---- *)

\* As if every February had 28 days.
ClampDayOfCommonMonth(tm) ==
    CASE tm.mon = 1 /\ tm.mday > 28                -> [tm EXCEPT !.mday = 28]
      [] tm.mon \in {3, 5, 8, 10} /\ tm.mday = 31 -> [tm EXCEPT !.mday = 30]
      [] OTHER                                    -> tm
ClampDayOfMonth(tm) ==
    LET february == IF tm.year % 4 = 0 /\ (tm.year % 25 # 0 \/ (tm.year + 1900) % 16 = 0) THEN 29 ELSE 28
    IN  CASE tm.mon = 1 /\ tm.mday > february           -> [tm EXCEPT !.mday = february]
          [] tm.mon \in {3, 5, 8, 10} /\ tm.mday = 31 -> [tm EXCEPT !.mday = 30]
          [] OTHER                                    -> tm

TicksAt(tm, ticks) ==
    IF tm.mon \notin 0..11 THEN OutOfTable ELSE FromEpochTime(TimeGm(tm), Subseconds(ticks))

\* Each carries the month one way: a negative interval leaves it out of 0..11.
DatetimePlusMonths(ticks, months) ==
    LET tm     == GmTime(EpochTime(ticks))
        moved  == [tm EXCEPT !.year = @ + Quotient(months, 12), !.mon = @ + Remainder(months, 12)]
        within == IF moved.mon > 11 THEN [moved EXCEPT !.mon = @ - 12, !.year = @ + 1] ELSE moved
    IN  TicksAt(ClampDayOfMonth(within), ticks)
DatetimeMinusMonths(ticks, months) ==
    LET tm     == GmTime(EpochTime(ticks))
        moved  == [tm EXCEPT !.year = @ - Quotient(months, 12), !.mon = @ - Remainder(months, 12)]
        within == IF moved.mon < 0 THEN [moved EXCEPT !.year = @ - 1, !.mon = @ + 12] ELSE moved
    IN  TicksAt(ClampDayOfMonth(within), ticks)

DatetimePlusInterval(ticks, interval)  == ticks + interval
DatetimeMinusDatetime(ticks, other)    == ticks - other
DatetimeMinusInterval(ticks, interval) == ticks - interval
\* The literals of both kinds of interval compute alike on their one number.
IntervalArithmetic(op, interval, operand) ==
    CASE op = "+" -> interval + operand
      [] op = "-" -> interval - operand
      [] op = "*" -> interval * operand
      [] OTHER    -> Quotient(interval, operand)
===================================================================================
