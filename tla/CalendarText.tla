------------------------------- MODULE CalendarText -------------------------------
(***************************************************************************)
(* Dates, datetimes and intervals as text, and the extraction of a field   *)
(* as an operation.  A text is what sscanf() finds in it: numbers, words   *)
(* in lower case, the digits of a fraction, and rest when the format is    *)
(* not met or characters are left over.                                    *)
(***************************************************************************)
EXTENDS Calendar

(* ---- fractions: as many digits as there are, the others are zero ---- *)

LOCAL Power10(n) == FoldLeft(LAMBDA p, i : 10 * p, 1, [i \in 1..n |-> i])
LOCAL Number(digits) == FoldLeft(LAMBDA n, d : 10 * n + d, 0, digits)
LOCAL Scaled(digits) == Number(digits) * Power10(SubsecondDigits - Len(digits))
LOCAL Digits(n) == [i \in 1..SubsecondDigits |-> (n \div Power10(SubsecondDigits - i)) % 10]

(* ---- dates and datetimes ---- *)

PrintDate(date) == [year |-> date.year, month |-> date.month, day |-> date.day, rest |-> FALSE]
ParseDate(text) ==
    IF \/ text.rest
       \/ text.month = 0 \/ text.month > 12
       \/ text.day = 0   \/ text.day > DaysInMonth(text.year, text.month)
    THEN ParseFailed ELSE Value("Date", DateLit(text.year, text.month, text.day))

\* fields is what sscanf() returns: the date, with a time, with a fraction.  The
\* sign of a negative fraction is no digit: the text ends after the seconds.
PrintDatetime(ticks) ==
    LET tm  == GmTime(EpochTime(ticks))
        sub == Subseconds(ticks)
    IN  [fields |-> IF sub > 0 THEN 8 ELSE 7, rest |-> sub < 0,
         year |-> tm.year + 1900, month |-> tm.mon + 1, day |-> tm.mday, separator |-> "T",
         hour |-> tm.hour, min |-> tm.min, sec |-> tm.sec,
         digits |-> IF sub > 0 THEN Digits(sub) ELSE <<>>]

\* The test of tm_hour and tm_min assigns to them: they always pass.
LastSecondBeforeEpoch(text) ==
    text.year = 1969 /\ text.month = 12 /\ text.day = 31
        /\ (IF text.fields >= 7 THEN text.sec ELSE 0) = SecondsInMinute - 1
ParseDatetime(text) ==
    LET timed == text.fields >= 7
        time  == TimeGm([year |-> text.year - 1900, mon |-> text.month - 1, mday |-> text.day,
                         hour |-> IF timed THEN text.hour ELSE 0,
                         min  |-> IF timed THEN text.min ELSE 0,
                         sec  |-> IF timed THEN text.sec ELSE 0])
        fraction == IF text.fields = 8 THEN Scaled(text.digits) ELSE 0
    IN  IF \/ text.fields \notin {3, 7, 8} \/ text.rest
           \/ text.month < 1 \/ text.month > 12
           \/ text.day < 1 \/ text.day > DaysInMonth(text.year, text.month)
           \/ timed /\ \/ text.separator \notin {"T", "t", " "}
                       \/ text.hour \notin 0..(HoursInDay - 1)
                       \/ text.min \notin 0..(MinutesInHour - 1)
                       \/ text.sec \notin 0..(SecondsInMinute - 1)
           \/ time = -1 /\ ~LastSecondBeforeEpoch(text)
        THEN ParseFailed ELSE Value("Datetime", FromEpochTime(time, fraction))

(* ---- intervals: <count> <unit>, or the fields of the complex form ---- *)

NoFields == [count |-> 0, unit |-> "none"]
SimpleText(count, unit) == [form |-> "simple", quotes |-> "none", spaces |-> FALSE,
                            count |-> count, unit |-> unit]

\* Quotes around everything, around the count, or none.  Only the parser for a
\* command line skips white space that no printer writes.
ParseSimpleFields(text) ==
    IF text.form = "simple" /\ text.quotes \in {"all", "count", "none"}
    THEN [count |-> text.count, unit |-> text.unit] ELSE NoFields
ParseSimpleFieldsNoExtraWhitespace(text) ==
    IF text.form = "simple" /\ ~text.spaces /\ text.quotes \in {"all", "count", "none"}
    THEN [count |-> text.count, unit |-> text.unit] ELSE NoFields

LOCAL TicksOfUnit ==
    [u \in {"microsecond", "microseconds", "us"} |-> TicksPerSecond \div Power10(SubsecondDigits)]
 @@ [u \in {"millisecond", "milliseconds", "ms"} |-> TicksPerSecond \div MillisecondsInSecond]
 @@ [u \in {"second", "seconds", "s"} |-> TicksPerSecond]
 @@ [u \in {"minute", "minutes"}      |-> TicksPerSecond * SecondsInMinute]
 @@ [u \in {"hour", "hours", "h"}     |-> TicksPerSecond * SecondsInHour]
 @@ [u \in {"day", "days", "d"}       |-> TicksPerSecond * SecondsInDay]
 @@ [u \in {"week", "weeks", "w"}     |-> TicksPerSecond * SecondsInDay * 7]
LOCAL MonthsOfUnit ==
    [u \in {"month", "months", "mon", "mons"} |-> 1] @@ [u \in {"year", "years", "y"} |-> 12]
 @@ [u \in {"decade", "decades"} |-> 120]            @@ [u \in {"century", "centuries"} |-> 1200]
 @@ [u \in {"millennium", "millennia"} |-> 12000]

DatetimeIntervalSimple(fields) ==
    IF fields.unit \in DOMAIN TicksOfUnit
    THEN Value("DatetimeInterval", fields.count * TicksOfUnit[fields.unit]) ELSE ParseFailed
YearMonthIntervalSimple(fields) ==
    IF fields.unit \in DOMAIN MonthsOfUnit
    THEN Value("YearMonthInterval", fields.count * MonthsOfUnit[fields.unit]) ELSE ParseFailed

\* [-][<days> day[s]] <hours>:<minutes>:<seconds>[.<digits>]: days bound the hours.
DatetimeIntervalComplex(text) ==
    LET seconds == ((text.days.count * HoursInDay + text.hour) * MinutesInHour + text.min)
                       * SecondsInMinute + text.sec
        total   == seconds * TicksPerSecond + (IF text.digits = <<>> THEN 0 ELSE Scaled(text.digits))
    IN  IF \/ text.form # "clock" \/ text.rest
           \/ text.days # NoFields /\ \/ text.days.unit \notin {"day", "days"}
                                      \/ text.hour > HoursInDay - 1
           \/ \E n \in {text.days.count, text.hour, text.min, text.sec} : n < 0
           \/ text.min > MinutesInHour - 1 \/ text.sec > SecondsInMinute - 1
        THEN ParseFailed ELSE Value("DatetimeInterval", IF text.negative THEN -total ELSE total)

\* [-]<years> year[s] <months> mon[s]: both are needed.
YearMonthIntervalComplex(text) ==
    LET months == text.years.count * 12 + text.months.count
    IN  IF \/ text.form # "months" \/ text.rest
           \/ text.years.count < 0 \/ text.months.count \notin 0..11
           \/ text.years.unit \notin {"year", "years", "y"}
           \/ text.months.unit \notin {"month", "months", "mon", "mons"}
        THEN ParseFailed ELSE Value("YearMonthInterval", IF text.negative THEN -months ELSE months)

LOCAL Otherwise(value, next) == IF value = ParseFailed THEN next ELSE value
ParseDatetimeInterval(text) ==
    Otherwise(DatetimeIntervalSimple(ParseSimpleFieldsNoExtraWhitespace(text)),
              DatetimeIntervalComplex(text))
ParseYearMonthInterval(text) ==
    Otherwise(YearMonthIntervalSimple(ParseSimpleFieldsNoExtraWhitespace(text)),
              YearMonthIntervalComplex(text))

LOCAL Abs(n) == IF n < 0 THEN -n ELSE n
LOCAL Counted(n, unit, units) == [count |-> n, unit |-> IF n = 1 THEN unit ELSE units]

PrintDatetimeInterval(ticks) ==
    LET seconds == Abs(ticks) \div TicksPerSecond
        sub     == Abs(ticks) % TicksPerSecond
        days    == seconds \div SecondsInDay
    IN  [form |-> "clock", negative |-> ticks < 0, rest |-> FALSE,
         days |-> IF days = 0 THEN NoFields ELSE Counted(days, "day", "days"),
         hour |-> (seconds % SecondsInDay) \div SecondsInHour,
         min  |-> (seconds \div SecondsInMinute) % MinutesInHour,
         sec  |-> seconds % SecondsInMinute,
         digits |-> IF sub = 0 THEN <<>> ELSE Digits(sub)]

\* A part that is zero is left out, which makes the text one of the simple form.
PrintYearMonthInterval(months) ==
    LET y == Counted(Abs(months) \div 12, "year", "years")
        m == Counted(Abs(months) % 12, "mon", "mons")
        Signed(part) == SimpleText(IF months < 0 THEN -part.count ELSE part.count, part.unit)
    IN  CASE y.count = 0 -> Signed(m)
          [] y.count # 0 /\ m.count = 0 -> Signed(y)
          [] OTHER -> [form |-> "months", negative |-> months < 0, rest |-> FALSE,
                       years |-> y, months |-> m]

(* ---- DateExtractOperation ---- *)

DateExtractCanApply(type)      == type.id = "Datetime"
DateExtractResultType(type)    ==
    IF DateExtractCanApply(type) THEN TypeOf("Long", type.nullable) ELSE NoType
DateExtractFixedType           == TypeOf("Long", TRUE)
DateExtractPlausible(type)     == type.id = "Long"
DateExtractHint(hint)          ==
    IF hint # NoType /\ hint.id = "Long" THEN TypeOf("Datetime", hint.nullable) ELSE NoType

DateExtractChecked(unit, v) ==
    IF v.null THEN NullValue("Long") ELSE Value("Long", Field(unit, v.val))

DateExtractUnchecked(unit, type) == [unit |-> unit, nullable |-> type.nullable]
DateExtract(u, v) == Value("Long", Field(u.unit, v.val))
DateExtractValue(u, v) ==
    IF u.nullable /\ v.null THEN NullValue("Long") ELSE DateExtract(u, v)
DateExtractDataPtr(u, v) ==
    IF u.nullable /\ v.null THEN NullValue("Long") ELSE DateExtract(u, v)
DateExtractColumnVector(u, column) ==
    [pos \in DOMAIN column |-> IF u.nullable /\ column[pos].null THEN NullValue("Long")
                               ELSE DateExtract(u, column[pos])]
DateExtractValueAccessor(u, tuples, id) ==
    [pos \in DOMAIN tuples |-> IF u.nullable /\ tuples[pos][id].null THEN NullValue("Long")
                               ELSE DateExtract(u, tuples[pos][id])]
DateExtractForJoin(u, tuples, useLeft, id, joined) ==
    LET Of(pair) == tuples[IF useLeft THEN pair[1] ELSE pair[2]][id]
    IN  [pos \in DOMAIN joined |-> IF u.nullable /\ Of(joined[pos]).null THEN NullValue("Long")
                                   ELSE DateExtract(u, Of(joined[pos]))]
===================================================================================
