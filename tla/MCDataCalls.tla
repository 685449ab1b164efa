-------------------------------- MODULE MCDataCalls --------------------------------
(***************************************************************************)
(* Small sets of types and values for the calls of the expression system,  *)
(* and small vectors, columns, graphs and heaps.                           *)
(***************************************************************************)
EXTENDS DataCalls

Nullabilities == BOOLEAN

MCCallTypes ==
    {TypeOf(id, n) : id \in NumericIDs \cup TimeIDs, n \in Nullabilities}
    \cup {StringType(id, length, n) : id \in StringIDs, length \in 1..2, n \in Nullabilities}
    \cup {NullType}
MCOperandTypes ==
    {TypeOf(id, n) : id \in {"Int", "Float", "Double"}, n \in Nullabilities}
    \cup {TypeOf("Long", TRUE), TypeOf("Datetime", TRUE), TypeOf("DatetimeInterval", FALSE),
          TypeOf("YearMonthInterval", TRUE)}
    \cup {StringType("Char", 2, TRUE), StringType("VarChar", 2, FALSE)}
MCComparedTypes ==
    {TypeOf("Int", TRUE), TypeOf("Int", FALSE), TypeOf("Double", TRUE),
     TypeOf("Datetime", TRUE), TypeOf("Datetime", FALSE),
     StringType("Char", 1, TRUE), StringType("Char", 2, FALSE),
     StringType("VarChar", 1, FALSE), StringType("VarChar", 2, TRUE)}

\* Numbers in halves; "", "a", "ab", "b" and "%" as their types hold them.
MCValuesOf(type) ==
    LET values == CASE type.id \in {"Int", "Long"}     -> <<-2, 4>>
                    [] type.id \in {"Float", "Double"} -> <<-3, 4>>
                    [] type.id = "Char" -> IF type.length = 1 THEN << <<0>>, <<97>>, <<37>> >>
                                           ELSE << <<97, 0>>, <<97, 98>>, <<95, 0>> >>
                    [] type.id = "VarChar" -> IF type.length = 1 THEN << <<0>>, <<97, 0>>, <<37, 0>> >>
                                              ELSE << <<97, 0>>, <<97, 98, 0>>, <<98, 0>> >>
                    [] type.id = "NullType" -> <<>>
                    [] OTHER -> <<0, 83>>
    IN  [i \in DOMAIN values |-> Value(type.id, values[i])]
        \o (IF type.nullable THEN <<NullValue(type.id)>> ELSE <<>>)

\* Numbers around the ends of an INT, and with more digits than a FLOAT or a DOUBLE has.
MCWideNumbers == {-16, 5, 6, 14, 18, 34}

MCUnaryOps(type) ==
    {Negate, Substring(0, 1), Substring(1, 2), Substring(2, 1)}
    \cup {Cast(TypeOf(id, TRUE)) : id \in NumericIDs}
    \cup {Extract(unit) : unit \in {"YEAR", "MONTH", "DAY", "HOUR", "MINUTE", "SECOND"}}

\* A day has 800 ticks: 2 hours of 2 minutes of 2 seconds of 100 ticks.
MCDatetimes ==
    {800 * day + t : day \in {-25509, -1, 0, 58, 59, 789, 10985, 11016, 11322, 47540}, t \in {0, 399, 705}}
MCMonths == {-13, -1, 0, 1, 2, 11, 12, 13, 24, 1200}
MCTicks  == {-1700, -800, -1, 0, 5, 99, 100, 250, 799, 800, 1601}
MCDates  == {DateLit(y, m, d) : y \in {1969, 2000}, m \in {1, 2, 12}, d \in {1, 28, 29}} \ {DateLit(1969, 2, 29)}

\* Vectors of up to four words; narrow words with and without padding.
MCShortBits   == <<3, 5, 7>>
MCLengths     == 0..6 \cup {9, 11}
MCColumnTypes == {TypeOf("Int", TRUE), TypeOf("Double", FALSE),
                  StringType("Char", 2, TRUE), StringType("VarChar", 2, TRUE)}
MCBuffers     == {-1}
\* Four attributes for three ids.
MCAttributeNames == <<"a", "B", "c", "D">>
MCLowerOf(name)  == CASE name = "B" -> "b" [] name = "D" -> "d" [] OTHER -> name
MCRelationTypes  == {TypeOf("Int", TRUE), StringType("Char", 3, FALSE), StringType("VarChar", 5, TRUE),
                     StringType("VarChar", 2, FALSE), TypeOf("Double", TRUE)}
====================================================================================
