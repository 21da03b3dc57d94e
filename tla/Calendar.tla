------------------------------- MODULE Calendar -------------------------------
(* Dates of pi's timestamps and of the adapter's own, computed by formula in   *)
(* two places.  A walk over the calendar, a day or a year at a time, keeps the *)
(* date and counts the days, and the formulas are compared with it.            *)
EXTENDS Integers

CONSTANTS
    Low, High,  \* bound: the years of the walk
    Looked,     \* the years that are walked day by day
    DAY,        \* units of time in a day; the code's is the second
    Times,      \* units into the day that are tried
    Offsets     \* zone offsets that are tried, in units

CalendarAssumption ==
    /\ Low \in Int /\ High \in Int /\ 1970 \in Low .. High /\ Looked \subseteq Low .. High
    /\ DAY \in Nat \ {0} /\ Times \subseteq 0 .. DAY - 1
    /\ Offsets \subseteq -(DAY - 1) .. DAY - 1

VARIABLES year, month, day,
          days   \* since 1970-01-01
vars == <<year, month, day, days>>

\* Rust's division of integers rounds toward zero.
Div(a, b) == IF a >= 0 THEN a \div b ELSE -((-a) \div b)
One(p) == IF p THEN 1 ELSE 0

days_in_month(y, m) ==
    LET leap == y % 4 = 0 /\ (y % 100 # 0 \/ y % 400 = 0)
    IN  CASE m = 2 /\ leap        -> 29
          [] m = 2 /\ ~leap       -> 28
          [] m \in {4, 6, 9, 11}  -> 30
          [] m \notin {2, 4, 6, 9, 11} -> 31

\* Mutant: January and February are not counted with the year before.
days_from_civil_NoShift(y, m, d) ==
    LET era == Div(IF y >= 0 THEN y ELSE y - 399, 400)
        yoe == y - era * 400
        doy == Div(153 * (m + IF m > 2 THEN -3 ELSE 9) + 2, 5) + d - 1
    IN  era * 146097 + yoe * 365 + Div(yoe, 4) - Div(yoe, 100) + doy - 719468
days_from_civil(y, m, d) ==
    LET adjusted == y - One(m <= 2)
        era == Div(IF adjusted >= 0 THEN adjusted ELSE adjusted - 399, 400)
        yoe == adjusted - era * 400
        doy == Div(153 * (m + IF m > 2 THEN -3 ELSE 9) + 2, 5) + d - 1
    IN  era * 146097 + yoe * 365 + Div(yoe, 4) - Div(yoe, 100) + doy - 719468

\* The date of a day of an era, and the era of a day count.
Date(era, doe) ==
    LET yoe == Div(doe - Div(doe, 1460) + Div(doe, 36524) - Div(doe, 146096), 365)
        doy == doe - (365 * yoe + Div(yoe, 4) - Div(yoe, 100))
        mp  == Div(5 * doy + 2, 153)
        m   == mp + IF mp < 10 THEN 3 ELSE -9
    IN  <<yoe + era * 400 + One(m <= 2), m, doy - Div(153 * mp + 2, 5) + 1>>
civil_from_days(n) ==
    LET z == n + 719468
        era == Div(IF z >= 0 THEN z ELSE z - 146096, 146097)
    IN  Date(era, z - era * 146097)

\* time.rs has its own copy, with Euclidean division.
time_civil_from_days(n) == LET z == n + 719468 IN Date(z \div 146097, z % 146097)

\* format_epoch_millis, and normalize_timestamp, which refuses a year that four digits cannot write.
format_epoch_millis(t) == <<time_civil_from_days(Div(t, DAY)), t % DAY>>
normalize_timestamp(y, m, d, time, offset) ==
    LET utc == days_from_civil(y, m, d) * DAY + time - offset
    IN  <<civil_from_days(utc \div DAY), utc % DAY>>
Refused(text) == text[1][1] \notin 0 .. 9999

Init == year = 1970 /\ month = 1 /\ day = 1 /\ days = 0

YearLength(y) == 337 + days_in_month(y, 2)
NextYear ==
    /\ month = 1 /\ day = 1 /\ year < High
    /\ year' = year + 1 /\ days' = days + YearLength(year) /\ UNCHANGED <<month, day>>
PreviousYear ==
    /\ month = 1 /\ day = 1 /\ year > Low
    /\ year' = year - 1 /\ days' = days - YearLength(year - 1) /\ UNCHANGED <<month, day>>
NextDay ==
    /\ year \in Looked /\ ~(month = 12 /\ day = 31)
    /\ days' = days + 1 /\ UNCHANGED year
    /\ IF day < days_in_month(year, month) THEN day' = day + 1 /\ UNCHANGED month
                                           ELSE day' = 1 /\ month' = month + 1
Next == NextYear \/ PreviousYear \/ NextDay
Spec == Init /\ [][Next]_vars

-------------------------------------------------------------------------------
\* days_from_civil, civil_from_days: the formulas are the calendar, in both directions and on
\* either side of the eras' and the centuries' ends.
FormulasAreTheCalendar ==
    /\ days_from_civil(year, month, day) = days
    /\ civil_from_days(days) = <<year, month, day>>

\* format_epoch_millis and normalize_timestamp write one moment as one text, so a session whose time
\* is its file's and one whose time is its last message's can be compared as text.
OneTextPerMoment ==
    \A t \in Times : days >= 0 =>
        format_epoch_millis(days * DAY + t) = normalize_timestamp(year, month, day, t, 0)

\* normalize_timestamp: of two moments of a day and its neighbours, written in any zones, the earlier
\* one has the smaller text.
Earlier(a, b) == \/ a[1][1] < b[1][1]
                 \/ a[1][1] = b[1][1] /\ a[1][2] < b[1][2]
                 \/ a[1][1] = b[1][1] /\ a[1][2] = b[1][2] /\ a[1][3] < b[1][3]
                 \/ a[1] = b[1] /\ a[2] < b[2]
ZonesKeepTheOrder ==
    \A s, t \in Times, o, p \in Offsets :
        LET a == normalize_timestamp(year, month, day, s, o)
            b == normalize_timestamp(year, month, day, t, p)
        IN  ~Refused(a) /\ ~Refused(b) => /\ s - o < t - p => Earlier(a, b)
                                          /\ s - o = t - p => a = b

\* Both copies of the date formulas are the calendar's, and timestamps of any zone compare as
\* their moments do (normalize_timestamp, days_from_civil, format_epoch_millis).
TimesAreTrue == FormulasAreTheCalendar /\ OneTextPerMoment /\ ZonesKeepTheOrder
===============================================================================
