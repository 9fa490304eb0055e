------------------------------ MODULE Calendar ------------------------------
(***************************************************************************)
(* src/common/time.ts with the calendar under it.  An instant is a number  *)
(* of hours of universal time since 1 January of FirstYear; the minutes of *)
(* the code are left out, and so are the names of zones: the one zone has  *)
(* an offset that changes once.                                            *)
(***************************************************************************)
EXTENDS Integers, FiniteSetsExt

CONSTANTS FirstYear,      \* the year of instant 0
          FirstWeekday,   \* the weekday of day 0; 0 is Sunday
          Change,         \* the instant at which the offset of the zone changes
          OffsetBefore, OffsetAfter,   \* hours
          Never           \* for undefined

ASSUME CalendarAssumption ==
    /\ {FirstYear, Change} \subseteq Nat /\ FirstWeekday \in 0..6
    /\ {OffsetBefore, OffsetAfter} \subseteq -12..14 /\ OffsetAfter - OffsetBefore \in -24..24
    /\ Never \notin Int

Weekdays == 0..6
Hours == 0..23

IsLeap(year) == year % 4 = 0 /\ (year % 100 # 0 \/ year % 400 = 0)

\* Days before 1 January of a year, and before the first of a month; months are
\* numbered from January of FirstYear, which is 0.
YearStart(year) == 365 * year + (year - 1) \div 4 - (year - 1) \div 100 + (year - 1) \div 400

DaysBefore == <<0, 31, 59, 90, 120, 151, 181, 212, 243, 273, 304, 334>>

FirstDay(month) ==
    LET year == FirstYear + month \div 12
    IN YearStart(year) - YearStart(FirstYear) + DaysBefore[(month % 12) + 1]
          + (IF month % 12 > 1 /\ IsLeap(year) THEN 1 ELSE 0)

MonthLength(month) == FirstDay(month + 1) - FirstDay(month)

MonthOf(day) == CHOOSE m \in 0..(day \div 28) : FirstDay(m) <= day /\ day < FirstDay(m + 1)

getTimeZoneOffset(t) == IF t < Change THEN OffsetBefore ELSE OffsetAfter

\* Instants whose local time the change skips, repeats or comes near.
NearChange(t) == t \in (Change - 15)..(Change + 15)

\* day counts from day 0; the year, month and day of the month follow from it.
getLocalParts(t) ==
    LET local == t + getTimeZoneOffset(t)
    IN [day |-> local \div 24, hour |-> local % 24,
        weekday |-> (local \div 24 + FirstWeekday) % 7]

DayOfMonth(parts) == parts.day - FirstDay(MonthOf(parts.day)) + 1

\* The offset is looked up at the local time read as universal time.
localDateTimeToUtc(day, hour) ==
    LET provisional == 24 * day + hour
    IN provisional - getTimeZoneOffset(provisional)

\* The local time computed for a day is on that day.
KeepsDay(day, hour) == getLocalParts(localDateTimeToUtc(day, hour)).day = day

addLocalDays(parts, days) ==
    [parts EXCEPT !.day = @ + days, !.weekday = (@ + days + 7) % 7]

\* Times outside working hours go to the next start of work.
moveIntoWorkingHours(t, startHour, endHour) ==
    LET local == getLocalParts(t)
        target == IF local.hour < startHour THEN local ELSE addLocalDays(local, 1)
    IN IF local.hour >= startHour /\ local.hour < endHour THEN t
       ELSE localDateTimeToUtc(target.day, startHour)

(***************************************************************************)
(* A text that names a time is what parseNaturalDate finds in it: the      *)
(* words tomorrow and today, the weekday, the word next, the first number  *)
(* with am or pm, and the date the JavaScript library reads in it.         *)
(***************************************************************************)
parseClockTime(text) ==
    CASE text.number = Never \/ text.number > 23 -> Never
      [] text.meridiem = "none" -> text.number
      [] text.number > 12 \/ text.number = 0 -> Never
      [] text.meridiem = "pm" /\ text.number # 12 -> text.number + 12
      [] text.meridiem = "am" /\ text.number = 12 -> 0
      [] OTHER -> text.number

Clock(text) == IF parseClockTime(text) = Never THEN 9 ELSE parseClockTime(text)

DaysAhead(text, weekday) ==
    LET ahead == (text.weekday - weekday + 7) % 7
    IN IF text.next \/ ahead = 0 THEN ahead + 7 ELSE ahead

parseNaturalDate(text, reference) ==
    LET local == getLocalParts(reference)
        At(days) == localDateTimeToUtc(addLocalDays(local, days).day, Clock(text))
    IN CASE "tomorrow" \in text.words -> At(1)
         [] "tomorrow" \notin text.words /\ "today" \in text.words ->
               IF At(0) >= reference THEN At(0) ELSE Never
         [] text.words = {} /\ text.weekday # Never ->
               At(DaysAhead(text, local.weekday))
         [] OTHER -> text.date

After(t, reference) == t # Never /\ t > reference

\* InboundRouter.parseTaskDeadline: as it stands, then "today at", then "tomorrow at".
parseTaskDeadline(text, reference) ==
    LET Saying(word) == [text EXCEPT !.words = @ \cup {word}]
        direct == parseNaturalDate(text, reference)
        sameDay == parseNaturalDate(Saying("today"), reference)
    IN CASE After(direct, reference) -> direct
         [] ~After(direct, reference) /\ After(sameDay, reference) -> sameDay
         [] OTHER -> parseNaturalDate(Saying("tomorrow"), reference)
=============================================================================
