----------------------------- MODULE MCRoutine -----------------------------
(* Routine on the year 2023, with a zone one hour ahead of universal time  *)
(* that goes two hours ahead on 26 March, as in much of Europe.            *)
EXTENDS Routine

Text == [monthly |-> FALSE, weekly |-> FALSE, weekdays |-> FALSE, count |-> Never,
         named |-> {}, ordinal |-> Never, hour |-> Never]

MCRequests ==
    {[Text EXCEPT !.count = n, !.hour = h] : n \in {Never, 2}, h \in {0, 14, 23}}
    \cup {[Text EXCEPT !.weekly = TRUE], [Text EXCEPT !.weekdays = TRUE],
          [Text EXCEPT !.named = {0, 3}, !.count = 2, !.hour = 23]}
    \cup {[Text EXCEPT !.monthly = TRUE, !.ordinal = d, !.count = n, !.hour = 23] :
             d \in {Never, 1, 31, 45}, n \in {Never, 2}}

Said(words, weekday, number, meridiem) ==
    [words |-> words, weekday |-> weekday, next |-> FALSE, number |-> number,
     meridiem |-> meridiem, date |-> Never]

\* "tomorrow at 12 am", "today at 8", "Friday 5 PM", "4 PM", and a past date.
MCDeadlines == {Never, Said({"tomorrow"}, Never, 12, "am"), Said({"today"}, Never, 8, "none"),
                Said({}, 5, 5, "pm"), Said({}, Never, 4, "pm"),
                [Said({}, Never, 20, "none") EXCEPT !.date = 0]}

\* 30 January at 10 and at 23, 28 February at 0, 24 March at 13, 31 March at 9
\* (universal time).
MCReferences == {24 * 29 + 10, 24 * 29 + 23, 24 * 58, 24 * 82 + 13, 24 * 89 + 9}

\* 26 March 2023, 1:00
MCChange == 24 * 84 + 1

\* What the proofs assume of the clocks holds here.
ASSUME ClocksAreTame ==
    /\ OffsetAfter - OffsetBefore \in -1..1
    /\ \A day \in 0..400, text \in Requests : KeepsDay(day, HourNamed(text))
=============================================================================
