------------------------------- MODULE Routine -------------------------------
(***************************************************************************)
(* When the occurrences of a recurring task are published and due:         *)
(* src/common/recurrence.ts, the schedule of createTaskFromDraft and       *)
(* createRecurringInstance.  That the job which makes the next occurrence  *)
(* is not lost is the subject of TaskDelivery.                             *)
(***************************************************************************)
EXTENDS Calendar, Sequences

CONSTANTS Requests,       \* what a text says of a routine, see parseTaskRecurrence
          References,     \* instants at which a message can ask for one
          Deadlines,      \* texts that can name the deadline; Never for none
          Lateness,       \* hours by which a worker may be late
          MaxRuns         \* occurrences followed

Priorities == {"URGENT", "HIGH", "NORMAL", "LOW"}

ASSUME RoutineAssumption ==
    /\ MaxRuns \in Nat /\ Lateness \subseteq Nat
    /\ References \subseteq Nat /\ \A t \in References : t > 24   \* FirstYear everywhere
    /\ Requests \subseteq [monthly : BOOLEAN, weekly : BOOLEAN, weekdays : BOOLEAN,
                           count : Nat \cup {Never}, named : SUBSET Weekdays,
                           ordinal : Nat \cup {Never}, hour : Hours \cup {Never}]

VARIABLES recurrence,   \* of the routine; Never before it is asked for
          publishAt,    \* of the latest occurrence
          deadlineAt,
          runAt,        \* of the TASK_RECURRENCE job for the next one
          asked,        \* the runAt that publishAt comes from
          offset,       \* deadlineOffsetMinutes, in hours
          inferred,     \* no deadline was named
          runs,
          anchor,       \* the first publishAt
          punctual      \* no occurrence was made after the day it was planned for

routineVars == <<recurrence, publishAt, deadlineAt, runAt, asked, offset, inferred,
                 runs, anchor, punctual>>

\* The loops of the code try the days or months in order and return the first
\* candidate after the instant; without any they throw.
FirstAfter(candidates, after) ==
    LET later == {c \in candidates : c > after}
    IN IF later = {} THEN Never ELSE Min(later)

\* Mutant of DailyCandidates: tomorrow is tried whatever the interval is.
DailyCandidatesAny(r, local) ==
    {localDateTimeToUtc(addLocalDays(local, days).day, r.localHour) : days \in 0..r.interval}
DailyCandidates(r, local) ==
    {localDateTimeToUtc(addLocalDays(local, days).day, r.localHour) : days \in {0, r.interval}}

WeeklyCandidates(r, local) ==
    {localDateTimeToUtc(addLocalDays(local, days).day, r.localHour) :
        days \in {d \in 0..(7 * r.interval) : addLocalDays(local, d).weekday \in r.weekdays}}

\* Mutant of DayIn: the day may run over into the month after.
DayInAny(month, wanted) == FirstDay(month) + wanted - 1
\* The day asked for, or the last one of a month without it.
DayIn(month, wanted) ==
    FirstDay(month) + (IF wanted > MonthLength(month) THEN MonthLength(month) ELSE wanted) - 1

MonthlyCandidates(r, local) ==
    LET wanted == IF r.dayOfMonth = Never THEN DayOfMonth(local) ELSE r.dayOfMonth
    IN {localDateTimeToUtc(DayIn(MonthOf(local.day) + k, wanted), r.localHour) :
            k \in {0, r.interval}}

\* A daily or weekly routine without a candidate falls through to the months.
nextRecurrenceAt(r, after) ==
    LET local == getLocalParts(after)
        own == FirstAfter(IF r.frequency = "DAILY" THEN DailyCandidates(r, local)
                          ELSE IF r.frequency = "WEEKLY" THEN WeeklyCandidates(r, local)
                          ELSE {}, after)
    IN IF own # Never THEN own ELSE FirstAfter(MonthlyCandidates(r, local), after)

HourNamed(text) == IF text.hour = Never THEN 9 ELSE text.hour

\* What the text says, to the routine it stands for.  A weekly routine without a
\* named day is on the weekday of the message, a monthly one on its day of the month;
\* a named day that does not exist leaves none.
parseTaskRecurrence(text, reference) ==
    LET local == getLocalParts(reference)
        frequency == IF text.monthly THEN "MONTHLY"
                     ELSE IF text.weekly \/ text.weekdays \/ text.named # {} THEN "WEEKLY"
                     ELSE "DAILY"
        day == IF text.ordinal = Never THEN DayOfMonth(local) ELSE text.ordinal
    IN [frequency |-> frequency,
        interval |-> IF text.count \in {Never, 0} THEN 1 ELSE text.count,
        weekdays |-> IF text.weekdays THEN 1..5
                     ELSE IF text.named # {} \/ frequency # "WEEKLY" THEN text.named
                     ELSE {local.weekday},
        dayOfMonth |-> IF frequency = "MONTHLY" /\ day \in 1..31 THEN day ELSE Never,
        localHour |-> HourNamed(text)]

\* Mutant of inferDeadlineAt: the frequency is not looked at.
inferDeadlineByPriority(t, priority, frequency) ==
    t + [URGENT |-> 4, HIGH |-> 24, NORMAL |-> 48, LOW |-> 72][priority]
inferDeadlineAt(t, priority, frequency) ==
    LET allowed == [URGENT |-> 4, HIGH |-> 24, NORMAL |-> 48, LOW |-> 72][priority]
        most == [DAILY |-> 8, WEEKLY |-> 48, MONTHLY |-> 72][frequency]
    IN t + (IF allowed < most THEN allowed ELSE most)

RoutineInit ==
    /\ recurrence = Never /\ publishAt = Never /\ deadlineAt = Never /\ runAt = Never
    /\ asked = Never /\ offset = Never /\ inferred = FALSE /\ runs = 0
    /\ anchor = Never /\ punctual = TRUE

\* createTaskFromDraft with a routine; TaskService.create refuses a deadline
\* that is not after the publication.  The reference of the first run is a minute back.
Ask(request, reference, priority, text) ==
    LET new == parseTaskRecurrence(request, reference)
        first == nextRecurrenceAt(new, reference - 1)
        named == IF text = Never THEN Never ELSE parseTaskDeadline(text, first)
        due == IF text # Never THEN named
               ELSE moveIntoWorkingHours(inferDeadlineAt(first, priority, new.frequency), 8, 20)
    IN /\ recurrence = Never
       /\ first # Never /\ due # Never /\ due > first
       /\ recurrence' = new
       /\ publishAt' = first /\ anchor' = first /\ asked' = first
       /\ deadlineAt' = due
       /\ offset' = due - first
       /\ inferred' = (text = Never)
       /\ runAt' = nextRecurrenceAt(new, first)
       /\ runs' = 1
       /\ UNCHANGED punctual

\* createRecurringInstance, late hours after runAt, and the job of the task it makes.
createRecurringInstance(late) ==
    LET now == runAt + late
        next == nextRecurrenceAt(recurrence, now)
    IN /\ recurrence # Never /\ runAt # Never /\ runs < MaxRuns
       /\ publishAt' = now /\ asked' = runAt
       /\ deadlineAt' = now + offset
       /\ runAt' = next
       /\ runs' = runs + 1
       /\ punctual' = (punctual /\ getLocalParts(now).day = getLocalParts(runAt).day)
       /\ UNCHANGED <<recurrence, offset, inferred, anchor>>

\* TaskService.update moves the publication and keeps the time of the recurrence job.
Postpone(late) ==
    /\ recurrence # Never /\ runAt # Never /\ publishAt = asked /\ late > 0
    /\ publishAt + late < deadlineAt
    /\ publishAt' = publishAt + late
    /\ UNCHANGED <<recurrence, deadlineAt, runAt, asked, offset, inferred, runs, anchor, punctual>>

RoutineNext ==
    \/ \E request \in Requests, reference \in References, p \in Priorities, text \in Deadlines :
          Ask(request, reference, p, text)
    \/ \E late \in Lateness : createRecurringInstance(late) \/ Postpone(late)

RoutineSpec == RoutineInit /\ [][RoutineNext]_routineVars

-----------------------------------------------------------------------------
\* What the routine means, without the loops: the local times it is on, were the
\* interval 1.
OnRoutine(r, t) ==
    LET local == getLocalParts(t)
        length == MonthLength(MonthOf(local.day))
        wanted == r.dayOfMonth
    IN /\ local.hour = r.localHour
       /\ r.frequency = "WEEKLY" => local.weekday \in r.weekdays
       /\ r.frequency = "MONTHLY" /\ wanted # Never =>
             DayOfMonth(local) = (IF wanted > length THEN length ELSE wanted)

Started == recurrence # Never

\* The next occurrence, when it is decided anew.
TurnFollows ==
    recurrence' # Never /\ runAt' # runAt /\ ~NearChange(runAt') =>
       /\ runAt' # Never /\ OnRoutine(recurrence', runAt')
       /\ (recurrence'.interval = 1 \/ recurrence'.frequency = "WEEKLY")
             /\ (recurrence'.frequency = "MONTHLY" => recurrence'.dayOfMonth # Never) =>
             \A t \in (publishAt' + 1)..(runAt' - 1) : ~OnRoutine(recurrence', t) \/ NearChange(t)

\* The next occurrence of a routine is on the routine and, for a routine without
\* an interval, no turn lies between it and the time the last one was made, however
\* late that was and whatever months lie between.  Turns near the change of the
\* offset are excepted: their hour may not exist.  (nextRecurrenceAt)
NoTurnSkipped == [][TurnFollows]_routineVars

\* As long as every occurrence is made on its day, a routine with an interval keeps
\* to it: occurrence n of a daily routine is n - 1 intervals after the first, and
\* likewise in months.  (A weekly routine has no interval, nextRecurrenceAt returns
\* the next weekday.)
IntervalKept ==
    LET Days(t) == getLocalParts(t).day
        Turns(t) == IF recurrence.frequency = "DAILY" THEN Days(t) - Days(anchor)
                    ELSE MonthOf(Days(t)) - MonthOf(Days(anchor))
    IN Started /\ punctual /\ recurrence.frequency # "WEEKLY" =>
          /\ Turns(asked) = (runs - 1) * recurrence.interval
          /\ Turns(runAt) = runs * recurrence.interval

\* A daily occurrence whose deadline was not named falls due before the next one is
\* published, when both are on time: the 8 hours of inferDeadlineAt and the shift into
\* working hours leave room for it.
DueBeforeNext ==
    Started /\ inferred /\ recurrence.frequency = "DAILY" /\ publishAt = asked /\ punctual =>
        deadlineAt < runAt

\* The next occurrence of a routine for every day is on the day of the last one or the
\* day after (README.md:82).  Where the clocks skip the midnight a routine is at, the
\* loop over the days finds nothing and the next one is a month away.
DailyEveryDay ==
    LET Days(t) == getLocalParts(t).day
    IN Started /\ recurrence.frequency = "DAILY" /\ recurrence.interval = 1 =>
          Days(runAt) <= Days(publishAt) + 1
=============================================================================
