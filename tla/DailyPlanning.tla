--------------------------- MODULE DailyPlanning ---------------------------
(***************************************************************************)
(* The chain of DAILY_PLANNING jobs and the check-ins it drafts for        *)
(* members who have been quiet: PlanningService, the DAILY_PLANNING branch *)
(* of AutomationService.execute, EngagementMonitoringService.recordMessage *)
(* and the approval of the drafts (InboundRouter.sendApprovedCheckins).    *)
(*                                                                         *)
(* Time counts half days: an even number is a day before 6 o'clock, the    *)
(* odd number after it the rest of that day.                               *)
(***************************************************************************)
EXTENDS ScheduledJobs, Integers, Sequences, FiniteSets

CONSTANTS Workers, Approvals,     \* executions of jobs and "approve check-ins" under way
          Members,                \* active members of the community group
          LastDay,                \* the clock stops there
          Quiet, Recheck,         \* 14 and 30 days, in half days
          DraftLimit, SendLimit,  \* 10 and 10
          MaxApprovals, MaxFaults,
          AutoSend,               \* AUTO_SEND_DAILY_SUMMARY
          NoJob

ASSUME PlanningAssumption ==
    /\ {LastDay, Quiet, Recheck, DraftLimit, SendLimit, MaxApprovals, MaxFaults} \subseteq Nat
    /\ AutoSend \in BOOLEAN /\ NoJob \notin Nat

Days == 0..(LastDay + 1)
Attempts == 3

VARIABLES now,
          up,             \* isConnected
          jobs,           \* the row of system:daily-planning:<day>, by day
          pc, job,        \* of each worker
          toDraft, since, \* the members it will draft for, and its "now"
          heard,          \* when each member last wrote
          checkins,       \* member_checkins in the order of creation
          apc, chosen,    \* of each approval: the drafts it has still to send
          approvals, faults,
          overlapped,     \* history: two planning runs drafted at the same time
          unsettled       \* history: check-ins whose sending was disturbed by a second
                          \* approval or a fault

vars == <<now, up, jobs, pc, job, toDraft, since, heard, checkins, apc, chosen,
          approvals, faults, overlapped, unsettled>>
workerVars == <<pc, job, toDraft, since>>
approvalVars == <<apc, chosen, approvals>>

Day == now \div 2
IsEarly == now % 2 = 0

\* A row of member_checkins, with what was known of the member when it was made.
Checkin == [member : Members, created : Nat, heard : Int, status : {"DRAFT", "SENT"}, sent : Nat]

TypeOK ==
    /\ now \in 0..(2 * LastDay + 1) /\ up \in BOOLEAN /\ jobs \in [Days -> JobRow]
    /\ pc \in [Workers -> {"idle", "read", "draft", "send", "schedule", "complete", "fail"}]
    /\ job \in [Workers -> Days \cup {NoJob}]
    /\ \A w \in Workers : (pc[w] = "idle") = (job[w] = NoJob)
    /\ toDraft \in [Workers -> SUBSET Members] /\ since \in [Workers -> Nat]
    /\ heard \in [Members -> Int]
    /\ checkins \in Seq(Checkin)
    /\ apc \in [Approvals -> {"idle", "send", "save"}]
    /\ chosen \in [Approvals -> SUBSET DOMAIN checkins]
    /\ unsettled \subseteq DOMAIN checkins

-----------------------------------------------------------------------------
\* Mutant of Target: the hour is not looked at.
TargetToday == Day
\* scheduleNext: today before 6 o'clock, otherwise tomorrow.
Target == IF IsEarly THEN Day ELSE Day + 1
ScheduleNext(rows) ==
    [rows EXCEPT ![Target] = Created(@, FALSE)]

Init ==
    /\ now \in {0, 1} /\ up = TRUE
    /\ jobs = ScheduleNext([d \in Days |-> NoRow(Attempts)])     \* main, at start-up
    /\ pc = [w \in Workers |-> "idle"] /\ job = [w \in Workers |-> NoJob]
    /\ toDraft = [w \in Workers |-> {}] /\ since = [w \in Workers |-> 0]
    /\ heard \in [Members -> {0, -Quiet - 1}] /\ checkins = <<>>
    /\ apc = [a \in Approvals |-> "idle"] /\ chosen = [a \in Approvals |-> {}]
    /\ approvals = 0 /\ faults = 0 /\ overlapped = FALSE /\ unsettled = {}

Tick ==
    /\ now < 2 * LastDay + 1
    /\ now' = now + 1
    /\ UNCHANGED <<up, jobs, workerVars, heard, checkins, approvalVars, faults,
                   overlapped, unsettled>>

\* run_at is 6 o'clock of the day; after a failed attempt the back-off has passed.
RunAtReached(d) ==
    /\ FallsDue(jobs[d]) /\ now >= 2 * d + 1
    /\ jobs' = [jobs EXCEPT ![d].due = TRUE]
    /\ UNCHANGED <<now, up, workerVars, heard, checkins, approvalVars, faults,
                   overlapped, unsettled>>

\* A member writes.  Media without text counts as well: each day has a row of its own
\* in member_activity, whose lastMessageAt is taken when it has no lastMeaningfulAt.
RecordMessage(m) ==
    /\ heard[m] # now
    /\ heard' = [heard EXCEPT ![m] = now]
    /\ UNCHANGED <<now, up, jobs, workerVars, checkins, approvalVars, faults,
                   overlapped, unsettled>>

-----------------------------------------------------------------------------
Step(w, step) == pc' = [pc EXCEPT ![w] = step]
Running == {w \in Workers : pc[w] # "idle"}
Drafting == {w \in Workers : pc[w] = "draft"}

Claim(w, d) ==
    /\ pc[w] = "idle" /\ Claimable(jobs[d])
    /\ jobs' = [jobs EXCEPT ![d] = Claimed(@)]
    /\ job' = [job EXCEPT ![w] = d]
    /\ Step(w, "read")
    /\ UNCHANGED <<now, up, toDraft, since, heard, checkins, approvalVars, faults,
                   overlapped, unsettled>>

RecentlyChecked ==
    {checkins[i].member : i \in {x \in DOMAIN checkins : checkins[x].created + Recheck >= now}}

\* Mutant of Wanted: who has written lately is not looked at.
WantedAnyone == Members \ RecentlyChecked
Wanted == {m \in Members \ RecentlyChecked : heard[m] + Quiet <= now}

\* draftInactiveMemberCheckins chooses from what it reads, at most DraftLimit.
ReadForDrafts(w) ==
    /\ pc[w] = "read"
    /\ \E chosenMembers \in SUBSET Wanted :
          /\ Cardinality(chosenMembers) = IF Cardinality(Wanted) < DraftLimit
                                          THEN Cardinality(Wanted) ELSE DraftLimit
          /\ toDraft' = [toDraft EXCEPT ![w] = chosenMembers]
    /\ since' = [since EXCEPT ![w] = now]
    /\ overlapped' = (overlapped \/ Drafting # {})
    /\ Step(w, "draft")
    /\ UNCHANGED <<now, up, jobs, job, heard, checkins, approvalVars, faults, unsettled>>

SaveDraft(w) ==
    /\ pc[w] = "draft" /\ toDraft[w] # {}
    /\ \E m \in toDraft[w] :
          /\ toDraft' = [toDraft EXCEPT ![w] = @ \ {m}]
          /\ checkins' = Append(checkins, [member |-> m, created |-> since[w],
                                           heard |-> heard[m], status |-> "DRAFT", sent |-> 0])
    /\ UNCHANGED <<now, up, jobs, pc, job, since, heard, approvalVars, faults,
                   overlapped, unsettled>>

\* The snapshot, its wording and the planning_runs row.
SavePlanningRun(w) ==
    /\ pc[w] = "draft" /\ toDraft[w] = {}
    /\ Step(w, IF AutoSend THEN "send" ELSE "schedule")
    /\ UNCHANGED <<now, up, jobs, job, toDraft, since, heard, checkins, approvalVars, faults,
                   overlapped, unsettled>>

\* Without WhatsApp the summary throws, and the next day is not scheduled.
SendSummary(w) ==
    /\ pc[w] = "send"
    /\ Step(w, IF up THEN "schedule" ELSE "fail")
    /\ UNCHANGED <<now, up, jobs, job, toDraft, since, heard, checkins, approvalVars, faults,
                   overlapped, unsettled>>

ScheduleTomorrow(w) ==
    /\ pc[w] = "schedule"
    /\ jobs' = ScheduleNext(jobs)
    /\ Step(w, "complete")
    /\ UNCHANGED <<now, up, job, toDraft, since, heard, checkins, approvalVars, faults,
                   overlapped, unsettled>>

Settle(w) ==
    /\ pc[w] \in {"complete", "fail"}
    /\ jobs' = [jobs EXCEPT ![job[w]] =
                   IF pc[w] = "complete" THEN Completed(@) ELSE Failed(@, TRUE)]
    /\ Step(w, "idle") /\ job' = [job EXCEPT ![w] = NoJob]
    /\ toDraft' = [toDraft EXCEPT ![w] = {}] /\ since' = [since EXCEPT ![w] = 0]
    /\ UNCHANGED <<now, up, heard, checkins, approvalVars, faults, overlapped, unsettled>>

\* A statement of the store fails.
StoreError(w) ==
    /\ faults < MaxFaults /\ pc[w] \in {"read", "draft", "schedule"}
    /\ Step(w, "fail") /\ toDraft' = [toDraft EXCEPT ![w] = {}]
    /\ faults' = faults + 1
    /\ UNCHANGED <<now, up, jobs, job, since, heard, checkins, approvalVars, overlapped, unsettled>>

-----------------------------------------------------------------------------
\* The newest drafts, at most SendLimit (created_at DESC), sent one after the other.
Drafts == {i \in DOMAIN checkins : checkins[i].status = "DRAFT"}
Newest == {i \in Drafts : Cardinality({k \in Drafts : k > i}) < SendLimit}
IsFirst(i, ids) == i \in ids /\ \A k \in ids : k <= i

Sending == UNION {chosen[a] : a \in Approvals}

\* sendApprovedCheckins.  Two approvals that hold the same draft both send it.
Approve(a) ==
    /\ apc[a] = "idle" /\ approvals < MaxApprovals /\ Newest # {}
    /\ chosen' = [chosen EXCEPT ![a] = Newest]
    /\ unsettled' = unsettled \cup (Newest \cap Sending)
    /\ apc' = [apc EXCEPT ![a] = "send"] /\ approvals' = approvals + 1
    /\ UNCHANGED <<now, up, jobs, workerVars, heard, checkins, faults, overlapped>>

\* A send that fails ends the approval; the drafts after it stay drafts.
SendCheckin(a) ==
    /\ apc[a] = "send"
    /\ IF up
       THEN /\ \E i \in chosen[a] : /\ IsFirst(i, chosen[a])
                                   /\ checkins' = [checkins EXCEPT ![i].sent = @ + 1]
            /\ apc' = [apc EXCEPT ![a] = "save"] /\ UNCHANGED chosen
       ELSE /\ apc' = [apc EXCEPT ![a] = "idle"] /\ chosen' = [chosen EXCEPT ![a] = {}]
            /\ UNCHANGED checkins
    /\ UNCHANGED <<now, up, jobs, workerVars, heard, approvals, faults, overlapped, unsettled>>

\* The draft that was sent is done with; after the last one the approval is over.
Done(a, i) ==
    /\ IsFirst(i, chosen[a])
    /\ chosen' = [chosen EXCEPT ![a] = @ \ {i}]
    /\ apc' = [apc EXCEPT ![a] = IF chosen[a] = {i} THEN "idle" ELSE "send"]
    /\ UNCHANGED <<now, up, jobs, workerVars, heard, approvals, faults, overlapped, unsettled>>

SaveSent(a) ==
    /\ apc[a] = "save"
    /\ \E i \in chosen[a] :
          Done(a, i) /\ checkins' = [checkins EXCEPT ![i].status = "SENT"]

-----------------------------------------------------------------------------
GoesDown ==
    /\ up /\ faults < MaxFaults /\ up' = FALSE /\ faults' = faults + 1
    /\ UNCHANGED <<now, jobs, workerVars, heard, checkins, approvalVars, overlapped, unsettled>>
ComesUp ==
    /\ ~up /\ up' = TRUE
    /\ UNCHANGED <<now, jobs, workerVars, heard, checkins, approvalVars, faults,
                   overlapped, unsettled>>

\* The process dies and starts again, and makes sure of the next job.
Restart ==
    /\ faults < MaxFaults /\ faults' = faults + 1
    /\ pc' = [w \in Workers |-> "idle"] /\ job' = [w \in Workers |-> NoJob]
    /\ toDraft' = [w \in Workers |-> {}] /\ since' = [w \in Workers |-> 0]
    /\ apc' = [a \in Approvals |-> "idle"] /\ chosen' = [a \in Approvals |-> {}]
    /\ unsettled' = unsettled \cup Sending
    /\ jobs' = ScheduleNext(jobs)
    /\ UNCHANGED <<now, up, heard, checkins, approvals, overlapped>>

\* What a dead process left in PROCESSING is found five minutes later.
RecoverStale(d) ==
    /\ jobs[d].status = "PROCESSING" /\ \A w \in Workers : job[w] # d
    /\ jobs' = [jobs EXCEPT ![d] = Recovered([@ EXCEPT !.stale = TRUE])]
    /\ UNCHANGED <<now, up, workerVars, heard, checkins, approvalVars, faults,
                   overlapped, unsettled>>

Next ==
    \/ Tick \/ GoesDown \/ ComesUp \/ Restart
    \/ \E d \in Days : RunAtReached(d) \/ RecoverStale(d)
    \/ \E m \in Members : RecordMessage(m)
    \/ \E w \in Workers : \/ \E d \in Days : Claim(w, d)
                          \/ ReadForDrafts(w) \/ SaveDraft(w) \/ SavePlanningRun(w)
                          \/ SendSummary(w) \/ ScheduleTomorrow(w) \/ Settle(w) \/ StoreError(w)
    \/ \E a \in Approvals : Approve(a) \/ SendCheckin(a) \/ SaveSent(a)

Spec == Init /\ [][Next]_vars

-----------------------------------------------------------------------------
\* The chain of planning jobs never ends without a trace: whatever was retried,
\* interrupted or restarted, the job of the latest day waits or runs, or has failed
\* for good and is in the incident report; a run that succeeded left a later job.
ChainUnbroken ==
    /\ TypeOK
    /\ \E d \in Days : /\ jobs[d].status \in {"PENDING", "PROCESSING", "FAILED"}
                       /\ \A later \in Days : later > d => jobs[later].status = "NONE"

\* No member gets a second check-in drafted within the 30 days, nor one drafted who
\* had written in the last 14 days before the run, and no draft goes out twice: unless
\* two runs drafted at the same time, or two approvals, a fault or a restart met on
\* that draft.
CheckedInOnce ==
    \A i \in DOMAIN checkins :
        /\ checkins[i].heard < checkins[i].created =>
              checkins[i].heard + Quiet <= checkins[i].created
        /\ ~overlapped => \A k \in DOMAIN checkins :
              i < k /\ checkins[i].member = checkins[k].member =>
                 checkins[i].created + Recheck < checkins[k].created
        /\ i \notin unsettled => checkins[i].sent <= 1
=============================================================================
