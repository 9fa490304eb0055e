----------------------------- MODULE Automation -----------------------------
(***************************************************************************)
(* The automation loop over the job ledger.  main.ts starts a timer that   *)
(* calls processDue() every second and does not wait for the call before   *)
(* it (two HTTP handlers call it too), so several calls - Ticks - run at   *)
(* the same time and interleave at every await:                            *)
(*                                                                         *)
(*   idle -> recover -> report -> reporting -> list -> next                *)
(*   next -> executing -> completing | failRetry | failFinal -> next       *)
(*                                                                         *)
(* One step of a tick is one statement of the store, or one outcome of the *)
(* operation the job stands for.  What an operation does to its task or    *)
(* announcement is the subject of TaskDelivery; here it only succeeds or   *)
(* throws.  The process may crash at any point: the ticks and the memory   *)
(* of the process are lost, the rows are not.                              *)
(***************************************************************************)
EXTENDS ScheduledJobs

CONSTANTS
  Jobs,          \* the job keys
  NoJob,         \* the job of a tick that has claimed none
  Ticks,         \* the processDue() calls that can be in flight together
  MaxAttemptsOf, \* [Jobs -> max_attempts]
  CancelSets,    \* what one cancelJobsForEntity call can select
  MaxFaults      \* bound: crashes, store errors and failed incident reports

ASSUME NoJobAssumption == NoJob \notin Jobs
ASSUME MaxAttemptsAssumption == MaxAttemptsOf \in [Jobs -> Nat \ {0}]
ASSUME CancelSetsAssumption == CancelSets \subseteq SUBSET Jobs
ASSUME MaxFaultsAssumption == MaxFaults \in Nat

VARIABLES
  row,         \* the ledger: [Jobs -> JobRow]
  pc,          \* where each tick is
  job,         \* the job a tick has claimed
  attempt,     \* the attempt number the claim returned
  list,        \* what a tick read last: failures to report, or due jobs
  reported,    \* reportedFailedJobs, kept in the memory of the process
  recoveryDue, \* 60 s have passed since lastRecoveryAt
  ran,         \* history: jobs of which an execution ended without an error
  overtaken,   \* history: jobs a recovery put back while a call was still at them
  faults       \* history: how many faults there have been

vars == <<row, pc, job, attempt, list, reported, recoveryDue, ran, overtaken, faults>>

Busy == {"executing", "completing", "failRetry", "failFinal"}
TickStates == {"idle", "recover", "report", "reporting", "list", "next"} \cup Busy

TypeOK ==
  /\ row \in [Jobs -> JobRow]
  /\ pc \in [Ticks -> TickStates]
  /\ job \in [Ticks -> Jobs \cup {NoJob}]
  /\ attempt \in [Ticks -> Nat]
  /\ list \in [Ticks -> SUBSET Jobs]
  /\ \A t \in Ticks : pc[t] \in Busy <=> job[t] # NoJob
  /\ reported \subseteq Jobs
  /\ recoveryDue \in BOOLEAN
  /\ ran \subseteq Jobs /\ overtaken \subseteq Jobs
  /\ faults \in Nat

Init ==
  /\ row = [j \in Jobs |-> NoRow(MaxAttemptsOf[j])]
  /\ pc = [t \in Ticks |-> "idle"]
  /\ job = [t \in Ticks |-> NoJob]
  /\ attempt = [t \in Ticks |-> 0]
  /\ list = [t \in Ticks |-> {}]
  /\ reported = {}
  /\ recoveryDue = TRUE
  /\ ran = {} /\ overtaken = {}
  /\ faults = 0

-----------------------------------------------------------------------------
(* processDue, up to its loop.                                             *)

Goto(t, s) == pc' = [pc EXCEPT ![t] = s]

Begin(t) ==
  /\ pc[t] = "idle"
  /\ Goto(t, IF recoveryDue THEN "recover" ELSE "list")
  /\ UNCHANGED <<row, job, attempt, list, reported, recoveryDue, ran, overtaken, faults>>

\* recoverStaleJobs that never runs: interrupted rows keep their status.
RecoverSkipped(t) ==
  /\ pc[t] = "recover"
  /\ Goto(t, "report")
  /\ UNCHANGED <<row, job, attempt, list, reported, recoveryDue, ran, overtaken, faults>>

AtWork(t, j) == pc[t] \in Busy /\ job[t] = j

Recover(t) ==
  /\ pc[t] = "recover"
  /\ row' = [j \in Jobs |-> Recovered(row[j])]
  /\ overtaken' = overtaken \cup
       {j \in Jobs : /\ Interrupted(row[j]) /\ CanRetry(row[j])
                     /\ \E u \in Ticks : AtWork(u, j)}
  /\ Goto(t, "report")
  /\ UNCHANGED <<job, attempt, list, reported, recoveryDue, ran, faults>>

Unreported == {j \in Jobs : row[j].status = "FAILED"} \ reported

\* reportPermanentFailures returns early: WhatsApp is disconnected.
SkipReport(t) ==
  /\ pc[t] = "report"
  /\ recoveryDue' = FALSE
  /\ Goto(t, "list")
  /\ UNCHANGED <<row, job, attempt, list, reported, ran, overtaken, faults>>

ListFailures(t) ==
  /\ pc[t] = "report"
  /\ list' = [list EXCEPT ![t] = Unreported]
  /\ IF Unreported = {}
     THEN recoveryDue' = FALSE /\ Goto(t, "list")
     ELSE UNCHANGED recoveryDue /\ Goto(t, "reporting")
  /\ UNCHANGED <<row, job, attempt, reported, ran, overtaken, faults>>

\* The send has gone out, but the keys are not remembered.
SendReportForgets(t) ==
  /\ pc[t] = "reporting"
  /\ recoveryDue' = FALSE
  /\ Goto(t, "list")
  /\ UNCHANGED <<row, job, attempt, list, reported, ran, overtaken, faults>>

SendReport(t) ==
  /\ pc[t] = "reporting"
  /\ reported' = reported \cup list[t]
  /\ recoveryDue' = FALSE
  /\ Goto(t, "list")
  /\ UNCHANGED <<row, job, attempt, list, ran, overtaken, faults>>

ListDue(t) ==
  /\ pc[t] = "list"
  /\ list' = [list EXCEPT ![t] = {j \in Jobs : Claimable(row[j])}]
  /\ Goto(t, "next")
  /\ UNCHANGED <<row, job, attempt, reported, recoveryDue, ran, overtaken, faults>>

-----------------------------------------------------------------------------
(* The loop: process(jobKey) for each job of the list.                     *)

Finish(t) ==
  /\ pc[t] = "next" /\ list[t] = {}
  /\ Goto(t, "idle")
  /\ UNCHANGED <<row, job, attempt, list, reported, recoveryDue, ran, overtaken, faults>>

\* claimJob that trusts the list: an UPDATE without "status='PENDING' AND run_at <= now()".
ClaimFromList(t, j) ==
  /\ pc[t] = "next" /\ j \in list[t]
  /\ list' = [list EXCEPT ![t] = @ \ {j}]
  /\ row' = [row EXCEPT ![j] = Claimed(@)]
  /\ job' = [job EXCEPT ![t] = j]
  /\ attempt' = [attempt EXCEPT ![t] = row'[j].attempts]
  /\ Goto(t, "executing")
  /\ UNCHANGED <<reported, recoveryDue, ran, overtaken, faults>>

Claim(t, j) ==
  /\ pc[t] = "next" /\ j \in list[t]
  /\ list' = [list EXCEPT ![t] = @ \ {j}]
  /\ IF Claimable(row[j])
     THEN /\ row' = [row EXCEPT ![j] = Claimed(@)]
          /\ job' = [job EXCEPT ![t] = j]
          /\ attempt' = [attempt EXCEPT ![t] = row'[j].attempts]
          /\ Goto(t, "executing")
     ELSE UNCHANGED <<row, pc, job, attempt>>
  /\ UNCHANGED <<reported, recoveryDue, ran, overtaken, faults>>

\* execute() returns.
Succeed(t) ==
  /\ pc[t] = "executing"
  /\ ran' = ran \cup {job[t]}
  /\ Goto(t, "completing")
  /\ UNCHANGED <<row, job, attempt, list, reported, recoveryDue, overtaken, faults>>

\* execute() throws: an AppError below 500 is not retried, anything else is.
Throw(t) ==
  /\ pc[t] = "executing"
  /\ \E s \in {"failRetry", "failFinal"} : Goto(t, s)
  /\ UNCHANGED <<row, job, attempt, list, reported, recoveryDue, ran, overtaken, faults>>

Settle(t, r) ==
  /\ row' = [row EXCEPT ![job[t]] = r]
  /\ job' = [job EXCEPT ![t] = NoJob]
  /\ attempt' = [attempt EXCEPT ![t] = 0]
  /\ Goto(t, "next")
  /\ UNCHANGED <<list, reported, recoveryDue, ran, overtaken, faults>>

Complete(t) ==
  /\ pc[t] = "completing"
  /\ Settle(t, Completed(row[job[t]]))

\* The catch block that skips failJob when there is nothing to retry.
FailOnlyRetries(t) ==
  \/ pc[t] = "failRetry" /\ Settle(t, Failed(row[job[t]], TRUE))
  \/ pc[t] = "failFinal" /\ Settle(t, row[job[t]])

\* A catch block that marks the job finished either way.
FailMarksSuccess(t) ==
  /\ pc[t] \in {"failRetry", "failFinal"}
  /\ Settle(t, IF pc[t] = "failRetry" /\ CanRetry(row[job[t]])
               THEN Failed(row[job[t]], TRUE)
               ELSE Completed(row[job[t]]))

Fail(t) ==
  \/ pc[t] = "failRetry" /\ Settle(t, Failed(row[job[t]], TRUE))
  \/ pc[t] = "failFinal" /\ Settle(t, Failed(row[job[t]], FALSE))

-----------------------------------------------------------------------------
(* Faults, bounded by MaxFaults.                                           *)

Fault == faults < MaxFaults /\ faults' = faults + 1

\* completeJob throws inside the try: the catch treats it as a failed operation.
CompleteThrows(t) ==
  /\ pc[t] = "completing"
  /\ Fault
  /\ Goto(t, "failRetry")
  /\ UNCHANGED <<row, job, attempt, list, reported, recoveryDue, ran, overtaken>>

\* Any other statement, or the incident report, throws: processDue rejects, the
\* timer logs it, and what the tick held is forgotten.
Abort(t) ==
  /\ pc[t] \in {"recover", "report", "reporting", "list", "next", "failRetry", "failFinal"}
  /\ Fault
  /\ job' = [job EXCEPT ![t] = NoJob]
  /\ attempt' = [attempt EXCEPT ![t] = 0]
  /\ list' = [list EXCEPT ![t] = {}]
  /\ Goto(t, "idle")
  /\ UNCHANGED <<row, reported, recoveryDue, ran, overtaken>>

\* The process dies and is started again: lastRecoveryAt is 0, nothing is reported.
Crash ==
  /\ Fault
  /\ pc' = [t \in Ticks |-> "idle"]
  /\ job' = [t \in Ticks |-> NoJob]
  /\ attempt' = [t \in Ticks |-> 0]
  /\ list' = [t \in Ticks |-> {}]
  /\ reported' = {}
  /\ recoveryDue' = TRUE
  /\ UNCHANGED <<row, ran, overtaken>>

-----------------------------------------------------------------------------
(* The services that write the ledger, and the clock.                      *)

OnlyRow ==
  UNCHANGED <<pc, job, attempt, list, reported, recoveryDue, ran, overtaken, faults>>

CreateJob(j, due) ==
  /\ row[j].status = "NONE"
  /\ row' = [row EXCEPT ![j] = Created(@, due)]
  /\ OnlyRow

CancelJobs(S) ==
  /\ \E j \in S : row[j].status \in {"PENDING", "PROCESSING"}
  /\ row' = [j \in Jobs |-> IF j \in S THEN Cancelled(row[j]) ELSE row[j]]
  /\ OnlyRow

RunAtReached(j) ==
  /\ FallsDue(row[j])
  /\ row' = [row EXCEPT ![j].due = TRUE]
  /\ OnlyRow

FiveMinutesPass(j) ==
  /\ GoesStale(row[j])
  /\ row' = [row EXCEPT ![j].stale = TRUE]
  /\ OnlyRow

RecoveryInterval ==
  /\ ~recoveryDue
  /\ recoveryDue' = TRUE
  /\ UNCHANGED <<row, pc, job, attempt, list, reported, ran, overtaken, faults>>

-----------------------------------------------------------------------------
TickStep(t) ==
  \/ Begin(t) \/ Recover(t) \/ SkipReport(t) \/ ListFailures(t) \/ SendReport(t)
  \/ ListDue(t) \/ Finish(t)
  \/ \E j \in Jobs : Claim(t, j)
  \/ Succeed(t) \/ Throw(t) \/ Complete(t) \/ Fail(t)

Next ==
  \/ \E t \in Ticks : TickStep(t) \/ CompleteThrows(t) \/ Abort(t)
  \/ Crash
  \/ \E j \in Jobs : RunAtReached(j) \/ FiveMinutesPass(j)
  \/ \E j \in Jobs, due \in BOOLEAN : CreateJob(j, due)
  \/ \E S \in CancelSets : CancelJobs(S)
  \/ RecoveryInterval

Spec == Init /\ [][Next]_vars

\* The timer keeps ticking, every await settles, the clock advances, and WhatsApp is
\* not found disconnected at every single incident report.  (The last assumes too that
\* an outage ends within the 24 hours listFailedJobs looks back.)
Fairness ==
  /\ \A t \in Ticks : WF_vars(TickStep(t)) /\ SF_vars(ListFailures(t))
  /\ \A j \in Jobs : WF_vars(RunAtReached(j)) /\ WF_vars(FiveMinutesPass(j))
  /\ WF_vars(RecoveryInterval)

FairSpec == Spec /\ Fairness

-----------------------------------------------------------------------------
(* Properties.                                                             *)

\* The retry budget: no row is ever started more often than its max_attempts, and a
\* row that waits has a start left.  The claim does not look at the budget, so this
\* rests on every path that puts a row back (failJob, recoverStaleJobs).
RetryBudget ==
  \A j \in Jobs :
    /\ row[j].attempts <= row[j].max
    /\ row[j].status \in {"NONE", "PENDING"} => row[j].attempts < row[j].max

\* Overlapping calls of processDue never execute one job at the same time, although each
\* may have read it as due, and a job waits for a claim only while no call is at it;
\* except that recoverStaleJobs may put back a job whose call has taken over five minutes.
OneExecution ==
  \A t \in Ticks, j \in Jobs \ overtaken : AtWork(t, j) =>
    /\ row[j].status \notin {"NONE", "PENDING"}
    /\ \A u \in Ticks \ {t} : ~AtWork(u, j)

\* A row in PROCESSING is held by the call that made its latest attempt; only a crash
\* or a store error leaves one behind for the recovery.
ProcessingIsHeld ==
  faults = 0 =>
    \A j \in Jobs : row[j].status = "PROCESSING" =>
      \E t \in Ticks : pc[t] \in Busy /\ job[t] = j /\ attempt[t] = row[j].attempts

\* A job is marked SUCCEEDED only if some execution of it ended without an error, also
\* when recovered and duplicate executions overlap.
SuccessIsBacked ==
  \A j \in Jobs : row[j].status = "SUCCEEDED" => j \in ran

\* A late answer never turns a job that was cancelled or given up into a success.
GivenUpIsNotDone ==
  [][\A j \in Jobs : row[j].status \in {"CANCELLED", "FAILED"}
                       => row'[j].status # "SUCCEEDED"]_vars

\* Every scheduled job is settled in the end, whatever crashes and failures happen on
\* the way.
JobsSettle ==
  \A j \in Jobs :
    row[j].status \in {"PENDING", "PROCESSING"}
      ~> row[j].status \in {"SUCCEEDED", "FAILED", "CANCELLED"}

\* A permanent failure comes to the attention of the Super Admin.
FailuresReported ==
  \A j \in Jobs : row[j].status = "FAILED" ~> (j \in reported \/ row[j].status # "FAILED")
=============================================================================
