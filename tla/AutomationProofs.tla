-------------------------- MODULE AutomationProofs --------------------------
(***************************************************************************)
(* The safety properties of Automation, for every set of jobs, every       *)
(* number of overlapping processDue() calls and every number of faults.    *)
(*                                                                         *)
(* What the statements of the store do to one row is stated first          *)
(* (RowTyping, RowAttempts, RowStatus), and no later proof opens them; the *)
(* proof that a step preserves an invariant has one case per action.       *)
(***************************************************************************)
EXTENDS Automation, TLAPS

-----------------------------------------------------------------------------
(* What each statement of the store does to the row of a job.              *)

\* Every statement of the store returns a row.
LEMMA RowTyping ==
  ASSUME NEW r \in JobRow
  PROVE  /\ \A due \in BOOLEAN : Created(r, due) \in JobRow
         /\ Claimed(r) \in JobRow
         /\ Recovered(r) \in JobRow
         /\ Completed(r) \in JobRow
         /\ \A retry \in BOOLEAN : Failed(r, retry) \in JobRow
         /\ Cancelled(r) \in JobRow
  <1>1. \A due \in BOOLEAN : Created(r, due) \in JobRow
    BY DEF JobRow, JobStatus, Created
  <1>2. Claimed(r) \in JobRow
    <2>1. r.attempts + 1 \in Nat
      BY DEF JobRow
    <2>2. QED
      BY <2>1, Zenon DEF JobRow, JobStatus, Claimed
  <1>3. Recovered(r) \in JobRow
    BY DEF JobRow, JobStatus, Recovered
  <1>4. Completed(r) \in JobRow
    BY DEF JobRow, JobStatus, Completed
  <1>5. \A retry \in BOOLEAN : Failed(r, retry) \in JobRow
    BY DEF JobRow, JobStatus, Failed
  <1>6. Cancelled(r) \in JobRow
    BY DEF JobRow, JobStatus, Cancelled
  <1>7. QED
    BY <1>1, <1>2, <1>3, <1>4, <1>5, <1>6

\* Only a claim counts an attempt, and no statement changes the budget.
LEMMA RowAttempts ==
  ASSUME NEW r \in JobRow
  PROVE  /\ \A due \in BOOLEAN :
              Created(r, due).attempts = r.attempts /\ Created(r, due).max = r.max
         /\ Claimed(r).attempts = r.attempts + 1 /\ Claimed(r).max = r.max
         /\ Recovered(r).attempts = r.attempts /\ Recovered(r).max = r.max
         /\ Completed(r).attempts = r.attempts /\ Completed(r).max = r.max
         /\ \A retry \in BOOLEAN :
              Failed(r, retry).attempts = r.attempts /\ Failed(r, retry).max = r.max
         /\ Cancelled(r).attempts = r.attempts /\ Cancelled(r).max = r.max
  BY DEF JobRow, Created, Claimed, Recovered, Completed, Failed, Cancelled

\* Where the status of a row can go, statement by statement.
LEMMA RowStatus ==
  ASSUME NEW r \in JobRow
  PROVE  /\ \A due \in BOOLEAN : Created(r, due).status \in {r.status, "PENDING"}
         /\ Claimed(r).status = "PROCESSING"
         /\ Recovered(r).status = r.status
              \/ /\ r.status = "PROCESSING"
                 /\ Recovered(r).status = (IF CanRetry(r) THEN "PENDING" ELSE "FAILED")
         /\ Completed(r).status \in {r.status, "SUCCEEDED"}
         /\ Driver = "postgres" /\ r.status # "PROCESSING" => Completed(r).status = r.status
         /\ r.status = "PROCESSING" => Completed(r).status = "SUCCEEDED"
         /\ \A retry \in BOOLEAN : Failed(r, retry).status =
              (IF retry /\ CanRetry(r) THEN "PENDING" ELSE "FAILED")
         /\ Cancelled(r).status \in {r.status, "CANCELLED"}
  BY DEF JobRow, Created, Claimed, Recovered, Completed, Failed, Cancelled, Interrupted

-----------------------------------------------------------------------------
(* Type correctness.                                                       *)

\* Nothing is scheduled and no call is in flight at the start.
LEMMA InitType == Init => TypeOK
  BY MaxAttemptsAssumption, NoJobAssumption
  DEF Init, TypeOK, NoRow, JobRow, JobStatus, TickStates, Busy

\* Every action keeps the types, and a call has a job exactly while it works on it.
LEMMA StepType == TypeOK /\ [Next]_vars => TypeOK'
  <1>. SUFFICES ASSUME TypeOK, [Next]_vars PROVE TypeOK'
    OBVIOUS
  <1>. USE NoJobAssumption DEF TypeOK, TickStates, Busy
  <1>1. ASSUME NEW t \in Ticks, TickStep(t) PROVE TypeOK'
    <2>1. CASE Begin(t)
      BY <2>1 DEF Begin, Goto
    <2>2. CASE Recover(t)
      BY <2>2, RowTyping DEF Recover, Goto
    <2>3. CASE SkipReport(t)
      BY <2>3 DEF SkipReport, Goto
    <2>4. CASE ListFailures(t)
      BY <2>4 DEF ListFailures, Goto, Unreported
    <2>5. CASE SendReport(t)
      BY <2>5 DEF SendReport, Goto
    <2>6. CASE ListDue(t)
      BY <2>6 DEF ListDue, Goto
    <2>7. CASE Finish(t)
      BY <2>7 DEF Finish, Goto
    <2>8. ASSUME NEW j \in Jobs, Claim(t, j) PROVE TypeOK'
      <3>1. CASE Claimable(row[j])
        <4>1. Claimed(row[j]) \in JobRow
          BY RowTyping
        <4>2. /\ row' = [row EXCEPT ![j] = Claimed(row[j])]
              /\ attempt' = [attempt EXCEPT ![t] = row'[j].attempts]
          BY <2>8, <3>1 DEF Claim
        <4>3. attempt' \in [Ticks -> Nat] /\ row' \in [Jobs -> JobRow]
          BY <4>1, <4>2 DEF JobRow
        <4>4. QED
          BY <2>8, <3>1, <4>3 DEF Claim, Goto
      <3>2. CASE ~Claimable(row[j])
        BY <2>8, <3>2 DEF Claim
      <3>3. QED
        BY <3>1, <3>2
    <2>9. CASE Succeed(t)
      BY <2>9 DEF Succeed, Goto
    <2>10. CASE Throw(t)
      BY <2>10 DEF Throw, Goto
    <2>a. ASSUME NEW r \in JobRow, pc[t] \in Busy, Settle(t, r) PROVE TypeOK'
      BY <2>a DEF Settle, Goto
    <2>b. pc[t] \in Busy => row[job[t]] \in JobRow
      OBVIOUS
    <2>11. CASE Complete(t)
      BY <2>11, <2>a, <2>b, RowTyping DEF Complete
    <2>12. CASE Fail(t)
      BY <2>12, <2>a, <2>b, RowTyping DEF Fail
    <2>13. QED
      BY <1>1, <2>1, <2>2, <2>3, <2>4, <2>5, <2>6, <2>7, <2>8, <2>9, <2>10, <2>11, <2>12
      DEF TickStep
  <1>2. ASSUME NEW t \in Ticks, CompleteThrows(t) PROVE TypeOK'
    BY <1>2 DEF CompleteThrows, Fault, Goto
  <1>3. ASSUME NEW t \in Ticks, Abort(t) PROVE TypeOK'
    BY <1>3 DEF Abort, Fault, Goto
  <1>4. CASE Crash
    BY <1>4 DEF Crash, Fault
  <1>5. ASSUME NEW j \in Jobs, RunAtReached(j) PROVE TypeOK'
    BY <1>5 DEF RunAtReached, OnlyRow, JobRow
  <1>6. ASSUME NEW j \in Jobs, FiveMinutesPass(j) PROVE TypeOK'
    BY <1>6 DEF FiveMinutesPass, OnlyRow, JobRow
  <1>7. ASSUME NEW j \in Jobs, NEW due \in BOOLEAN, CreateJob(j, due) PROVE TypeOK'
    BY <1>7, RowTyping DEF CreateJob, OnlyRow
  <1>8. ASSUME NEW S \in CancelSets, CancelJobs(S) PROVE TypeOK'
    BY <1>8, RowTyping DEF CancelJobs, OnlyRow
  <1>9. CASE RecoveryInterval
    BY <1>9 DEF RecoveryInterval
  <1>10. CASE UNCHANGED vars
    BY <1>10 DEF vars
  <1>11. QED
    BY <1>1, <1>2, <1>3, <1>4, <1>5, <1>6, <1>7, <1>8, <1>9, <1>10 DEF Next

\* Every variable keeps its type, and a call of processDue() is inside an operation
\* exactly while it holds a claimed job (AutomationService.process).
THEOREM TypeCorrect == Spec => []TypeOK
  <1>1. QED
    BY InitType, StepType, PTL DEF Spec

-----------------------------------------------------------------------------
(* Every step leaves the row of a job alone or applies one statement to    *)
(* it.  The properties of single rows follow from this.                    *)

ByService(j) ==
  \/ row[j].status = "NONE" /\ \E due \in BOOLEAN : row'[j] = Created(row[j], due)
  \/ row'[j] = Cancelled(row[j])

ByClock(j) ==
  \/ row'[j] = [row[j] EXCEPT !.due = TRUE]
  \/ row'[j] = [row[j] EXCEPT !.stale = TRUE]

BySettling(j) ==
  \E t \in Ticks :
    /\ job[t] = j
    /\ \/ pc[t] = "completing" /\ row'[j] = Completed(row[j])
       \/ \E retry \in BOOLEAN : row'[j] = Failed(row[j], retry)

\* The claim of t succeeds.
Starts(t, j) ==
  /\ pc[t] = "next"
  /\ Claimable(row[j])
  /\ row' = [row EXCEPT ![j] = Claimed(row[j])]
  /\ job' = [job EXCEPT ![t] = j]
  /\ attempt' = [attempt EXCEPT ![t] = row'[j].attempts]
  /\ pc' = [pc EXCEPT ![t] = "executing"]

ByAutomation(j) ==
  \/ \E t \in Ticks : Starts(t, j) /\ row'[j] = Claimed(row[j])
  \/ row'[j] = Recovered(row[j])
  \/ BySettling(j)

\* A step changes a row only by one statement of the store.
LEMMA RowStep ==
  ASSUME TypeOK, [Next]_vars, NEW j \in Jobs
  PROVE  row'[j] = row[j] \/ ByService(j) \/ ByClock(j) \/ ByAutomation(j)
  <1>. DEFINE Goal == row'[j] = row[j] \/ ByService(j) \/ ByClock(j) \/ ByAutomation(j)
  <1>1. ASSUME NEW t \in Ticks, TickStep(t) PROVE Goal
    <2>1. CASE Begin(t) \/ SkipReport(t) \/ ListFailures(t) \/ SendReport(t) \/ ListDue(t)
               \/ Finish(t) \/ Succeed(t) \/ Throw(t)
      BY <2>1 DEF Begin, SkipReport, ListFailures, SendReport, ListDue, Finish, Succeed, Throw
    <2>2. CASE Recover(t)
      BY <2>2 DEF Recover, ByAutomation
    <2>3. ASSUME NEW i \in Jobs, Claim(t, i) PROVE Goal
      BY <2>3 DEF Claim, Starts, Goto, ByAutomation, TypeOK
    <2>4. ASSUME NEW r, Settle(t, r) PROVE row'[j] = row[j] \/ (job[t] = j /\ row'[j] = r)
      BY <2>4 DEF Settle, TypeOK
    <2>5. CASE Complete(t)
      BY <2>4, <2>5 DEF Complete, ByAutomation, BySettling
    <2>6. CASE Fail(t)
      BY <2>4, <2>6 DEF Fail, ByAutomation, BySettling
    <2>7. QED
      BY <1>1, <2>1, <2>2, <2>3, <2>5, <2>6 DEF TickStep
  <1>2. ASSUME NEW t \in Ticks, CompleteThrows(t) \/ Abort(t) PROVE Goal
    BY <1>2 DEF CompleteThrows, Abort
  <1>3. CASE Crash \/ RecoveryInterval \/ UNCHANGED vars
    BY <1>3 DEF Crash, RecoveryInterval, vars
  <1>4. ASSUME NEW i \in Jobs, RunAtReached(i) \/ FiveMinutesPass(i) PROVE Goal
    BY <1>4 DEF RunAtReached, FiveMinutesPass, ByClock, TypeOK
  <1>5. ASSUME NEW i \in Jobs, NEW due \in BOOLEAN, CreateJob(i, due) PROVE Goal
    BY <1>5 DEF CreateJob, ByService, TypeOK
  <1>6. ASSUME NEW S \in CancelSets, CancelJobs(S) PROVE Goal
    BY <1>6 DEF CancelJobs, ByService
  <1>7. QED
    BY <1>1, <1>2, <1>3, <1>4, <1>5, <1>6 DEF Next

-----------------------------------------------------------------------------
(* The retry budget.                                                       *)

\* The paths that put a row back to PENDING are the recovery and failJob: both look at
\* the budget first.
LEMMA StepBudget == TypeOK /\ RetryBudget /\ [Next]_vars => RetryBudget'
  <1>. SUFFICES ASSUME TypeOK, RetryBudget, [Next]_vars, NEW j \in Jobs
                PROVE  /\ row'[j].attempts <= row'[j].max
                       /\ row'[j].status \in {"NONE", "PENDING"}
                            => row'[j].attempts < row'[j].max
    BY DEF RetryBudget
  <1>. DEFINE r == row[j]
  <1>1. /\ r \in JobRow /\ r.attempts \in Nat /\ r.max \in Nat
        /\ r.attempts <= r.max
        /\ r.status \in {"NONE", "PENDING"} => r.attempts < r.max
    BY DEF TypeOK, RetryBudget, JobRow
  <1>2. CASE row'[j] = r
    BY <1>1, <1>2
  <1>3. CASE ByService(j)
    BY <1>1, <1>3, RowAttempts, RowStatus DEF ByService
  <1>4. CASE ByClock(j)
    BY <1>1, <1>4 DEF ByClock, JobRow
  <1>5. CASE Claimable(r) /\ row'[j] = Claimed(r)
    BY <1>1, <1>5, RowAttempts, RowStatus DEF Claimable
  <1>6. CASE row'[j] = Recovered(r)
    BY <1>1, <1>6, RowAttempts, RowStatus DEF CanRetry
  <1>7. CASE row'[j] = Completed(r)
    BY <1>1, <1>7, RowAttempts, RowStatus
  <1>8. ASSUME NEW retry \in BOOLEAN, row'[j] = Failed(r, retry)
        PROVE  /\ row'[j].attempts <= row'[j].max
               /\ row'[j].status \in {"NONE", "PENDING"} => row'[j].attempts < row'[j].max
    BY <1>1, <1>8, RowAttempts, RowStatus DEF CanRetry
  <1>9. QED
    BY <1>2, <1>3, <1>4, <1>5, <1>6, <1>7, <1>8, RowStep DEF ByAutomation, BySettling, Starts

\* No job is ever started more often than its max_attempts (claimJob, failJob,
\* recoverStaleJobs), however many calls overlap and however often the process dies.
THEOREM BudgetIsKept == Spec => []RetryBudget
  <1>1. Init => RetryBudget
    BY MaxAttemptsAssumption DEF Init, RetryBudget, NoRow
  <1>2. QED
    BY <1>1, StepBudget, TypeCorrect, PTL DEF Spec

-----------------------------------------------------------------------------
(* Late answers.                                                           *)

\* A row that was given up leaves its status by failJob only, and never as a success.
LEMMA StepGivenUp ==
  ASSUME Driver = "postgres", TypeOK, [Next]_vars, NEW j \in Jobs,
         row[j].status \in {"CANCELLED", "FAILED"}
  PROVE  row'[j].status # "SUCCEEDED"
  <1>1. row[j] \in JobRow
    BY DEF TypeOK
  <1>2. CASE row'[j] = row[j] \/ ByService(j)
    BY <1>1, <1>2, RowStatus DEF ByService
  <1>3. CASE ByClock(j)
    BY <1>1, <1>3 DEF ByClock, JobRow
  <1>4. CASE ByAutomation(j)
    BY <1>1, <1>4, RowStatus DEF ByAutomation, BySettling
  <1>5. QED
    BY <1>2, <1>3, <1>4, RowStep

\* With the SQL store, a worker that answers after its job was cancelled or given up
\* does not turn it into a success (completeJob's WHERE clause).
THEOREM LateAnswersIgnored ==
  ASSUME Driver = "postgres"
  PROVE  Spec => GivenUpIsNotDone
  <1>1. TypeOK /\ [Next]_vars
          => [\A j \in Jobs : row[j].status \in {"CANCELLED", "FAILED"}
                                => row'[j].status # "SUCCEEDED"]_vars
    BY StepGivenUp
  <1>2. QED
    BY <1>1, TypeCorrect, PTL DEF Spec, GivenUpIsNotDone

-----------------------------------------------------------------------------
(* Successes.                                                              *)

\* SuccessIsBacked alone is not inductive: a call that is about to mark its job has an
\* execution of it behind it.
BackedInv ==
  /\ SuccessIsBacked
  /\ \A t \in Ticks : pc[t] = "completing" => job[t] \in ran

\* A call at completeJob has executed its job to the end.
LEMMA StepBacked == TypeOK /\ BackedInv /\ [Next]_vars => BackedInv'
  <1>. SUFFICES ASSUME TypeOK, BackedInv, [Next]_vars PROVE BackedInv'
    OBVIOUS
  <1>1. ran \subseteq ran'
    BY DEF Next, TickStep, Begin, Recover, SkipReport, ListFailures, SendReport, ListDue,
           Finish, Claim, Succeed, Throw, Complete, Fail, Settle, CompleteThrows, Abort,
           Crash, OnlyRow, CreateJob, CancelJobs, RunAtReached, FiveMinutesPass,
           RecoveryInterval, vars
  <1>2. ASSUME NEW j \in Jobs, row'[j].status = "SUCCEEDED" PROVE j \in ran'
    <2>1. row[j] \in JobRow
      BY DEF TypeOK
    <2>2. CASE row'[j].status = row[j].status
      BY <1>1, <1>2, <2>2 DEF BackedInv, SuccessIsBacked
    <2>3. CASE ByService(j)
      BY <1>2, <2>1, <2>2, <2>3, RowStatus DEF ByService
    <2>4. CASE ByClock(j)
      BY <2>1, <2>2, <2>4 DEF ByClock, JobRow
    <2>5. CASE ByAutomation(j)
      BY <1>1, <1>2, <2>1, <2>2, <2>5, RowStatus DEF ByAutomation, BySettling, BackedInv
    <2>6. QED
      BY <2>2, <2>3, <2>4, <2>5, RowStep
  <1>3. ASSUME NEW t \in Ticks, pc'[t] = "completing" PROVE job'[t] \in ran'
    <2>1. CASE Succeed(t)
      BY <2>1 DEF Succeed
    <2>2. CASE ~Succeed(t)
      <3>1. pc[t] = "completing" /\ job'[t] = job[t]
        BY <1>3, <2>2 DEF TypeOK, Next, TickStep, Goto, Begin, Recover, SkipReport,
           ListFailures, SendReport, ListDue, Finish, Claim, Succeed, Throw, Complete,
           Fail, Settle, CompleteThrows, Abort, Crash, OnlyRow, CreateJob, CancelJobs,
           RunAtReached, FiveMinutesPass, RecoveryInterval, vars
      <3>2. QED
        BY <1>1, <3>1 DEF BackedInv
    <2>3. QED
      BY <2>1, <2>2
  <1>4. QED
    BY <1>2, <1>3 DEF BackedInv, SuccessIsBacked

\* A job is SUCCEEDED only when an execution of it ended without an error, also when a
\* recovered row is executed by two calls at the same time (process, completeJob).
THEOREM SuccessesAreBacked == Spec => []SuccessIsBacked
  <1>1. Init => BackedInv
    BY DEF Init, BackedInv, SuccessIsBacked, NoRow
  <1>2. BackedInv => SuccessIsBacked
    BY DEF BackedInv
  <1>3. QED
    BY <1>1, <1>2, StepBacked, TypeCorrect, PTL DEF Spec

-----------------------------------------------------------------------------
(* Overlapping calls.                                                      *)

Continues(t) ==
  /\ pc[t] \in Busy /\ pc'[t] \in Busy
  /\ job'[t] = job[t] /\ attempt'[t] = attempt[t]

\* A call that is inside an operation has just claimed the job or was there before.
LEMMA BusyBefore ==
  ASSUME TypeOK, [Next]_vars, NEW t \in Ticks, pc'[t] \in Busy
  PROVE  Continues(t) \/ \E j \in Jobs : Starts(t, j)
  <1>. DEFINE Goal == Continues(t) \/ \E j \in Jobs : Starts(t, j)
  <1>. USE DEF TypeOK, Busy, Continues
  <1>1. ASSUME NEW u \in Ticks, TickStep(u) PROVE Goal
    <2>1. CASE Begin(u) \/ Recover(u) \/ SkipReport(u) \/ ListFailures(u) \/ SendReport(u)
               \/ ListDue(u) \/ Finish(u)
      BY <2>1 DEF Begin, Recover, SkipReport, ListFailures, SendReport, ListDue, Finish, Goto
    <2>2. ASSUME NEW j \in Jobs, Claim(u, j) PROVE Goal
      BY <2>2 DEF Claim, Starts, Goto
    <2>3. CASE Succeed(u) \/ Throw(u)
      BY <2>3 DEF Succeed, Throw, Goto
    <2>4. CASE Complete(u) \/ Fail(u)
      BY <2>4 DEF Complete, Fail, Settle, Goto
    <2>5. QED
      BY <1>1, <2>1, <2>2, <2>3, <2>4 DEF TickStep
  <1>2. ASSUME NEW u \in Ticks, CompleteThrows(u) \/ Abort(u) PROVE Goal
    BY <1>2 DEF CompleteThrows, Abort, Goto
  <1>3. CASE Crash
    BY <1>3 DEF Crash
  <1>4. CASE UNCHANGED <<pc, job, attempt>>
    BY <1>4
  <1>5. QED
    BY <1>1, <1>2, <1>3, <1>4 DEF Next, OnlyRow, CreateJob, CancelJobs, RunAtReached,
       FiveMinutesPass, RecoveryInterval, vars

\* A row is not put back under the only call that is at the job, unless a recovery does
\* it, and then the job is overtaken.
LEMMA StaysTaken ==
  ASSUME TypeOK, [Next]_vars, NEW t \in Ticks, NEW j \in Jobs,
         AtWork(t, j), AtWork(t, j)', \A u \in Ticks \ {t} : ~AtWork(u, j),
         row[j].status \notin {"NONE", "PENDING"}, j \notin overtaken'
  PROVE  row'[j].status \notin {"NONE", "PENDING"}
  <1>. DEFINE Goal == row'[j].status \notin {"NONE", "PENDING"}
  <1>1. row[j] \in JobRow /\ row \in [Jobs -> JobRow]
    BY DEF TypeOK
  <1>2. ASSUME NEW u \in Ticks, TickStep(u) PROVE Goal
    <2>1. CASE Begin(u) \/ SkipReport(u) \/ ListFailures(u) \/ SendReport(u) \/ ListDue(u)
               \/ Finish(u) \/ Succeed(u) \/ Throw(u)
      BY <2>1 DEF Begin, SkipReport, ListFailures, SendReport, ListDue, Finish, Succeed, Throw
    <2>2. CASE Recover(u)
      <3>1. row'[j] = Recovered(row[j]) /\ ~(Interrupted(row[j]) /\ CanRetry(row[j]))
        BY <2>2 DEF Recover
      <3>2. QED
        BY <1>1, <3>1 DEF Recovered, JobRow
    <2>3. ASSUME NEW i \in Jobs, Claim(u, i) PROVE Goal
      BY <1>1, <2>3, RowStatus DEF Claim
    <2>4. ASSUME NEW r, Settle(u, r), pc[u] \in Busy PROVE Goal
      <3>1. CASE job[u] = j
        <4>1. u = t
          BY <2>4, <3>1 DEF AtWork
        <4>2. pc'[t] = "next"
          BY <2>4, <4>1 DEF Settle, Goto, TypeOK
        <4>3. QED
          BY <4>2 DEF AtWork, Busy
      <3>2. CASE job[u] # j
        BY <1>1, <2>4, <3>2 DEF Settle
      <3>3. QED
        BY <3>1, <3>2
    <2>5. CASE Complete(u) \/ Fail(u)
      BY <2>4, <2>5 DEF Complete, Fail, Busy
    <2>6. QED
      BY <1>2, <2>1, <2>2, <2>3, <2>5 DEF TickStep
  <1>3. ASSUME NEW u \in Ticks, CompleteThrows(u) \/ Abort(u) PROVE Goal
    BY <1>3 DEF CompleteThrows, Abort
  <1>4. CASE Crash \/ RecoveryInterval \/ UNCHANGED vars
    BY <1>4 DEF Crash, RecoveryInterval, vars
  <1>5. ASSUME NEW i \in Jobs, RunAtReached(i) \/ FiveMinutesPass(i) PROVE Goal
    BY <1>1, <1>5 DEF RunAtReached, FiveMinutesPass, JobRow
  <1>6. ASSUME NEW i \in Jobs, NEW due \in BOOLEAN, CreateJob(i, due) PROVE Goal
    BY <1>1, <1>6 DEF CreateJob, Created
  <1>7. ASSUME NEW S \in CancelSets, CancelJobs(S) PROVE Goal
    BY <1>1, <1>7, RowStatus DEF CancelJobs
  <1>8. QED
    BY <1>2, <1>3, <1>4, <1>5, <1>6, <1>7 DEF Next

\* What was overtaken stays on record.
LEMMA OvertakenGrow == ASSUME [Next]_vars PROVE overtaken \subseteq overtaken'
  BY DEF Next, TickStep, Begin, Recover, SkipReport, ListFailures, SendReport, ListDue,
         Finish, Claim, Succeed, Throw, Complete, Fail, Settle, CompleteThrows, Abort,
         Crash, OnlyRow, CreateJob, CancelJobs, RunAtReached, FiveMinutesPass,
         RecoveryInterval, vars

\* A claim takes a row that waits, and no call is at a job that waits.
LEMMA StepOneExecution == TypeOK /\ OneExecution /\ [Next]_vars => OneExecution'
  <1>. SUFFICES ASSUME TypeOK, OneExecution, [Next]_vars,
                       NEW t \in Ticks, NEW j \in Jobs, j \notin overtaken', AtWork(t, j)'
                PROVE  /\ row'[j].status \notin {"NONE", "PENDING"}
                       /\ \A u \in Ticks \ {t} : ~AtWork(u, j)'
    BY DEF OneExecution
  <1>1. j \in Jobs \ overtaken
    BY OvertakenGrow
  \* Every call that is at the job after the step was there before or has just claimed it.
  <1>2. ASSUME NEW u \in Ticks, AtWork(u, j)'
        PROVE  \/ AtWork(u, j) /\ row[j].status \notin {"NONE", "PENDING"}
               \/ Starts(u, j)
    <2>1. CASE Continues(u)
      BY <1>1, <1>2, <2>1 DEF Continues, AtWork, OneExecution
    <2>2. CASE \E i \in Jobs : Starts(u, i)
      BY <1>2, <2>2 DEF Starts, AtWork, TypeOK
    <2>3. QED
      BY <1>2, <2>1, <2>2, BusyBefore DEF AtWork
  <1>3. CASE Starts(t, j)
    <2>1. row'[j].status = "PROCESSING"
      BY <1>3, RowStatus DEF Starts, TypeOK
    <2>2. row[j].status = "PENDING"
      BY <1>3 DEF Starts, Claimable
    <2>3. ASSUME NEW u \in Ticks \ {t} PROVE ~AtWork(u, j)'
      <3>1. ~AtWork(u, j)
        BY <1>1, <2>2 DEF OneExecution
      <3>2. pc'[u] = pc[u] /\ job'[u] = job[u]
        BY <1>3 DEF Starts, TypeOK
      <3>3. QED
        BY <3>1, <3>2 DEF AtWork
    <2>4. QED
      BY <2>1, <2>3
  <1>4. CASE AtWork(t, j) /\ row[j].status \notin {"NONE", "PENDING"}
    <2>1. \A u \in Ticks \ {t} : ~AtWork(u, j)
      BY <1>1, <1>4 DEF OneExecution
    <2>2. row'[j].status \notin {"NONE", "PENDING"}
      BY <1>4, <2>1, StaysTaken
    <2>3. \A u \in Ticks \ {t} : ~AtWork(u, j)'
      BY <1>2, <1>4, <2>1 DEF Starts, Claimable
    <2>4. QED
      BY <2>2, <2>3
  <1>5. QED
    BY <1>2, <1>3, <1>4

\* Overlapping calls of processDue() never execute one job at the same time, for any
\* number of calls, jobs, crashes and store errors, unless recoverStaleJobs has put the
\* job back while a call was still at it (claimJob's "status='PENDING'").
THEOREM JobsAreExecutedByOne == Spec => []OneExecution
  <1>1. Init => OneExecution
    BY DEF Init, OneExecution, AtWork, Busy
  <1>2. QED
    BY <1>1, StepOneExecution, TypeCorrect, PTL DEF Spec

-----------------------------------------------------------------------------
(* Rows in PROCESSING.                                                     *)

\* Without a fault, a call keeps its job until it settles the row.
LEMMA BusyAfter ==
  ASSUME TypeOK, [Next]_vars, faults' = 0, NEW t \in Ticks, pc[t] \in Busy
  PROVE  \/ Continues(t)
         \/ row'[job[t]] = Completed(row[job[t]])
         \/ \E retry \in BOOLEAN : row'[job[t]] = Failed(row[job[t]], retry)
  <1>. DEFINE Goal == \/ Continues(t)
                      \/ row'[job[t]] = Completed(row[job[t]])
                      \/ \E retry \in BOOLEAN : row'[job[t]] = Failed(row[job[t]], retry)
  <1>. USE DEF TypeOK, Busy, Continues
  <1>1. ASSUME NEW u \in Ticks, TickStep(u) PROVE Goal
    <2>1. CASE Begin(u) \/ Recover(u) \/ SkipReport(u) \/ ListFailures(u) \/ SendReport(u)
               \/ ListDue(u) \/ Finish(u)
      BY <2>1 DEF Begin, Recover, SkipReport, ListFailures, SendReport, ListDue, Finish, Goto
    <2>2. ASSUME NEW j \in Jobs, Claim(u, j) PROVE Goal
      BY <2>2 DEF Claim, Goto
    <2>3. CASE Succeed(u) \/ Throw(u)
      BY <2>3 DEF Succeed, Throw, Goto
    <2>4. CASE Complete(u)
      BY <2>4 DEF Complete, Settle, Goto
    <2>5. CASE Fail(u)
      BY <2>5 DEF Fail, Settle, Goto
    <2>6. QED
      BY <1>1, <2>1, <2>2, <2>3, <2>4, <2>5 DEF TickStep
  <1>2. faults' # 0 \/ ~(Crash \/ \E u \in Ticks : CompleteThrows(u) \/ Abort(u))
    BY DEF Crash, CompleteThrows, Abort, Fault
  <1>3. CASE UNCHANGED <<pc, job, attempt>>
    BY <1>3
  <1>4. QED
    BY <1>1, <1>2, <1>3 DEF Next, OnlyRow, CreateJob, CancelJobs, RunAtReached,
       FiveMinutesPass, RecoveryInterval, vars

\* Faults are counted up only.
LEMMA FaultsGrow == ASSUME TypeOK, [Next]_vars, faults' = 0 PROVE faults = 0
  <1>1. faults \in Nat
    BY DEF TypeOK
  <1>2. ASSUME NEW t \in Ticks, TickStep(t) PROVE faults' = faults
    BY <1>2 DEF TickStep, Begin, Recover, SkipReport, ListFailures, SendReport, ListDue,
       Finish, Claim, Succeed, Throw, Complete, Fail, Settle
  <1>3. faults' = faults \/ faults' = faults + 1
    BY <1>2 DEF Next, CompleteThrows, Abort, Crash, Fault, OnlyRow, CreateJob, CancelJobs,
       RunAtReached, FiveMinutesPass, RecoveryInterval, vars
  <1>4. QED
    BY <1>1, <1>3

\* A row enters PROCESSING with the claim of a call, and the call settles it last.
LEMMA StepHeld == TypeOK /\ ProcessingIsHeld /\ [Next]_vars => ProcessingIsHeld'
  <1>. DEFINE Holds(t, j) == pc[t] \in Busy /\ job[t] = j /\ attempt[t] = row[j].attempts
  <1>. SUFFICES ASSUME TypeOK, ProcessingIsHeld, [Next]_vars, faults' = 0,
                       NEW j \in Jobs, row'[j].status = "PROCESSING"
                PROVE  \E t \in Ticks : Holds(t, j)'
    BY DEF ProcessingIsHeld
  <1>1. row[j] \in JobRow
    BY DEF TypeOK
  <1>2. CASE \E t \in Ticks : Starts(t, j)
    BY <1>2 DEF Starts, TypeOK, Busy
  <1>3. CASE row[j].status = "PROCESSING" /\ row'[j].attempts = row[j].attempts
    <2>1. PICK t \in Ticks : Holds(t, j)
      BY <1>3, FaultsGrow DEF ProcessingIsHeld
    <2>2. Continues(t)
      BY <1>1, <1>3, <2>1, BusyAfter, RowStatus
    <2>3. QED
      BY <1>3, <2>1, <2>2 DEF Continues
  <1>4. CASE row'[j] = row[j] \/ ByService(j)
    BY <1>1, <1>3, <1>4, RowStatus, RowAttempts DEF ByService
  <1>5. CASE ByClock(j)
    BY <1>1, <1>3, <1>5 DEF ByClock, JobRow
  <1>6. CASE ByAutomation(j)
    BY <1>1, <1>2, <1>3, <1>6, RowStatus, RowAttempts DEF ByAutomation, BySettling
  <1>7. QED
    BY <1>4, <1>5, <1>6, RowStep

\* Without a crash or a store error, every row in PROCESSING is held by the call that
\* made its latest attempt: only faults leave work for recoverStaleJobs.
THEOREM ProcessingRowsAreHeld == Spec => []ProcessingIsHeld
  <1>1. Init => ProcessingIsHeld
    BY DEF Init, ProcessingIsHeld, NoRow
  <1>2. QED
    BY <1>1, StepHeld, TypeCorrect, PTL DEF Spec
=============================================================================
