--------------------------- MODULE ScheduledJobs ---------------------------
(***************************************************************************)
(* The rows of the scheduled_jobs table and what each statement of the     *)
(* operations store does to one row.  Nothing here is a state machine: the *)
(* modules that keep a ledger (Automation, TaskDelivery) apply these       *)
(* operators to their own rows, so all of them share one reading of the    *)
(* SQL.                                                                    *)
(*                                                                         *)
(* Times are kept only as far as the statements look at them:              *)
(*   due    run_at <= now                                                  *)
(*   stale  updated_at <= now - 5 minutes (every statement sets updated_at *)
(*          to now, so each of them clears it)                             *)
(***************************************************************************)
EXTENDS Naturals

CONSTANT Driver   \* STORE_DRIVER: which of the two stores keeps the rows

ASSUME DriverAssumption == Driver \in {"postgres", "memory"}

JobStatus == {"PENDING", "PROCESSING", "SUCCEEDED", "FAILED", "CANCELLED"}

\* "NONE" stands for a job_key that no row has yet.
JobRow == [status   : JobStatus \cup {"NONE"},
           attempts : Nat,
           max      : Nat \ {0},
           due      : BOOLEAN,
           stale    : BOOLEAN]

NoRow(max) ==
  [status |-> "NONE", attempts |-> 0, max |-> max, due |-> FALSE, stale |-> FALSE]

\* createJob: ON CONFLICT (job_key) DO NOTHING, an existing row is returned as it is.
Created(row, due) ==
  IF row.status # "NONE" THEN row
  ELSE [row EXCEPT !.status = "PENDING", !.due = due]

Claimable(row) == row.status = "PENDING" /\ row.due

Claimed(row) ==
  [row EXCEPT !.status = "PROCESSING", !.attempts = @ + 1, !.stale = FALSE]

\* A plausible slip: one attempt too many.
CanRetryOffByOne(row) == row.attempts <= row.max

CanRetry(row) == row.attempts < row.max

Interrupted(row) == row.status = "PROCESSING" /\ row.stale

\* recoverStaleJobs, on one row.
Recovered(row) ==
  IF ~Interrupted(row) THEN row
  ELSE IF CanRetry(row)
       THEN [row EXCEPT !.status = "PENDING", !.due = TRUE, !.stale = FALSE]
       ELSE [row EXCEPT !.status = "FAILED", !.stale = FALSE]

\* completeJob without the "AND status='PROCESSING'" of the SQL.
CompletedUnguarded(row) ==
  [row EXCEPT !.status = "SUCCEEDED", !.stale = FALSE]

\* completeJob: only the SQL looks at the status; the in-memory store does not.
Completed(row) ==
  IF Driver = "postgres" /\ row.status # "PROCESSING" THEN row
  ELSE [row EXCEPT !.status = "SUCCEEDED", !.stale = FALSE]

\* failJob: the WHERE names the key only, whatever the row has become meanwhile.
Failed(row, retry) ==
  IF retry /\ CanRetry(row)
  THEN [row EXCEPT !.status = "PENDING", !.due = FALSE, !.stale = FALSE]
  ELSE [row EXCEPT !.status = "FAILED", !.stale = FALSE]

\* cancelJobsForEntity, on a row it selects.
Cancelled(row) ==
  IF row.status \in {"PENDING", "PROCESSING"}
  THEN [row EXCEPT !.status = "CANCELLED", !.stale = FALSE]
  ELSE row

\* The clock reaches run_at, and the staleness horizon.
FallsDue(row) == row.status = "PENDING" /\ ~row.due
GoesStale(row) == row.status = "PROCESSING" /\ ~row.stale
=============================================================================
