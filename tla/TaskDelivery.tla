---------------------------- MODULE TaskDelivery ----------------------------
(***************************************************************************)
(* One recurring task with a deadline, the jobs that carry it through its  *)
(* life (publish, deadline, next occurrence), the workers that execute     *)
(* those jobs and the requests that edit, cancel, complete or submit it    *)
(* meanwhile.                                                              *)
(*                                                                         *)
(* A task row is guarded by its version (saveTask), a job row by its       *)
(* status (ScheduledJobs), and nothing spans the two: a handler saves the  *)
(* task and then writes the ledger statement by statement, and a worker    *)
(* reads the task, sends to WhatsApp and reads the task again to record    *)
(* the receipt.  Every await is a step boundary.                           *)
(*                                                                         *)
(* Left to other modules: the assignees (here: some are or are not         *)
(* overdue, and any submission may be the last one), and the clock (a      *)
(* waiting job may be due at any moment).                                  *)
(***************************************************************************)
EXTENDS ScheduledJobs, Sequences

CONSTANTS
  Workers,     \* processDue() calls in flight, each with one claimed job at most
  Handlers,    \* requests of the Super Admin and of officials in flight
  Followed,    \* the job types whose rows are followed
  MaxVersion,  \* bound: no edit is saved beyond this version
  MaxAttempts, \* maxAttempts of the jobs createAndScheduleJob makes (5 in the code)
  MaxEvents    \* bound: requests after the creation and faults (crashes, store
               \* errors, operations slower than five minutes), taken together

ASSUME BoundsAssumption ==
  /\ MaxVersion \in Nat \ {0} /\ MaxAttempts \in Nat \ {0}
  /\ MaxEvents \in Nat
  /\ {"PUBLISH"} \subseteq Followed /\ Followed \subseteq {"PUBLISH", "DEADLINE", "RECURRENCE"}

JobTypes == {"PUBLISH", "DEADLINE", "RECURRENCE"}

\* task:<id>:v<version>:<type>
JobKeys == (1..MaxVersion) \X JobTypes

TaskStatus == {"SCHEDULED", "ACTIVE", "SUBMITTED", "OVERDUE", "COMPLETED", "CANCELLED"}
Task == [status : TaskStatus \cup {"NONE"}, version : Nat, published : BOOLEAN]

VARIABLES
  task,        \* the row of the task; published: it has a publishedMessageId
  row,         \* the jobs of the task: [JobKeys -> JobRow]
  wpc, wkey, wtask, \* workers: where, the claimed job, the task as last read
  hpc, hreq, htask, hroutine, \* handlers: where, what, the task as last read
                              \* or saved, and whether a recurrence job was found
  todo,        \* handlers: the ledger statements still to be executed
  requests,    \* how many requests there have been
  sent,        \* history: assignments posted to the group, counted up to 2
  occurrences, \* history: next occurrences created, counted up to 2
  edited,      \* history: an update was saved
  overlap,     \* history: two handlers have scheduled jobs at the same time
  faults       \* history: faults so far

workerVars == <<wpc, wkey, wtask>>
handlerVars == <<hpc, hreq, htask, hroutine, todo, requests>>
history == <<sent, occurrences, edited, overlap, faults>>
vars == <<task, row, workerVars, handlerVars, history>>

UpTo2(n) == IF n > 2 THEN 2 ELSE n

NoTask == [status |-> "NONE", version |-> 0, published |-> FALSE]
NoKey == <<0, "NONE">>

WorkerStates ==
  {"idle", "publish", "sending", "receipt", "saveReceipt", "deadline", "saveOverdue",
   "recur", "recurJobs", "completing", "failRetry", "failFinal"}
HandlerStates == {"idle", "list", "save", "ledger"}
Requests == {"create", "update", "cancel", "complete", "submit"}
Statements == {"cancelJobs", "cancelJobsButRoutine"} \cup JobTypes

TypeOK ==
  /\ task \in Task
  /\ row \in [JobKeys -> JobRow]
  /\ wpc \in [Workers -> WorkerStates]
  /\ wkey \in [Workers -> JobKeys \cup {NoKey}]
  /\ wtask \in [Workers -> Task]
  /\ \A w \in Workers : wpc[w] = "idle" <=> wkey[w] = NoKey
  /\ hpc \in [Handlers -> HandlerStates]
  /\ hreq \in [Handlers -> Requests]
  /\ htask \in [Handlers -> Task]
  /\ hroutine \in [Handlers -> BOOLEAN]
  /\ todo \in [Handlers -> Seq(Statements)]
  /\ \A h \in Handlers : hpc[h] = "ledger" <=> todo[h] # <<>>
  /\ requests \in 0..MaxEvents
  /\ sent \in 0..2 /\ occurrences \in 0..2 /\ edited \in BOOLEAN
  /\ overlap \in BOOLEAN /\ faults \in 0..MaxEvents

Init ==
  /\ task = NoTask
  /\ row = [k \in JobKeys |-> NoRow(MaxAttempts)]
  /\ wpc = [w \in Workers |-> "idle"]
  /\ wkey = [w \in Workers |-> NoKey]
  /\ wtask = [w \in Workers |-> NoTask]
  /\ hpc = [h \in Handlers |-> "idle"]
  /\ hreq = [h \in Handlers |-> "create"]
  /\ htask = [h \in Handlers |-> NoTask]
  /\ hroutine = [h \in Handlers |-> FALSE]
  /\ todo = [h \in Handlers |-> <<>>]
  /\ requests = 0
  /\ sent = 0 /\ occurrences = 0 /\ edited = FALSE
  /\ overlap = FALSE /\ faults = 0

-----------------------------------------------------------------------------
(* The store.                                                              *)

\* saveTask without its version check.
CanSaveAlways(expected) == TRUE

\* UPDATE tasks ... version=version+1 WHERE id=... AND version=expected
CanSave(expected) == task.version = expected

SaveTask(expected, next) == task' = [next EXCEPT !.version = expected + 1]

CancelAll(keep) ==
  row' = [k \in JobKeys |-> IF k[2] \in keep THEN row[k] ELSE Cancelled(row[k])]

CreateJob(key) == row' = [row EXCEPT ![key] = Created(@, FALSE)]

-----------------------------------------------------------------------------
(* The requests (TaskService).                                             *)

\* scheduleLifecycle: a task without a deadline has its publish job only.  Reminders
\* are left out (the offsets are [0], which makes none).
Lifecycle == IF "DEADLINE" \in Followed THEN <<"PUBLISH", "DEADLINE">> ELSE <<"PUBLISH">>
Routine == <<"RECURRENCE">>

\* The request is answered, and what it held is gone.
Answer(h) ==
  /\ hpc' = [hpc EXCEPT ![h] = "idle"]
  /\ hreq' = [hreq EXCEPT ![h] = "create"]
  /\ htask' = [htask EXCEPT ![h] = NoTask]
  /\ hroutine' = [hroutine EXCEPT ![h] = FALSE]
  /\ todo' = [todo EXCEPT ![h] = <<>>]

Scheduling(h) == hpc[h] # "idle" /\ hreq[h] \in {"create", "update"}

NoteOverlap(h) ==
  overlap' = (overlap \/ \E g \in Handlers \ {h} : Scheduling(g))

\* create: the task is inserted, then its jobs one by one.
Create(h) ==
  /\ task.status = "NONE"
  /\ task' = [status |-> "SCHEDULED", version |-> 1, published |-> FALSE]
  /\ hpc' = [hpc EXCEPT ![h] = "ledger"]
  /\ hreq' = [hreq EXCEPT ![h] = "create"]
  /\ htask' = [htask EXCEPT ![h] = task']
  /\ todo' = [todo EXCEPT ![h] =
       Lifecycle \o (IF "RECURRENCE" \in Followed THEN Routine ELSE <<>>)]
  /\ UNCHANGED <<row, workerVars, hroutine, requests, history>>

\* getTask.  The version the request carries was read by the client before, so a request
\* whose version is not the one found here fails at the save.
Ask(h, req, step) ==
  /\ hpc[h] = "idle" /\ requests + faults < MaxEvents
  /\ task.status # "NONE"
  /\ requests' = requests + 1
  /\ hreq' = [hreq EXCEPT ![h] = req]
  /\ htask' = [htask EXCEPT ![h] = task]
  /\ hpc' = [hpc EXCEPT ![h] = step]
  /\ UNCHANGED <<task, row, workerVars, hroutine, todo, sent, occurrences, edited, faults>>

Update(h) ==
  /\ task.status \notin {"CANCELLED", "COMPLETED"}
  /\ Ask(h, "update", "list")
  /\ NoteOverlap(h)

\* A task already cancelled is answered as it is.
Cancel(h) ==
  /\ task.status # "CANCELLED"
  /\ Ask(h, "cancel", "save")
  /\ UNCHANGED overlap

Complete(h) ==
  /\ task.status # "CANCELLED"
  /\ Ask(h, "complete", "save")
  /\ UNCHANGED overlap

\* The submission that finds everything handed in; on a task it has read as OVERDUE it
\* saves nothing.
Submit(h) ==
  /\ task.status \notin {"CANCELLED", "OVERDUE"}
  /\ Ask(h, "submit", "save")
  /\ UNCHANGED overlap

\* update: is there a recurrence job to carry over?
FindRoutinePending(h) ==
  /\ hpc[h] = "list"
  /\ hroutine' = [hroutine EXCEPT ![h] =
       \E v \in 1..MaxVersion : row[<<v, "RECURRENCE">>].status = "PROCESSING"]
  /\ hpc' = [hpc EXCEPT ![h] = "save"]
  /\ UNCHANGED <<task, row, workerVars, hreq, htask, todo, requests, history>>

FindRoutine(h) ==
  /\ hpc[h] = "list"
  /\ hroutine' = [hroutine EXCEPT ![h] =
       \E v \in 1..MaxVersion :
         row[<<v, "RECURRENCE">>].status \in {"PENDING", "PROCESSING"}]
  /\ hpc' = [hpc EXCEPT ![h] = "save"]
  /\ UNCHANGED <<task, row, workerVars, hreq, htask, todo, requests, history>>

Saved(h) ==
  CASE hreq[h] = "update"   -> htask[h]
    [] hreq[h] = "cancel"   -> [htask[h] EXCEPT !.status = "CANCELLED"]
    [] hreq[h] = "complete" -> [htask[h] EXCEPT !.status = "COMPLETED"]
    [] hreq[h] = "submit"   -> [htask[h] EXCEPT !.status = "SUBMITTED"]

\* An update that cancels the old jobs only after it has made the new ones.
StatementsCancelLast(h) ==
  CASE hreq[h] = "update"   -> Lifecycle \o (IF hroutine[h] THEN Routine ELSE <<>>)
                                 \o <<"cancelJobs">>
    [] hreq[h] = "cancel"   -> <<"cancelJobs">>
    [] hreq[h] = "complete" -> <<"cancelJobsButRoutine">>
    [] hreq[h] = "submit"   -> <<>>

LedgerStatements(h) ==
  CASE hreq[h] = "update"   -> <<"cancelJobs">> \o Lifecycle
                                 \o (IF hroutine[h] THEN Routine ELSE <<>>)
    [] hreq[h] = "cancel"   -> <<"cancelJobs">>
    [] hreq[h] = "complete" -> <<"cancelJobsButRoutine">>
    [] hreq[h] = "submit"   -> <<>>

\* saveTask; a version conflict is answered with 409 and nothing else happens.
Save(h) ==
  /\ hpc[h] = "save"
  /\ hreq[h] = "update" => task.version < MaxVersion
  /\ IF CanSave(htask[h].version)
     THEN /\ SaveTask(htask[h].version, Saved(h))
          /\ edited' = (edited \/ hreq[h] = "update")
          /\ IF LedgerStatements(h) = <<>>
             THEN Answer(h)
             ELSE /\ htask' = [htask EXCEPT ![h] = task']
                  /\ todo' = [todo EXCEPT ![h] = LedgerStatements(h)]
                  /\ hpc' = [hpc EXCEPT ![h] = "ledger"]
                  /\ UNCHANGED <<hreq, hroutine>>
     ELSE /\ Answer(h)
          /\ UNCHANGED <<task, edited>>
  /\ UNCHANGED <<row, workerVars, requests, sent, occurrences, overlap, faults>>

\* The next ledger statement of the handler; the jobs carry the saved version.
Ledger(h) ==
  /\ hpc[h] = "ledger"
  /\ LET stmt == Head(todo[h]) IN
       CASE stmt = "cancelJobs"           -> CancelAll({})
         [] stmt = "cancelJobsButRoutine" -> CancelAll({"RECURRENCE"})
         [] OTHER                         -> CreateJob(<<htask[h].version, stmt>>)
  /\ IF Len(todo[h]) = 1
     THEN Answer(h)
     ELSE /\ todo' = [todo EXCEPT ![h] = Tail(@)]
          /\ UNCHANGED <<hpc, hreq, htask, hroutine>>
  /\ UNCHANGED <<task, workerVars, requests, history>>

-----------------------------------------------------------------------------
(* The workers (AutomationService.process and execute).                    *)

Goto(w, s) == wpc' = [wpc EXCEPT ![w] = s]

OnlyWorker == UNCHANGED <<handlerVars, edited, overlap, faults>>

Operation(k) ==
  CASE k[2] = "PUBLISH" -> "publish"
    [] k[2] = "DEADLINE" -> "deadline"
    [] k[2] = "RECURRENCE" -> "recur"

\* claimJob, of a job that has come due.
Claim(w, k) ==
  /\ wpc[w] = "idle"
  /\ row[k].status = "PENDING"
  /\ row' = [row EXCEPT ![k] = Claimed(@)]
  /\ wkey' = [wkey EXCEPT ![w] = k]
  /\ Goto(w, Operation(k))
  /\ UNCHANGED <<task, wtask, sent, occurrences>>
  /\ OnlyWorker

\* publishTask: nothing to do, or the group has been deactivated, or go on.
ReadToPublish(w) ==
  /\ wpc[w] = "publish"
  /\ IF task.status = "CANCELLED" \/ task.published
     THEN Goto(w, "completing")
     ELSE \E s \in {"sending", "failFinal"} : Goto(w, s)
  /\ UNCHANGED <<task, row, wkey, wtask, sent, occurrences>>
  /\ OnlyWorker

\* gateway.sendText; it throws when WhatsApp is disconnected.
Send(w) ==
  /\ wpc[w] = "sending"
  /\ \/ sent' = UpTo2(sent + 1) /\ Goto(w, "receipt")
     \/ UNCHANGED sent /\ Goto(w, "failRetry")
  /\ UNCHANGED <<task, row, wkey, wtask, occurrences>>
  /\ OnlyWorker

\* recordPublishReceipt: the task is read again ...
ReadForReceipt(w) ==
  /\ wpc[w] = "receipt"
  /\ IF task.status = "CANCELLED" \/ task.published
     THEN Goto(w, "completing") /\ UNCHANGED wtask
     ELSE Goto(w, "saveReceipt") /\ wtask' = [wtask EXCEPT ![w] = task]
  /\ UNCHANGED <<task, row, wkey, sent, occurrences>>
  /\ OnlyWorker

\* A receipt that is tried again after a version conflict, by sending again.
SaveReceiptRetries(w) ==
  /\ wpc[w] = "saveReceipt"
  /\ IF CanSave(wtask[w].version)
     THEN /\ SaveTask(wtask[w].version,
                      [wtask[w] EXCEPT !.status = "ACTIVE", !.published = TRUE])
          /\ \E s \in {"completing", "failRetry"} : Goto(w, s)
     ELSE UNCHANGED task /\ Goto(w, "failRetry")
  /\ wtask' = [wtask EXCEPT ![w] = NoTask]
  /\ UNCHANGED <<row, wkey, sent, occurrences>>
  /\ OnlyWorker

\* A receipt that makes the task ACTIVE and forgets the message id.
SaveReceiptNoId(w) ==
  /\ wpc[w] = "saveReceipt"
  /\ IF CanSave(wtask[w].version)
     THEN /\ SaveTask(wtask[w].version, [wtask[w] EXCEPT !.status = "ACTIVE"])
          /\ \E s \in {"completing", "failRetry"} : Goto(w, s)
     ELSE UNCHANGED task /\ Goto(w, "failFinal")
  /\ wtask' = [wtask EXCEPT ![w] = NoTask]
  /\ UNCHANGED <<row, wkey, sent, occurrences>>
  /\ OnlyWorker

\* ... and saved; a conflict is a 409, which is not retried.  notifyIfDelayed may
\* throw after the receipt has been stored.
SaveReceipt(w) ==
  /\ wpc[w] = "saveReceipt"
  /\ IF CanSave(wtask[w].version)
     THEN /\ SaveTask(wtask[w].version,
                      [wtask[w] EXCEPT !.status = "ACTIVE", !.published = TRUE])
          /\ \E s \in {"completing", "failRetry"} : Goto(w, s)
     ELSE UNCHANGED task /\ Goto(w, "failFinal")
  /\ wtask' = [wtask EXCEPT ![w] = NoTask]
  /\ UNCHANGED <<row, wkey, sent, occurrences>>
  /\ OnlyWorker

\* markOverdue: nothing to do, or some assignee has not submitted.
ReadAtDeadline(w) ==
  /\ wpc[w] = "deadline"
  /\ \/ Goto(w, "completing") /\ UNCHANGED wtask
     \/ /\ task.status \notin {"CANCELLED", "COMPLETED", "SUBMITTED"}
        /\ Goto(w, "saveOverdue") /\ wtask' = [wtask EXCEPT ![w] = task]
  /\ UNCHANGED <<task, row, wkey, sent, occurrences>>
  /\ OnlyWorker

\* The task is saved, then the reminder of the deadline is sent, which may throw.
SaveOverdue(w) ==
  /\ wpc[w] = "saveOverdue"
  /\ IF CanSave(wtask[w].version)
     THEN /\ SaveTask(wtask[w].version, [wtask[w] EXCEPT !.status = "OVERDUE"])
          /\ \E s \in {"completing", "failRetry", "failFinal"} : Goto(w, s)
     ELSE UNCHANGED task /\ Goto(w, "failFinal")
  /\ wtask' = [wtask EXCEPT ![w] = NoTask]
  /\ UNCHANGED <<row, wkey, sent, occurrences>>
  /\ OnlyWorker

\* createRecurringInstance: the next task is inserted unless its owner, group or an
\* assignee has been deactivated; its own jobs follow.
CreateOccurrence(w) ==
  /\ wpc[w] = "recur"
  /\ \/ occurrences' = UpTo2(occurrences + 1) /\ Goto(w, "recurJobs")
     \/ UNCHANGED occurrences /\ Goto(w, "failFinal")
  /\ UNCHANGED <<task, row, wkey, wtask, sent>>
  /\ OnlyWorker

ScheduleOccurrence(w) ==
  /\ wpc[w] = "recurJobs"
  /\ Goto(w, "completing")
  /\ UNCHANGED <<task, row, wkey, wtask, sent, occurrences>>
  /\ OnlyWorker

\* completeJob, or failJob in the catch block.
Settle(w) ==
  /\ \/ wpc[w] = "completing" /\ row' = [row EXCEPT ![wkey[w]] = Completed(@)]
     \/ wpc[w] = "failRetry"  /\ row' = [row EXCEPT ![wkey[w]] = Failed(@, TRUE)]
     \/ wpc[w] = "failFinal"  /\ row' = [row EXCEPT ![wkey[w]] = Failed(@, FALSE)]
  /\ wkey' = [wkey EXCEPT ![w] = NoKey]
  /\ Goto(w, "idle")
  /\ UNCHANGED <<task, wtask, sent, occurrences>>
  /\ OnlyWorker

-----------------------------------------------------------------------------
(* Faults, bounded by MaxEvents, and the recovery after them.              *)

Fault == requests + faults < MaxEvents /\ faults' = faults + 1

\* A statement of a worker throws: the operation is retried, or, when it is the
\* statement that settles the job, the row stays in PROCESSING.
WorkerStoreError(w) ==
  /\ wpc[w] # "idle" /\ Fault
  /\ IF wpc[w] \in {"failRetry", "failFinal"}
     THEN Goto(w, "idle") /\ wkey' = [wkey EXCEPT ![w] = NoKey] /\ UNCHANGED wtask
     ELSE /\ wpc[w] # "sending"
          /\ Goto(w, "failRetry") /\ UNCHANGED wkey
          /\ wtask' = [wtask EXCEPT ![w] = NoTask]
  /\ UNCHANGED <<task, row, handlerVars, sent, occurrences, edited, overlap>>

\* A statement of a handler throws: the request fails where it stands.
HandlerStoreError(h) ==
  /\ hpc[h] # "idle" /\ Fault
  /\ Answer(h)
  /\ UNCHANGED <<task, row, workerVars, requests, sent, occurrences, edited, overlap>>

Crash ==
  /\ Fault
  /\ wpc' = [w \in Workers |-> "idle"]
  /\ wkey' = [w \in Workers |-> NoKey]
  /\ wtask' = [w \in Workers |-> NoTask]
  /\ hpc' = [h \in Handlers |-> "idle"]
  /\ hreq' = [h \in Handlers |-> "create"]
  /\ htask' = [h \in Handlers |-> NoTask]
  /\ hroutine' = [h \in Handlers |-> FALSE]
  /\ todo' = [h \in Handlers |-> <<>>]
  /\ UNCHANGED <<task, row, requests, sent, occurrences, edited, overlap>>

\* recoverStaleJobs: the row has been in PROCESSING for five minutes.  With its worker
\* still alive that is a fault of its own.
RecoverStale(k) ==
  /\ row[k].status = "PROCESSING"
  /\ IF \E w \in Workers : wkey[w] = k THEN Fault ELSE faults > 0 /\ UNCHANGED faults
  /\ row' = [row EXCEPT ![k] = Recovered([@ EXCEPT !.stale = TRUE])]
  /\ UNCHANGED <<task, workerVars, handlerVars, sent, occurrences, edited, overlap>>

-----------------------------------------------------------------------------
Execute(w) ==
  \/ ReadToPublish(w) \/ Send(w) \/ ReadForReceipt(w) \/ SaveReceipt(w)
  \/ ReadAtDeadline(w) \/ SaveOverdue(w)
  \/ CreateOccurrence(w) \/ ScheduleOccurrence(w)

Next ==
  \/ \E h \in Handlers : Create(h) \/ Update(h) \/ Cancel(h) \/ Complete(h) \/ Submit(h)
  \/ \E h \in Handlers : FindRoutine(h) \/ Save(h) \/ Ledger(h)
  \/ \E w \in Workers, k \in JobKeys : Claim(w, k)
  \/ \E w \in Workers : Execute(w) \/ Settle(w) \/ WorkerStoreError(w)
  \/ \E h \in Handlers : HandlerStoreError(h)
  \/ Crash
  \/ \E k \in JobKeys : RecoverStale(k)

Spec == Init /\ [][Next]_vars

-----------------------------------------------------------------------------
(* Properties.                                                             *)

Quiet == \A h \in Handlers : hpc[h] = "idle"

\* PRD 6.1: a task "becomes ACTIVE only after a successful publish receipt is stored",
\* and a receipt is never stored for an assignment that was not sent.
ReceiptIsReal ==
  /\ task.status = "ACTIVE" => task.published
  /\ task.published => sent > 0

\* No save of a stale copy takes a stored receipt away.
ReceiptIsKept == [][task.published => task'.published]_vars

\* A cancelled task stays cancelled, whoever holds an older copy of it.
CancelledIsFinal == [][task.status = "CANCELLED" => task'.status = "CANCELLED"]_vars

\* PRD 7.1 "retries must not produce a duplicate broadcast", in the part that holds:
\* while nothing fails and nothing is edited, the assignment is posted once, although
\* the send itself is retried.
SentOnceUndisturbed == ~edited /\ faults = 0 => sent <= 1

PublisherKnown ==
  \E v \in 1..MaxVersion : row[<<v, "PUBLISH">>].status \in {"PENDING", "PROCESSING", "FAILED"}

\* A task that waits to be published has a job that will publish it, or one that has
\* failed for good and is reported, however edits, retries and receipts interleave.
ScheduledHasPublisher ==
  /\ TypeOK
  /\ faults = 0 /\ Quiet /\ task.status = "SCHEDULED" => PublisherKnown

RoutineAlive ==
  \/ occurrences > 0
  \/ \E v \in 1..MaxVersion :
       row[<<v, "RECURRENCE">>].status \in {"PENDING", "PROCESSING", "FAILED"}

\* While nothing fails and nothing is edited there is one next occurrence at most,
\* whenever the present one is completed, submitted or cancelled.
RoutineStaysSingle == ~edited /\ faults = 0 => occurrences <= 1

\* Editing or completing one occurrence leaves the routine alive (task.service.ts:375,
\* and the tests at test/mama-hope.integration.test.ts:409 and :428), provided the
\* requests that schedule jobs do not overlap; and it does not double it.
RoutineSurvives ==
  /\ faults = 0 /\ ~overlap /\ Quiet /\ task.status \notin {"NONE", "CANCELLED"} => RoutineAlive
  /\ RoutineStaysSingle
=============================================================================
