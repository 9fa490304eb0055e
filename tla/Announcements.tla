---------------------------- MODULE Announcements ----------------------------
(***************************************************************************)
(* One announcement, its publish jobs (one per version that scheduled it), *)
(* the workers that execute them and the requests that edit or cancel it   *)
(* meanwhile (AnnouncementService, AutomationService.publishAnnouncement,  *)
(* and the catch block of AutomationService.process, which marks the       *)
(* announcement FAILED when its job has been given up).                    *)
(*                                                                         *)
(* As for tasks, the announcement is saved at the version read, the job    *)
(* row by the statements of ScheduledJobs, and every await is a step       *)
(* boundary.  The endpoint that publishes at once is an update followed by *)
(* a processDue of its own.  A job that waits may be due at any moment.    *)
(***************************************************************************)
EXTENDS ScheduledJobs

CONSTANTS
  Workers,     \* processDue() calls in flight, each with one claimed job at most
  Handlers,    \* requests of the Super Admin in flight
  MaxVersion,  \* bound: no edit is saved beyond this version
  MaxAttempts, \* maxAttempts of the jobs schedulePublish makes (5 in the code)
  MaxEvents    \* bound: requests after the creation and faults, taken together

ASSUME BoundsAssumption ==
  MaxVersion \in Nat \ {0} /\ MaxAttempts \in Nat \ {0} /\ MaxEvents \in Nat

Versions == 1..MaxVersion

Status == {"SCHEDULED", "PUBLISHED", "FAILED", "CANCELLED"}
Announcement == [status : Status \cup {"NONE"}, version : Nat, receipt : BOOLEAN]

VARIABLES
  ann,      \* the row of the announcement; receipt: it has a publishedMessageId
  expired,  \* its expiresAt has passed
  row,      \* its publish jobs: announcement:<id>:v<version>:ANNOUNCEMENT_PUBLISH
  wpc, wjob, wann,       \* workers: where, version in the claimed job's key (0: none), copy
  hpc, hreq, hann,       \* handlers: where, what, the announcement as read or as saved
  requests,
  posted,   \* history: how often it went out to the group, counted up to 2
  edited,   \* history: an update was saved
  lost,     \* history: a request was cut short by a fault, or a job was given up
            \* without the announcement being marked
  faults    \* history: faults so far

workerVars == <<wpc, wjob, wann>>
handlerVars == <<hpc, hreq, hann, requests>>
history == <<posted, edited, lost, faults>>
vars == <<ann, expired, row, workerVars, handlerVars, history>>

UpTo2(n) == IF n > 2 THEN 2 ELSE n

NoAnn == [status |-> "NONE", version |-> 0, receipt |-> FALSE]

Marking == {"look", "mark", "saveMark"}   \* the end of the catch block of process()
WorkerStates ==
  {"idle", "publish", "saveExpired", "sending", "receipt", "saveReceipt",
   "completing", "failRetry", "failFinal"} \cup Marking
HandlerStates == {"idle", "save", "cancelJobs", "schedule"}

TypeOK ==
  /\ ann \in Announcement
  /\ expired \in BOOLEAN
  /\ row \in [Versions -> JobRow]
  /\ wpc \in [Workers -> WorkerStates]
  /\ wjob \in [Workers -> Versions \cup {0}]
  /\ wann \in [Workers -> Announcement]
  /\ \A w \in Workers : wpc[w] = "idle" <=> wjob[w] = 0
  /\ hpc \in [Handlers -> HandlerStates]
  /\ hreq \in [Handlers -> {"create", "update", "cancel"}]
  /\ hann \in [Handlers -> Announcement]
  /\ requests \in 0..MaxEvents
  /\ posted \in 0..2 /\ edited \in BOOLEAN
  /\ lost \in BOOLEAN /\ faults \in 0..MaxEvents

Init ==
  /\ ann = NoAnn
  /\ expired = FALSE
  /\ row = [v \in Versions |-> NoRow(MaxAttempts)]
  /\ wpc = [w \in Workers |-> "idle"]
  /\ wjob = [w \in Workers |-> 0]
  /\ wann = [w \in Workers |-> NoAnn]
  /\ hpc = [h \in Handlers |-> "idle"]
  /\ hreq = [h \in Handlers |-> "create"]
  /\ hann = [h \in Handlers |-> NoAnn]
  /\ requests = 0
  /\ posted = 0 /\ edited = FALSE /\ lost = FALSE /\ faults = 0

-----------------------------------------------------------------------------
(* The store: UPDATE announcements ... WHERE id=... AND version=expected.  *)

\* saveAnnouncement without its version check.
CanSaveAlways(copy) == TRUE

CanSave(copy) == ann.version = copy.version

\* The copy is saved with a new status.
SaveAs(copy, status) == ann' = [copy EXCEPT !.status = status, !.version = @ + 1]

-----------------------------------------------------------------------------
(* The requests (AnnouncementService).                                     *)

Answer(h) ==
  /\ hpc' = [hpc EXCEPT ![h] = "idle"]
  /\ hreq' = [hreq EXCEPT ![h] = "create"]
  /\ hann' = [hann EXCEPT ![h] = NoAnn]

\* create: the announcement is inserted, its job afterwards.
Create(h) ==
  /\ ann.status = "NONE"
  /\ ann' = [status |-> "SCHEDULED", version |-> 1, receipt |-> FALSE]
  /\ hpc' = [hpc EXCEPT ![h] = "schedule"]
  /\ hann' = [hann EXCEPT ![h] = ann']
  /\ UNCHANGED <<expired, row, workerVars, hreq, requests, history>>

Ask(h, req) ==
  /\ hpc[h] = "idle" /\ requests + faults < MaxEvents
  /\ requests' = requests + 1
  /\ hpc' = [hpc EXCEPT ![h] = "save"]
  /\ hreq' = [hreq EXCEPT ![h] = req]
  /\ hann' = [hann EXCEPT ![h] = ann]
  /\ UNCHANGED <<ann, expired, row, workerVars, history>>

\* update, of one that is neither PUBLISHED nor CANCELLED, to a time that is not past.
Update(h) ==
  /\ ann.status \in {"SCHEDULED", "FAILED"}
  /\ ann.version < MaxVersion
  /\ Ask(h, "update")

\* cancel refuses nothing but a published one.
Cancel(h) ==
  /\ ann.status \in {"SCHEDULED", "FAILED", "CANCELLED"}
  /\ Ask(h, "cancel")

\* saveAnnouncement: an update keeps the status, also FAILED, and its expiry has been
\* checked to lie ahead.  A conflict is answered with 409.
Save(h) ==
  /\ hpc[h] = "save"
  /\ IF CanSave(hann[h])
     THEN /\ IF hreq[h] = "update"
             THEN SaveAs(hann[h], hann[h].status) /\ expired' = FALSE /\ edited' = TRUE
             ELSE SaveAs(hann[h], "CANCELLED") /\ UNCHANGED <<expired, edited>>
          /\ hann' = [hann EXCEPT ![h] = ann']
          /\ hpc' = [hpc EXCEPT ![h] = "cancelJobs"]
          /\ UNCHANGED hreq
     ELSE Answer(h) /\ UNCHANGED <<ann, expired, edited>>
  /\ UNCHANGED <<row, workerVars, requests, posted, lost, faults>>

CancelJobs(h) ==
  /\ hpc[h] = "cancelJobs"
  /\ row' = [v \in Versions |-> Cancelled(row[v])]
  /\ IF hreq[h] = "update"
     THEN hpc' = [hpc EXCEPT ![h] = "schedule"] /\ UNCHANGED <<hreq, hann>>
     ELSE Answer(h)
  /\ UNCHANGED <<ann, expired, workerVars, requests, history>>

\* schedulePublish, under the version just saved.
SchedulePublish(h) ==
  /\ hpc[h] = "schedule"
  /\ row' = [row EXCEPT ![hann[h].version] = Created(@, FALSE)]
  /\ Answer(h)
  /\ UNCHANGED <<ann, expired, workerVars, requests, history>>

-----------------------------------------------------------------------------
(* The workers (AutomationService).                                        *)

Goto(w, s) == wpc' = [wpc EXCEPT ![w] = s]

Drop(w) ==
  /\ Goto(w, "idle")
  /\ wjob' = [wjob EXCEPT ![w] = 0]
  /\ wann' = [wann EXCEPT ![w] = NoAnn]

Forget(w) == wann' = [wann EXCEPT ![w] = NoAnn] /\ UNCHANGED wjob

OnlyWorker == UNCHANGED <<expired, handlerVars, edited, lost, faults>>

\* claimJob, of a job that has come due.
Claim(w, v) ==
  /\ wpc[w] = "idle" /\ row[v].status = "PENDING"
  /\ row' = [row EXCEPT ![v] = Claimed(@)]
  /\ wjob' = [wjob EXCEPT ![w] = v]
  /\ Goto(w, "publish")
  /\ UNCHANGED <<ann, wann, posted>>
  /\ OnlyWorker

\* publishAnnouncement without its look at publishedMessageId.
ReadToPublishAgain(w) ==
  /\ wpc[w] = "publish"
  /\ IF ann.status = "CANCELLED" THEN Goto(w, "completing") ELSE Goto(w, "sending")
  /\ UNCHANGED <<ann, row, wjob, wann, posted>>
  /\ OnlyWorker

\* publishAnnouncement reads the announcement.  Then come the group, the mentions and
\* the media, which may not be available now, or not at all.
ReadToPublish(w) ==
  /\ wpc[w] = "publish"
  /\ IF ann.status = "CANCELLED" \/ ann.receipt
     THEN Goto(w, "completing") /\ UNCHANGED wann
     ELSE IF expired
     THEN Goto(w, "saveExpired") /\ wann' = [wann EXCEPT ![w] = ann]
     ELSE /\ \E s \in {"sending", "failRetry", "failFinal"} : Goto(w, s)
          /\ UNCHANGED wann
  /\ UNCHANGED <<ann, row, wjob, posted>>
  /\ OnlyWorker

SaveExpired(w) ==
  /\ wpc[w] = "saveExpired"
  /\ IF CanSave(wann[w])
     THEN SaveAs(wann[w], "FAILED") /\ Goto(w, "completing")
     ELSE UNCHANGED ann /\ Goto(w, "failFinal")
  /\ Forget(w)
  /\ UNCHANGED <<row, posted>>
  /\ OnlyWorker

\* gateway.sendText; it throws when WhatsApp is disconnected.
Send(w) ==
  /\ wpc[w] = "sending"
  /\ \/ posted' = UpTo2(posted + 1) /\ Goto(w, "receipt")
     \/ UNCHANGED posted /\ Goto(w, "failRetry")
  /\ UNCHANGED <<ann, row, wjob, wann>>
  /\ OnlyWorker

\* recordPublishReceipt.
ReadForReceipt(w) ==
  /\ wpc[w] = "receipt"
  /\ IF ann.status = "CANCELLED" \/ ann.receipt
     THEN Goto(w, "completing") /\ UNCHANGED wann
     ELSE Goto(w, "saveReceipt") /\ wann' = [wann EXCEPT ![w] = ann]
  /\ UNCHANGED <<ann, row, wjob, posted>>
  /\ OnlyWorker

\* The receipt is saved; then notifyIfDelayed may throw.
SaveReceipt(w) ==
  /\ wpc[w] = "saveReceipt"
  /\ IF CanSave(wann[w])
     THEN /\ SaveAs([wann[w] EXCEPT !.receipt = TRUE], "PUBLISHED")
          /\ \E s \in {"completing", "failRetry"} : Goto(w, s)
     ELSE UNCHANGED ann /\ Goto(w, "failFinal")
  /\ Forget(w)
  /\ UNCHANGED <<row, posted>>
  /\ OnlyWorker

Complete(w) ==
  /\ wpc[w] = "completing"
  /\ row' = [row EXCEPT ![wjob[w]] = Completed(@)]
  /\ Drop(w)
  /\ UNCHANGED <<ann, posted>>
  /\ OnlyWorker

\* The catch block: failJob, then getJobByKey ...
Fail(w) ==
  /\ wpc[w] \in {"failRetry", "failFinal"}
  /\ row' = [row EXCEPT ![wjob[w]] = Failed(@, wpc[w] = "failRetry")]
  /\ Goto(w, "look")
  /\ UNCHANGED <<ann, wjob, wann, posted>>
  /\ OnlyWorker

\* A catch block that takes every failure for one to be retried.
LookNever(w) ==
  /\ wpc[w] = "look"
  /\ Drop(w)
  /\ UNCHANGED <<ann, row, posted>>
  /\ OnlyWorker

LookAtJob(w) ==
  /\ wpc[w] = "look"
  /\ IF row[wjob[w]].status = "FAILED"
     THEN Goto(w, "mark") /\ UNCHANGED <<wjob, wann>>
     ELSE Drop(w)
  /\ UNCHANGED <<ann, row, posted>>
  /\ OnlyWorker

\* ... and, when the job has been given up, getAnnouncement ...
ReadToMark(w) ==
  /\ wpc[w] = "mark"
  /\ IF ann.status = "SCHEDULED"
     THEN Goto(w, "saveMark") /\ wann' = [wann EXCEPT ![w] = ann] /\ UNCHANGED wjob
     ELSE Drop(w)
  /\ UNCHANGED <<ann, row, posted>>
  /\ OnlyWorker

\* ... and saveAnnouncement; a conflict goes to the caller of processDue.
SaveMark(w) ==
  /\ wpc[w] = "saveMark"
  /\ IF CanSave(wann[w]) THEN SaveAs(wann[w], "FAILED") ELSE UNCHANGED ann
  /\ Drop(w)
  /\ UNCHANGED <<row, posted>>
  /\ OnlyWorker

-----------------------------------------------------------------------------
(* Time and faults.                                                        *)

Expire ==
  /\ ann.status # "NONE" /\ ~expired
  /\ expired' = TRUE
  /\ UNCHANGED <<ann, row, workerVars, handlerVars, history>>

Fault == requests + faults < MaxEvents /\ faults' = faults + 1

\* A statement of a worker throws.  In the catch block that ends the call: the row
\* stays in PROCESSING, or the announcement is not marked.
WorkerStoreError(w) ==
  /\ wpc[w] \notin {"idle", "sending"} /\ Fault
  /\ lost' = (lost \/ wpc[w] \in Marking)
  /\ IF wpc[w] \in Marking \cup {"failRetry", "failFinal"}
     THEN Drop(w)
     ELSE Goto(w, "failRetry") /\ Forget(w)
  /\ UNCHANGED <<ann, expired, row, handlerVars, posted, edited>>

HandlerStoreError(h) ==
  /\ hpc[h] # "idle" /\ Fault
  /\ lost' = TRUE
  /\ Answer(h)
  /\ UNCHANGED <<ann, expired, row, workerVars, requests, posted, edited>>

Crash ==
  /\ Fault
  /\ lost' = (lost \/ (\E h \in Handlers : hpc[h] # "idle")
                   \/ (\E w \in Workers : wpc[w] \in Marking))
  /\ wpc' = [w \in Workers |-> "idle"]
  /\ wjob' = [w \in Workers |-> 0]
  /\ wann' = [w \in Workers |-> NoAnn]
  /\ hpc' = [h \in Handlers |-> "idle"]
  /\ hreq' = [h \in Handlers |-> "create"]
  /\ hann' = [h \in Handlers |-> NoAnn]
  /\ UNCHANGED <<ann, expired, row, requests, posted, edited>>

\* recoverStaleJobs gives a job up without looking at the announcement.
RecoverRow(v) ==
  /\ row' = [row EXCEPT ![v] = Recovered([@ EXCEPT !.stale = TRUE])]
  /\ lost' = (lost \/ ~CanRetry(row[v]))
  /\ UNCHANGED <<ann, expired, workerVars, handlerVars, posted, edited>>

\* A row in PROCESSING whose worker is gone, and one whose worker takes longer than
\* five minutes, which is a fault of its own.
Recover(v) ==
  /\ row[v].status = "PROCESSING" /\ \A w \in Workers : wjob[w] # v
  /\ RecoverRow(v)
  /\ UNCHANGED faults

RecoverSlow(v) ==
  /\ row[v].status = "PROCESSING" /\ \E w \in Workers : wjob[w] = v
  /\ RecoverRow(v)
  /\ Fault

-----------------------------------------------------------------------------
Work(w) ==
  \/ ReadToPublish(w) \/ SaveExpired(w) \/ Send(w) \/ ReadForReceipt(w) \/ SaveReceipt(w)
  \/ Complete(w) \/ Fail(w) \/ LookAtJob(w) \/ ReadToMark(w) \/ SaveMark(w)

Handle(h) == Save(h) \/ CancelJobs(h) \/ SchedulePublish(h)

Next ==
  \/ \E h \in Handlers : Create(h) \/ Update(h) \/ Cancel(h) \/ Handle(h)
  \/ \E w \in Workers, v \in Versions : Claim(w, v)
  \/ \E w \in Workers : Work(w) \/ WorkerStoreError(w)
  \/ \E h \in Handlers : HandlerStoreError(h)
  \/ \E v \in Versions : Recover(v) \/ RecoverSlow(v)
  \/ Expire \/ Crash

\* The loop polls every second and recovers every minute; what a call awaits returns
\* or throws.  Requests and faults need not happen.
Fairness ==
  /\ \A h \in Handlers : WF_vars(Handle(h))
  /\ \A w \in Workers : WF_vars(Work(w))
  /\ WF_vars(\E w \in Workers, v \in Versions : Claim(w, v))
  /\ \A v \in Versions : WF_vars(Recover(v))

Spec == Init /\ [][Next]_vars
FairSpec == Spec /\ Fairness

-----------------------------------------------------------------------------
(* Properties.                                                             *)

Lifecycle == INSTANCE AnnouncementLifecycle
               WITH status <- ann.status, receipt <- ann.receipt, posted <- posted > 0

\* PRD 6.2, as the code realises it: however requests, workers, retries and faults
\* interleave, PUBLISHED means posted and recorded, and a cancelled or published
\* announcement stays what it is.
LifecycleSpec == Lifecycle!Spec

\* While nothing fails and nothing is edited the announcement goes out at most once,
\* although its sending is retried (PRD 12.3).
PostedOnceUndisturbed == ~edited /\ faults = 0 => posted <= 1

\* No announcement stays SCHEDULED for ever: it is published, or marked failed or
\* cancelled - across retries, edits, lost workers and crashes, except for a request
\* that was cut short and a job the recovery gave up.
AnnouncementSettles == ann.status = "SCHEDULED" ~> ann.status # "SCHEDULED" \/ lost
=============================================================================
