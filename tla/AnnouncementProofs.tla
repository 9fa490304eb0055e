------------------------- MODULE AnnouncementProofs -------------------------
(***************************************************************************)
(* Announcements implements AnnouncementLifecycle, for any number of       *)
(* workers, requests, versions, attempts and faults.                       *)
(*                                                                         *)
(* The argument is the one optimistic locking rests on: a copy that        *)
(* carries the version of the row is the row (CopyInv), so what a step     *)
(* knew of the announcement when it read it still holds when it saves it.  *)
(* Whether a post went out and what a step knew when it read the           *)
(* announcement is WorkerInv and HandlerInv.                               *)
(*                                                                         *)
(* That it is posted once needs the ledger too: as long as no fault and no *)
(* edit interferes there is one publish job, held by one worker            *)
(* (UndisturbedInv).                                                       *)
(***************************************************************************)
EXTENDS Announcements, TLAPS

-----------------------------------------------------------------------------
(* What each statement of the store does to the row of a job.              *)

\* Every statement of the store returns a row.
LEMMA RowTyping ==
  ASSUME NEW r \in JobRow
  PROVE  /\ \A due \in BOOLEAN : Created(r, due) \in JobRow
         /\ Claimed(r) \in JobRow
         /\ Recovered(r) \in JobRow
         /\ Completed(r) \in JobRow
         /\ \A retry \in BOOLEAN : Failed(r, retry) \in JobRow
         /\ Cancelled(r) \in JobRow
  <1>1. \A due \in BOOLEAN : Created(r, due) \in JobRow
    BY DEF JobRow, JobStatus, Created
  <1>2. Claimed(r) \in JobRow
    <2>1. r.attempts + 1 \in Nat
      BY DEF JobRow
    <2>2. QED
      BY <2>1, Zenon DEF JobRow, JobStatus, Claimed
  <1>3. Recovered(r) \in JobRow
    BY DEF JobRow, JobStatus, Recovered
  <1>4. Completed(r) \in JobRow
    BY DEF JobRow, JobStatus, Completed
  <1>5. \A retry \in BOOLEAN : Failed(r, retry) \in JobRow
    BY DEF JobRow, JobStatus, Failed
  <1>6. Cancelled(r) \in JobRow
    BY DEF JobRow, JobStatus, Cancelled
  <1>7. QED
    BY <1>1, <1>2, <1>3, <1>4, <1>5, <1>6

\* Where the status of a row can go, statement by statement.
LEMMA RowStatus ==
  ASSUME NEW r \in JobRow
  PROVE  /\ \A due \in BOOLEAN : Created(r, due).status \in {r.status, "PENDING"}
         /\ Claimed(r).status = "PROCESSING"
         /\ Recovered(r).status = r.status
              \/ /\ r.status = "PROCESSING"
                 /\ Recovered(r).status = (IF CanRetry(r) THEN "PENDING" ELSE "FAILED")
         /\ Completed(r).status \in {r.status, "SUCCEEDED"}
         /\ Driver = "postgres" /\ r.status # "PROCESSING" => Completed(r).status = r.status
         /\ r.status = "PROCESSING" => Completed(r).status = "SUCCEEDED"
         /\ \A retry \in BOOLEAN : Failed(r, retry).status =
              (IF retry /\ CanRetry(r) THEN "PENDING" ELSE "FAILED")
         /\ Cancelled(r).status \in {r.status, "CANCELLED"}
  BY DEF JobRow, Created, Claimed, Recovered, Completed, Failed, Cancelled, Interrupted

\* A cancelled row was waiting or being worked on; every other row is left as it is.
LEMMA CancelledStatus ==
  ASSUME NEW r \in JobRow
  PROVE  /\ r.status \in {"PENDING", "PROCESSING"} => Cancelled(r).status = "CANCELLED"
         /\ r.status \notin {"PENDING", "PROCESSING"} => Cancelled(r) = r
  BY DEF JobRow, Cancelled

-----------------------------------------------------------------------------
(* Optimistic locking.                                                     *)

\* A copy is older than the row, or it is the row.
IsCopy(c) == c.version <= ann.version /\ (c.version = ann.version => c = ann)

CopyInv == (\A w \in Workers : IsCopy(wann[w])) /\ (\A h \in Handlers : IsCopy(hann[h]))

\* Before the announcement is created nothing exists that could touch it.
BlankInv ==
  /\ ann.version = 0 => ann = NoAnn
  /\ ann.status = "NONE" =>
       /\ ann.version = 0
       /\ \A v \in Versions : row[v].status = "NONE"
       /\ \A w \in Workers : wpc[w] = "idle"
       /\ \A h \in Handlers : hpc[h] = "idle"

ReceiptInv ==
  /\ ann.status = "PUBLISHED" <=> ann.receipt
  /\ ann.receipt => posted > 0

WorkerInv ==
  \A w \in Workers :
    /\ wpc[w] \in {"saveExpired", "saveReceipt"} => wann[w].status \in {"SCHEDULED", "FAILED"}
    /\ wpc[w] = "saveMark" => wann[w].status = "SCHEDULED"
    /\ wpc[w] \in {"receipt", "saveReceipt"} => posted > 0

HandlerInv ==
  \A h \in Handlers :
    hpc[h] = "save" =>
      \/ hreq[h] = "update" /\ hann[h].status \in {"SCHEDULED", "FAILED"}
      \/ hreq[h] = "cancel" /\ hann[h].status \in {"SCHEDULED", "FAILED", "CANCELLED"}

Inv == TypeOK /\ CopyInv /\ BlankInv /\ ReceiptInv /\ WorkerInv /\ HandlerInv

-----------------------------------------------------------------------------
(* Type correctness.                                                       *)

\* There is no announcement at the start, and nobody works.
LEMMA InitType == Init => TypeOK
  <1>. SUFFICES ASSUME Init PROVE TypeOK
    OBVIOUS
  <1>1. NoRow(MaxAttempts) \in JobRow
    BY BoundsAssumption DEF NoRow, JobRow
  <1>2. NoAnn \in Announcement
    BY DEF NoAnn, Announcement
  <1>3. 0 \in 0..MaxEvents /\ 0 \in 0..2
    BY BoundsAssumption
  <1>4. QED
    BY <1>1, <1>2, <1>3 DEF Init, TypeOK, WorkerStates, HandlerStates

\* What saveAnnouncement leaves in the row.
LEMMA SavedRow ==
  ASSUME NEW c \in Announcement, NEW status \in Status \cup {"NONE"}, SaveAs(c, status)
  PROVE  /\ ann' \in Announcement
         /\ ann'.version = c.version + 1
         /\ ann'.status = status /\ ann'.receipt = c.receipt
  <1>1. c.version + 1 \in Nat
    BY DEF Announcement
  <1>2. QED
    BY <1>1 DEF Announcement, SaveAs

\* A copy that is given the message id.
LEMMA WithReceipt ==
  ASSUME NEW c \in Announcement
  PROVE  /\ [c EXCEPT !.receipt = TRUE] \in Announcement
         /\ [c EXCEPT !.receipt = TRUE].version = c.version
         /\ [c EXCEPT !.receipt = TRUE].receipt = TRUE
  BY DEF Announcement

LEMMA NoAnnTyping == NoAnn \in Announcement
  BY DEF NoAnn, Announcement

\* The steps of a request keep the types.
LEMMA HandlerType ==
  ASSUME TypeOK, NEW h \in Handlers, Create(h) \/ Update(h) \/ Cancel(h) \/ Handle(h)
  PROVE  TypeOK'
  <1>. USE NoAnnTyping DEF TypeOK, HandlerStates
  <1>1. CASE Create(h)
    <2>1. ann' \in Announcement
      BY <1>1 DEF Create, Announcement, Status
    <2>2. QED
      BY <1>1, <2>1 DEF Create, workerVars, history
  <1>2. CASE Update(h) \/ Cancel(h)
    <2>1. requests' \in 0..MaxEvents
      BY <1>2, BoundsAssumption DEF Update, Cancel, Ask
    <2>2. QED
      BY <1>2, <2>1 DEF Update, Cancel, Ask, workerVars, history
  <1>3. CASE Save(h)
    <2>1. ann' \in Announcement
      <3>1. CASE CanSave(hann[h])
        <4>1. /\ hann[h] \in Announcement /\ hann[h].status \in Status \cup {"NONE"}
              /\ "CANCELLED" \in Status
          BY DEF Announcement, Status
        <4>2. SaveAs(hann[h], "CANCELLED") \/ SaveAs(hann[h], hann[h].status)
          BY <1>3, <3>1 DEF Save
        <4>3. QED
          BY <4>1, <4>2, SavedRow
      <3>2. CASE ~CanSave(hann[h])
        BY <1>3, <3>2 DEF Save
      <3>3. QED
        BY <3>1, <3>2
    <2>2. QED
      BY <1>3, <2>1 DEF Save, Answer, workerVars
  <1>4. CASE CancelJobs(h)
    BY <1>4, RowTyping DEF CancelJobs, Answer, workerVars, history
  <1>5. CASE SchedulePublish(h)
    BY <1>5, RowTyping DEF SchedulePublish, Answer, workerVars, history
  <1>6. QED
    BY <1>1, <1>2, <1>3, <1>4, <1>5 DEF Handle

\* The steps of a worker keep the types.
LEMMA WorkerType ==
  ASSUME TypeOK, NEW w \in Workers, Work(w) \/ \E v \in Versions : Claim(w, v)
  PROVE  TypeOK'
  <1>. USE NoAnnTyping DEF TypeOK, WorkerStates, Marking, OnlyWorker, handlerVars, Goto
  <1>1. ASSUME NEW v \in Versions, Claim(w, v) PROVE TypeOK'
    <2>1. 0 \notin Versions
      BY BoundsAssumption DEF Versions
    <2>2. QED
      BY <1>1, <2>1, RowTyping DEF Claim
  <1>2. CASE ReadToPublish(w) \/ ReadForReceipt(w)
    BY <1>2 DEF ReadToPublish, ReadForReceipt
  <1>3. CASE SaveExpired(w) \/ SaveReceipt(w)
    <2>1. /\ "FAILED" \in Status /\ "PUBLISHED" \in Status
          /\ wann[w] \in Announcement /\ [wann[w] EXCEPT !.receipt = TRUE] \in Announcement
      BY WithReceipt DEF Status
    <2>2. ann' \in Announcement
      BY <1>3, <2>1, SavedRow DEF SaveExpired, SaveReceipt
    <2>3. QED
      BY <1>3, <2>2 DEF SaveExpired, SaveReceipt, Forget
  <1>4. CASE Send(w)
    BY <1>4 DEF Send, UpTo2
  <1>5. CASE Complete(w)
    BY <1>5, RowTyping DEF Complete, Drop
  <1>6. CASE Fail(w)
    BY <1>6, RowTyping DEF Fail
  <1>7. CASE LookAtJob(w)
    BY <1>7 DEF LookAtJob, Drop
  <1>8. CASE ReadToMark(w)
    BY <1>8 DEF ReadToMark, Drop
  <1>9. CASE SaveMark(w)
    <2>1. "FAILED" \in Status /\ wann[w] \in Announcement
      BY DEF Status
    <2>2. ann' \in Announcement
      BY <1>9, <2>1, SavedRow DEF SaveMark
    <2>3. QED
      BY <1>9, <2>2 DEF SaveMark, Drop
  <1>10. QED
    BY <1>1, <1>2, <1>3, <1>4, <1>5, <1>6, <1>7, <1>8, <1>9 DEF Work

\* Every action keeps the types.
LEMMA StepType == TypeOK /\ [Next]_vars => TypeOK'
  <1>. SUFFICES ASSUME TypeOK, [Next]_vars PROVE TypeOK'
    OBVIOUS
  <1>. USE NoAnnTyping, BoundsAssumption
       DEF TypeOK, WorkerStates, Marking, HandlerStates, Fault, Goto
  <1>1. ASSUME NEW h \in Handlers, Create(h) \/ Update(h) \/ Cancel(h) \/ Handle(h)
        PROVE TypeOK'
    BY <1>1, HandlerType
  <1>2. ASSUME NEW w \in Workers, Work(w) \/ \E v \in Versions : Claim(w, v) PROVE TypeOK'
    BY <1>2, WorkerType
  <1>3. ASSUME NEW w \in Workers, WorkerStoreError(w) PROVE TypeOK'
    BY <1>3 DEF WorkerStoreError, Drop, Forget, handlerVars
  <1>4. ASSUME NEW h \in Handlers, HandlerStoreError(h) PROVE TypeOK'
    BY <1>4 DEF HandlerStoreError, Answer, workerVars
  <1>5. ASSUME NEW v \in Versions, Recover(v) \/ RecoverSlow(v) PROVE TypeOK'
    <2>1. [row[v] EXCEPT !.stale = TRUE] \in JobRow
      BY DEF JobRow
    <2>2. row' \in [Versions -> JobRow]
      BY <1>5, <2>1, RowTyping DEF Recover, RecoverSlow, RecoverRow
    <2>3. faults' \in 0..MaxEvents
      BY <1>5 DEF Recover, RecoverSlow
    <2>4. lost' = (lost \/ ~CanRetry(row[v]))
      BY <1>5 DEF Recover, RecoverSlow, RecoverRow
    <2>5. lost' \in BOOLEAN
      BY <2>4, Zenon
    <2>6. QED
      BY <1>5, <2>2, <2>3, <2>5 DEF Recover, RecoverSlow, RecoverRow, workerVars, handlerVars
  <1>6. CASE Expire
    BY <1>6 DEF Expire, workerVars, handlerVars, history
  <1>7. CASE Crash
    BY <1>7 DEF Crash
  <1>8. CASE UNCHANGED vars
    BY <1>8 DEF vars, workerVars, handlerVars, history
  <1>9. QED
    BY <1>1, <1>2, <1>3, <1>4, <1>5, <1>6, <1>7, <1>8 DEF Next

\* Every variable keeps its type, and a worker is idle exactly when it holds no job.
THEOREM TypeCorrect == Spec => []TypeOK
  BY InitType, StepType, PTL DEF Spec

-----------------------------------------------------------------------------
(* What a step can do to the announcement.                                 *)

Open == {"SCHEDULED", "FAILED"}

AnnChange ==
  \/ ann' = ann
  \/ ann.status = "NONE" /\ ann' = [status |-> "SCHEDULED", version |-> 1, receipt |-> FALSE]
  \/ /\ ann' \in Announcement /\ ann'.version = ann.version + 1
     /\ \/ /\ ann.status \in Open /\ ann'.status \in {ann.status, "FAILED", "CANCELLED"}
           /\ ann'.receipt = ann.receipt
        \/ /\ ann.status = "CANCELLED" /\ ann'.status = "CANCELLED"
           /\ ann'.receipt = ann.receipt
        \/ /\ ann.status \in Open /\ ann'.status = "PUBLISHED"
           /\ ann'.receipt = TRUE /\ posted > 0

PostedChange == posted' = posted \/ (ann' = ann /\ ann.status # "NONE" /\ posted' > 0)

\* Every save is made with a copy of the present row, so it starts from the status that
\* was seen when the copy was read.
LEMMA StepChange == Inv /\ [Next]_vars => AnnChange /\ PostedChange
  <1>. SUFFICES ASSUME Inv, [Next]_vars PROVE AnnChange /\ PostedChange
    OBVIOUS
  <1>0. ASSUME UNCHANGED <<ann, posted>> PROVE AnnChange /\ PostedChange
    BY <1>0 DEF AnnChange, PostedChange
  <1>1. ASSUME NEW h \in Handlers, Create(h) \/ Update(h) \/ Cancel(h)
        PROVE  AnnChange /\ PostedChange
    BY <1>1 DEF Create, Update, Cancel, Ask, history, AnnChange, PostedChange
  <1>2. ASSUME NEW h \in Handlers, Save(h) PROVE AnnChange /\ PostedChange
    <2>1. CASE CanSave(hann[h])
      <3>1. hann[h] = ann
        BY <2>1 DEF CanSave, Inv, CopyInv, IsCopy
      <3>2. /\ posted' = posted
            /\ \/ hreq[h] = "update" /\ SaveAs(ann, ann.status) /\ ann.status \in Open
               \/ hreq[h] = "cancel" /\ SaveAs(ann, "CANCELLED")
                   /\ ann.status \in Open \cup {"CANCELLED"}
        BY <1>2, <2>1, <3>1 DEF Save, Inv, HandlerInv, Open
      <3>3. ann \in Announcement /\ ann.status \in Status \cup {"NONE"} /\ "CANCELLED" \in Status
        BY DEF Inv, TypeOK, Announcement, Status
      <3>4. QED
        BY <3>2, <3>3, SavedRow DEF AnnChange, PostedChange, Open
    <2>2. CASE ~CanSave(hann[h])
      BY <1>0, <1>2, <2>2 DEF Save
    <2>3. QED
      BY <2>1, <2>2
  <1>3. ASSUME NEW h \in Handlers, CancelJobs(h) \/ SchedulePublish(h)
        PROVE  AnnChange /\ PostedChange
    BY <1>0, <1>3 DEF CancelJobs, SchedulePublish, history
  <1>4. ASSUME NEW w \in Workers, SaveExpired(w) \/ SaveMark(w)
        PROVE  AnnChange /\ PostedChange
    <2>1. CASE CanSave(wann[w])
      <3>1. wann[w] = ann
        BY <2>1 DEF CanSave, Inv, CopyInv, IsCopy
      <3>2. posted' = posted /\ SaveAs(ann, "FAILED") /\ ann.status \in Open
        BY <1>4, <2>1, <3>1 DEF SaveExpired, SaveMark, Inv, WorkerInv, Open
      <3>3. ann \in Announcement /\ "FAILED" \in Status
        BY DEF Inv, TypeOK, Status
      <3>4. QED
        BY <3>2, <3>3, SavedRow DEF AnnChange, PostedChange, Open
    <2>2. CASE ~CanSave(wann[w])
      BY <1>0, <1>4, <2>2 DEF SaveExpired, SaveMark
    <2>3. QED
      BY <2>1, <2>2
  <1>5. ASSUME NEW w \in Workers, SaveReceipt(w) PROVE AnnChange /\ PostedChange
    <2>1. CASE CanSave(wann[w])
      <3>1. wann[w] = ann
        BY <2>1 DEF CanSave, Inv, CopyInv, IsCopy
      <3>2. /\ posted' = posted /\ posted > 0 /\ ann.status \in Open
            /\ SaveAs([ann EXCEPT !.receipt = TRUE], "PUBLISHED")
        BY <1>5, <2>1, <3>1 DEF SaveReceipt, Inv, WorkerInv, Open
      <3>3. ann \in Announcement /\ "PUBLISHED" \in Status
        BY DEF Inv, TypeOK, Status
      <3>4. QED
        BY <3>2, <3>3, SavedRow, WithReceipt DEF AnnChange, PostedChange
    <2>2. CASE ~CanSave(wann[w])
      BY <1>0, <1>5, <2>2 DEF SaveReceipt
    <2>3. QED
      BY <2>1, <2>2
  <1>6. ASSUME NEW w \in Workers, Send(w) PROVE AnnChange /\ PostedChange
    <2>1. ann.status # "NONE"
      BY <1>6 DEF Send, Inv, BlankInv
    <2>2. posted' = posted \/ posted' > 0
      BY <1>6 DEF Send, UpTo2, Inv, TypeOK
    <2>3. QED
      BY <1>6, <2>1, <2>2 DEF Send, AnnChange, PostedChange
  <1>7. ASSUME NEW w \in Workers,
               \/ ReadToPublish(w) \/ ReadForReceipt(w) \/ Complete(w) \/ Fail(w)
               \/ LookAtJob(w) \/ ReadToMark(w) \/ (\E v \in Versions : Claim(w, v))
        PROVE  AnnChange /\ PostedChange
    BY <1>0, <1>7
    DEF ReadToPublish, ReadForReceipt, Complete, Fail, LookAtJob, ReadToMark, Claim
  <1>8. ASSUME NEW w \in Workers, WorkerStoreError(w) PROVE AnnChange /\ PostedChange
    BY <1>0, <1>8 DEF WorkerStoreError
  <1>9. ASSUME NEW h \in Handlers, HandlerStoreError(h) PROVE AnnChange /\ PostedChange
    BY <1>0, <1>9 DEF HandlerStoreError
  <1>10. ASSUME NEW v \in Versions, Recover(v) \/ RecoverSlow(v)
         PROVE  AnnChange /\ PostedChange
    BY <1>0, <1>10 DEF Recover, RecoverSlow, RecoverRow
  <1>11. CASE Expire \/ Crash \/ UNCHANGED vars
    BY <1>0, <1>11 DEF Expire, Crash, vars, history
  <1>12. QED
    BY <1>1, <1>2, <1>3, <1>4, <1>5, <1>6, <1>7, <1>8, <1>9, <1>10, <1>11
    DEF Next, Work, Handle

\* PUBLISHED means recorded, and recorded means posted.
LEMMA StepReceipt == Inv /\ [Next]_vars => ReceiptInv'
  <1>. SUFFICES ASSUME Inv, [Next]_vars PROVE ReceiptInv'
    OBVIOUS
  <1>1. AnnChange /\ PostedChange
    BY StepChange
  <1>2. ann \in Announcement /\ posted \in 0..2
    BY DEF Inv, TypeOK
  <1>3. QED
    BY <1>1, <1>2 DEF AnnChange, PostedChange, Inv, ReceiptInv, Open, Announcement

-----------------------------------------------------------------------------
(* The copies.                                                             *)

\* A step leaves a copy alone, drops it, or refreshes it.
LEMMA CopyStep ==
  ASSUME Inv, [Next]_vars
  PROVE  /\ \A w \in Workers : wann'[w] \in {wann[w], NoAnn, ann'}
         /\ \A h \in Handlers : hann'[h] \in {hann[h], NoAnn, ann'}
  <1>. DEFINE Goal == /\ \A w \in Workers : wann'[w] \in {wann[w], NoAnn, ann'}
                      /\ \A h \in Handlers : hann'[h] \in {hann[h], NoAnn, ann'}
  <1>. USE DEF Inv, TypeOK
  <1>1. ASSUME NEW h \in Handlers, Create(h) \/ Update(h) \/ Cancel(h) \/ Handle(h)
        PROVE  Goal
    BY <1>1 DEF Create, Update, Cancel, Ask, Handle, Save, CancelJobs, SchedulePublish, Answer,
                workerVars, history
  <1>2. ASSUME NEW w \in Workers, Work(w) \/ \E v \in Versions : Claim(w, v) PROVE Goal
    <2>. USE DEF OnlyWorker, handlerVars
    <2>1. CASE ReadToPublish(w) \/ ReadForReceipt(w) \/ ReadToMark(w)
      BY <2>1 DEF ReadToPublish, ReadForReceipt, ReadToMark, Drop
    <2>2. CASE SaveExpired(w) \/ SaveReceipt(w) \/ SaveMark(w)
      BY <2>2 DEF SaveExpired, SaveReceipt, SaveMark, Drop, Forget
    <2>3. CASE Complete(w) \/ LookAtJob(w)
      BY <2>3 DEF Complete, LookAtJob, Drop
    <2>4. CASE Send(w) \/ Fail(w) \/ \E v \in Versions : Claim(w, v)
      BY <2>4 DEF Send, Fail, Claim
    <2>5. QED
      BY <1>2, <2>1, <2>2, <2>3, <2>4 DEF Work
  <1>3. ASSUME NEW w \in Workers, WorkerStoreError(w) PROVE Goal
    BY <1>3 DEF WorkerStoreError, Drop, Forget, handlerVars
  <1>4. ASSUME NEW h \in Handlers, HandlerStoreError(h) PROVE Goal
    BY <1>4 DEF HandlerStoreError, Answer, workerVars
  <1>5. ASSUME NEW v \in Versions, Recover(v) \/ RecoverSlow(v) PROVE Goal
    BY <1>5 DEF Recover, RecoverSlow, RecoverRow, workerVars, handlerVars
  <1>6. CASE Expire \/ UNCHANGED vars
    BY <1>6 DEF Expire, vars, workerVars, handlerVars
  <1>7. CASE Crash
    BY <1>7 DEF Crash
  <1>8. QED
    BY <1>1, <1>2, <1>3, <1>4, <1>5, <1>6, <1>7 DEF Next

\* A save makes every other copy outdated.
LEMMA StepCopy == Inv /\ [Next]_vars => CopyInv'
  <1>. SUFFICES ASSUME Inv, [Next]_vars PROVE CopyInv'
    OBVIOUS
  <1>1. ann' = ann \/ ann'.version > ann.version
    BY StepChange DEF AnnChange, Inv, TypeOK, BlankInv, Announcement
  <1>2. ann \in Announcement /\ ann' \in Announcement
    BY StepType DEF Inv, TypeOK
  <1>3. ASSUME NEW c \in Announcement, IsCopy(c) PROVE IsCopy(c)'
    BY <1>1, <1>2, <1>3 DEF IsCopy, Announcement
  <1>4. IsCopy(NoAnn)'
    BY <1>1, <1>2 DEF IsCopy, NoAnn, Inv, BlankInv, Announcement
  <1>5. IsCopy(ann)'
    BY <1>2 DEF IsCopy, Announcement
  <1>6. \A c \in {NoAnn, ann'} : c.version <= ann'.version /\ (c.version = ann'.version => c = ann')
    BY <1>4, <1>5 DEF IsCopy
  <1>7. QED
    BY <1>3, <1>6, CopyStep DEF CopyInv, IsCopy, Inv, TypeOK

-----------------------------------------------------------------------------
(* Who is where.                                                           *)

\* The first thing that happens is that the announcement is created.
LEMMA StepBlank == Inv /\ [Next]_vars => BlankInv'
  <1>. SUFFICES ASSUME Inv, [Next]_vars PROVE BlankInv'
    OBVIOUS
  <1>. USE DEF Inv, TypeOK
  <1>1. ann' = ann \/ (ann'.version # 0 /\ ann'.status # "NONE")
    BY StepChange DEF AnnChange, Open, Announcement
  <1>2. CASE ann' # ann
    BY <1>1, <1>2 DEF BlankInv
  <1>3. CASE ann' = ann /\ ann.status # "NONE"
    BY <1>3 DEF BlankInv
  <1>4. CASE ann' = ann /\ ann.status = "NONE"
    <2>1. /\ \A v \in Versions : row[v].status = "NONE"
          /\ \A w \in Workers : wpc[w] = "idle"
          /\ \A h \in Handlers : hpc[h] = "idle"
      BY <1>4 DEF BlankInv
    <2>2. ~ \E h \in Handlers : \/ Create(h) \/ Update(h) \/ Cancel(h) \/ Handle(h)
                                \/ HandlerStoreError(h)
      <3>1. ASSUME NEW h \in Handlers, Create(h) PROVE FALSE
        <4>1. ann'.status = "SCHEDULED"
          BY <3>1 DEF Create
        <4>2. QED
          BY <1>4, <4>1
      <3>2. ASSUME NEW h \in Handlers, Update(h) \/ Cancel(h) PROVE FALSE
        BY <1>4, <3>2 DEF Update, Cancel
      <3>3. ASSUME NEW h \in Handlers, Handle(h) \/ HandlerStoreError(h) PROVE FALSE
        BY <2>1, <3>3 DEF Handle, Save, CancelJobs, SchedulePublish, HandlerStoreError
      <3>4. QED
        BY <3>1, <3>2, <3>3
    <2>3. ~ \E w \in Workers : \/ Work(w) \/ WorkerStoreError(w)
                               \/ \E v \in Versions : Claim(w, v)
      BY <2>1
      DEF Work, Claim, WorkerStoreError, ReadToPublish, SaveExpired, Send, ReadForReceipt,
          SaveReceipt, Complete, Fail, LookAtJob, ReadToMark, SaveMark
    <2>4. ~ (Expire \/ \E v \in Versions : Recover(v) \/ RecoverSlow(v))
      BY <1>4, <2>1 DEF Expire, Recover, RecoverSlow
    <2>5. CASE Crash
      BY <1>4, <2>1, <2>5 DEF Crash, BlankInv
    <2>6. CASE UNCHANGED vars
      BY <2>6 DEF vars, workerVars, handlerVars, BlankInv
    <2>7. QED
      BY <2>2, <2>3, <2>4, <2>5, <2>6 DEF Next
  <1>5. QED
    BY <1>2, <1>3, <1>4

\* A worker about to save holds a copy it took of an announcement that allowed it, and
\* a worker about to store a receipt has posted.
LEMMA StepWorker == Inv /\ [Next]_vars => WorkerInv'
  <1>. SUFFICES ASSUME Inv, [Next]_vars PROVE WorkerInv'
    OBVIOUS
  <1>. USE DEF Inv, TypeOK, WorkerInv, Goto
  <1>0. posted > 0 => posted' > 0
    BY StepChange DEF PostedChange
  <1>1. ASSUME UNCHANGED <<wpc, wann>> PROVE WorkerInv'
    BY <1>0, <1>1
  <1>2. ASSUME NEW h \in Handlers, \/ Create(h) \/ Update(h) \/ Cancel(h) \/ Handle(h)
                                   \/ HandlerStoreError(h)
        PROVE  WorkerInv'
    BY <1>1, <1>2 DEF Create, Update, Cancel, Ask, Handle, Save, CancelJobs, SchedulePublish,
                      HandlerStoreError, workerVars
  <1>3. ASSUME NEW w \in Workers,
               /\ wpc' = [wpc EXCEPT ![w] = wpc'[w]]
               /\ wann' = [wann EXCEPT ![w] = wann'[w]]
               /\ wpc'[w] \in {"saveExpired", "saveReceipt"}
                    => wann'[w].status \in {"SCHEDULED", "FAILED"}
               /\ wpc'[w] = "saveMark" => wann'[w].status = "SCHEDULED"
               /\ wpc'[w] \in {"receipt", "saveReceipt"} => posted' > 0
        PROVE  WorkerInv'
    BY <1>0, <1>3
  <1>4. ASSUME NEW w \in Workers, Work(w) \/ \E v \in Versions : Claim(w, v) PROVE WorkerInv'
    <2>1. CASE ReadToPublish(w)
      <3>1. ann.status \in Status
        BY <2>1 DEF ReadToPublish, BlankInv, Announcement
      <3>2. wpc'[w] = "saveExpired" => ann.status \in {"SCHEDULED", "FAILED"}
        BY <2>1, <3>1 DEF ReadToPublish, Status, ReceiptInv
      <3>3. QED
        BY <1>3, <2>1, <3>2 DEF ReadToPublish
    <2>2. CASE ReadForReceipt(w)
      <3>1. ann.status \in Status
        BY <2>2 DEF ReadForReceipt, BlankInv, Announcement
      <3>2. wpc'[w] = "saveReceipt" => ann.status \in {"SCHEDULED", "FAILED"}
        BY <2>2, <3>1 DEF ReadForReceipt, Status, ReceiptInv
      <3>3. QED
        BY <1>0, <1>3, <2>2, <3>2 DEF ReadForReceipt
    <2>3. CASE Send(w)
      <3>1. posted' = posted \/ posted' > 0
        BY StepChange DEF PostedChange
      <3>2. wpc'[w] = "receipt" => posted' > 0
        BY <2>3 DEF Send, UpTo2
      <3>3. QED
        BY <1>3, <2>3, <3>2 DEF Send
    <2>4. CASE SaveExpired(w) \/ SaveReceipt(w)
      BY <1>3, <2>4 DEF SaveExpired, SaveReceipt, Forget
    <2>5. CASE Complete(w) \/ LookAtJob(w) \/ SaveMark(w)
      BY <1>3, <2>5 DEF Complete, LookAtJob, SaveMark, Drop
    <2>6. CASE Fail(w) \/ \E v \in Versions : Claim(w, v)
      BY <1>3, <2>6 DEF Fail, Claim
    <2>7. CASE ReadToMark(w)
      BY <1>3, <2>7 DEF ReadToMark, Drop
    <2>8. QED
      BY <1>4, <2>1, <2>2, <2>3, <2>4, <2>5, <2>6, <2>7 DEF Work
  <1>5. ASSUME NEW w \in Workers, WorkerStoreError(w) PROVE WorkerInv'
    BY <1>3, <1>5 DEF WorkerStoreError, Drop, Forget
  <1>6. ASSUME NEW v \in Versions, Recover(v) \/ RecoverSlow(v) PROVE WorkerInv'
    BY <1>1, <1>6 DEF Recover, RecoverSlow, RecoverRow, workerVars
  <1>7. CASE Expire \/ UNCHANGED vars
    BY <1>1, <1>7 DEF Expire, vars, workerVars
  <1>8. CASE Crash
    BY <1>8 DEF Crash
  <1>9. QED
    BY <1>2, <1>4, <1>5, <1>6, <1>7, <1>8 DEF Next

\* A request about to save holds a copy of an announcement that allowed it.
LEMMA StepHandler == Inv /\ [Next]_vars => HandlerInv'
  <1>. SUFFICES ASSUME Inv, [Next]_vars PROVE HandlerInv'
    OBVIOUS
  <1>. USE DEF Inv, TypeOK, HandlerInv
  <1>1. ASSUME UNCHANGED <<hpc, hreq, hann>> PROVE HandlerInv'
    BY <1>1
  <1>2. ASSUME NEW h \in Handlers, Update(h) \/ Cancel(h) PROVE HandlerInv'
    BY <1>2 DEF Update, Cancel, Ask
  <1>3. ASSUME NEW h \in Handlers, Create(h) \/ Save(h) \/ CancelJobs(h) \/ SchedulePublish(h)
        PROVE  HandlerInv'
    BY <1>3 DEF Create, Save, CancelJobs, SchedulePublish, Answer
  <1>4. ASSUME NEW h \in Handlers, HandlerStoreError(h) PROVE HandlerInv'
    BY <1>4 DEF HandlerStoreError, Answer
  <1>5. ASSUME NEW w \in Workers, Work(w) \/ \E v \in Versions : Claim(w, v)
        PROVE  HandlerInv'
    BY <1>1, <1>5
    DEF Work, Claim, ReadToPublish, SaveExpired, Send, ReadForReceipt, SaveReceipt, Complete,
        Fail, LookAtJob, ReadToMark, SaveMark, OnlyWorker, handlerVars
  <1>6. ASSUME NEW w \in Workers, WorkerStoreError(w) PROVE HandlerInv'
    BY <1>1, <1>6 DEF WorkerStoreError, handlerVars
  <1>7. ASSUME NEW v \in Versions, Recover(v) \/ RecoverSlow(v) PROVE HandlerInv'
    BY <1>1, <1>7 DEF Recover, RecoverSlow, RecoverRow, handlerVars
  <1>8. CASE Expire \/ UNCHANGED vars
    BY <1>1, <1>8 DEF Expire, vars, handlerVars
  <1>9. CASE Crash
    BY <1>9 DEF Crash
  <1>10. QED
    BY <1>2, <1>3, <1>4, <1>5, <1>6, <1>7, <1>8, <1>9 DEF Next, Handle

-----------------------------------------------------------------------------
(* The refinement.                                                         *)

LEMMA InitInv == Init => Inv
  <1>. SUFFICES ASSUME Init PROVE Inv
    OBVIOUS
  <1>1. TypeOK
    BY InitType
  <1>2. CopyInv
    BY DEF Init, CopyInv, IsCopy, NoAnn
  <1>3. BlankInv
    BY DEF Init, BlankInv, NoAnn, NoRow
  <1>4. ReceiptInv /\ WorkerInv /\ HandlerInv
    BY DEF Init, ReceiptInv, WorkerInv, HandlerInv, NoAnn
  <1>5. QED
    BY <1>1, <1>2, <1>3, <1>4 DEF Inv

\* A copy at the version of the row is the row, at every moment: no save of an
\* announcement is made from an outdated copy (saveAnnouncement's WHERE clause).
THEOREM CopiesAreCurrent == Spec => []Inv
  <1>1. Inv /\ [Next]_vars => Inv'
    BY StepType, StepCopy, StepBlank, StepReceipt, StepWorker, StepHandler DEF Inv
  <1>2. QED
    BY <1>1, InitInv, PTL DEF Spec

LEMMA LifecycleInit == Init => Lifecycle!Init
  BY DEF Init, Lifecycle!Init, NoAnn

\* A save is a step of the lifecycle or repeats the status, a send is a Post.
LEMMA LifecycleStep == Inv /\ [Next]_vars => [Lifecycle!Next]_(Lifecycle!lifecycle)
  <1>. SUFFICES ASSUME Inv, [Next]_vars
                PROVE  Lifecycle!Next \/ UNCHANGED Lifecycle!lifecycle
    OBVIOUS
  <1>. USE DEF Lifecycle!Next, Lifecycle!lifecycle
  <1>1. AnnChange /\ PostedChange
    BY StepChange
  <1>2. posted \in 0..2 /\ ann \in Announcement
    BY DEF Inv, TypeOK
  <1>3. CASE ann' = ann
    BY <1>1, <1>3 DEF PostedChange, Lifecycle!Post
  <1>4. CASE ann' # ann
    <2>1. posted' = posted
      BY <1>1, <1>4 DEF PostedChange
    <2>2. CASE /\ ann.status = "NONE"
               /\ ann' = [status |-> "SCHEDULED", version |-> 1, receipt |-> FALSE]
      <3>1. ann.receipt = FALSE
        BY <1>2, <2>2 DEF Inv, ReceiptInv, Announcement
      <3>2. QED
        BY <2>1, <2>2, <3>1 DEF Lifecycle!Schedule
    <2>3. CASE /\ ann.status \in Open /\ ann'.status = "PUBLISHED"
               /\ ann'.receipt = TRUE /\ posted > 0
      BY <2>1, <2>3 DEF Open, Lifecycle!Publish
    <2>4. CASE /\ ann.status \in Open /\ ann'.status \in {ann.status, "FAILED", "CANCELLED"}
               /\ ann'.receipt = ann.receipt
      BY <2>1, <2>4 DEF Open, Lifecycle!Fail, Lifecycle!Cancel
    <2>5. CASE /\ ann.status = "CANCELLED" /\ ann'.status = "CANCELLED"
               /\ ann'.receipt = ann.receipt
      BY <2>1, <2>5
    <2>6. QED
      BY <1>1, <1>4, <2>2, <2>3, <2>4, <2>5 DEF AnnChange
  <1>5. QED
    BY <1>3, <1>4

\* Announcements implements the lifecycle of PRD 6.2: PUBLISHED is posted and recorded,
\* and neither PUBLISHED nor CANCELLED is ever left (AnnouncementService and
\* AutomationService.publishAnnouncement, whatever interleaves with them).
THEOREM LifecycleIsKept == Spec => LifecycleSpec
  BY CopiesAreCurrent, LifecycleInit, LifecycleStep, PTL
  DEF Spec, LifecycleSpec, Lifecycle!Spec

-----------------------------------------------------------------------------
(* One post, while nothing fails and nothing is edited.                    *)

Undisturbed == ~edited /\ faults = 0

\* The worker executes its job; in Marking the job has been settled already.
Executing(w) == wpc[w] \notin {"idle"} \cup Marking

\* One job, the one of version 1, and whoever executes it is alone.
OneJob ==
  /\ \A v \in Versions \ {1} : row[v].status = "NONE"
  /\ \A w \in Workers : wjob[w] \in {0, 1}
  /\ \A h \in Handlers : /\ hpc[h] = "schedule" => hann[h].version = 1
                         /\ hpc[h] = "cancelJobs" => hreq[h] # "update"

OneExecutes ==
  /\ \A w \in Workers : Executing(w) => row[1].status \in {"PROCESSING", "CANCELLED"}
  /\ \A u, w \in Workers : Executing(u) /\ Executing(w) => u = w
  /\ row[1].status = "PROCESSING" => \E w \in Workers : Executing(w)

\* No later look at the announcement leads to another post.
NoMorePosts == ann.receipt \/ ann.status = "CANCELLED"

\* What has been posted is recorded, or its worker is on the way to record it, or the
\* job has been given up.
PostAccounted ==
  \/ posted = 0 \/ NoMorePosts \/ row[1].status = "FAILED"
  \/ \E w \in Workers : wpc[w] \in {"receipt", "saveReceipt", "failFinal"}

OnePost ==
  /\ OneJob /\ OneExecutes /\ PostAccounted /\ posted <= 1
  /\ \A w \in Workers : wpc[w] = "sending" => posted = 0

UndisturbedInv == Undisturbed => OnePost

\* An edit and a fault are remembered.
LEMMA Remembered == Inv /\ [Next]_vars /\ Undisturbed' => Undisturbed
  <1> SUFFICES ASSUME Inv, [Next]_vars, ~edited', faults' = 0
               PROVE  ~edited /\ faults = 0
    BY DEF Undisturbed
  <1> USE DEF Inv, TypeOK
  <1>1. ASSUME NEW h \in Handlers, Create(h) \/ Update(h) \/ Cancel(h) \/ Handle(h)
        PROVE  ~edited /\ faults = 0
    BY <1>1 DEF Create, Update, Cancel, Ask, Handle, Save, CancelJobs, SchedulePublish, history
  <1>2. ASSUME NEW w \in Workers, Work(w) \/ \E v \in Versions : Claim(w, v)
        PROVE  ~edited /\ faults = 0
    BY <1>2 DEF Work, Claim, ReadToPublish, SaveExpired, Send, ReadForReceipt, SaveReceipt,
                Complete, Fail, LookAtJob, ReadToMark, SaveMark, OnlyWorker
  <1>3. ASSUME NEW w \in Workers, WorkerStoreError(w) PROVE ~edited /\ faults = 0
    BY <1>3 DEF WorkerStoreError, Fault
  <1>4. ASSUME NEW h \in Handlers, HandlerStoreError(h) PROVE ~edited /\ faults = 0
    BY <1>4 DEF HandlerStoreError, Fault
  <1>5. ASSUME NEW v \in Versions, Recover(v) \/ RecoverSlow(v) PROVE ~edited /\ faults = 0
    BY <1>5 DEF Recover, RecoverSlow, RecoverRow, Fault
  <1>6. CASE Expire \/ Crash \/ UNCHANGED vars
    BY <1>6 DEF Expire, Crash, Fault, vars, history
  <1> QED  BY <1>1, <1>2, <1>3, <1>4, <1>5, <1>6 DEF Next

\* A published or cancelled announcement stays what it is.
LEMMA NoMoreStays == Inv /\ [Next]_vars /\ NoMorePosts => NoMorePosts'
  BY StepChange DEF AnnChange, NoMorePosts, Inv, ReceiptInv, Open

-----------------------------------------------------------------------------
(* The step, action by action.                                             *)

\* A step that leaves the job, the workers and the post alone.
LEMMA OnePostFrame ==
  ASSUME Inv, [Next]_vars, OnePost, UNCHANGED <<row, wpc, wjob, posted>>,
         \A h \in Handlers : /\ hpc'[h] = "schedule" => hann'[h].version = 1
                             /\ hpc'[h] = "cancelJobs" => hreq'[h] # "update"
  PROVE  OnePost'
  <1>1. OneJob'
    <2>1. /\ \A v \in Versions \ {1} : row'[v].status = "NONE"
          /\ \A w \in Workers : wjob'[w] \in {0, 1}
      BY DEF OnePost, OneJob
    <2> QED  BY <2>1 DEF OneJob
  <1>2. OneExecutes'
    BY DEF OnePost, OneExecutes, Executing
  <1>3. PostAccounted'
    BY NoMoreStays DEF OnePost, PostAccounted
  <1> QED  BY <1>1, <1>2, <1>3 DEF OnePost

\* A request of an announcement that is not edited: it cancels, or it is the creation.
LEMMA OnePostHandler ==
  ASSUME Inv, [Next]_vars, OnePost, ~edited', NEW h \in Handlers,
         \/ Create(h) \/ Update(h) \/ Cancel(h) \/ Handle(h)
  PROVE  OnePost'
  <1> DEFINE Fits(g) == /\ hpc'[g] = "schedule" => hann'[g].version = 1
                        /\ hpc'[g] = "cancelJobs" => hreq'[g] # "update"
  <1> USE DEF Inv, TypeOK
  <1>1. ASSUME UNCHANGED <<row, wpc, wjob, posted>>, Fits(h),
               hpc' = [hpc EXCEPT ![h] = hpc'[h]], hreq' = [hreq EXCEPT ![h] = hreq'[h]],
               hann' = [hann EXCEPT ![h] = hann'[h]]
        PROVE  OnePost'
    BY <1>1, OnePostFrame DEF OnePost, OneJob
  <1>2. CASE Create(h)
    BY <1>1, <1>2 DEF Create, workerVars, history
  <1>3. CASE Update(h) \/ Cancel(h)
    BY <1>1, <1>3 DEF Update, Cancel, Ask, workerVars, history
  <1>4. CASE Save(h)
    BY <1>1, <1>4 DEF Save, Answer, workerVars
  <1>5. CASE CancelJobs(h)
    <2>1. /\ \A v \in Versions : row'[v] = Cancelled(row[v]) /\ row[v] \in JobRow
          /\ 1 \in Versions
      BY <1>5, BoundsAssumption DEF CancelJobs, Versions
    <2>2. /\ \A v \in Versions \ {1} : row'[v].status = "NONE"
          /\ row[1].status = "FAILED" => row'[1].status = "FAILED"
          /\ row[1].status \in {"PROCESSING", "CANCELLED"} => row'[1].status = "CANCELLED"
          /\ row'[1].status # "PROCESSING"
      BY <2>1, CancelledStatus DEF OnePost, OneJob
    <2>3. /\ UNCHANGED <<wpc, wjob, posted, ann>>
          /\ \A g \in Handlers : Fits(g)
      BY <1>5 DEF CancelJobs, Answer, workerVars, history, OnePost, OneJob
    <2> QED
      BY <2>1, <2>2, <2>3 DEF OnePost, OneJob, OneExecutes, PostAccounted, NoMorePosts, Executing
  <1>6. CASE SchedulePublish(h)
    <2>1. hann[h].version = 1 /\ 1 \in Versions
      BY <1>6, BoundsAssumption DEF SchedulePublish, OnePost, OneJob, Versions
    <2>2. row' = [row EXCEPT ![1] = Created(row[1], FALSE)]
      BY <1>6, <2>1 DEF SchedulePublish
    <2>3. /\ \A v \in Versions \ {1} : row'[v] = row[v]
          /\ row'[1].status = row[1].status
               \/ (row[1].status = "NONE" /\ row'[1].status = "PENDING")
      BY <2>1, <2>2 DEF Created, JobRow
    <2>4. /\ UNCHANGED <<wpc, wjob, posted, ann>>
          /\ \A g \in Handlers : Fits(g)
      BY <1>6 DEF SchedulePublish, Answer, workerVars, history, OnePost, OneJob
    <2> QED
      BY <2>1, <2>3, <2>4 DEF OnePost, OneJob, OneExecutes, PostAccounted, NoMorePosts, Executing
  <1> QED  BY <1>2, <1>3, <1>4, <1>5, <1>6 DEF Handle

\* A worker executes the job, or marks the announcement after it.
LEMMA OnePostWorker ==
  ASSUME Inv, [Next]_vars, OnePost, NEW w \in Workers,
         Work(w) \/ \E v \in Versions : Claim(w, v)
  PROVE  OnePost'
  <1> USE DEF Inv, TypeOK, Goto
  <1>0. /\ 1 \in Versions /\ 0 \notin Versions /\ (NoMorePosts => NoMorePosts')
        /\ \A v \in Versions : row[v] \in JobRow
    BY NoMoreStays, BoundsAssumption DEF Versions
  <1>1. UNCHANGED <<hpc, hreq, hann>>
    BY DEF Work, Claim, ReadToPublish, SaveExpired, Send, ReadForReceipt, SaveReceipt, Complete,
           Fail, LookAtJob, ReadToMark, SaveMark, OnlyWorker, handlerVars
  <1>2. ASSUME NEW s \in WorkerStates, wpc' = [wpc EXCEPT ![w] = s], UNCHANGED <<row, posted>>,
               Executing(w) <=> Executing(w)',
               \/ UNCHANGED wjob
               \/ wjob' = [wjob EXCEPT ![w] = 0],
               s = "sending" => posted = 0,
               wpc[w] \in {"receipt", "saveReceipt", "failFinal"}
                 => s \in {"receipt", "saveReceipt", "failFinal"} \/ NoMorePosts'
        PROVE  OnePost'
    <2>1. \A u \in Workers : Executing(u)' <=> Executing(u)
      BY <1>2 DEF Executing
    <2>2. OneJob' /\ OneExecutes'
      BY <1>0, <1>1, <1>2, <2>1 DEF OnePost, OneJob, OneExecutes
    <2>3. PostAccounted'
      BY <1>0, <1>2 DEF OnePost, PostAccounted
    <2> QED  BY <1>2, <2>2, <2>3 DEF OnePost
  <1> USE DEF WorkerStates, Marking, Executing
  <1>3. CASE ReadToPublish(w)
    <2>1. ~NoMorePosts => posted = 0
      BY <1>0, <1>3 DEF ReadToPublish, OnePost, OneExecutes, PostAccounted
    <2> QED  BY <1>2, <1>3, <2>1 DEF ReadToPublish, NoMorePosts
  <1>4. CASE ReadForReceipt(w) \/ SaveExpired(w)
    BY <1>2, <1>4 DEF ReadForReceipt, SaveExpired, Forget, NoMorePosts
  <1>5. CASE SaveReceipt(w)
    <2>1. CanSave(wann[w]) => NoMorePosts'
      <3>1. CanSave(wann[w]) =>
              SaveAs([wann[w] EXCEPT !.receipt = TRUE], "PUBLISHED") /\ wann[w] \in Announcement
        BY <1>5 DEF SaveReceipt
      <3>2. "PUBLISHED" \in Status \cup {"NONE"}
        BY DEF Status
      <3> QED  BY <3>1, <3>2, WithReceipt, SavedRow DEF NoMorePosts
    <2> QED  BY <1>2, <1>5, <2>1 DEF SaveReceipt, Forget
  <1>6. CASE LookAtJob(w) \/ ReadToMark(w) \/ SaveMark(w)
    BY <1>2, <1>6 DEF LookAtJob, ReadToMark, SaveMark, Drop
  <1>7. CASE Send(w)
    <2>1. posted = 0 /\ posted' \in {0, 1} /\ wpc[w] = "sending"
      BY <1>7 DEF Send, OnePost, UpTo2
    <2>2. /\ \A u \in Workers : Executing(u)' <=> Executing(u)
          /\ \A u \in Workers : wpc'[u] # "sending"
      BY <1>7, <2>1 DEF Send, OnePost, OneExecutes
    <2>3. posted' = 0 \/ wpc'[w] = "receipt"
      BY <1>7, <2>1 DEF Send
    <2>4. OneJob' /\ OneExecutes'
      BY <1>1, <1>7, <2>2 DEF Send, OnePost, OneJob, OneExecutes
    <2> QED  BY <2>1, <2>2, <2>3, <2>4 DEF OnePost, PostAccounted
  <1>8. ASSUME NEW v \in Versions, Claim(w, v) PROVE OnePost'
    <2>1. v = 1 /\ row[1].status = "PENDING"
      BY <1>8 DEF Claim, OnePost, OneJob
    <2>2. row' = [row EXCEPT ![1] = Claimed(row[1])] /\ Claimed(row[1]).status = "PROCESSING"
      BY <1>0, <1>8, <2>1, RowStatus DEF Claim
    <2>3. /\ row'[1].status = "PROCESSING"
          /\ \A u \in Versions \ {1} : row'[u] = row[u]
      BY <1>0, <2>2
    <2>4. /\ wpc' = [wpc EXCEPT ![w] = "publish"] /\ wjob' = [wjob EXCEPT ![w] = 1]
          /\ UNCHANGED <<ann, posted>>
      BY <1>8, <2>1 DEF Claim
    <2>5. ~ \E u \in Workers : Executing(u)
      BY <2>1 DEF OnePost, OneExecutes
    <2>6. OneJob' /\ OneExecutes'
      BY <1>1, <2>3, <2>4, <2>5 DEF OnePost, OneJob, OneExecutes
    <2>7. PostAccounted' /\ \A u \in Workers : wpc'[u] # "sending"
      BY <1>0, <2>1, <2>4, <2>5 DEF OnePost, PostAccounted
    <2> QED  BY <2>4, <2>6, <2>7 DEF OnePost
  <1>9. CASE Complete(w) \/ Fail(w)
    <2> DEFINE Settled == /\ row'[1].status # "PROCESSING"
                          /\ wpc[w] = "failFinal" => row'[1].status = "FAILED"
                          /\ \A u \in Versions \ {1} : row'[u] = row[u]
    <2>1. wjob[w] = 1 /\ row[1].status \in {"PROCESSING", "CANCELLED"}
      BY <1>9 DEF Complete, Fail, OnePost, OneJob, OneExecutes
    <2>2. ASSUME Complete(w) PROVE Settled
      <3>1. row' = [row EXCEPT ![1] = Completed(row[1])]
        BY <2>1, <2>2 DEF Complete
      <3>2. Completed(row[1]).status \in {"SUCCEEDED", "CANCELLED"}
        BY <1>0, <2>1, RowStatus
      <3> QED  BY <1>0, <2>2, <3>1, <3>2 DEF Complete
    <2>3. ASSUME Fail(w) PROVE Settled
      <3>1. row' = [row EXCEPT ![1] = Failed(row[1], wpc[w] = "failRetry")]
        BY <2>1, <2>3 DEF Fail
      <3>2. ASSUME NEW retry \in BOOLEAN
            PROVE  /\ Failed(row[1], retry).status \in {"PENDING", "FAILED"}
                   /\ ~retry => Failed(row[1], retry).status = "FAILED"
        BY <1>0, RowStatus
      <3>3. (wpc[w] = "failRetry") \in BOOLEAN
        OBVIOUS
      <3>4. /\ Failed(row[1], wpc[w] = "failRetry").status \in {"PENDING", "FAILED"}
            /\ wpc[w] # "failRetry" => Failed(row[1], wpc[w] = "failRetry").status = "FAILED"
        BY <3>2, <3>3
      <3> QED  BY <1>0, <2>3, <3>1, <3>4 DEF Fail
    <2>4. /\ wpc' = [wpc EXCEPT ![w] = wpc'[w]] /\ wpc'[w] \in {"idle", "look"}
          /\ wjob' = [wjob EXCEPT ![w] = wjob'[w]] /\ wjob'[w] \in {0, 1}
          /\ wpc[w] \in {"completing", "failRetry", "failFinal"}
          /\ UNCHANGED <<ann, posted>>
      BY <1>9, <2>1 DEF Complete, Fail, Drop
    <2>5. ~ \E u \in Workers : Executing(u)'
      BY <2>4 DEF OnePost, OneExecutes
    <2>6. Settled
      BY <1>9, <2>2, <2>3
    <2>7. OneJob' /\ OneExecutes'
      BY <1>1, <2>6, <2>4, <2>5 DEF OnePost, OneJob, OneExecutes
    <2>8. PostAccounted'
      BY <1>0, <2>1, <2>6, <2>4 DEF OnePost, PostAccounted
    <2>9. \A u \in Workers : wpc'[u] # "sending"
      BY <2>5
    <2> QED  BY <2>4, <2>7, <2>8, <2>9 DEF OnePost
  <1> QED  BY <1>3, <1>4, <1>5, <1>6, <1>7, <1>8, <1>9 DEF Work

LEMMA StepUndisturbed == Inv /\ UndisturbedInv /\ [Next]_vars => UndisturbedInv'
  <1> SUFFICES ASSUME Inv, UndisturbedInv, [Next]_vars, Undisturbed' PROVE OnePost'
    BY DEF UndisturbedInv
  <1>1. OnePost /\ ~edited' /\ faults' = 0 /\ faults = 0
    BY Remembered DEF UndisturbedInv, Undisturbed
  <1>2. ASSUME NEW h \in Handlers, Create(h) \/ Update(h) \/ Cancel(h) \/ Handle(h)
        PROVE  OnePost'
    BY <1>1, <1>2, OnePostHandler
  <1>3. ASSUME NEW w \in Workers, Work(w) \/ \E v \in Versions : Claim(w, v) PROVE OnePost'
    BY <1>1, <1>3, OnePostWorker
  <1>4. ASSUME Fault PROVE FALSE
    BY <1>1, <1>4 DEF Fault
  <1>5. ASSUME NEW v \in Versions, Recover(v) PROVE FALSE
    <2>1. v = 1 /\ row[1].status = "PROCESSING" /\ \A w \in Workers : wjob[w] # 1
      BY <1>1, <1>5 DEF Recover, OnePost, OneJob
    <2>2. PICK w \in Workers : Executing(w)
      BY <1>1, <2>1 DEF OnePost, OneExecutes
    <2>3. wjob[w] = 1
      BY <1>1, <2>2 DEF OnePost, OneJob, Executing, Inv, TypeOK
    <2> QED  BY <2>1, <2>3
  <1>6. CASE Expire \/ UNCHANGED vars
    BY <1>1, <1>6, OnePostFrame
    DEF Expire, vars, workerVars, handlerVars, history, OnePost, OneJob
  <1> QED
    BY <1>2, <1>3, <1>4, <1>5, <1>6
    DEF Next, WorkerStoreError, HandlerStoreError, RecoverSlow, Crash

\* While nothing fails and nothing is edited, an announcement goes out at most once,
\* however often its sending is retried and whoever cancels it meanwhile
\* (AutomationService.publishAnnouncement under process, claimJob and failJob).
THEOREM PostedAtMostOnce == Spec => []PostedOnceUndisturbed
  <1>1. Init => UndisturbedInv
    BY BoundsAssumption
    DEF Init, UndisturbedInv, OnePost, OneJob, OneExecutes, PostAccounted, Executing, Versions,
        NoRow
  <1>2. UndisturbedInv => PostedOnceUndisturbed
    BY DEF UndisturbedInv, OnePost, Undisturbed, PostedOnceUndisturbed
  <1> QED  BY <1>1, <1>2, CopiesAreCurrent, StepUndisturbed, PTL DEF Spec
=============================================================================
