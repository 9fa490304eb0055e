------------------------- MODULE TaskDeliveryProofs -------------------------
(***************************************************************************)
(* What is kept of a task and of its jobs, for any number of workers,      *)
(* requests, versions and faults.                                          *)
(*                                                                         *)
(* Its receipt, its cancellation, and that ACTIVE means posted are the     *)
(* work of optimistic locking: a copy with the version of the row is the   *)
(* row (CopyInv), so what a step saw of the task when it read it           *)
(* (WorkerKnows, HandlerKnows) still holds when it saves it.  The ledger   *)
(* plays no part in that.                                                  *)
(*                                                                         *)
(* That somebody publishes it, that it is posted once and that a routine   *)
(* goes on joins task and ledger: who holds a job that is executed and     *)
(* which statements a request has still to make (LedgerInv), that there is *)
(* one job while nothing fails and nothing is edited (Single), and that    *)
(* the job of the next occurrence waits, is held or is about to be made    *)
(* (RoutineInv).                                                           *)
(***************************************************************************)
EXTENDS TaskDelivery, SequenceTheorems, TLAPS

-----------------------------------------------------------------------------
(* What each statement of the store does to the row of a job.              *)

\* Every statement of the store returns a row.
LEMMA RowTyping ==
  ASSUME NEW r \in JobRow
  PROVE  /\ \A due \in BOOLEAN : Created(r, due) \in JobRow
         /\ Claimed(r) \in JobRow
         /\ Recovered(r) \in JobRow
         /\ Completed(r) \in JobRow
         /\ \A retry \in BOOLEAN : Failed(r, retry) \in JobRow
         /\ Cancelled(r) \in JobRow
  <1>1. \A due \in BOOLEAN : Created(r, due) \in JobRow
    BY DEF JobRow, JobStatus, Created
  <1>2. Claimed(r) \in JobRow
    <2>1. r.attempts + 1 \in Nat
      BY DEF JobRow
    <2>2. QED
      BY <2>1, Zenon DEF JobRow, JobStatus, Claimed
  <1>3. Recovered(r) \in JobRow
    BY DEF JobRow, JobStatus, Recovered
  <1>4. Completed(r) \in JobRow
    BY DEF JobRow, JobStatus, Completed
  <1>5. \A retry \in BOOLEAN : Failed(r, retry) \in JobRow
    BY DEF JobRow, JobStatus, Failed
  <1>6. Cancelled(r) \in JobRow
    BY DEF JobRow, JobStatus, Cancelled
  <1>7. QED
    BY <1>1, <1>2, <1>3, <1>4, <1>5, <1>6

\* Where the status of a row can go, statement by statement.
LEMMA RowStatus ==
  ASSUME NEW r \in JobRow
  PROVE  /\ \A due \in BOOLEAN : Created(r, due).status \in {r.status, "PENDING"}
         /\ Claimed(r).status = "PROCESSING"
         /\ Recovered(r).status = r.status
              \/ /\ r.status = "PROCESSING"
                 /\ Recovered(r).status = (IF CanRetry(r) THEN "PENDING" ELSE "FAILED")
         /\ Completed(r).status \in {r.status, "SUCCEEDED"}
         /\ Driver = "postgres" /\ r.status # "PROCESSING" => Completed(r).status = r.status
         /\ r.status = "PROCESSING" => Completed(r).status = "SUCCEEDED"
         /\ \A retry \in BOOLEAN : Failed(r, retry).status =
              (IF retry /\ CanRetry(r) THEN "PENDING" ELSE "FAILED")
         /\ Cancelled(r).status \in {r.status, "CANCELLED"}
  BY DEF JobRow, Created, Claimed, Recovered, Completed, Failed, Cancelled, Interrupted

\* A cancelled row was waiting or being worked on; every other row is left as it is.
LEMMA CancelledStatus ==
  ASSUME NEW r \in JobRow
  PROVE  /\ r.status \in {"PENDING", "PROCESSING"} => Cancelled(r).status = "CANCELLED"
         /\ r.status \notin {"PENDING", "PROCESSING"} => Cancelled(r) = r
  BY DEF JobRow, Cancelled

-----------------------------------------------------------------------------
(* Optimistic locking.                                                     *)

Types ==
  /\ task \in Task
  /\ wpc \in [Workers -> WorkerStates] /\ wtask \in [Workers -> Task]
  /\ hpc \in [Handlers -> HandlerStates] /\ htask \in [Handlers -> Task]
  /\ hreq \in [Handlers -> Requests]
  /\ sent \in 0..2

\* A copy is older than the row, or it is the row.
IsCopy(c) == c.version <= task.version /\ (c.version = task.version => c = task)

CopyInv == (\A w \in Workers : IsCopy(wtask[w])) /\ (\A h \in Handlers : IsCopy(htask[h]))

BlankInv ==
  /\ task.status = "NONE" => task.version = 0
  /\ task.version = 0 => task = NoTask

WorkerKnows ==
  \A w \in Workers :
    /\ wpc[w] \in {"saveReceipt", "saveOverdue"} => wtask[w].status # "CANCELLED"
    /\ wpc[w] \in {"receipt", "saveReceipt"} => sent > 0

HandlerKnows ==
  \A h \in Handlers :
    hpc[h] \in {"list", "save"} => /\ htask[h].status \notin {"NONE", "CANCELLED"}
                                   /\ hreq[h] # "create"

Inv == Types /\ CopyInv /\ BlankInv /\ ReceiptIsReal /\ WorkerKnows /\ HandlerKnows

-----------------------------------------------------------------------------
(* What a step does to the task.                                           *)

\* A task is created once; every later change is a save, which leaves CANCELLED and a
\* receipt alone and makes ACTIVE only what was sent.
TaskChange ==
  \/ task' = task
  \/ task.status = "NONE" /\ task' = [status |-> "SCHEDULED", version |-> 1, published |-> FALSE]
  \/ /\ task' \in Task /\ task'.version = task.version + 1 /\ task'.status # "NONE"
     /\ task.status # "CANCELLED" /\ (task.published => task'.published)
     /\ task'.published => sent > 0
     /\ task'.status = "ACTIVE" => task'.published
     /\ task'.status = "SCHEDULED" => task.status = "SCHEDULED" /\ task'.published = task.published

SentChange == sent' \in 0..2 /\ (sent > 0 => sent' > 0)

\* The row a save leaves behind, by the fields it changes.
LEMMA SavedTask ==
  ASSUME NEW c \in Task, NEW status \in TaskStatus \cup {"NONE"}, NEW published \in BOOLEAN,
         SaveTask(c.version, [c EXCEPT !.status = status, !.published = published])
  PROVE  /\ task' \in Task /\ task'.version = c.version + 1
         /\ task'.status = status /\ task'.published = published
  <1> DEFINE next == [c EXCEPT !.status = status, !.published = published]
  <1>1. next \in Task /\ next.status = status /\ next.published = published
    BY DEF Task
  <1>2. c.version + 1 \in Nat
    BY DEF Task
  <1>3. task' = [next EXCEPT !.version = c.version + 1]
    BY DEF SaveTask
  <1> HIDE DEF next
  <1> QED  BY <1>1, <1>2, <1>3 DEF Task

LEMMA SameFields ==
  ASSUME NEW c \in Task, NEW status \in TaskStatus \cup {"NONE"}
  PROVE  /\ c = [c EXCEPT !.status = c.status, !.published = c.published]
         /\ [c EXCEPT !.status = status]
              = [c EXCEPT !.status = status, !.published = c.published]
         /\ c.status \in TaskStatus \cup {"NONE"} /\ c.published \in BOOLEAN
  BY DEF Task

\* A request that saves saves the task as it is now, with the status it asks for.
LEMMA HandlerSaved ==
  ASSUME Inv, NEW h \in Handlers, Save(h), CanSave(htask[h].version)
  PROVE  /\ task.status \notin {"NONE", "CANCELLED"} /\ htask[h].version = task.version
         /\ task' \in Task /\ task'.version = task.version + 1 /\ task'.published = task.published
         /\ \/ hreq[h] = "update" /\ task'.status = task.status
            \/ hreq[h] = "cancel" /\ task'.status = "CANCELLED"
            \/ hreq[h] = "complete" /\ task'.status = "COMPLETED"
            \/ hreq[h] = "submit" /\ task'.status = "SUBMITTED"
  <1> DEFINE status == CASE hreq[h] = "update"   -> task.status
                         [] hreq[h] = "cancel"   -> "CANCELLED"
                         [] hreq[h] = "complete" -> "COMPLETED"
                         [] hreq[h] = "submit"   -> "SUBMITTED"
  <1>1. htask[h] = task /\ task \in Task
    BY DEF CanSave, Inv, CopyInv, IsCopy, Types
  <1>2. task.status \notin {"NONE", "CANCELLED"}
    BY <1>1 DEF Save, Inv, HandlerKnows
  <1>3. hreq[h] \in Requests /\ hreq[h] # "create"
    BY DEF Inv, Types, HandlerKnows, Save
  <1>4. SaveTask(task.version, Saved(h))
    BY <1>1 DEF Save
  <1>5. /\ status \in TaskStatus
        /\ \/ hreq[h] = "update" /\ status = task.status
           \/ hreq[h] = "cancel" /\ status = "CANCELLED"
           \/ hreq[h] = "complete" /\ status = "COMPLETED"
           \/ hreq[h] = "submit" /\ status = "SUBMITTED"
        /\ Saved(h) = [task EXCEPT !.status = status, !.published = task.published]
    <2>1. task.status \in TaskStatus
      BY <1>1, <1>2 DEF Task
    <2>2. CASE hreq[h] = "update"
      BY <1>1, <2>1, <2>2, SameFields DEF Saved
    <2>3. CASE hreq[h] = "cancel"
      BY <1>1, <2>3, SameFields DEF Saved, TaskStatus
    <2>4. CASE hreq[h] = "complete"
      BY <1>1, <2>4, SameFields DEF Saved, TaskStatus
    <2>5. CASE hreq[h] = "submit"
      BY <1>1, <2>5, SameFields DEF Saved, TaskStatus
    <2> QED  BY <1>3, <2>2, <2>3, <2>4, <2>5 DEF Requests
  <1> HIDE DEF status
  <1>6. task.published \in BOOLEAN
    BY <1>1 DEF Task
  <1>7. /\ task' \in Task /\ task'.version = task.version + 1
        /\ task'.status = status /\ task'.published = task.published
    <2>1. SaveTask(task.version, [task EXCEPT !.status = status, !.published = task.published])
      BY <1>4, <1>5
    <2> HIDE DEF SaveTask
    <2> QED  BY <1>1, <1>5, <1>6, <2>1, SavedTask
  <1> QED  BY <1>1, <1>2, <1>5, <1>7

LEMMA HandlerSaves ==
  ASSUME Inv, NEW h \in Handlers, Save(h)
  PROVE  TaskChange
  <1>1. CASE ~CanSave(htask[h].version)
    BY <1>1 DEF Save, TaskChange
  <1>2. CASE CanSave(htask[h].version)
    BY <1>2, HandlerSaved DEF TaskChange, Inv, ReceiptIsReal
  <1> QED  BY <1>1, <1>2

\* So does a worker, with what it knew when it read the task.
LEMMA WorkerSaves ==
  ASSUME Inv, NEW w \in Workers, SaveReceipt(w) \/ SaveOverdue(w)
  PROVE  TaskChange
  <1>1. CASE ~CanSave(wtask[w].version)
    BY <1>1 DEF SaveReceipt, SaveOverdue, TaskChange
  <1>2. CASE CanSave(wtask[w].version)
    <2>1. wtask[w] = task /\ task \in Task
      BY <1>2 DEF CanSave, Inv, CopyInv, IsCopy, Types
    <2>2. task.status # "CANCELLED" /\ task.published \in BOOLEAN
      BY <2>1 DEF SaveReceipt, SaveOverdue, Inv, WorkerKnows, Task
    <2>3. CASE SaveReceipt(w)
      <3>1. SaveTask(task.version, [task EXCEPT !.status = "ACTIVE", !.published = TRUE])
        BY <1>2, <2>1, <2>3 DEF SaveReceipt
      <3>2. sent > 0
        BY <2>3 DEF SaveReceipt, Inv, WorkerKnows
      <3>3. /\ task' \in Task /\ task'.version = task.version + 1
            /\ task'.status = "ACTIVE" /\ task'.published = TRUE
        <4>1. "ACTIVE" \in TaskStatus \cup {"NONE"} /\ TRUE \in BOOLEAN
          BY DEF TaskStatus
        <4> HIDE DEF SaveTask
        <4> QED  BY <2>1, <3>1, <4>1, SavedTask
      <3> QED  BY <2>2, <3>2, <3>3 DEF TaskChange
    <2>4. CASE SaveOverdue(w)
      <3>1. SaveTask(task.version, [task EXCEPT !.status = "OVERDUE"])
        BY <1>2, <2>1, <2>4 DEF SaveOverdue
      <3>2. "OVERDUE" \in TaskStatus
        BY DEF TaskStatus
      <3>3. SaveTask(task.version, [task EXCEPT !.status = "OVERDUE", !.published = task.published])
        BY <2>1, <3>1, <3>2, SameFields
      <3>4. /\ task' \in Task /\ task'.version = task.version + 1
            /\ task'.status = "OVERDUE" /\ task'.published = task.published
        <4> HIDE DEF SaveTask
        <4> QED  BY <2>1, <2>2, <3>2, <3>3, SavedTask
      <3> QED  BY <2>2, <3>4 DEF TaskChange, Inv, ReceiptIsReal
    <2> QED  BY <2>3, <2>4
  <1> QED  BY <1>1, <1>2

LEMMA StepChange == Inv /\ [Next]_vars => TaskChange /\ SentChange
  <1> SUFFICES ASSUME Inv, [Next]_vars PROVE TaskChange /\ SentChange
    OBVIOUS
  <1>0. ASSUME UNCHANGED sent PROVE SentChange
    BY <1>0 DEF SentChange, Inv, Types
  <1>1. ASSUME UNCHANGED <<task, sent>> PROVE TaskChange /\ SentChange
    BY <1>0, <1>1 DEF TaskChange
  <1>2. ASSUME NEW h \in Handlers, Create(h) PROVE TaskChange /\ SentChange
    BY <1>0, <1>2 DEF Create, history, TaskChange
  <1>3. ASSUME NEW h \in Handlers, Save(h) PROVE TaskChange /\ SentChange
    BY <1>0, <1>3, HandlerSaves DEF Save
  <1>4. ASSUME NEW h \in Handlers, \/ Update(h) \/ Cancel(h) \/ Complete(h) \/ Submit(h)
                                   \/ FindRoutine(h) \/ Ledger(h) \/ HandlerStoreError(h)
        PROVE  TaskChange /\ SentChange
    BY <1>1, <1>4 DEF Update, Cancel, Complete, Submit, Ask, FindRoutine, Ledger,
                      HandlerStoreError, history
  <1>5. ASSUME NEW w \in Workers, SaveReceipt(w) \/ SaveOverdue(w)
        PROVE  TaskChange /\ SentChange
    BY <1>0, <1>5, WorkerSaves DEF SaveReceipt, SaveOverdue
  <1>6. ASSUME NEW w \in Workers, Send(w) PROVE TaskChange /\ SentChange
    <2>1. sent' = sent \/ sent' = UpTo2(sent + 1)
      BY <1>6 DEF Send
    <2>2. SentChange
      BY <2>1 DEF SentChange, UpTo2, Inv, Types
    <2> QED  BY <1>6, <2>2 DEF Send, TaskChange
  <1>7. ASSUME NEW w \in Workers,
               \/ ReadToPublish(w) \/ ReadForReceipt(w) \/ ReadAtDeadline(w)
               \/ CreateOccurrence(w) \/ ScheduleOccurrence(w) \/ Settle(w)
               \/ WorkerStoreError(w) \/ (\E k \in JobKeys : Claim(w, k))
        PROVE  TaskChange /\ SentChange
    BY <1>1, <1>7 DEF ReadToPublish, ReadForReceipt, ReadAtDeadline, CreateOccurrence,
                      ScheduleOccurrence, Settle, WorkerStoreError, Claim
  <1>8. ASSUME NEW k \in JobKeys, RecoverStale(k) PROVE TaskChange /\ SentChange
    BY <1>1, <1>8 DEF RecoverStale
  <1>9. CASE Crash \/ UNCHANGED vars
    BY <1>1, <1>9 DEF Crash, vars, history
  <1> QED  BY <1>2, <1>3, <1>4, <1>5, <1>6, <1>7, <1>8, <1>9 DEF Next, Execute

-----------------------------------------------------------------------------
(* Types and copies.                                                       *)

LEMMA ChangeTyping == Inv /\ TaskChange => task' \in Task
  <1>1. [status |-> "SCHEDULED", version |-> 1, published |-> FALSE] \in Task
    BY DEF Task, TaskStatus
  <1>2. Inv => task \in Task
    BY DEF Inv, Types
  <1> QED  BY <1>1, <1>2 DEF TaskChange

LEMMA NoTaskTyping == NoTask \in Task
  BY DEF NoTask, Task

\* A step leaves a copy alone, drops it, or takes it from the row.
LEMMA CopyStep ==
  ASSUME Inv, [Next]_vars
  PROVE  /\ wtask' \in [Workers -> Task] /\ htask' \in [Handlers -> Task]
         /\ \A w \in Workers : wtask'[w] \in {wtask[w], NoTask, task'}
         /\ \A h \in Handlers : htask'[h] \in {htask[h], NoTask, task'}
  <1> DEFINE Goal == /\ wtask' \in [Workers -> Task] /\ htask' \in [Handlers -> Task]
                     /\ \A w \in Workers : wtask'[w] \in {wtask[w], NoTask, task'}
                     /\ \A h \in Handlers : htask'[h] \in {htask[h], NoTask, task'}
  <1>0. task' \in Task /\ NoTask \in Task
    BY StepChange, ChangeTyping, NoTaskTyping
  <1> USE DEF Inv, Types
  <1>1. ASSUME NEW h \in Handlers, htask' = [htask EXCEPT ![h] = htask'[h]],
               htask'[h] \in {htask[h], NoTask, task'}, UNCHANGED wtask
        PROVE  Goal
    BY <1>0, <1>1
  <1>2. ASSUME NEW w \in Workers, wtask' = [wtask EXCEPT ![w] = wtask'[w]],
               wtask'[w] \in {wtask[w], NoTask, task'}, UNCHANGED htask
        PROVE  Goal
    BY <1>0, <1>2
  <1>3. ASSUME UNCHANGED <<wtask, htask>> PROVE Goal
    BY <1>3
  <1>4. ASSUME NEW h \in Handlers, Create(h) PROVE Goal
    BY <1>1, <1>4 DEF Create, workerVars
  <1>5. ASSUME NEW h \in Handlers, Update(h) \/ Cancel(h) \/ Complete(h) \/ Submit(h)
        PROVE  Goal
    BY <1>1, <1>5 DEF Update, Cancel, Complete, Submit, Ask, workerVars
  <1>6. ASSUME NEW h \in Handlers, FindRoutine(h) PROVE Goal
    BY <1>3, <1>6 DEF FindRoutine, workerVars
  <1>7. ASSUME NEW h \in Handlers, Save(h) PROVE Goal
    BY <1>1, <1>7 DEF Save, Answer, workerVars
  <1>8. ASSUME NEW h \in Handlers, Ledger(h) \/ HandlerStoreError(h) PROVE Goal
    BY <1>1, <1>3, <1>8 DEF Ledger, HandlerStoreError, Answer, workerVars
  <1>9. ASSUME NEW w \in Workers,
               \/ ReadForReceipt(w) \/ ReadAtDeadline(w) \/ SaveReceipt(w) \/ SaveOverdue(w)
               \/ WorkerStoreError(w)
        PROVE  Goal
    BY <1>2, <1>3, <1>9 DEF ReadForReceipt, ReadAtDeadline, SaveReceipt, SaveOverdue,
                            WorkerStoreError, OnlyWorker, handlerVars
  <1>10. ASSUME NEW w \in Workers,
                \/ ReadToPublish(w) \/ Send(w) \/ CreateOccurrence(w) \/ ScheduleOccurrence(w)
                \/ Settle(w) \/ (\E k \in JobKeys : Claim(w, k))
         PROVE  Goal
    BY <1>3, <1>10 DEF ReadToPublish, Send, CreateOccurrence, ScheduleOccurrence, Settle, Claim,
                       OnlyWorker, handlerVars
  <1>11. ASSUME NEW k \in JobKeys, RecoverStale(k) PROVE Goal
    BY <1>3, <1>11 DEF RecoverStale, workerVars, handlerVars
  <1>12. CASE Crash
    BY <1>0, <1>12 DEF Crash
  <1>13. CASE UNCHANGED vars
    BY <1>3, <1>13 DEF vars, workerVars, handlerVars
  <1> QED  BY <1>4, <1>5, <1>6, <1>7, <1>8, <1>9, <1>10, <1>11, <1>12, <1>13 DEF Next, Execute

\* A save makes every other copy outdated.
LEMMA StepCopy == Inv /\ [Next]_vars => CopyInv'
  <1> SUFFICES ASSUME Inv, [Next]_vars PROVE CopyInv'
    OBVIOUS
  <1>1. task \in Task /\ task' \in Task
    BY StepChange, ChangeTyping DEF Inv, Types
  <1>2. task' = task \/ task'.version > task.version
    BY <1>1, StepChange DEF TaskChange, Inv, BlankInv, Task
  <1>3. ASSUME NEW c \in Task, IsCopy(c) PROVE IsCopy(c)'
    BY <1>1, <1>2, <1>3 DEF IsCopy, Task
  <1>4. IsCopy(NoTask)'
    BY <1>1, <1>2 DEF IsCopy, NoTask, Inv, BlankInv, Task
  <1>5. IsCopy(task)'
    BY <1>1 DEF IsCopy, Task
  <1>6. \A c \in {NoTask, task'} :
           c.version <= task'.version /\ (c.version = task'.version => c = task')
    BY <1>4, <1>5 DEF IsCopy
  <1> QED
    BY <1>3, <1>6, CopyStep DEF CopyInv, IsCopy, Inv, Types

\* The first thing that happens to the task is that it is created.
LEMMA StepBlank == Inv /\ [Next]_vars => BlankInv' /\ ReceiptIsReal'
  <1> SUFFICES ASSUME Inv, [Next]_vars PROVE BlankInv' /\ ReceiptIsReal'
    OBVIOUS
  <1>1. TaskChange /\ SentChange
    BY StepChange
  <1>2. task \in Task /\ sent \in 0..2
    BY DEF Inv, Types
  <1>3. BlankInv'
    BY <1>1, <1>2 DEF TaskChange, Inv, BlankInv, NoTask, Task
  <1>4. ReceiptIsReal'
    BY <1>1, <1>2 DEF TaskChange, SentChange, Inv, ReceiptIsReal
  <1> QED  BY <1>3, <1>4

-----------------------------------------------------------------------------
(* Who is where, and what it knows.                                        *)

\* A worker about to save saw a task that allowed it, and has sent before a receipt.
LEMMA StepWorker ==
  Inv /\ [Next]_vars => WorkerKnows' /\ wpc' \in [Workers -> WorkerStates]
  <1> SUFFICES ASSUME Inv, [Next]_vars
               PROVE  WorkerKnows' /\ wpc' \in [Workers -> WorkerStates]
    OBVIOUS
  <1> USE DEF Inv, Types, WorkerKnows, Goto
  <1> DEFINE Goal == WorkerKnows' /\ wpc' \in [Workers -> WorkerStates]
             Fits(w) == /\ wpc'[w] \in WorkerStates
                        /\ wpc'[w] \in {"saveReceipt", "saveOverdue"}
                             => wtask'[w].status # "CANCELLED"
                        /\ wpc'[w] \in {"receipt", "saveReceipt"} => sent' > 0
  <1>0. sent > 0 => sent' > 0
    BY StepChange DEF SentChange
  <1>1. ASSUME UNCHANGED <<wpc, wtask>> PROVE Goal
    BY <1>0, <1>1
  <1>2. ASSUME NEW w \in Workers, wpc' = [wpc EXCEPT ![w] = wpc'[w]],
               wtask' = [wtask EXCEPT ![w] = wtask'[w]], Fits(w)
        PROVE  Goal
    BY <1>0, <1>2
  <1>3. ASSUME NEW h \in Handlers,
               \/ Create(h) \/ Update(h) \/ Cancel(h) \/ Complete(h) \/ Submit(h)
               \/ FindRoutine(h) \/ Save(h) \/ Ledger(h) \/ HandlerStoreError(h)
        PROVE  Goal
    BY <1>1, <1>3 DEF Create, Update, Cancel, Complete, Submit, Ask, FindRoutine, Save, Ledger,
                      HandlerStoreError, workerVars
  <1>4. ASSUME NEW w \in Workers, \E k \in JobKeys : Claim(w, k) PROVE Goal
    <2>1. wpc'[w] \in {"publish", "deadline", "recur"}
      BY <1>4 DEF Claim, JobKeys, JobTypes, Operation
    <2>2. wpc' = [wpc EXCEPT ![w] = wpc'[w]] /\ wtask' = [wtask EXCEPT ![w] = wtask'[w]]
      BY <1>4 DEF Claim
    <2> QED  BY <1>2, <2>1, <2>2 DEF WorkerStates
  <1>5. ASSUME NEW w \in Workers, Send(w) PROVE Goal
    <2>1. wpc'[w] = "receipt" => sent' > 0
      BY <1>5 DEF Send, UpTo2
    <2> QED  BY <1>2, <1>5, <2>1 DEF Send, WorkerStates
  <1>6. ASSUME NEW w \in Workers, ReadToPublish(w) \/ ReadForReceipt(w) \/ ReadAtDeadline(w)
        PROVE  Goal
    <2>1. CASE ReadToPublish(w)
      BY <1>2, <2>1 DEF ReadToPublish, WorkerStates
    <2>2. CASE ReadForReceipt(w)
      BY <1>0, <1>2, <2>2 DEF ReadForReceipt, WorkerStates
    <2>3. CASE ReadAtDeadline(w)
      BY <1>2, <2>3 DEF ReadAtDeadline, WorkerStates
    <2> QED  BY <1>6, <2>1, <2>2, <2>3
  <1>7. ASSUME NEW w \in Workers, SaveReceipt(w) \/ SaveOverdue(w) PROVE Goal
    BY <1>2, <1>7 DEF SaveReceipt, SaveOverdue, WorkerStates
  <1>8. ASSUME NEW w \in Workers,
               CreateOccurrence(w) \/ ScheduleOccurrence(w) \/ Settle(w) \/ WorkerStoreError(w)
        PROVE  Goal
    BY <1>2, <1>8 DEF CreateOccurrence, ScheduleOccurrence, Settle, WorkerStoreError, WorkerStates
  <1>9. ASSUME NEW k \in JobKeys, RecoverStale(k) PROVE Goal
    BY <1>1, <1>9 DEF RecoverStale, workerVars
  <1>10. CASE Crash
    BY <1>10 DEF Crash, WorkerStates
  <1>11. CASE UNCHANGED vars
    BY <1>1, <1>11 DEF vars, workerVars
  <1> QED  BY <1>3, <1>4, <1>5, <1>6, <1>7, <1>8, <1>9, <1>10, <1>11 DEF Next, Execute

\* A request about to save saw a task that was neither missing nor cancelled.
LEMMA StepHandler ==
  Inv /\ [Next]_vars => /\ HandlerKnows' /\ hpc' \in [Handlers -> HandlerStates]
                        /\ hreq' \in [Handlers -> Requests]
  <1> SUFFICES ASSUME Inv, [Next]_vars
               PROVE  /\ HandlerKnows' /\ hpc' \in [Handlers -> HandlerStates]
                      /\ hreq' \in [Handlers -> Requests]
    OBVIOUS
  <1> USE DEF Inv, Types, HandlerKnows
  <1> DEFINE Goal == /\ HandlerKnows' /\ hpc' \in [Handlers -> HandlerStates]
                     /\ hreq' \in [Handlers -> Requests]
  <1>1. ASSUME UNCHANGED <<hpc, hreq, htask>> PROVE Goal
    BY <1>1
  <1>2. ASSUME NEW h \in Handlers, hpc' = [hpc EXCEPT ![h] = hpc'[h]],
               hreq' = [hreq EXCEPT ![h] = hreq'[h]], htask' = [htask EXCEPT ![h] = htask'[h]],
               hpc'[h] \in HandlerStates, hreq'[h] \in Requests,
               hpc'[h] \in {"list", "save"} => /\ htask'[h].status \notin {"NONE", "CANCELLED"}
                                               /\ hreq'[h] # "create"
        PROVE  Goal
    BY <1>2
  <1>3. ASSUME NEW h \in Handlers, Create(h) PROVE Goal
    BY <1>2, <1>3 DEF Create, HandlerStates, Requests
  <1>4. ASSUME NEW h \in Handlers, Update(h) \/ Cancel(h) \/ Complete(h) \/ Submit(h)
        PROVE  Goal
    BY <1>2, <1>4 DEF Update, Cancel, Complete, Submit, Ask, HandlerStates, Requests
  <1>5. ASSUME NEW h \in Handlers, FindRoutine(h) PROVE Goal
    BY <1>2, <1>5 DEF FindRoutine, HandlerStates
  <1>6. ASSUME NEW h \in Handlers, Save(h) \/ Ledger(h) \/ HandlerStoreError(h) PROVE Goal
    BY <1>1, <1>2, <1>6 DEF Save, Ledger, HandlerStoreError, Answer, HandlerStates, Requests
  <1>7. ASSUME NEW w \in Workers,
               Execute(w) \/ Settle(w) \/ WorkerStoreError(w) \/ \E k \in JobKeys : Claim(w, k)
        PROVE  Goal
    BY <1>1, <1>7
    DEF Execute, ReadToPublish, Send, ReadForReceipt, SaveReceipt, ReadAtDeadline, SaveOverdue,
        CreateOccurrence, ScheduleOccurrence, Settle, WorkerStoreError, Claim, OnlyWorker,
        handlerVars
  <1>8. ASSUME NEW k \in JobKeys, RecoverStale(k) PROVE Goal
    BY <1>1, <1>8 DEF RecoverStale, handlerVars
  <1>9. CASE Crash
    BY <1>9 DEF Crash, HandlerStates, Requests
  <1>10. CASE UNCHANGED vars
    BY <1>1, <1>10 DEF vars, handlerVars
  <1> QED  BY <1>3, <1>4, <1>5, <1>6, <1>7, <1>8, <1>9, <1>10 DEF Next

-----------------------------------------------------------------------------
(* The theorems.                                                           *)

LEMMA InitInv == Init => Inv
  <1> SUFFICES ASSUME Init PROVE Inv
    OBVIOUS
  <1>1. Types
    BY NoTaskTyping DEF Init, Types, WorkerStates, HandlerStates, Requests
  <1>2. CopyInv /\ BlankInv /\ ReceiptIsReal
    BY DEF Init, CopyInv, IsCopy, BlankInv, ReceiptIsReal, NoTask
  <1>3. WorkerKnows /\ HandlerKnows
    BY DEF Init, WorkerKnows, HandlerKnows
  <1> QED  BY <1>1, <1>2, <1>3 DEF Inv

LEMMA StepInv == Inv /\ [Next]_vars => Inv'
  <1> SUFFICES ASSUME Inv, [Next]_vars PROVE Inv'
    OBVIOUS
  <1>1. Types'
    BY StepChange, ChangeTyping, CopyStep, StepWorker, StepHandler DEF SentChange, Types
  <1> QED  BY <1>1, StepCopy, StepBlank, StepWorker, StepHandler DEF Inv

\* A copy of a task at the version of the row is the row, at every moment: no save is
\* made from an outdated copy (saveTask's WHERE clause).
THEOREM CopiesAreCurrent == Spec => []Inv
  BY InitInv, StepInv, PTL DEF Spec

\* ACTIVE means that a receipt is stored, and a receipt that the assignment was sent
\* (recordPublishReceipt).
THEOREM ReceiptsAreReal == Spec => []ReceiptIsReal
  <1>1. Inv => ReceiptIsReal
    BY DEF Inv
  <1> QED  BY <1>1, CopiesAreCurrent, PTL

\* No save takes a stored receipt away.
THEOREM ReceiptsAreKept == Spec => ReceiptIsKept
  <1>1. Inv /\ [Next]_vars => [task.published => task'.published]_vars
    BY StepChange DEF TaskChange, Inv, BlankInv, NoTask
  <1> QED  BY <1>1, CopiesAreCurrent, PTL DEF Spec, ReceiptIsKept

\* A cancelled task stays cancelled, whoever holds an older copy of it.
THEOREM CancellationIsFinal == Spec => CancelledIsFinal
  <1>1. Inv /\ [Next]_vars => [task.status = "CANCELLED" => task'.status = "CANCELLED"]_vars
    BY StepChange DEF TaskChange
  <1> QED  BY <1>1, CopiesAreCurrent, PTL DEF Spec, CancelledIsFinal

-----------------------------------------------------------------------------
(* The ledger statements of a request.                                     *)

\* No statement twice, and nothing is cancelled after a job has been made.
Ordered(s) ==
  /\ s \in Seq(Statements) /\ s # <<>>
  /\ \A i, j \in 1..Len(s) : s[i] = s[j] => i = j
  /\ \A i \in 1..Len(s) : s[i] \in JobTypes \/ (i = 1 /\ s[i] = "cancelJobs")

\* The statements that make the jobs of a version.
LEMMA Joined ==
  ASSUME NEW r \in {<<>>, Routine}
  PROVE  /\ Lifecycle \o r \in Seq(JobTypes) /\ Ordered(Lifecycle \o r)
         /\ "PUBLISH" \in Range(Lifecycle \o r)
         /\ r = Routine => "RECURRENCE" \in Range(Lifecycle \o r)
  <1> DEFINE s == Lifecycle \o r
  <1>1. Lifecycle \in Seq(JobTypes) /\ r \in Seq(JobTypes)
    <2>1. /\ <<"PUBLISH", "DEADLINE">> \in Seq(JobTypes) /\ <<"PUBLISH">> \in Seq(JobTypes)
          /\ <<"RECURRENCE">> \in Seq(JobTypes) /\ <<>> \in Seq(JobTypes)
      BY DEF JobTypes
    <2> QED  BY <2>1 DEF Lifecycle, Routine
  <1>2. /\ s \in Seq(JobTypes) /\ Len(s) = Len(Lifecycle) + Len(r)
        /\ \A i \in 1..(Len(Lifecycle) + Len(r)) :
             s[i] = IF i <= Len(Lifecycle) THEN Lifecycle[i] ELSE r[i - Len(Lifecycle)]
    BY <1>1, ConcatProperties
  <1>3. Len(s) \in Nat /\ DOMAIN s = 1..Len(s) /\ \A i \in 1..Len(s) : s[i] \in JobTypes
    BY <1>2, LenProperties, ElementOfSeq
  <1>4. s \in Seq(Statements)
    BY <1>2, SeqMonotonic DEF Statements
  <1> HIDE DEF s
  <1>5. Ordered(s) /\ "PUBLISH" \in Range(s) /\ (r = Routine => "RECURRENCE" \in Range(s))
    <2>1. CASE "DEADLINE" \in Followed
      <3>1. CASE r = Routine
        <4>1. Len(s) = 3 /\ s[1] = "PUBLISH" /\ s[2] = "DEADLINE" /\ s[3] = "RECURRENCE"
          BY <1>2, <2>1, <3>1 DEF Lifecycle, Routine
        <4>2. s # <<>> /\ \A i \in 1..Len(s) : i = 1 \/ i = 2 \/ i = 3
          BY <4>1
        <4> QED  BY <1>3, <1>4, <4>1, <4>2 DEF Ordered, Range, JobTypes
      <3>2. CASE r = <<>>
        <4>1. Len(s) = 2 /\ s[1] = "PUBLISH" /\ s[2] = "DEADLINE" /\ r # Routine
          BY <1>2, <2>1, <3>2 DEF Lifecycle, Routine
        <4>2. s # <<>> /\ \A i \in 1..Len(s) : i = 1 \/ i = 2
          BY <4>1
        <4> QED  BY <1>3, <1>4, <4>1, <4>2 DEF Ordered, Range, JobTypes
      <3> QED  BY <3>1, <3>2
    <2>2. CASE "DEADLINE" \notin Followed
      <3>1. CASE r = Routine
        <4>1. Len(s) = 2 /\ s[1] = "PUBLISH" /\ s[2] = "RECURRENCE"
          BY <1>2, <2>2, <3>1 DEF Lifecycle, Routine
        <4>2. s # <<>> /\ \A i \in 1..Len(s) : i = 1 \/ i = 2
          BY <4>1
        <4> QED  BY <1>3, <1>4, <4>1, <4>2 DEF Ordered, Range, JobTypes
      <3>2. CASE r = <<>>
        <4>1. Len(s) = 1 /\ s[1] = "PUBLISH" /\ r # Routine
          BY <1>2, <2>2, <3>2 DEF Lifecycle, Routine
        <4>2. s # <<>> /\ \A i \in 1..Len(s) : i = 1
          BY <4>1
        <4> QED  BY <1>3, <1>4, <4>1, <4>2 DEF Ordered, Range, JobTypes
      <3> QED  BY <3>1, <3>2
    <2> QED  BY <2>1, <2>2
  <1> QED  BY <1>2, <1>5 DEF s

\* cancelJobs before statements that make jobs.
LEMMA CancelledFirst ==
  ASSUME NEW s \in Seq(JobTypes), Ordered(s)
  PROVE  /\ Ordered(<<"cancelJobs">> \o s)
         /\ Range(<<"cancelJobs">> \o s) = Range(s) \cup {"cancelJobs"}
         /\ Head(<<"cancelJobs">> \o s) = "cancelJobs"
  <1> DEFINE c == <<"cancelJobs">>  t == c \o s
  <1>1. c \in Seq(Statements) /\ Len(c) = 1 /\ c[1] = "cancelJobs" /\ s \in Seq(Statements)
    BY SeqMonotonic DEF Statements
  <1>2. /\ t \in Seq(Statements) /\ Len(t) = 1 + Len(s)
        /\ \A i \in 1..(1 + Len(s)) : t[i] = IF i <= 1 THEN "cancelJobs" ELSE s[i - 1]
    BY <1>1, ConcatProperties
  <1>3. /\ Len(s) \in Nat /\ DOMAIN s = 1..Len(s) /\ DOMAIN t = 1..Len(t)
        /\ \A i \in 1..Len(s) : s[i] \in JobTypes
    BY <1>2, LenProperties, ElementOfSeq
  <1> HIDE DEF t
  <1>4. t[1] = "cancelJobs" /\ \A i \in 1..Len(s) : t[i + 1] = s[i]
    BY <1>2, <1>3
  <1>5. \A i \in 1..Len(t) : i = 1 \/ (i - 1 \in 1..Len(s) /\ t[i] = s[i - 1])
    BY <1>2, <1>3
  <1>6. Range(t) = Range(s) \cup {"cancelJobs"}
    <2>1. \A x \in Range(t) : x \in Range(s) \cup {"cancelJobs"}
      BY <1>3, <1>4, <1>5 DEF Range
    <2>2. \A x \in Range(s) : \E i \in 1..Len(s) : x = s[i]
      BY <1>3 DEF Range
    <2>3. \A i \in 1..Len(s) : i + 1 \in 1..Len(t)
      BY <1>2, <1>3
    <2>4. \A x \in Range(s) : x \in Range(t)
      BY <1>3, <1>4, <2>2, <2>3 DEF Range
    <2>5. "cancelJobs" \in Range(t)
      BY <1>2, <1>3, <1>4 DEF Range
    <2> QED  BY <2>1, <2>4, <2>5
  <1>7. Ordered(t)
    <2>1. t # <<>>
      BY <1>2, <1>3
    <2>2. \A i \in 1..Len(t) : t[i] \in JobTypes \/ (i = 1 /\ t[i] = "cancelJobs")
      BY <1>3, <1>4, <1>5
    <2>3. \A i, j \in 1..Len(t) : t[i] = t[j] => i = j
      <3>1. "cancelJobs" \notin JobTypes
        BY DEF JobTypes
      <3>2. \A i, j \in 1..Len(s) : s[i] = s[j] => i = j
        BY DEF Ordered
      <3> QED  BY <1>2, <1>3, <1>4, <1>5, <3>1, <3>2
    <2> QED  BY <1>2, <2>1, <2>2, <2>3 DEF Ordered
  <1>8. Head(t) = t[1]
    BY <1>2
  <1> QED  BY <1>4, <1>6, <1>7, <1>8 DEF t

\* The statement that is executed is done, the others are not.
LEMMA TailOrdered ==
  ASSUME NEW s, Ordered(s), Len(s) # 1
  PROVE  /\ Ordered(Tail(s)) /\ Range(Tail(s)) = Range(s) \ {Head(s)}
         /\ "cancelJobs" \notin Range(Tail(s))
  <1> DEFINE t == Tail(s)
  <1>1. s \in Seq(Statements) /\ s # <<>>
    BY DEF Ordered
  <1>2. /\ t \in Seq(Statements) /\ Len(t) = Len(s) - 1 /\ Len(s) \in Nat
        /\ \A i \in 1..Len(t) : t[i] = s[i + 1]
        /\ DOMAIN s = 1..Len(s) /\ DOMAIN t = 1..Len(t) /\ Head(s) = s[1]
    BY <1>1, HeadTailProperties, LenProperties
  <1>3. Len(s) > 1
    BY <1>1, <1>2
  <1> HIDE DEF t
  <1>4. \A i \in 2..Len(s) : i - 1 \in 1..Len(t) /\ s[i] = t[i - 1]
    BY <1>2
  <1>5. \A i, j \in 1..Len(s) : s[i] = s[j] => i = j
    BY DEF Ordered
  <1>6. \A i \in 1..Len(t) : t[i] \in JobTypes
    BY <1>2 DEF Ordered
  <1>7. \A x \in Range(t) : x \in Range(s) \ {Head(s)}
    BY <1>2, <1>3, <1>5 DEF Range
  <1>8. \A x \in Range(s) \ {Head(s)} : x \in Range(t)
    <2> SUFFICES ASSUME NEW i \in 1..Len(s), s[i] # s[1] PROVE s[i] \in Range(t)
      BY <1>2 DEF Range
    <2>1. i \in 2..Len(s)
      BY <1>2
    <2> QED  BY <1>2, <1>4, <2>1 DEF Range
  <1>9. Ordered(t)
    <2>1. t # <<>>
      BY <1>2, <1>3
    <2>2. \A i, j \in 1..Len(t) : t[i] = t[j] => i = j
      BY <1>2, <1>5
    <2> QED  BY <1>2, <1>6, <2>1, <2>2 DEF Ordered
  <1>10. "cancelJobs" \notin Range(t)
    BY <1>2, <1>6 DEF Range, JobTypes
  <1> QED  BY <1>7, <1>8, <1>9, <1>10 DEF t

-----------------------------------------------------------------------------
(* Type correctness.                                                       *)

\* What Types leaves out of TypeOK.
LedgerTypes ==
  /\ row \in [JobKeys -> JobRow]
  /\ wkey \in [Workers -> JobKeys \cup {NoKey}]
  /\ \A w \in Workers : wpc[w] = "idle" <=> wkey[w] = NoKey
  /\ hroutine \in [Handlers -> BOOLEAN]
  /\ todo \in [Handlers -> Seq(Statements)]
  /\ \A h \in Handlers : hpc[h] = "ledger" <=> todo[h] # <<>>

CounterTypes ==
  /\ requests \in 0..MaxEvents
  /\ occurrences \in 0..2 /\ edited \in BOOLEAN
  /\ overlap \in BOOLEAN /\ faults \in 0..MaxEvents

LEMMA TypesJoin == TypeOK <=> Types /\ LedgerTypes /\ CounterTypes
  BY DEF TypeOK, Types, LedgerTypes, CounterTypes

LEMMA KeyFacts ==
  /\ NoKey \notin JobKeys /\ <<1, "PUBLISH">> \in JobKeys /\ <<1, "RECURRENCE">> \in JobKeys
  /\ \A k \in JobKeys : k[1] \in 1..MaxVersion /\ k[2] \in JobTypes /\ k = <<k[1], k[2]>>
  BY BoundsAssumption DEF NoKey, JobKeys, JobTypes

\* What a request executes after its save, by what it asked for.
LEMMA StatementsOf ==
  ASSUME NEW h \in Handlers, hreq[h] \in Requests \ {"create"}, hroutine[h] \in BOOLEAN
  PROVE  /\ LedgerStatements(h) \in Seq(Statements)
         /\ hreq[h] = "update" =>
              /\ Ordered(LedgerStatements(h)) /\ "PUBLISH" \in Range(LedgerStatements(h))
              /\ hroutine[h] => "RECURRENCE" \in Range(LedgerStatements(h))
         /\ hreq[h] = "cancel" => LedgerStatements(h) = <<"cancelJobs">>
         /\ hreq[h] = "complete" => LedgerStatements(h) = <<"cancelJobsButRoutine">>
         /\ hreq[h] = "submit" => LedgerStatements(h) = <<>>
  <1>1. CASE hreq[h] = "update"
    <2> DEFINE r == IF hroutine[h] THEN Routine ELSE <<>>
               s == Lifecycle \o r
    <2>1. r \in {<<>>, Routine} /\ (hroutine[h] => r = Routine)
      OBVIOUS
    <2> HIDE DEF r
    <2>2. /\ s \in Seq(JobTypes) /\ Ordered(s) /\ "PUBLISH" \in Range(s)
          /\ r = Routine => "RECURRENCE" \in Range(s)
      BY <2>1, Joined
    <2>3. /\ Lifecycle \in Seq(Statements) /\ r \in Seq(Statements)
          /\ <<"cancelJobs">> \in Seq(Statements)
      <3>1. /\ <<"PUBLISH", "DEADLINE">> \in Seq(Statements) /\ <<"PUBLISH">> \in Seq(Statements)
            /\ <<"RECURRENCE">> \in Seq(Statements) /\ <<>> \in Seq(Statements)
            /\ <<"cancelJobs">> \in Seq(Statements)
        BY DEF Statements, JobTypes
      <3> QED  BY <2>1, <3>1 DEF Lifecycle, Routine
    <2>4. LedgerStatements(h) = <<"cancelJobs">> \o Lifecycle \o r
      BY <1>1 DEF LedgerStatements, r
    <2>5. LedgerStatements(h) = <<"cancelJobs">> \o s
      BY <2>3, <2>4, ConcatAssociative
    <2> HIDE DEF s
    <2>6. /\ Ordered(<<"cancelJobs">> \o s)
          /\ Range(<<"cancelJobs">> \o s) = Range(s) \cup {"cancelJobs"}
      BY <2>2, CancelledFirst
    <2> QED  BY <1>1, <2>1, <2>2, <2>5, <2>6 DEF Ordered
  <1>2. CASE hreq[h] = "cancel"
    BY <1>2 DEF LedgerStatements, Statements
  <1>3. CASE hreq[h] = "complete"
    BY <1>3 DEF LedgerStatements, Statements
  <1>4. CASE hreq[h] = "submit"
    BY <1>4 DEF LedgerStatements, Statements
  <1> QED  BY <1>1, <1>2, <1>3, <1>4 DEF Requests

\* What the creation executes.
LEMMA StatementsOfCreate ==
  /\ Ordered(Lifecycle \o (IF "RECURRENCE" \in Followed THEN Routine ELSE <<>>))
  /\ Lifecycle \o (IF "RECURRENCE" \in Followed THEN Routine ELSE <<>>) \in Seq(JobTypes)
  /\ "PUBLISH" \in Range(Lifecycle \o (IF "RECURRENCE" \in Followed THEN Routine ELSE <<>>))
  /\ "RECURRENCE" \in Followed =>
       "RECURRENCE" \in Range(Lifecycle \o (IF "RECURRENCE" \in Followed THEN Routine ELSE <<>>))
  <1> DEFINE r == IF "RECURRENCE" \in Followed THEN Routine ELSE <<>>
  <1>1. r \in {<<>>, Routine} /\ ("RECURRENCE" \in Followed => r = Routine)
    OBVIOUS
  <1> HIDE DEF r
  <1>2. /\ Lifecycle \o r \in Seq(JobTypes) /\ Ordered(Lifecycle \o r)
        /\ "PUBLISH" \in Range(Lifecycle \o r)
        /\ r = Routine => "RECURRENCE" \in Range(Lifecycle \o r)
    BY <1>1, Joined
  <1> QED  BY <1>1, <1>2 DEF r

LEMMA NoRowTyping == NoRow(MaxAttempts) \in JobRow
  BY BoundsAssumption DEF NoRow, JobRow

\* A request keeps the rows rows, and has a statement left exactly while it writes them.
LEMMA HandlerLedgerTypes ==
  ASSUME Inv, LedgerTypes, NEW h \in Handlers,
         \/ Create(h) \/ Update(h) \/ Cancel(h) \/ Complete(h) \/ Submit(h)
         \/ FindRoutine(h) \/ Save(h) \/ Ledger(h) \/ HandlerStoreError(h)
  PROVE  LedgerTypes'
  <1> USE DEF LedgerTypes
  <1>0. <<>> \in Seq(Statements)
    OBVIOUS
  <1>1. ASSUME UNCHANGED <<row, wkey, wpc>>, hroutine' \in [Handlers -> BOOLEAN],
               todo' = [todo EXCEPT ![h] = todo'[h]], todo'[h] \in Seq(Statements),
               hpc' = [hpc EXCEPT ![h] = hpc'[h]], hpc'[h] = "ledger" <=> todo'[h] # <<>>
        PROVE  LedgerTypes'
    BY <1>1 DEF Inv, Types
  <1>2. CASE Create(h)
    <2>1. Lifecycle \o (IF "RECURRENCE" \in Followed THEN Routine ELSE <<>>)
            \in Seq(Statements) \ {<<>>}
      BY StatementsOfCreate DEF Ordered
    <2> QED  BY <1>1, <1>2, <2>1 DEF Create, workerVars, Inv, Types
  <1>3. CASE Update(h) \/ Cancel(h) \/ Complete(h) \/ Submit(h) \/ FindRoutine(h)
    BY <1>1, <1>3
    DEF Update, Cancel, Complete, Submit, Ask, FindRoutine, workerVars, Inv, Types
  <1>4. CASE HandlerStoreError(h)
    BY <1>0, <1>1, <1>4 DEF HandlerStoreError, Answer, workerVars, Inv, Types
  <1>5. CASE Save(h)
    <2>1. LedgerStatements(h) \in Seq(Statements)
      BY <1>5, StatementsOf DEF Save, Inv, Types, HandlerKnows
    <2> QED
      BY <1>0, <1>1, <1>5, <2>1 DEF Save, Answer, workerVars, Inv, Types
  <1>6. CASE Ledger(h)
    <2>1. todo[h] # <<>> /\ todo[h] \in Seq(Statements)
      BY <1>6 DEF Ledger
    <2>2. Len(todo[h]) # 1 => Tail(todo[h]) \in Seq(Statements) \ {<<>>}
      <3> SUFFICES ASSUME Len(todo[h]) # 1 PROVE Tail(todo[h]) \in Seq(Statements) \ {<<>>}
        OBVIOUS
      <3>1. /\ Tail(todo[h]) \in Seq(Statements) /\ Len(Tail(todo[h])) = Len(todo[h]) - 1
            /\ Len(todo[h]) \in Nat
        BY <2>1, HeadTailProperties, LenProperties
      <3>2. Len(Tail(todo[h])) # 0
        BY <3>1
      <3>3. Tail(todo[h]) # <<>>
        BY <3>2, EmptySeq
      <3> QED  BY <3>1, <3>3
    <2>3. /\ hroutine' \in [Handlers -> BOOLEAN]
          /\ todo' \in [Handlers -> Seq(Statements)]
          /\ \A g \in Handlers : hpc'[g] = "ledger" <=> todo'[g] # <<>>
      BY <1>0, <1>6, <2>1, <2>2 DEF Ledger, Answer, Inv, Types
    <2>4. row' \in [JobKeys -> JobRow]
      <3>1. CASE Head(todo[h]) = "cancelJobs"
        BY <1>6, <3>1, RowTyping DEF Ledger, CancelAll
      <3>2. CASE Head(todo[h]) = "cancelJobsButRoutine"
        BY <1>6, <3>2, RowTyping DEF Ledger, CancelAll
      <3>3. CASE Head(todo[h]) \notin {"cancelJobs", "cancelJobsButRoutine"}
        <4>1. CreateJob(<<htask[h].version, Head(todo[h])>>)
          BY <1>6, <3>3 DEF Ledger
        <4>2. \A r \in JobRow : Created(r, FALSE) \in JobRow
          BY RowTyping
        <4> QED  BY <4>1, <4>2 DEF CreateJob
      <3> QED  BY <3>1, <3>2, <3>3
    <2> QED
      BY <1>6, <2>3, <2>4 DEF Ledger, workerVars
  <1> QED  BY <1>2, <1>3, <1>4, <1>5, <1>6

\* A worker keeps the rows rows, and holds a job exactly while it works.
LEMMA WorkerLedgerTypes ==
  ASSUME Inv, LedgerTypes, NEW w \in Workers,
         \/ Execute(w) \/ Settle(w) \/ WorkerStoreError(w) \/ \E k \in JobKeys : Claim(w, k)
  PROVE  LedgerTypes'
  <1> USE DEF LedgerTypes, Goto, OnlyWorker, handlerVars, Inv, Types
  <1>1. ASSUME UNCHANGED <<row, wkey, hpc, hroutine, todo>>, wpc[w] # "idle",
               wpc' = [wpc EXCEPT ![w] = wpc'[w]], wpc'[w] # "idle"
        PROVE  LedgerTypes'
    BY <1>1
  <1>2. CASE ReadToPublish(w) \/ Send(w) \/ ReadForReceipt(w) \/ SaveReceipt(w)
    BY <1>1, <1>2 DEF ReadToPublish, Send, ReadForReceipt, SaveReceipt
  <1>3. CASE ReadAtDeadline(w) \/ SaveOverdue(w) \/ CreateOccurrence(w) \/ ScheduleOccurrence(w)
    BY <1>1, <1>3 DEF ReadAtDeadline, SaveOverdue, CreateOccurrence, ScheduleOccurrence
  <1>4. CASE WorkerStoreError(w)
    BY <1>1, <1>4 DEF WorkerStoreError
  <1>5. CASE Settle(w)
    <2>1. wkey[w] \in JobKeys
      BY <1>5 DEF Settle
    <2>2. row' \in [JobKeys -> JobRow]
      <3>1. \A r \in JobRow : /\ Completed(r) \in JobRow
                              /\ Failed(r, TRUE) \in JobRow /\ Failed(r, FALSE) \in JobRow
        BY RowTyping
      <3>2. CASE row' = [row EXCEPT ![wkey[w]] = Completed(@)]
        BY <2>1, <3>1, <3>2
      <3>3. CASE row' = [row EXCEPT ![wkey[w]] = Failed(@, TRUE)]
        BY <2>1, <3>1, <3>3
      <3>4. CASE row' = [row EXCEPT ![wkey[w]] = Failed(@, FALSE)]
        BY <2>1, <3>1, <3>4
      <3> QED  BY <1>5, <3>2, <3>3, <3>4 DEF Settle
    <2> QED  BY <1>5, <2>2 DEF Settle
  <1>6. ASSUME NEW k \in JobKeys, Claim(w, k) PROVE LedgerTypes'
    <2>1. k # NoKey /\ Operation(k) # "idle"
      BY KeyFacts DEF Operation, JobTypes
    <2>2. row' \in [JobKeys -> JobRow]
      BY <1>6, RowTyping DEF Claim
    <2> QED  BY <1>6, <2>1, <2>2 DEF Claim
  <1> QED  BY <1>2, <1>3, <1>4, <1>5, <1>6 DEF Execute

LEMMA StepLedgerTypes == Inv /\ LedgerTypes /\ [Next]_vars => LedgerTypes'
  <1> SUFFICES ASSUME Inv, LedgerTypes, [Next]_vars PROVE LedgerTypes'
    OBVIOUS
  <1>1. ASSUME NEW k \in JobKeys, RecoverStale(k) PROVE LedgerTypes'
    <2>1. [row[k] EXCEPT !.stale = TRUE] \in JobRow
      BY DEF LedgerTypes, JobRow
    <2>2. row' \in [JobKeys -> JobRow]
      BY <1>1, <2>1, RowTyping DEF RecoverStale, LedgerTypes
    <2> QED  BY <1>1, <2>2 DEF RecoverStale, LedgerTypes, workerVars, handlerVars
  <1>2. CASE Crash
    <2>1. <<>> \in Seq(Statements)
      OBVIOUS
    <2> QED  BY <1>2, <2>1 DEF Crash, LedgerTypes
  <1>3. CASE UNCHANGED vars
    BY <1>3 DEF vars, workerVars, handlerVars, LedgerTypes
  <1> QED
    BY <1>1, <1>2, <1>3, HandlerLedgerTypes, WorkerLedgerTypes DEF Next

LEMMA StepCounterTypes == Inv /\ CounterTypes /\ [Next]_vars => CounterTypes'
  <1> SUFFICES ASSUME Inv, CounterTypes, [Next]_vars PROVE CounterTypes'
    OBVIOUS
  <1> USE BoundsAssumption DEF CounterTypes
  <1>1. ASSUME NEW h \in Handlers, Create(h) \/ FindRoutine(h) \/ Ledger(h)
        PROVE  CounterTypes'
    BY <1>1 DEF Create, FindRoutine, Ledger, history
  <1>2. ASSUME NEW h \in Handlers, Update(h) \/ Cancel(h) \/ Complete(h) \/ Submit(h)
        PROVE  CounterTypes'
    <2>1. requests' \in 0..MaxEvents /\ UNCHANGED <<occurrences, edited, faults>>
      BY <1>2 DEF Update, Cancel, Complete, Submit, Ask
    <2>2. overlap' = overlap \/ overlap' = (overlap \/ \E g \in Handlers \ {h} : Scheduling(g))
      BY <1>2 DEF Update, Cancel, Complete, Submit, NoteOverlap
    <2>3. overlap' \in BOOLEAN
      BY <2>2, Zenon
    <2> QED  BY <2>1, <2>3
  <1>3. ASSUME NEW h \in Handlers, Save(h) PROVE CounterTypes'
    <2>1. UNCHANGED <<requests, occurrences, overlap, faults>>
      BY <1>3 DEF Save
    <2>2. edited' = edited \/ edited' = (edited \/ hreq[h] = "update")
      BY <1>3 DEF Save
    <2>3. edited' \in BOOLEAN
      BY <2>2, Zenon
    <2> QED  BY <2>1, <2>3
  <1>4. ASSUME NEW h \in Handlers, HandlerStoreError(h) PROVE CounterTypes'
    BY <1>4 DEF HandlerStoreError, Fault
  <1>5. ASSUME NEW w \in Workers, \/ Execute(w) \/ Settle(w) \/ WorkerStoreError(w)
                                  \/ \E k \in JobKeys : Claim(w, k)
        PROVE  CounterTypes'
    <2>1. CASE CreateOccurrence(w)
      BY <2>1 DEF CreateOccurrence, UpTo2, OnlyWorker, handlerVars
    <2>2. CASE WorkerStoreError(w)
      BY <2>2 DEF WorkerStoreError, Fault, handlerVars
    <2>3. CASE \/ ReadToPublish(w) \/ Send(w) \/ ReadForReceipt(w) \/ SaveReceipt(w)
               \/ ReadAtDeadline(w) \/ SaveOverdue(w) \/ ScheduleOccurrence(w)
               \/ Settle(w) \/ \E k \in JobKeys : Claim(w, k)
      BY <2>3 DEF ReadToPublish, Send, ReadForReceipt, SaveReceipt, ReadAtDeadline, SaveOverdue,
                  ScheduleOccurrence, Settle, Claim, OnlyWorker, handlerVars
    <2> QED  BY <1>5, <2>1, <2>2, <2>3 DEF Execute
  <1>6. ASSUME NEW k \in JobKeys, RecoverStale(k) PROVE CounterTypes'
    BY <1>6 DEF RecoverStale, Fault, handlerVars
  <1>7. CASE Crash \/ UNCHANGED vars
    BY <1>7 DEF Crash, Fault, vars, handlerVars, history
  <1> QED  BY <1>1, <1>2, <1>3, <1>4, <1>5, <1>6, <1>7 DEF Next

-----------------------------------------------------------------------------
(* The ledger while nothing fails.                                         *)

\* A published task no longer waits, and before the task exists no request works on it.
Grounds ==
  /\ task.published => task.status # "SCHEDULED"
  /\ task.status = "NONE" => \A h \in Handlers : hpc[h] = "idle"

Base == Inv /\ LedgerTypes /\ CounterTypes /\ Grounds

\* A job has one holder at most, and its row is in PROCESSING unless it was cancelled.
Held ==
  \A w \in Workers : wkey[w] # NoKey =>
    /\ row[wkey[w]].status \in {"PROCESSING", "CANCELLED"}
    /\ \A u \in Workers : wkey[u] = wkey[w] => u = w

\* Where a worker is, by the type of its job.
StageFits(w) ==
  /\ wpc[w] \in {"publish", "sending", "receipt", "saveReceipt"} => wkey[w][2] = "PUBLISH"
  /\ wpc[w] \in {"deadline", "saveOverdue"} => wkey[w][2] = "DEADLINE"
  /\ wpc[w] \in {"recur", "recurJobs"} => wkey[w][2] = "RECURRENCE"
  /\ wpc[w] = "completing" /\ wkey[w][2] = "PUBLISH" => task.status # "SCHEDULED"
  /\ wkey[w][2] = "RECURRENCE" =>
       wpc[w] # "failRetry" /\ (wpc[w] \in {"recurJobs", "completing"} => occurrences > 0)

\* The request is making the jobs of the version it has saved.
Scheduler(h) == hpc[h] = "ledger" /\ hreq[h] \in {"create", "update"}

\* What a request still has to execute, by what it asked for.
ListFits(h) ==
  hpc[h] = "ledger" =>
    /\ hreq[h] # "submit"
    /\ hreq[h] = "create" => htask[h].version = 1
    /\ hreq[h] = "cancel" => todo[h] = <<"cancelJobs">> /\ task.status = "CANCELLED"
    /\ hreq[h] = "complete" => todo[h] = <<"cancelJobsButRoutine">> /\ task.status # "SCHEDULED"
    /\ Scheduler(h) =>
         /\ htask[h].version \in 1..MaxVersion /\ Ordered(todo[h])
         /\ "cancelJobs" \in Range(todo[h]) => "PUBLISH" \in Range(todo[h])

\* A version that is still to be scheduled has no jobs, and one request schedules it.
Fresh ==
  /\ \A k \in JobKeys : k[1] > task.version => row[k].status = "NONE"
  /\ \A h \in Handlers : Scheduler(h) =>
       /\ \A t \in Range(todo[h]) \cap JobTypes : row[<<htask[h].version, t>>].status = "NONE"
       /\ \A g \in Handlers : Scheduler(g) /\ htask[g].version = htask[h].version => g = h

PublisherComing == \E h \in Handlers : Scheduler(h) /\ "PUBLISH" \in Range(todo[h])

LedgerInv ==
  /\ Held /\ Fresh
  /\ \A w \in Workers : StageFits(w)
  /\ \A h \in Handlers : ListFits(h)
  /\ task.status = "SCHEDULED" => PublisherKnown \/ PublisherComing

\* What a step cannot undo: a task that is cancelled, and one that no longer waits.
LEMMA StatusChange ==
  ASSUME Inv, [Next]_vars
  PROVE  /\ task'.version >= task.version /\ task'.version \in Nat /\ task.version \in Nat
         /\ task.status = "CANCELLED" => task'.status = "CANCELLED"
         /\ task.status \notin {"NONE", "SCHEDULED"} => task'.status # "SCHEDULED"
         /\ task'.status = "NONE" => task' = task
  <1>1. TaskChange /\ task \in Task /\ task' \in Task
    BY StepChange, ChangeTyping DEF Inv, Types
  <1> QED  BY <1>1 DEF TaskChange, Task, Inv, BlankInv

LEMMA StepGrounds == Inv /\ Grounds /\ [Next]_vars => Grounds'
  <1> SUFFICES ASSUME Inv, Grounds, [Next]_vars PROVE Grounds'
    OBVIOUS
  <1>1. task'.published => task'.status # "SCHEDULED"
    <2>1. task \in Task /\ task' \in Task /\ TaskChange
      BY StepChange, ChangeTyping DEF Inv, Types
    <2>2. CASE task' = task
      BY <2>2 DEF Grounds
    <2>3. CASE task' = [status |-> "SCHEDULED", version |-> 1, published |-> FALSE]
      BY <2>3
    <2>4. CASE task'.status = "SCHEDULED" => /\ task.status = "SCHEDULED"
                                             /\ task'.published = task.published
      BY <2>1, <2>4 DEF Grounds, Task
    <2> QED  BY <2>1, <2>2, <2>3, <2>4 DEF TaskChange
  <1>2. ASSUME task'.status = "NONE" PROVE \A h \in Handlers : hpc'[h] = "idle"
    <2>1. task.status = "NONE" /\ \A h \in Handlers : hpc[h] = "idle"
      BY <1>2, StatusChange DEF Grounds
    <2>2. ASSUME NEW h \in Handlers, Create(h) PROVE FALSE
      <3>1. task'.status = "SCHEDULED"
        BY <2>2 DEF Create
      <3> QED  BY <1>2, <3>1
    <2>3. ASSUME NEW h \in Handlers,
                 \/ Update(h) \/ Cancel(h) \/ Complete(h) \/ Submit(h)
                 \/ FindRoutine(h) \/ Save(h) \/ Ledger(h) \/ HandlerStoreError(h)
          PROVE  FALSE
      BY <2>1, <2>3 DEF Update, Cancel, Complete, Submit, Ask, FindRoutine, Save, Ledger,
                        HandlerStoreError
    <2>4. ASSUME NEW w \in Workers, \/ Execute(w) \/ Settle(w) \/ WorkerStoreError(w)
                                    \/ \E k \in JobKeys : Claim(w, k)
          PROVE  hpc' = hpc
      BY <2>4
      DEF Execute, ReadToPublish, Send, ReadForReceipt, SaveReceipt, ReadAtDeadline, SaveOverdue,
          CreateOccurrence, ScheduleOccurrence, Settle, WorkerStoreError, Claim, OnlyWorker,
          handlerVars
    <2>5. ASSUME NEW k \in JobKeys, RecoverStale(k) PROVE hpc' = hpc
      BY <2>5 DEF RecoverStale, handlerVars
    <2>6. CASE Crash
      BY <2>6 DEF Crash
    <2>7. CASE UNCHANGED vars
      BY <2>1, <2>7 DEF vars, handlerVars
    <2> QED  BY <2>1, <2>2, <2>3, <2>4, <2>5, <2>6, <2>7 DEF Next
  <1> QED  BY <1>1, <1>2 DEF Grounds

LEMMA InitBase == Init => Base
  <1> SUFFICES ASSUME Init PROVE Base
    OBVIOUS
  <1>1. <<>> \in Seq(Statements) /\ 0 \in 0..MaxEvents /\ 0 \in 0..2
    BY BoundsAssumption
  <1>2. row \in [JobKeys -> JobRow] /\ todo \in [Handlers -> Seq(Statements)]
    BY <1>1, NoRowTyping DEF Init
  <1>3. LedgerTypes
    BY <1>2 DEF Init, LedgerTypes
  <1>4. CounterTypes
    BY <1>1 DEF Init, CounterTypes
  <1>5. Grounds
    BY DEF Init, Grounds, NoTask
  <1> QED  BY <1>3, <1>4, <1>5, InitInv DEF Base

LEMMA StepBase == Base /\ [Next]_vars => Base'
  BY StepInv, StepLedgerTypes, StepCounterTypes, StepGrounds DEF Base

\* Every variable keeps its type; a worker is idle exactly when it holds no job, and a
\* request has statements left exactly while it writes the ledger.
THEOREM TypeCorrect == Spec => []TypeOK
  <1>1. Base => TypeOK
    BY TypesJoin DEF Base, Inv
  <1> QED  BY <1>1, InitBase, StepBase, PTL DEF Spec

-----------------------------------------------------------------------------
(* Its step, action by action.                                             *)

\* A fault is remembered.
LEMMA FaultRemembered == Base /\ [Next]_vars /\ faults' = 0 => faults = 0
  <1> SUFFICES ASSUME Base, [Next]_vars, faults' = 0 PROVE faults = 0
    OBVIOUS
  <1> USE DEF Base, CounterTypes
  <1>1. ASSUME NEW h \in Handlers,
               \/ Create(h) \/ Update(h) \/ Cancel(h) \/ Complete(h) \/ Submit(h)
               \/ FindRoutine(h) \/ Save(h) \/ Ledger(h) \/ HandlerStoreError(h)
        PROVE  faults = 0
    BY <1>1 DEF Create, Update, Cancel, Complete, Submit, Ask, FindRoutine, Save, Ledger,
                HandlerStoreError, Fault, history
  <1>2. ASSUME NEW w \in Workers, \/ Execute(w) \/ Settle(w) \/ WorkerStoreError(w)
                                  \/ \E k \in JobKeys : Claim(w, k)
        PROVE  faults = 0
    <2>1. CASE WorkerStoreError(w)
      BY <2>1 DEF WorkerStoreError, Fault
    <2>2. CASE Execute(w) \/ Settle(w) \/ \E k \in JobKeys : Claim(w, k)
      <3>1. OnlyWorker
        BY <2>2
        DEF Execute, ReadToPublish, Send, ReadForReceipt, SaveReceipt, ReadAtDeadline,
            SaveOverdue, CreateOccurrence, ScheduleOccurrence, Settle, Claim
      <3> QED  BY <3>1 DEF OnlyWorker
    <2> QED  BY <1>2, <2>1, <2>2
  <1>3. ASSUME NEW k \in JobKeys, RecoverStale(k) PROVE faults = 0
    BY <1>3 DEF RecoverStale, Fault
  <1>4. CASE Crash \/ UNCHANGED vars
    BY <1>4 DEF Crash, Fault, vars, history
  <1> QED  BY <1>1, <1>2, <1>3, <1>4 DEF Next

\* Nobody holds a job of a task that does not exist.
LEMMA BusyMeansTask ==
  ASSUME Base, LedgerInv, NEW w \in Workers, wpc[w] # "idle"
  PROVE  task.status # "NONE" /\ wkey[w] \in JobKeys
  <1>1. wkey[w] \in JobKeys /\ wkey[w] # NoKey
    BY DEF Base, Inv, Types, LedgerTypes
  <1>2. row[wkey[w]].status # "NONE"
    BY <1>1 DEF LedgerInv, Held
  <1>3. wkey[w][1] > 0
    BY <1>1, KeyFacts, BoundsAssumption
  <1>4. task.version # 0
    BY <1>1, <1>2, <1>3 DEF LedgerInv, Fresh
  <1> QED  BY <1>1, <1>4 DEF Base, Inv, BlankInv

\* A step that leaves the ledger and its users alone.
LEMMA LedgerFrame ==
  ASSUME Base, LedgerInv, [Next]_vars, UNCHANGED <<row, wkey, hpc, hreq, htask, todo>>,
         task.status = "NONE" => UNCHANGED task, \A w \in Workers : StageFits(w)'
  PROVE  LedgerInv'
  <1>1. Held'
    BY DEF LedgerInv, Held
  <1>2. Fresh'
    <2>1. /\ task'.version >= task.version /\ task'.version \in Nat /\ task.version \in Nat
          /\ \A k \in JobKeys : k[1] \in Nat
      BY StatusChange, KeyFacts, BoundsAssumption DEF Base
    <2>2. \A k \in JobKeys : k[1] > task'.version => k[1] > task.version
      BY <2>1
    <2> QED  BY <2>2 DEF LedgerInv, Fresh, Scheduler
  <1>3. ASSUME NEW h \in Handlers PROVE ListFits(h)'
    <2>1. hpc[h] = "ledger" => task.status # "NONE"
      BY DEF Base, Grounds
    <2>2. ListFits(h)
      BY DEF LedgerInv
    <2>3. /\ task.status = "CANCELLED" => task'.status = "CANCELLED"
          /\ task.status \notin {"NONE", "SCHEDULED"} => task'.status # "SCHEDULED"
      BY StatusChange DEF Base
    <2> HIDE DEF LedgerInv
    <2> QED  BY <2>1, <2>2, <2>3 DEF ListFits, Scheduler
  <1>4. ASSUME task'.status = "SCHEDULED" PROVE PublisherKnown' \/ PublisherComing'
    <2>1. task.status = "SCHEDULED"
      <3>1. task.status # "NONE"
        BY <1>4
      <3> QED  BY <1>4, <3>1, StatusChange DEF Base
    <2> QED  BY <2>1 DEF LedgerInv, PublisherKnown, PublisherComing, Scheduler
  <1> QED  BY <1>1, <1>2, <1>3, <1>4 DEF LedgerInv

\* What is known of a worker stays true while it does nothing.
LEMMA StageKept ==
  ASSUME Base, LedgerInv, [Next]_vars, NEW u \in Workers, wpc'[u] = wpc[u], wkey'[u] = wkey[u],
         occurrences > 0 => occurrences' > 0
  PROVE  StageFits(u)'
  <1>1. wpc[u] = "completing" => task.status # "NONE"
    BY BusyMeansTask
  <1>2. task.status \notin {"NONE", "SCHEDULED"} => task'.status # "SCHEDULED"
    BY StatusChange DEF Base
  <1>3. StageFits(u)
    BY DEF LedgerInv
  <1> QED  BY <1>1, <1>2, <1>3 DEF StageFits

LEMMA ExecuteLedger ==
  ASSUME Base, LedgerInv, [Next]_vars, NEW w \in Workers, Execute(w)
  PROVE  LedgerInv'
  <1> USE DEF Goto
  <1>1. /\ wpc' = [wpc EXCEPT ![w] = wpc'[w]] /\ wpc[w] # "idle"
        /\ UNCHANGED <<row, wkey, hpc, hreq, htask, todo>>
    BY DEF Execute, ReadToPublish, Send, ReadForReceipt, SaveReceipt, ReadAtDeadline, SaveOverdue,
           CreateOccurrence, ScheduleOccurrence, OnlyWorker, handlerVars, Base, Inv, Types
  <1>2. wkey[w] \in JobKeys /\ task.status # "NONE"
    BY <1>1, BusyMeansTask
  <1>3. StageFits(w)
    BY DEF LedgerInv
  <1>4. occurrences > 0 => occurrences' > 0
    BY DEF Execute, ReadToPublish, Send, ReadForReceipt, SaveReceipt, ReadAtDeadline, SaveOverdue,
           CreateOccurrence, ScheduleOccurrence, UpTo2, Base, CounterTypes
  <1>5. StageFits(w)'
    <2>1. CASE ReadToPublish(w) \/ ReadForReceipt(w)
      <3>1. wkey'[w][2] = "PUBLISH" /\ task' = task
        BY <1>1, <1>3, <2>1 DEF ReadToPublish, ReadForReceipt, StageFits
      <3>2. wpc'[w] \in {"completing", "sending", "failFinal", "saveReceipt"}
        BY <1>1, <2>1 DEF ReadToPublish, ReadForReceipt, Base, Inv, Types
      <3>3. wpc'[w] = "completing" => task.status # "SCHEDULED"
        BY <2>1 DEF ReadToPublish, ReadForReceipt, Base, Inv, Types, Grounds
      <3> QED  BY <3>1, <3>2, <3>3 DEF StageFits
    <2>2. CASE Send(w)
      <3>1. wkey'[w][2] = "PUBLISH" /\ wpc'[w] \in {"receipt", "failRetry"}
        BY <1>1, <1>3, <2>2 DEF Send, StageFits, Base, Inv, Types
      <3> QED  BY <3>1 DEF StageFits
    <2>3. CASE SaveReceipt(w)
      <3>1. wkey'[w][2] = "PUBLISH" /\ wpc'[w] \in {"completing", "failRetry", "failFinal"}
        BY <1>1, <1>3, <2>3 DEF SaveReceipt, StageFits, Base, Inv, Types
      <3>2. wpc'[w] = "completing" => task'.status # "SCHEDULED"
        <4>1. wpc'[w] = "completing" => CanSave(wtask[w].version)
          BY <2>3 DEF SaveReceipt, Base, Inv, Types
        <4>2. ASSUME CanSave(wtask[w].version) PROVE task'.status = "ACTIVE"
          <5>1. wtask[w] \in Task
            BY DEF Base, Inv, Types
          <5>2. SaveTask(wtask[w].version,
                         [wtask[w] EXCEPT !.status = "ACTIVE", !.published = TRUE])
            BY <2>3, <4>2 DEF SaveReceipt
          <5>3. "ACTIVE" \in TaskStatus \cup {"NONE"} /\ TRUE \in BOOLEAN
            BY DEF TaskStatus
          <5> HIDE DEF SaveTask
          <5> QED  BY <5>1, <5>2, <5>3, SavedTask
        <4> QED  BY <4>1, <4>2
      <3> QED  BY <3>1, <3>2 DEF StageFits
    <2>4. CASE ReadAtDeadline(w) \/ SaveOverdue(w)
      <3>1. /\ wkey'[w][2] = "DEADLINE"
            /\ wpc'[w] \in {"completing", "saveOverdue", "failRetry", "failFinal"}
        BY <1>1, <1>3, <2>4 DEF ReadAtDeadline, SaveOverdue, StageFits, Base, Inv, Types
      <3> QED  BY <3>1 DEF StageFits
    <2>5. CASE CreateOccurrence(w) \/ ScheduleOccurrence(w)
      <3>1. /\ wkey'[w][2] = "RECURRENCE"
            /\ wpc'[w] \in {"recurJobs", "completing", "failFinal"}
        BY <1>1, <1>3, <2>5 DEF CreateOccurrence, ScheduleOccurrence, StageFits, Base, Inv, Types
      <3>2. wpc'[w] \in {"recurJobs", "completing"} => occurrences' > 0
        BY <1>2, <1>3, <2>5
        DEF CreateOccurrence, ScheduleOccurrence, StageFits, UpTo2, Base, Inv, Types, CounterTypes
      <3> QED  BY <3>1, <3>2 DEF StageFits
    <2> QED  BY <2>1, <2>2, <2>3, <2>4, <2>5 DEF Execute
  <1>6. ASSUME NEW u \in Workers PROVE StageFits(u)'
    <2>1. CASE u = w
      BY <1>5, <2>1
    <2>2. CASE u # w
      <3>1. wpc'[u] = wpc[u] /\ wkey'[u] = wkey[u]
        BY <1>1, <2>2 DEF Base, Inv, Types
      <3> QED  BY <1>4, <3>1, StageKept
    <2> QED  BY <2>1, <2>2
  <1> QED  BY <1>1, <1>2, <1>6, LedgerFrame

\* A statement on one row that exists concerns no version still to be scheduled.
LEMMA RowFrame ==
  ASSUME Base, LedgerInv, NEW k \in JobKeys, row' = [row EXCEPT ![k] = row'[k]],
         row[k].status # "NONE", UNCHANGED <<task, hpc, hreq, htask, todo>>,
         k[2] = "PUBLISH" /\ task.status = "SCHEDULED"
           => row'[k].status \in {"PENDING", "PROCESSING", "FAILED"}
  PROVE  /\ Fresh' /\ \A h \in Handlers : ListFits(h)'
         /\ task'.status = "SCHEDULED" => PublisherKnown' \/ PublisherComing'
  <1>0. row \in [JobKeys -> JobRow]
    BY DEF Base, LedgerTypes
  <1>1. \A h \in Handlers : ListFits(h)'
    BY DEF LedgerInv, ListFits, Scheduler
  <1>2. ASSUME NEW l \in JobKeys, row[l].status = "NONE" PROVE row'[l].status = "NONE"
    BY <1>0, <1>2
  <1>3. ASSUME NEW h \in Handlers, Scheduler(h), NEW t \in Range(todo[h]) \cap JobTypes
        PROVE  row'[<<htask[h].version, t>>].status = "NONE"
    <2>1. htask[h].version \in 1..MaxVersion
      BY <1>3 DEF LedgerInv, ListFits, Scheduler
    <2>2. <<htask[h].version, t>> \in JobKeys
      BY <2>1 DEF JobKeys
    <2> QED  BY <1>2, <1>3, <2>2 DEF LedgerInv, Fresh
  <1>4. Fresh'
    BY <1>2, <1>3 DEF LedgerInv, Fresh, Scheduler
  <1>5. ASSUME task.status = "SCHEDULED", PublisherKnown PROVE PublisherKnown'
    <2>1. PICK v \in 1..MaxVersion :
            row[<<v, "PUBLISH">>].status \in {"PENDING", "PROCESSING", "FAILED"}
      BY <1>5 DEF PublisherKnown
    <2>2. <<v, "PUBLISH">> \in JobKeys
      BY DEF JobKeys, JobTypes
    <2>3. row'[<<v, "PUBLISH">>].status \in {"PENDING", "PROCESSING", "FAILED"}
      <3>1. CASE k = <<v, "PUBLISH">>
        BY <1>5, <3>1
      <3>2. CASE k # <<v, "PUBLISH">>
        BY <1>0, <2>1, <2>2, <3>2
      <3> QED  BY <3>1, <3>2
    <2> QED  BY <2>3 DEF PublisherKnown
  <1>6. PublisherComing => PublisherComing'
    BY DEF PublisherComing, Scheduler
  <1> QED  BY <1>1, <1>4, <1>5, <1>6 DEF LedgerInv

LEMMA ClaimLedger ==
  ASSUME Base, LedgerInv, [Next]_vars, NEW w \in Workers, NEW k \in JobKeys, Claim(w, k)
  PROVE  LedgerInv'
  <1> USE DEF Goto
  <1>0. /\ row \in [JobKeys -> JobRow] /\ wpc \in [Workers -> WorkerStates]
        /\ wkey \in [Workers -> JobKeys \cup {NoKey}] /\ k # NoKey
    BY KeyFacts DEF Base, Inv, Types, LedgerTypes
  <1>1. /\ row' = [row EXCEPT ![k] = row'[k]] /\ row'[k].status = "PROCESSING"
        /\ row[k].status = "PENDING"
        /\ wkey' = [wkey EXCEPT ![w] = k] /\ wpc' = [wpc EXCEPT ![w] = Operation(k)]
        /\ UNCHANGED <<task, hpc, hreq, htask, todo, occurrences>>
    BY <1>0, RowStatus DEF Claim, OnlyWorker, handlerVars
  <1>2. /\ Fresh' /\ \A h \in Handlers : ListFits(h)'
        /\ task'.status = "SCHEDULED" => PublisherKnown' \/ PublisherComing'
    BY <1>1, RowFrame
  <1>3. Held'
    <2>1. \A u \in Workers : wkey[u] # k
      BY <1>0, <1>1 DEF LedgerInv, Held
    <2> QED  BY <1>0, <1>1, <2>1 DEF LedgerInv, Held
  <1>4. StageFits(w)'
    <2>1. \/ k[2] = "PUBLISH" /\ wpc'[w] = "publish"
          \/ k[2] = "DEADLINE" /\ wpc'[w] = "deadline"
          \/ k[2] = "RECURRENCE" /\ wpc'[w] = "recur"
      BY <1>0, <1>1, KeyFacts DEF Operation, JobTypes
    <2>2. wkey'[w] = k
      BY <1>0, <1>1
    <2> QED  BY <2>1, <2>2 DEF StageFits
  <1>5. ASSUME NEW u \in Workers, u # w PROVE StageFits(u)'
    <2>1. wpc'[u] = wpc[u] /\ wkey'[u] = wkey[u]
      BY <1>0, <1>1, <1>5
    <2> QED  BY <1>1, <2>1, StageKept
  <1> QED  BY <1>2, <1>3, <1>4, <1>5 DEF LedgerInv

LEMMA SettleLedger ==
  ASSUME Base, LedgerInv, [Next]_vars, NEW w \in Workers, Settle(w)
  PROVE  LedgerInv'
  <1> USE DEF Goto
  <1>0. /\ row \in [JobKeys -> JobRow] /\ wpc \in [Workers -> WorkerStates]
        /\ wkey \in [Workers -> JobKeys \cup {NoKey}]
    BY DEF Base, Inv, Types, LedgerTypes
  <1>1. wkey[w] \in JobKeys /\ wkey[w] # NoKey
    BY <1>0 DEF Settle, Base, LedgerTypes
  <1> DEFINE k == wkey[w]
  <1>2. /\ row[k].status \in {"PROCESSING", "CANCELLED"}
        /\ \A u \in Workers : wkey[u] = k => u = w
    BY <1>1 DEF LedgerInv, Held
  <1>3. /\ row' = [row EXCEPT ![k] = row'[k]]
        /\ \/ wpc[w] = "completing"
           \/ row'[k].status \in {"PENDING", "FAILED"}
    <2>1. \A r \in JobRow : /\ Failed(r, TRUE).status \in {"PENDING", "FAILED"}
                            /\ Failed(r, FALSE).status \in {"PENDING", "FAILED"}
      <3> SUFFICES ASSUME NEW r \in JobRow
                   PROVE  /\ Failed(r, TRUE).status \in {"PENDING", "FAILED"}
                          /\ Failed(r, FALSE).status \in {"PENDING", "FAILED"}
        OBVIOUS
      <3>1. \A retry \in BOOLEAN : Failed(r, retry).status =
              (IF retry /\ CanRetry(r) THEN "PENDING" ELSE "FAILED")
        BY RowStatus
      <3>2. /\ Failed(r, TRUE).status = (IF TRUE /\ CanRetry(r) THEN "PENDING" ELSE "FAILED")
            /\ Failed(r, FALSE).status = (IF FALSE /\ CanRetry(r) THEN "PENDING" ELSE "FAILED")
        BY <3>1
      <3> QED  BY <3>2
    <2>2. CASE wpc[w] = "completing" /\ row' = [row EXCEPT ![k] = Completed(@)]
      BY <1>0, <1>1, <2>2
    <2>3. CASE row' = [row EXCEPT ![k] = Failed(@, TRUE)]
      BY <1>0, <1>1, <2>1, <2>3
    <2>4. CASE row' = [row EXCEPT ![k] = Failed(@, FALSE)]
      BY <1>0, <1>1, <2>1, <2>4
    <2> QED  BY <2>2, <2>3, <2>4 DEF Settle
  <1>4. /\ wkey' = [wkey EXCEPT ![w] = NoKey] /\ wpc' = [wpc EXCEPT ![w] = "idle"]
        /\ UNCHANGED <<task, hpc, hreq, htask, todo, occurrences>>
    BY DEF Settle, OnlyWorker, handlerVars
  <1>5. /\ Fresh' /\ \A h \in Handlers : ListFits(h)'
        /\ task'.status = "SCHEDULED" => PublisherKnown' \/ PublisherComing'
    <2>1. k[2] = "PUBLISH" /\ task.status = "SCHEDULED"
            => row'[k].status \in {"PENDING", "PROCESSING", "FAILED"}
      BY <1>3 DEF LedgerInv, StageFits
    <2>2. row[k].status # "NONE" /\ UNCHANGED <<task, hpc, hreq, htask, todo>>
      BY <1>2, <1>4
    <2> HIDE DEF k
    <2> QED  BY <1>1, <1>3, <2>1, <2>2, RowFrame DEF k
  <1>6. Held'
    <2> SUFFICES ASSUME NEW u \in Workers, wkey'[u] # NoKey
                 PROVE  /\ row'[wkey'[u]].status \in {"PROCESSING", "CANCELLED"}
                        /\ \A v \in Workers : wkey'[v] = wkey'[u] => v = u
      BY DEF Held
    <2>1. u # w /\ wkey'[u] = wkey[u] /\ wkey[u] # k /\ wkey[u] \in JobKeys
      BY <1>0, <1>2, <1>4
    <2>2. row'[wkey[u]] = row[wkey[u]]
      BY <1>0, <1>3, <2>1
    <2>3. \A v \in Workers : wkey'[v] = wkey[v] \/ wkey'[v] = NoKey
      BY <1>0, <1>4
    <2> QED  BY <2>1, <2>2, <2>3 DEF LedgerInv, Held
  <1>7. StageFits(w)'
    <2>1. wkey'[w] = NoKey /\ wpc'[w] = "idle"
      BY <1>0, <1>4
    <2> QED  BY <2>1 DEF StageFits, NoKey
  <1>8. ASSUME NEW u \in Workers, u # w PROVE StageFits(u)'
    <2>1. wpc'[u] = wpc[u] /\ wkey'[u] = wkey[u]
      BY <1>0, <1>4, <1>8
    <2> QED  BY <1>4, <2>1, StageKept
  <1> QED  BY <1>5, <1>6, <1>7, <1>8 DEF LedgerInv

\* A step of one request: what has to be shown of it.  A job in hand stays in hand, new
\* jobs are those of the version the request schedules, its list fits, and a version it
\* begins to schedule is new.
LEMMA RequestFrame ==
  ASSUME Base, LedgerInv, [Next]_vars, NEW h \in Handlers, UNCHANGED <<wpc, wkey, occurrences>>,
         \A g \in Handlers \ {h} : /\ hpc'[g] = hpc[g] /\ hreq'[g] = hreq[g]
                                   /\ htask'[g] = htask[g] /\ todo'[g] = todo[g],
         \A k \in JobKeys : row[k].status \in {"PROCESSING", "CANCELLED"}
                              => row'[k].status \in {"PROCESSING", "CANCELLED"},
         \A k \in JobKeys : row[k].status = "NONE" /\ row'[k].status # "NONE"
                              => Scheduler(h) /\ k[1] = htask[h].version,
         ListFits(h)',
         Scheduler(h)' =>
           /\ \A t \in Range(todo'[h]) \cap JobTypes :
                  row'[<<htask'[h].version, t>>].status = "NONE"
           /\ (Scheduler(h) /\ htask'[h] = htask[h]) \/ htask'[h].version > task.version,
         task'.status = "SCHEDULED" => PublisherKnown' \/ PublisherComing'
  PROVE  LedgerInv'
  <1>0. /\ \A g \in Handlers : htask[g] \in Task /\ htask[g].version <= task.version
        /\ task.version \in Nat /\ task'.version \in Nat /\ task'.version >= task.version
        /\ \A k \in JobKeys : k[1] \in Nat
        /\ wkey \in [Workers -> JobKeys \cup {NoKey}]
    BY StatusChange, KeyFacts, BoundsAssumption
    DEF Base, LedgerTypes, Inv, Types, CopyInv, IsCopy
  <1>1. Held'
    BY <1>0 DEF LedgerInv, Held
  <1>2. \A w \in Workers : StageFits(w)'
    BY StageKept
  <1>3. ASSUME NEW g \in Handlers PROVE ListFits(g)'
    <2>1. CASE g = h
      BY <2>1
    <2>2. CASE g # h
      <3>1. ListFits(g) /\ (hpc[g] = "ledger" => task.status # "NONE")
        BY DEF LedgerInv, Base, Grounds
      <3>2. /\ task.status = "CANCELLED" => task'.status = "CANCELLED"
            /\ task.status \notin {"NONE", "SCHEDULED"} => task'.status # "SCHEDULED"
        BY StatusChange DEF Base
      <3>3. /\ hpc'[g] = hpc[g] /\ hreq'[g] = hreq[g]
            /\ htask'[g] = htask[g] /\ todo'[g] = todo[g]
        BY <2>2
      <3> QED  BY <3>1, <3>2, <3>3 DEF ListFits, Scheduler
    <2> QED  BY <2>1, <2>2
  <1>4. ASSUME NEW k \in JobKeys, k[1] > task'.version PROVE row'[k].status = "NONE"
    <2>1. k[1] > task.version /\ k[1] # htask[h].version
      BY <1>0, <1>4 DEF Task
    <2> QED  BY <2>1 DEF LedgerInv, Fresh
  <1>5. ASSUME NEW g \in Handlers, Scheduler(g)', g # h
        PROVE  /\ Scheduler(g) /\ htask'[g] = htask[g]
               /\ \A t \in Range(todo'[g]) \cap JobTypes :
                    row'[<<htask'[g].version, t>>].status = "NONE"
    <2>1. Scheduler(g) /\ htask'[g] = htask[g] /\ todo'[g] = todo[g]
      BY <1>5 DEF Scheduler
    <2>2. Scheduler(h) => htask[g].version # htask[h].version
      BY <1>5, <2>1 DEF LedgerInv, Fresh
    <2>3. ASSUME NEW t \in Range(todo[g]) \cap JobTypes
          PROVE  row'[<<htask[g].version, t>>].status = "NONE"
      <3>1. htask[g].version \in 1..MaxVersion
        BY <2>1 DEF LedgerInv, ListFits, Scheduler
      <3>2. <<htask[g].version, t>> \in JobKeys /\ row[<<htask[g].version, t>>].status = "NONE"
        BY <2>1, <2>3, <3>1 DEF JobKeys, LedgerInv, Fresh
      <3> QED  BY <2>2, <3>2
    <2> QED  BY <2>1, <2>3
  <1>6. ASSUME NEW f \in Handlers, NEW g \in Handlers, Scheduler(f)', Scheduler(g)',
               htask'[f].version = htask'[g].version
        PROVE  f = g
    <2>1. CASE f # h /\ g # h
      BY <1>5, <1>6, <2>1 DEF LedgerInv, Fresh
    <2>2. ASSUME NEW e \in Handlers, e # h, Scheduler(e)', Scheduler(h)',
                 htask'[e].version = htask'[h].version
          PROVE  FALSE
      <3>1. Scheduler(e) /\ htask'[e] = htask[e]
        BY <1>5, <2>2
      <3>2. CASE Scheduler(h) /\ htask'[h] = htask[h]
        BY <2>2, <3>1, <3>2 DEF LedgerInv, Fresh
      <3>3. CASE htask'[h].version > task.version
        BY <1>0, <2>2, <3>1, <3>3 DEF Task
      <3> QED  BY <2>2, <3>2, <3>3
    <2> QED  BY <1>6, <2>1, <2>2
  <1>7. Fresh'
    BY <1>4, <1>5, <1>6 DEF Fresh
  <1> QED  BY <1>1, <1>2, <1>3, <1>7 DEF LedgerInv

\* A task that waits keeps its publisher through a step that leaves the jobs alone.
LEMMA PublisherKept ==
  ASSUME Base, LedgerInv, [Next]_vars, NEW h \in Handlers, row' = row,
         \A g \in Handlers \ {h} : /\ hpc'[g] = hpc[g] /\ hreq'[g] = hreq[g]
                                   /\ todo'[g] = todo[g],
         ~Scheduler(h), task.status # "NONE"
  PROVE  task'.status = "SCHEDULED" => PublisherKnown' \/ PublisherComing'
  <1> SUFFICES ASSUME task'.status = "SCHEDULED" PROVE PublisherKnown' \/ PublisherComing'
    OBVIOUS
  <1>1. task.status = "SCHEDULED"
    BY StatusChange DEF Base
  <1>2. CASE PublisherKnown
    BY <1>2 DEF PublisherKnown
  <1>3. CASE PublisherComing
    <2>1. PICK g \in Handlers : Scheduler(g) /\ "PUBLISH" \in Range(todo[g])
      BY <1>3 DEF PublisherComing
    <2>2. g # h
      BY <2>1
    <2>3. hpc'[g] = hpc[g] /\ hreq'[g] = hreq[g] /\ todo'[g] = todo[g]
      BY <2>2
    <2> QED  BY <2>1, <2>3 DEF PublisherComing, Scheduler
  <1> QED  BY <1>1, <1>2, <1>3 DEF LedgerInv

\* Reading a task, and looking for its routine.
LEMMA AskLedger ==
  ASSUME Base, LedgerInv, [Next]_vars, NEW h \in Handlers,
         Update(h) \/ Cancel(h) \/ Complete(h) \/ Submit(h) \/ FindRoutine(h)
  PROVE  LedgerInv'
  <1>1. /\ UNCHANGED <<row, task, wpc, wkey, occurrences, todo>>
        /\ \A g \in Handlers \ {h} : /\ hpc'[g] = hpc[g] /\ hreq'[g] = hreq[g]
                                     /\ htask'[g] = htask[g] /\ todo'[g] = todo[g]
        /\ hpc[h] # "ledger" /\ hpc'[h] # "ledger" /\ task.status # "NONE"
    BY DEF Update, Cancel, Complete, Submit, Ask, FindRoutine, workerVars, history,
           Base, Inv, Types, Grounds
  <1>2. ListFits(h)' /\ ~Scheduler(h)' /\ ~Scheduler(h)
    BY <1>1 DEF ListFits, Scheduler
  <1>3. task'.status = "SCHEDULED" => PublisherKnown' \/ PublisherComing'
    BY <1>1, <1>2, PublisherKept
  <1> QED  BY <1>1, <1>2, <1>3, RequestFrame

\* The save: the version it makes is new to the ledger, and an update schedules it.
LEMMA SaveLedger ==
  ASSUME Base, LedgerInv, [Next]_vars, NEW h \in Handlers, Save(h)
  PROVE  LedgerInv'
  <1>0. Inv /\ hpc[h] = "save" /\ task.status # "NONE" /\ ~Scheduler(h)
    BY DEF Save, Base, Grounds, Scheduler
  <1>1. /\ UNCHANGED <<row, wpc, wkey, occurrences>>
        /\ \A g \in Handlers \ {h} : /\ hpc'[g] = hpc[g] /\ hreq'[g] = hreq[g]
                                     /\ htask'[g] = htask[g] /\ todo'[g] = todo[g]
    BY DEF Save, Answer, workerVars, Base, Inv, Types, LedgerTypes
  <1>2. CASE hpc'[h] # "ledger"
    <2>1. ListFits(h)' /\ ~Scheduler(h)'
      BY <1>2 DEF ListFits, Scheduler
    <2>2. task'.status = "SCHEDULED" => PublisherKnown' \/ PublisherComing'
      BY <1>0, <1>1, PublisherKept
    <2> QED  BY <1>0, <1>1, <2>1, <2>2, RequestFrame
  <1>3. CASE hpc'[h] = "ledger"
    <2>1. /\ CanSave(htask[h].version) /\ LedgerStatements(h) # <<>>
          /\ htask'[h] = task' /\ todo'[h] = LedgerStatements(h) /\ hreq'[h] = hreq[h]
          /\ hreq[h] = "update" => task.version < MaxVersion
      BY <1>3 DEF Save, Answer, Base, Inv, Types, LedgerTypes
    <2>2. /\ task' \in Task /\ task'.version = task.version + 1 /\ task.version \in Nat
          /\ \/ hreq[h] = "update" /\ task'.status = task.status
             \/ hreq[h] = "cancel" /\ task'.status = "CANCELLED"
             \/ hreq[h] = "complete" /\ task'.status = "COMPLETED"
             \/ hreq[h] = "submit" /\ task'.status = "SUBMITTED"
      BY <1>0, <2>1, HandlerSaved, StatusChange
    <2>3. hreq[h] \in Requests \ {"create"} /\ hroutine[h] \in BOOLEAN
      BY <1>0 DEF Inv, Types, HandlerKnows, Base, LedgerTypes
    <2>4. hreq[h] = "update" => task'.version \in 1..MaxVersion
      BY <2>1, <2>2, BoundsAssumption
    <2>5. ListFits(h)'
      <3>1. CASE hreq[h] = "update"
        BY <1>3, <2>1, <2>3, <2>4, <3>1, StatementsOf DEF ListFits, Scheduler
      <3>2. CASE hreq[h] = "cancel"
        BY <1>3, <2>1, <2>2, <2>3, <3>2, StatementsOf DEF ListFits, Scheduler
      <3>3. CASE hreq[h] = "complete"
        BY <1>3, <2>1, <2>2, <2>3, <3>3, StatementsOf DEF ListFits, Scheduler
      <3>4. CASE hreq[h] = "submit"
        BY <2>1, <2>3, <3>4, StatementsOf
      <3> QED  BY <2>3, <3>1, <3>2, <3>3, <3>4 DEF Requests
    <2>6. Scheduler(h)' =>
            /\ \A t \in Range(todo'[h]) \cap JobTypes :
                 row'[<<htask'[h].version, t>>].status = "NONE"
            /\ htask'[h].version > task.version
      <3> SUFFICES ASSUME Scheduler(h)'
                   PROVE  /\ \A t \in JobTypes : row[<<task'.version, t>>].status = "NONE"
                          /\ task'.version > task.version
        BY <1>1, <2>1
      <3>1. task'.version \in 1..MaxVersion /\ task'.version > task.version
        BY <2>1, <2>2, <2>3, <2>4 DEF Scheduler
      <3>2. ASSUME NEW t \in JobTypes PROVE row[<<task'.version, t>>].status = "NONE"
        <4>1. <<task'.version, t>> \in JobKeys
          BY <3>1 DEF JobKeys
        <4> QED  BY <3>1, <4>1 DEF LedgerInv, Fresh
      <3> QED  BY <3>1, <3>2
    <2>7. task'.status = "SCHEDULED" => PublisherKnown' \/ PublisherComing'
      <3>1. CASE hreq[h] = "update"
        <4>1. "PUBLISH" \in Range(todo'[h]) /\ Scheduler(h)'
          BY <1>3, <2>1, <2>3, <3>1, StatementsOf DEF Scheduler
        <4> QED  BY <4>1 DEF PublisherComing
      <3>2. CASE hreq[h] # "update"
        BY <2>2, <3>2
      <3> QED  BY <3>1, <3>2
    <2> QED  BY <1>0, <1>1, <2>5, <2>6, <2>7, RequestFrame
  <1> QED  BY <1>2, <1>3

\* The creation: there was no task, so nobody was at work.
LEMMA CreateLedger ==
  ASSUME Base, LedgerInv, [Next]_vars, NEW h \in Handlers, Create(h)
  PROVE  LedgerInv'
  <1>0. task.status = "NONE" /\ task.version = 0 /\ \A g \in Handlers : hpc[g] = "idle"
    BY DEF Create, Base, Grounds, Inv, BlankInv
  <1>1. /\ UNCHANGED <<row, wpc, wkey, occurrences>>
        /\ \A g \in Handlers \ {h} : /\ hpc'[g] = hpc[g] /\ hreq'[g] = hreq[g]
                                     /\ htask'[g] = htask[g] /\ todo'[g] = todo[g]
    BY DEF Create, workerVars, history
  <1>2. /\ hpc'[h] = "ledger" /\ hreq'[h] = "create" /\ htask'[h].version = 1
        /\ todo'[h] = Lifecycle \o (IF "RECURRENCE" \in Followed THEN Routine ELSE <<>>)
    BY DEF Create, Base, Inv, Types, LedgerTypes
  <1>3. /\ Ordered(todo'[h]) /\ todo'[h] \in Seq(JobTypes) /\ "PUBLISH" \in Range(todo'[h])
    BY <1>2, StatementsOfCreate
  <1>4. ListFits(h)' /\ Scheduler(h)'
    <2>1. 1 \in 1..MaxVersion
      BY BoundsAssumption
    <2> QED  BY <1>2, <1>3, <2>1 DEF ListFits, Scheduler
  <1>5. ASSUME NEW t \in JobTypes PROVE row[<<1, t>>].status = "NONE"
    <2>1. <<1, t>> \in JobKeys /\ <<1, t>>[1] > task.version
      BY <1>0, BoundsAssumption DEF JobKeys
    <2> QED  BY <2>1 DEF LedgerInv, Fresh
  <1>6. PublisherComing'
    BY <1>3, <1>4 DEF PublisherComing
  <1> QED  BY <1>0, <1>1, <1>2, <1>4, <1>5, <1>6, RequestFrame DEF Scheduler

\* What is still to be executed after one statement.
LEMMA NextStatement ==
  ASSUME Base, LedgerInv, NEW h \in Handlers, Ledger(h)
  PROVE  /\ Head(todo[h]) \in Range(todo[h])
         /\ Len(todo[h]) = 1 => hpc'[h] = "idle" /\ Range(todo[h]) = {Head(todo[h])}
         /\ Len(todo[h]) # 1 => /\ hpc'[h] = "ledger" /\ todo'[h] = Tail(todo[h])
                                /\ hreq'[h] = hreq[h] /\ htask'[h] = htask[h]
         /\ UNCHANGED <<task, wpc, wkey, occurrences>>
         /\ \A g \in Handlers \ {h} : /\ hpc'[g] = hpc[g] /\ hreq'[g] = hreq[g]
                                      /\ htask'[g] = htask[g] /\ todo'[g] = todo[g]
  <1>1. todo[h] \in Seq(Statements) /\ todo[h] # <<>>
    BY DEF Ledger, Base, LedgerTypes
  <1>2. /\ Len(todo[h]) \in Nat /\ DOMAIN todo[h] = 1..Len(todo[h]) /\ Len(todo[h]) # 0
        /\ Head(todo[h]) = todo[h][1]
    BY <1>1, LenProperties, EmptySeq, HeadTailProperties
  <1>3. Head(todo[h]) \in Range(todo[h])
    BY <1>2 DEF Range
  <1>4. Len(todo[h]) = 1 => Range(todo[h]) = {Head(todo[h])}
    <2> SUFFICES ASSUME Len(todo[h]) = 1 PROVE Range(todo[h]) = {Head(todo[h])}
      OBVIOUS
    <2>1. DOMAIN todo[h] = {1}
      BY <1>2
    <2> QED  BY <1>2, <2>1 DEF Range
  <1> QED
    BY <1>3, <1>4 DEF Ledger, Answer, workerVars, history, Base, Inv, Types, LedgerTypes

\* Cancelling jobs: a job in hand stays in hand, and no row comes into being.
LEMMA CancelRows ==
  ASSUME Base, NEW keep, CancelAll(keep), NEW k \in JobKeys
  PROVE  /\ row[k].status \in {"PROCESSING", "CANCELLED"}
              => row'[k].status \in {"PROCESSING", "CANCELLED"}
         /\ row[k].status = "NONE" => row'[k].status = "NONE"
  <1>1. row[k] \in JobRow /\ row'[k] \in {row[k], Cancelled(row[k])}
    BY DEF CancelAll, Base, LedgerTypes
  <1>2. Cancelled(row[k]).status \in {row[k].status, "CANCELLED"}
    BY <1>1, RowStatus
  <1>3. row[k].status = "NONE" => Cancelled(row[k]) = row[k]
    BY <1>1, CancelledStatus
  <1> QED  BY <1>1, <1>2, <1>3

\* Making a job whose key has no row yet.
LEMMA CreateRow ==
  ASSUME Base, NEW key \in JobKeys, CreateJob(key), row[key].status = "NONE"
  PROVE  row'[key].status = "PENDING" /\ \A k \in JobKeys \ {key} : row'[k] = row[k]
  <1>1. row \in [JobKeys -> JobRow] /\ row' = [row EXCEPT ![key] = Created(row[key], FALSE)]
    BY DEF CreateJob, Base, LedgerTypes
  <1>2. Created(row[key], FALSE).status = "PENDING"
    <2>1. row[key] \in JobRow
      BY <1>1
    <2> QED  BY <2>1 DEF Created, JobRow
  <1> HIDE DEF Created
  <1> QED  BY <1>1, <1>2

\* A request that schedules a version executes its next statement.
LEMMA SchedulerLedger ==
  ASSUME Base, LedgerInv, [Next]_vars, NEW h \in Handlers, Ledger(h), Scheduler(h)
  PROVE  LedgerInv'
  <1> DEFINE stmt == Head(todo[h])
             v == htask[h].version
  <1>0. /\ v \in 1..MaxVersion /\ Ordered(todo[h])
        /\ "cancelJobs" \in Range(todo[h]) => "PUBLISH" \in Range(todo[h])
        /\ hreq[h] \in {"create", "update"} /\ (hreq[h] = "create" => v = 1)
        /\ v <= task.version
    BY DEF LedgerInv, ListFits, Scheduler, Base, Inv, CopyInv, IsCopy
  <1>1. /\ stmt \in Range(todo[h])
        /\ Len(todo[h]) = 1 => hpc'[h] = "idle" /\ Range(todo[h]) = {stmt}
        /\ Len(todo[h]) # 1 => /\ hpc'[h] = "ledger" /\ todo'[h] = Tail(todo[h])
                               /\ hreq'[h] = hreq[h] /\ htask'[h] = htask[h]
        /\ UNCHANGED <<task, wpc, wkey, occurrences>>
        /\ \A g \in Handlers \ {h} : /\ hpc'[g] = hpc[g] /\ hreq'[g] = hreq[g]
                                     /\ htask'[g] = htask[g] /\ todo'[g] = todo[g]
    BY NextStatement
  <1>2. Len(todo[h]) # 1 => /\ Ordered(Tail(todo[h]))
                            /\ Range(Tail(todo[h])) = Range(todo[h]) \ {stmt}
                            /\ "cancelJobs" \notin Range(Tail(todo[h]))
    BY <1>0, TailOrdered
  <1>3. stmt \in JobTypes \cup {"cancelJobs"}
    <2>1. \A i \in 1..Len(todo[h]) : todo[h][i] \in JobTypes \cup {"cancelJobs"}
      BY <1>0 DEF Ordered
    <2>2. DOMAIN todo[h] = 1..Len(todo[h])
      BY <1>0, LenProperties DEF Ordered
    <2> QED  BY <1>1, <2>1, <2>2 DEF Range
  <1>4. \A t \in Range(todo[h]) \cap JobTypes :
           <<v, t>> \in JobKeys /\ row[<<v, t>>].status = "NONE"
    BY <1>0 DEF LedgerInv, Fresh, JobKeys
  <1> DEFINE rest == IF Len(todo[h]) = 1 THEN {} ELSE Range(todo[h]) \ {stmt}
  <1>5. /\ Scheduler(h)' => /\ rest = Range(todo'[h]) /\ htask'[h] = htask[h]
                            /\ Ordered(todo'[h]) /\ "cancelJobs" \notin rest
        /\ Scheduler(h)' <=> Len(todo[h]) # 1
        /\ hpc'[h] = "ledger" => Scheduler(h)' /\ hreq'[h] = hreq[h]
        /\ \A t \in Range(todo[h]) : t = stmt \/ t \in rest
    BY <1>0, <1>1, <1>2 DEF Scheduler
  <1>6. ListFits(h)'
    BY <1>0, <1>5 DEF ListFits
  <1> HIDE DEF stmt, v, rest
  <1>7. CASE stmt = "cancelJobs"
    <2>1. CancelAll({})
      BY <1>7 DEF Ledger, stmt
    <2>2. \A k \in JobKeys : /\ row[k].status \in {"PROCESSING", "CANCELLED"}
                                 => row'[k].status \in {"PROCESSING", "CANCELLED"}
                             /\ row[k].status = "NONE" => row'[k].status = "NONE"
      BY <2>1, CancelRows
    <2>3. "PUBLISH" \in rest
      BY <1>0, <1>1, <1>5, <1>7
    <2>4. Scheduler(h)' /\ "PUBLISH" \in Range(todo'[h])
      BY <1>5, <2>3 DEF rest
    <2>5. PublisherComing'
      BY <2>4 DEF PublisherComing
    <2>6. \A t \in Range(todo'[h]) \cap JobTypes :
            row'[<<htask'[h].version, t>>].status = "NONE"
      BY <1>4, <1>5, <2>2, <2>4 DEF rest, v
    <2> QED  BY <1>1, <1>5, <1>6, <2>2, <2>4, <2>5, <2>6, RequestFrame
  <1>8. CASE stmt \in JobTypes
    <2> DEFINE key == <<v, stmt>>
    <2>1. key \in JobKeys /\ row[key].status = "NONE"
      BY <1>1, <1>4, <1>8
    <2>2. CreateJob(key)
      BY <1>8 DEF Ledger, stmt, v, JobTypes
    <2> HIDE DEF key
    <2>3. row'[key].status = "PENDING" /\ \A k \in JobKeys \ {key} : row'[k] = row[k]
      BY <2>1, <2>2, CreateRow
    <2>4. \A k \in JobKeys : /\ row[k].status \in {"PROCESSING", "CANCELLED"}
                                 => row'[k].status \in {"PROCESSING", "CANCELLED"}
                             /\ row[k].status = "NONE" /\ row'[k].status # "NONE" => k = key
      BY <2>1, <2>3
    <2>5. key[1] = htask[h].version
      BY DEF key, v
    <2>6. ASSUME Scheduler(h)', NEW t \in Range(todo'[h]) \cap JobTypes
          PROVE  row'[<<htask'[h].version, t>>].status = "NONE"
      <3>1. t \in rest /\ t \in Range(todo[h]) /\ t # stmt
        BY <1>5, <2>6 DEF rest
      <3>2. <<v, t>> \in JobKeys /\ <<v, t>> # key /\ row[<<v, t>>].status = "NONE"
        BY <1>4, <2>6, <3>1 DEF key
      <3> QED  BY <1>5, <2>3, <2>6, <3>2 DEF v
    <2>7. ASSUME PublisherKnown PROVE PublisherKnown'
      <3>1. PICK u \in 1..MaxVersion :
              row[<<u, "PUBLISH">>].status \in {"PENDING", "PROCESSING", "FAILED"}
        BY <2>7 DEF PublisherKnown
      <3>2. <<u, "PUBLISH">> \in JobKeys /\ <<u, "PUBLISH">> # key
        BY <2>1, <3>1 DEF JobKeys, JobTypes
      <3>3. row'[<<u, "PUBLISH">>] = row[<<u, "PUBLISH">>]
        BY <2>3, <3>2
      <3> QED  BY <3>1, <3>3 DEF PublisherKnown
    <2>8. ASSUME PublisherComing PROVE PublisherKnown' \/ PublisherComing'
      <3>1. PICK g \in Handlers : Scheduler(g) /\ "PUBLISH" \in Range(todo[g])
        BY <2>8 DEF PublisherComing
      <3>2. CASE g # h
        <4>1. hpc'[g] = hpc[g] /\ hreq'[g] = hreq[g] /\ todo'[g] = todo[g]
          BY <1>1, <3>2
        <4> QED  BY <3>1, <4>1 DEF PublisherComing, Scheduler
      <3>3. CASE g = h /\ stmt = "PUBLISH"
        <4>1. row'[<<v, "PUBLISH">>].status = "PENDING" /\ v \in 1..MaxVersion
          BY <1>0, <2>3, <3>3 DEF key, v
        <4> QED  BY <4>1 DEF PublisherKnown
      <3>4. CASE g = h /\ stmt # "PUBLISH"
        <4>1. "PUBLISH" \in rest
          BY <1>5, <3>1, <3>4
        <4>2. Scheduler(h)' /\ "PUBLISH" \in Range(todo'[h])
          BY <1>5, <4>1 DEF rest
        <4> QED  BY <4>2 DEF PublisherComing
      <3> QED  BY <3>2, <3>3, <3>4
    <2>9. task'.status = "SCHEDULED" => PublisherKnown' \/ PublisherComing'
      BY <1>1, <2>7, <2>8 DEF LedgerInv
    <2> QED
      BY <1>1, <1>5, <1>6, <2>4, <2>5, <2>6, <2>9, RequestFrame
  <1> QED  BY <1>3, <1>7, <1>8

\* A statement of any request.
LEMMA LedgerLedger ==
  ASSUME Base, LedgerInv, [Next]_vars, NEW h \in Handlers, Ledger(h)
  PROVE  LedgerInv'
  <1>1. CASE Scheduler(h)
    BY <1>1, SchedulerLedger
  <1>2. CASE ~Scheduler(h)
    <2>1. /\ hpc[h] = "ledger" /\ task.status # "SCHEDULED"
          /\ todo[h] = <<"cancelJobs">> \/ todo[h] = <<"cancelJobsButRoutine">>
      BY <1>2 DEF Ledger, Scheduler, LedgerInv, ListFits, Base, Inv, Types, Requests
    <2>2. Len(todo[h]) = 1 /\ (CancelAll({}) \/ CancelAll({"RECURRENCE"}))
      <3>1. CASE todo[h] = <<"cancelJobs">>
        <4>1. Head(todo[h]) = "cancelJobs" /\ Len(todo[h]) = 1
          BY <3>1
        <4> QED  BY <4>1 DEF Ledger
      <3>2. CASE todo[h] = <<"cancelJobsButRoutine">>
        <4>1. Head(todo[h]) = "cancelJobsButRoutine" /\ Len(todo[h]) = 1
          BY <3>2
        <4> QED  BY <4>1 DEF Ledger
      <3> QED  BY <2>1, <3>1, <3>2
    <2>3. \A k \in JobKeys : /\ row[k].status \in {"PROCESSING", "CANCELLED"}
                                 => row'[k].status \in {"PROCESSING", "CANCELLED"}
                             /\ row[k].status = "NONE" => row'[k].status = "NONE"
      BY <2>2, CancelRows
    <2>4. /\ hpc'[h] = "idle" /\ UNCHANGED <<task, wpc, wkey, occurrences>>
          /\ \A g \in Handlers \ {h} : /\ hpc'[g] = hpc[g] /\ hreq'[g] = hreq[g]
                                       /\ htask'[g] = htask[g] /\ todo'[g] = todo[g]
      BY <2>2, NextStatement
    <2>5. ListFits(h)' /\ ~Scheduler(h)'
      BY <2>4 DEF ListFits, Scheduler
    <2> QED  BY <2>1, <2>3, <2>4, <2>5, RequestFrame
  <1> QED  BY <1>1, <1>2

\* While nothing has failed, no step is a fault or the recovery from one.
LEMMA FaultFree ==
  ASSUME Base, [Next]_vars, faults' = 0
  PROVE  \/ \E h \in Handlers :
              \/ Create(h) \/ Update(h) \/ Cancel(h) \/ Complete(h) \/ Submit(h)
              \/ FindRoutine(h) \/ Save(h) \/ Ledger(h)
         \/ \E w \in Workers : Execute(w) \/ Settle(w) \/ \E l \in JobKeys : Claim(w, l)
         \/ UNCHANGED vars
  <1>1. faults = 0
    BY FaultRemembered
  <1>2. ~Fault
    BY <1>1 DEF Fault
  <1>3. /\ \A w \in Workers : ~WorkerStoreError(w)
        /\ \A h \in Handlers : ~HandlerStoreError(h)
        /\ ~Crash /\ \A k \in JobKeys : ~RecoverStale(k)
    BY <1>1, <1>2 DEF WorkerStoreError, HandlerStoreError, Crash, RecoverStale
  <1> QED  BY <1>3, Zenon DEF Next

LedgerOK == faults = 0 => LedgerInv

LEMMA StepLedger == Base /\ LedgerOK /\ [Next]_vars => LedgerOK'
  <1> SUFFICES ASSUME Base, LedgerOK, [Next]_vars, faults' = 0 PROVE LedgerInv'
    BY DEF LedgerOK
  <1>0. LedgerInv
    BY FaultRemembered DEF LedgerOK
  <1>1. CASE UNCHANGED vars
    <2>1. /\ UNCHANGED <<row, wkey, wpc, hpc, hreq, htask, todo, task, occurrences>>
          /\ task.status = "NONE" => UNCHANGED task
      BY <1>1 DEF vars, workerVars, handlerVars, history
    <2>2. \A w \in Workers : StageFits(w)'
      BY <1>0, <2>1, StageKept
    <2> QED  BY <1>0, <2>1, <2>2, LedgerFrame
  <1> QED
    BY <1>0, <1>1, FaultFree, CreateLedger, AskLedger, SaveLedger, LedgerLedger, ExecuteLedger,
       SettleLedger, ClaimLedger

LEMMA InitLedger == Init => LedgerOK
  <1> SUFFICES ASSUME Init PROVE LedgerInv
    BY DEF LedgerOK
  <1>1. \A k \in JobKeys : row[k].status = "NONE"
    BY DEF Init, NoRow
  <1>2. Held /\ \A w \in Workers : StageFits(w)
    BY DEF Init, Held, StageFits, NoKey
  <1>3. \A h \in Handlers : ~Scheduler(h) /\ ListFits(h)
    BY DEF Init, Scheduler, ListFits
  <1>4. task.status # "SCHEDULED"
    BY DEF Init, NoTask
  <1> QED  BY <1>1, <1>2, <1>3, <1>4 DEF LedgerInv, Fresh

\* While nothing has failed, a task that waits to be published has a publishing job that is
\* waiting, in hand or reported as failed, as soon as no request is at work: the ledger is
\* written after the task, statement by statement, and may be behind it only while a
\* request still has the publishing job on its list (TaskService.update, scheduleLifecycle).
THEOREM WaitingHasPublisher == Spec => []ScheduledHasPublisher
  <1>1. Base /\ LedgerOK => ScheduledHasPublisher
    <2> SUFFICES ASSUME Base, LedgerOK, faults = 0, Quiet, task.status = "SCHEDULED"
                 PROVE  PublisherKnown
      BY TypesJoin DEF Base, Inv, ScheduledHasPublisher
    <2>1. ~PublisherComing
      BY DEF Quiet, PublisherComing, Scheduler
    <2> QED  BY <2>1 DEF LedgerOK, LedgerInv
  <1> QED  BY <1>1, InitBase, StepBase, InitLedger, StepLedger, PTL DEF Spec

-----------------------------------------------------------------------------
(* One job while nothing fails.                                            *)

Ended(status) == status \in {"SUCCEEDED", "CANCELLED", "FAILED"}

\* What can happen to a job: it is made, claimed, cancelled or settled by its holder.
RowMade(k) ==
  /\ row[k].status = "NONE" /\ row'[k].status = "PENDING"
  /\ \E h \in Handlers : Ledger(h) /\ Scheduler(h) /\ k = <<htask[h].version, Head(todo[h])>>

RowClaimed(k) ==
  /\ row[k].status = "PENDING" /\ row'[k].status = "PROCESSING"
  /\ \E w \in Workers : Claim(w, k)

RowCancelled(k) ==
  /\ row[k].status \in {"PENDING", "PROCESSING"} /\ row'[k].status = "CANCELLED"
  /\ \E h \in Handlers : /\ Ledger(h)
                         /\ \/ Head(todo[h]) = "cancelJobs"
                            \/ Head(todo[h]) = "cancelJobsButRoutine" /\ k[2] # "RECURRENCE"

RowSettled(k) ==
  \E w \in Workers :
    /\ Settle(w) /\ wkey[w] = k
    /\ \/ wpc[w] = "completing" /\ row'[k].status \in {"SUCCEEDED", "CANCELLED"}
       \/ wpc[w] = "failRetry"  /\ row'[k].status \in {"PENDING", "FAILED"}
       \/ wpc[w] = "failFinal"  /\ row'[k].status = "FAILED"

LEMMA RowChange ==
  ASSUME Base, LedgerInv, [Next]_vars, faults' = 0, NEW k \in JobKeys
  PROVE  row'[k] = row[k] \/ RowMade(k) \/ RowClaimed(k) \/ RowCancelled(k) \/ RowSettled(k)
  <1> DEFINE Goal == \/ row'[k] = row[k] \/ RowMade(k) \/ RowClaimed(k) \/ RowCancelled(k)
                     \/ RowSettled(k)
  <1>0. row \in [JobKeys -> JobRow]
    BY DEF Base, LedgerTypes
  <1>1. ASSUME row' = row PROVE Goal
    BY <1>1
  <1>2. ASSUME NEW h \in Handlers, \/ Create(h) \/ Update(h) \/ Cancel(h) \/ Complete(h)
                                   \/ Submit(h) \/ FindRoutine(h) \/ Save(h)
        PROVE  Goal
    BY <1>1, <1>2 DEF Create, Update, Cancel, Complete, Submit, Ask, FindRoutine, Save
  <1>3. ASSUME NEW h \in Handlers, Ledger(h) PROVE Goal
    <2> DEFINE stmt == Head(todo[h])
    <2>1. ASSUME NEW keep \in {{}, {"RECURRENCE"}}, CancelAll(keep),
                 stmt = "cancelJobs" \/ (stmt = "cancelJobsButRoutine" /\ keep = {"RECURRENCE"})
          PROVE  Goal
      <3>1. row'[k] = row[k] \/ (k[2] \notin keep /\ row'[k] = Cancelled(row[k]))
        BY <1>0, <2>1 DEF CancelAll
      <3>2. CASE row[k].status \in {"PENDING", "PROCESSING"}
        <4>1. Cancelled(row[k]).status = "CANCELLED"
          BY <1>0, <3>2, CancelledStatus
        <4> QED  BY <1>3, <2>1, <3>1, <3>2, <4>1 DEF RowCancelled
      <3>3. CASE row[k].status \notin {"PENDING", "PROCESSING"}
        <4>1. Cancelled(row[k]) = row[k]
          BY <1>0, <3>3, CancelledStatus
        <4> QED  BY <3>1, <4>1
      <3> QED  BY <3>2, <3>3
    <2>2. CASE stmt = "cancelJobs"
      <3>1. CancelAll({})
        BY <1>3, <2>2 DEF Ledger
      <3> QED  BY <2>1, <2>2, <3>1
    <2>3. CASE stmt = "cancelJobsButRoutine"
      <3>1. CancelAll({"RECURRENCE"})
        BY <1>3, <2>3 DEF Ledger
      <3> QED  BY <2>1, <2>3, <3>1
    <2>4. CASE stmt \in JobTypes
      <3> DEFINE key == <<htask[h].version, stmt>>
      <3>1. Scheduler(h)
        <4>1. todo[h] # <<"cancelJobs">> /\ todo[h] # <<"cancelJobsButRoutine">>
          BY <2>4 DEF JobTypes
        <4>2. hpc[h] = "ledger" /\ ListFits(h) /\ hreq[h] \in Requests
          BY <1>3 DEF Ledger, LedgerInv, Base, Inv, Types
        <4> QED  BY <4>1, <4>2 DEF ListFits, Scheduler, Requests
      <3>2. stmt \in Range(todo[h])
        BY <1>3, NextStatement
      <3>3. htask[h].version \in 1..MaxVersion
        BY <3>1 DEF LedgerInv, ListFits, Scheduler
      <3>4. key \in JobKeys /\ row[key].status = "NONE"
        BY <2>4, <3>1, <3>2, <3>3 DEF JobKeys, LedgerInv, Fresh
      <3>5. CreateJob(key)
        BY <1>3, <2>4 DEF Ledger, JobTypes
      <3> HIDE DEF key
      <3>6. row'[key].status = "PENDING" /\ \A l \in JobKeys \ {key} : row'[l] = row[l]
        BY <3>4, <3>5, CreateRow
      <3> QED  BY <1>3, <3>1, <3>4, <3>6 DEF RowMade, key
    <2>5. stmt \in {"cancelJobs", "cancelJobsButRoutine"} \cup JobTypes
      <3>1. stmt \in Range(todo[h]) /\ todo[h] \in Seq(Statements)
        BY <1>3, NextStatement DEF Base, LedgerTypes
      <3>2. \A i \in DOMAIN todo[h] : todo[h][i] \in Statements
        BY <3>1, LenProperties, ElementOfSeq
      <3> QED  BY <3>1, <3>2 DEF Range, Statements
    <2> QED  BY <2>2, <2>3, <2>4, <2>5
  <1>4. ASSUME NEW w \in Workers, Execute(w) PROVE Goal
    BY <1>1, <1>4
    DEF Execute, ReadToPublish, Send, ReadForReceipt, SaveReceipt, ReadAtDeadline, SaveOverdue,
        CreateOccurrence, ScheduleOccurrence
  <1>5. ASSUME NEW w \in Workers, NEW l \in JobKeys, Claim(w, l) PROVE Goal
    <2>1. row'[l].status = "PROCESSING" /\ (l # k => row'[k] = row[k]) /\ row[l].status = "PENDING"
      BY <1>0, <1>5, RowStatus DEF Claim
    <2> QED  BY <1>5, <2>1 DEF RowClaimed
  <1>6. ASSUME NEW w \in Workers, Settle(w) PROVE Goal
    <2>1. CASE wkey[w] # k
      BY <1>0, <1>6, <2>1 DEF Settle
    <2>2. CASE wkey[w] = k
      <3>1. row[k].status \in {"PROCESSING", "CANCELLED"} /\ row[k] \in JobRow
        BY <1>0, <2>2, KeyFacts DEF LedgerInv, Held
      <3>2. Completed(row[k]).status \in {"SUCCEEDED", "CANCELLED"}
        BY <3>1, RowStatus
      <3>3. \A retry \in BOOLEAN : Failed(row[k], retry).status =
              (IF retry /\ CanRetry(row[k]) THEN "PENDING" ELSE "FAILED")
        BY <3>1, RowStatus
      <3>4. /\ Failed(row[k], TRUE).status
                 = (IF TRUE /\ CanRetry(row[k]) THEN "PENDING" ELSE "FAILED")
            /\ Failed(row[k], FALSE).status
                 = (IF FALSE /\ CanRetry(row[k]) THEN "PENDING" ELSE "FAILED")
        BY <3>3
      <3>5. \/ wpc[w] = "completing" /\ row'[k] = Completed(row[k])
            \/ wpc[w] = "failRetry"  /\ row'[k] = Failed(row[k], TRUE)
            \/ wpc[w] = "failFinal"  /\ row'[k] = Failed(row[k], FALSE)
        BY <1>0, <1>6, <2>2 DEF Settle
      <3> QED  BY <1>6, <2>2, <3>2, <3>4, <3>5 DEF RowSettled
    <2> QED  BY <2>1, <2>2
  <1>7. ASSUME UNCHANGED vars PROVE Goal
    BY <1>1, <1>7 DEF vars
  <1> HIDE DEF Goal
  <1>8. Goal
    BY <1>2, <1>3, <1>4, <1>5, <1>6, <1>7, FaultFree
  <1> QED  BY <1>8 DEF Goal

-----------------------------------------------------------------------------
(* One version while nothing fails and nothing is edited.                  *)

PublishKey == <<1, "PUBLISH">>
RoutineKey == <<1, "RECURRENCE">>

\* Only the creation has made jobs.
OneVersion ==
  /\ \A k \in JobKeys : k[1] # 1 => row[k].status = "NONE"
  /\ \A h \in Handlers : hpc[h] = "ledger" => hreq[h] # "update"

Posting ==
  \E w \in Workers : /\ wkey[w] = PublishKey
                     /\ wpc[w] \in {"receipt", "saveReceipt", "failFinal"}

\* Once the assignment has been posted nothing leads back to the send: the receipt is there
\* or on its way, or the task is cancelled, or the job has failed for good.
PostedOnce ==
  /\ sent <= 1
  /\ \A w \in Workers : wpc[w] = "sending" => sent = 0
  /\ \/ sent = 0 \/ task.published \/ task.status = "CANCELLED"
     \/ row[PublishKey].status = "FAILED" \/ Posting

Recurring ==
  \E w \in Workers : wkey[w] = RoutineKey /\ wpc[w] \in {"recurJobs", "completing"}

\* Once the next occurrence exists its job has ended or is about to.
RecurredOnce ==
  /\ occurrences <= 1
  /\ \A w \in Workers : wpc[w] = "recur" => occurrences = 0
  /\ occurrences = 0 \/ Ended(row[RoutineKey].status) \/ Recurring

Single == ~edited /\ faults = 0 => OneVersion /\ PostedOnce /\ RecurredOnce

\* An edit is remembered.
LEMMA EditRemembered ==
  ASSUME Base, [Next]_vars, ~edited'
  PROVE  ~edited /\ \A h \in Handlers : Save(h) /\ CanSave(htask[h].version) => hreq[h] # "update"
  <1>1. ASSUME NEW h \in Handlers, Save(h)
        PROVE  ~edited /\ (CanSave(htask[h].version) => hreq[h] # "update")
    <2>1. CASE CanSave(htask[h].version)
      <3>1. edited' = (edited \/ hreq[h] = "update")
        BY <1>1, <2>1 DEF Save
      <3> QED  BY <3>1, Zenon
    <2>2. CASE ~CanSave(htask[h].version)
      BY <1>1, <2>2 DEF Save
    <2> QED  BY <2>1, <2>2
  <1>2. ASSUME NEW h \in Handlers,
               \/ Create(h) \/ Update(h) \/ Cancel(h) \/ Complete(h) \/ Submit(h)
               \/ FindRoutine(h) \/ Ledger(h) \/ HandlerStoreError(h)
        PROVE  ~edited
    BY <1>2 DEF Create, Update, Cancel, Complete, Submit, Ask, FindRoutine, Ledger,
                HandlerStoreError, history
  <1>3. ASSUME NEW w \in Workers, \/ Execute(w) \/ Settle(w) \/ WorkerStoreError(w)
                                  \/ \E k \in JobKeys : Claim(w, k)
        PROVE  ~edited
    <2>1. OnlyWorker \/ UNCHANGED edited
      BY <1>3
      DEF Execute, ReadToPublish, Send, ReadForReceipt, SaveReceipt, ReadAtDeadline,
          SaveOverdue, CreateOccurrence, ScheduleOccurrence, Settle, Claim, WorkerStoreError
    <2> QED  BY <2>1 DEF OnlyWorker
  <1>4. ASSUME NEW k \in JobKeys, RecoverStale(k) PROVE ~edited
    BY <1>4 DEF RecoverStale
  <1>5. ASSUME Crash \/ UNCHANGED vars PROVE ~edited
    BY <1>5 DEF Crash, vars, history
  <1>6. ~edited
    BY <1>1, <1>2, <1>3, <1>4, <1>5 DEF Next
  <1> QED  BY <1>1, <1>6

\* With one version there is one key of each type, and so one worker that posts and one
\* that creates the next occurrence.
LEMMA HolderKey ==
  ASSUME Base, LedgerInv, OneVersion, NEW w \in Workers
  PROVE  /\ wpc[w] \in {"publish", "sending", "receipt", "saveReceipt"} => wkey[w] = PublishKey
         /\ wpc[w] \in {"recur", "recurJobs"} => wkey[w] = RoutineKey
         /\ \A u \in Workers : wkey[w] \in JobKeys /\ wkey[u] = wkey[w] => u = w
         /\ wkey[w] \in JobKeys => row[wkey[w]].status \in {"PROCESSING", "CANCELLED"}
  <1>1. StageFits(w) /\ (wpc[w] # "idle" => wkey[w] \in JobKeys)
    BY DEF LedgerInv, Base, LedgerTypes
  <1>2. wkey[w] \in JobKeys =>
          /\ row[wkey[w]].status \in {"PROCESSING", "CANCELLED"}
          /\ \A u \in Workers : wkey[u] = wkey[w] => u = w
    BY KeyFacts DEF LedgerInv, Held
  <1>3. wkey[w] \in JobKeys => wkey[w] = <<1, wkey[w][2]>>
    BY <1>2, KeyFacts DEF OneVersion
  <1> QED  BY <1>1, <1>2, <1>3 DEF StageFits, PublishKey, RoutineKey

LEMMA StepOneVersion ==
  ASSUME Base, LedgerInv, OneVersion, [Next]_vars, faults' = 0, ~edited'
  PROVE  OneVersion'
  <1>1. ASSUME NEW k \in JobKeys, k[1] # 1 PROVE row'[k].status = "NONE"
    <2>1. row[k].status = "NONE"
      BY <1>1 DEF OneVersion
    <2>2. ~RowMade(k)
      <3> SUFFICES ASSUME NEW h \in Handlers, Scheduler(h),
                          k = <<htask[h].version, Head(todo[h])>>
                   PROVE  FALSE
        BY DEF RowMade
      <3>1. htask[h].version = 1
        BY DEF Scheduler, OneVersion, LedgerInv, ListFits
      <3> QED  BY <1>1, <3>1
    <2>3. ~RowClaimed(k) /\ ~RowCancelled(k)
      BY <2>1 DEF RowClaimed, RowCancelled
    <2>4. ~RowSettled(k)
      BY <2>1, HolderKey DEF RowSettled
    <2> QED  BY <2>1, <2>2, <2>3, <2>4, RowChange
  <1>2. ASSUME NEW h \in Handlers, hpc'[h] = "ledger" PROVE hreq'[h] # "update"
    <2>1. ASSUME NEW g \in Handlers, Create(g) PROVE hreq'[h] # "update"
      <3>1. \A f \in Handlers : hpc[f] = "idle"
        BY <2>1 DEF Create, Base, Grounds
      <3> QED  BY <1>2, <2>1, <3>1 DEF Create, Base, Inv, Types
    <2>2. ASSUME NEW g \in Handlers, \/ Update(g) \/ Cancel(g) \/ Complete(g) \/ Submit(g)
                                     \/ FindRoutine(g)
          PROVE  hreq'[h] # "update"
      BY <1>2, <2>2 DEF Update, Cancel, Complete, Submit, Ask, FindRoutine, OneVersion,
                        Base, Inv, Types
    <2>3. ASSUME NEW g \in Handlers, Save(g) PROVE hreq'[h] # "update"
      <3>1. CanSave(htask[g].version) => hreq[g] # "update"
        BY <2>3, EditRemembered
      <3> QED  BY <1>2, <2>3, <3>1 DEF Save, Answer, OneVersion, Base, Inv, Types
    <2>4. ASSUME NEW g \in Handlers, Ledger(g) PROVE hreq'[h] # "update"
      BY <1>2, <2>4 DEF Ledger, Answer, OneVersion, Base, Inv, Types
    <2>5. ASSUME NEW w \in Workers, Execute(w) \/ Settle(w) \/ \E k \in JobKeys : Claim(w, k)
          PROVE  hreq'[h] # "update"
      <3>1. OnlyWorker
        BY <2>5
        DEF Execute, ReadToPublish, Send, ReadForReceipt, SaveReceipt, ReadAtDeadline,
            SaveOverdue, CreateOccurrence, ScheduleOccurrence, Settle, Claim
      <3> QED  BY <1>2, <3>1 DEF OnlyWorker, handlerVars, OneVersion
    <2>6. CASE UNCHANGED vars
      BY <1>2, <2>6 DEF vars, handlerVars, OneVersion
    <2> QED  BY <2>1, <2>2, <2>3, <2>4, <2>5, <2>6, FaultFree
  <1> QED  BY <1>1, <1>2 DEF OneVersion

\* While nothing fails only a worker moves a worker.
LEMMA WorkerMoves ==
  ASSUME Base, [Next]_vars, faults' = 0, NEW w \in Workers
  PROVE  \/ UNCHANGED <<wpc[w], wkey[w]>>
         \/ Execute(w) \/ Settle(w) \/ \E k \in JobKeys : Claim(w, k)
  <1>0. /\ wpc \in [Workers -> WorkerStates]
        /\ wkey \in [Workers -> JobKeys \cup {NoKey}]
    BY DEF Base, Inv, Types, LedgerTypes
  <1>1. ASSUME NEW h \in Handlers,
               \/ Create(h) \/ Update(h) \/ Cancel(h) \/ Complete(h) \/ Submit(h)
               \/ FindRoutine(h) \/ Save(h) \/ Ledger(h)
        PROVE  UNCHANGED <<wpc[w], wkey[w]>>
    BY <1>1 DEF Create, Update, Cancel, Complete, Submit, Ask, FindRoutine, Save, Ledger,
                workerVars
  <1>2. ASSUME NEW u \in Workers, u # w, Execute(u)
        PROVE  UNCHANGED <<wpc[w], wkey[w]>>
    BY <1>0, <1>2
    DEF Execute, ReadToPublish, Send, ReadForReceipt, SaveReceipt, ReadAtDeadline, SaveOverdue,
        CreateOccurrence, ScheduleOccurrence, Goto
  <1>3. ASSUME NEW u \in Workers, u # w, Settle(u) \/ \E k \in JobKeys : Claim(u, k)
        PROVE  UNCHANGED <<wpc[w], wkey[w]>>
    BY <1>0, <1>3 DEF Settle, Claim, Goto
  <1>4. ASSUME UNCHANGED vars PROVE UNCHANGED <<wpc[w], wkey[w]>>
    BY <1>4 DEF vars, workerVars
  <1> QED  BY <1>1, <1>2, <1>3, <1>4, FaultFree

\* Only the send changes the number of posts, and only the creation of an occurrence that
\* of occurrences.
LEMMA CountChange ==
  ASSUME Base, [Next]_vars
  PROVE  /\ sent' = sent \/ \E w \in Workers : Send(w) /\ sent' = UpTo2(sent + 1)
         /\ \/ occurrences' = occurrences
            \/ \E w \in Workers : CreateOccurrence(w) /\ occurrences' = UpTo2(occurrences + 1)
  <1> DEFINE Goal == /\ sent' = sent \/ \E w \in Workers : Send(w) /\ sent' = UpTo2(sent + 1)
                     /\ \/ occurrences' = occurrences
                        \/ \E w \in Workers : /\ CreateOccurrence(w)
                                              /\ occurrences' = UpTo2(occurrences + 1)
  <1>1. ASSUME UNCHANGED <<sent, occurrences>> PROVE Goal
    BY <1>1
  <1>2. ASSUME NEW h \in Handlers,
               \/ Create(h) \/ Update(h) \/ Cancel(h) \/ Complete(h) \/ Submit(h)
               \/ FindRoutine(h) \/ Save(h) \/ Ledger(h) \/ HandlerStoreError(h)
        PROVE  Goal
    BY <1>1, <1>2 DEF Create, Update, Cancel, Complete, Submit, Ask, FindRoutine, Save, Ledger,
                      HandlerStoreError, history
  <1>3. ASSUME NEW w \in Workers, Send(w) PROVE Goal
    BY <1>3 DEF Send
  <1>4. ASSUME NEW w \in Workers, CreateOccurrence(w) PROVE Goal
    BY <1>4 DEF CreateOccurrence
  <1>5. ASSUME NEW w \in Workers,
               \/ ReadToPublish(w) \/ ReadForReceipt(w) \/ SaveReceipt(w) \/ ReadAtDeadline(w)
               \/ SaveOverdue(w) \/ ScheduleOccurrence(w) \/ Settle(w) \/ WorkerStoreError(w)
               \/ \E k \in JobKeys : Claim(w, k)
        PROVE  Goal
    BY <1>1, <1>5 DEF ReadToPublish, ReadForReceipt, SaveReceipt, ReadAtDeadline, SaveOverdue,
                      ScheduleOccurrence, Settle, WorkerStoreError, Claim
  <1>6. ASSUME NEW k \in JobKeys, RecoverStale(k) PROVE Goal
    BY <1>1, <1>6 DEF RecoverStale
  <1>7. ASSUME Crash \/ UNCHANGED vars PROVE Goal
    BY <1>1, <1>7 DEF Crash, vars, history
  <1> HIDE DEF Goal
  <1>8. Goal
    BY <1>2, <1>3, <1>4, <1>5, <1>6, <1>7 DEF Next, Execute
  <1> QED  BY <1>8 DEF Goal

\* A worker that has posted stores the receipt, finds that it need not, or fails the job.
LEMMA PostingMoves ==
  ASSUME Base, LedgerInv, [Next]_vars, faults' = 0, NEW w \in Workers,
         wkey[w] = PublishKey, wpc[w] \in {"receipt", "saveReceipt", "failFinal"}
  PROVE  \/ Posting' \/ task'.published \/ task'.status = "CANCELLED"
         \/ row'[PublishKey].status = "FAILED"
  <1>0. /\ wpc \in [Workers -> WorkerStates] /\ row \in [JobKeys -> JobRow]
        /\ PublishKey \in JobKeys
    BY KeyFacts DEF Base, Inv, Types, LedgerTypes, PublishKey
  <1>1. CASE UNCHANGED <<wpc[w], wkey[w]>>
    BY <1>1 DEF Posting
  <1>2. CASE Execute(w)
    <2>1. CASE ReadForReceipt(w)
      <3>1. task' = task /\ wkey'[w] = PublishKey
        BY <2>1 DEF ReadForReceipt
      <3>2. CASE task.status = "CANCELLED" \/ task.published
        BY <3>1, <3>2
      <3>3. CASE ~(task.status = "CANCELLED" \/ task.published)
        <4>1. wpc'[w] = "saveReceipt"
          BY <1>0, <2>1, <3>3 DEF ReadForReceipt, Goto
        <4> QED  BY <3>1, <4>1 DEF Posting
      <3> QED  BY <3>2, <3>3
    <2>2. CASE SaveReceipt(w)
      <3>1. CASE CanSave(wtask[w].version)
        <4>1. /\ SaveTask(wtask[w].version,
                          [wtask[w] EXCEPT !.status = "ACTIVE", !.published = TRUE])
              /\ wtask[w] \in Task
          BY <2>2, <3>1 DEF SaveReceipt, Base, Inv, Types
        <4>2. "ACTIVE" \in TaskStatus \cup {"NONE"} /\ TRUE \in BOOLEAN
          BY DEF TaskStatus
        <4>3. task'.published = TRUE
          <5> HIDE DEF SaveTask
          <5> QED  BY <4>1, <4>2, SavedTask
        <4> QED  BY <4>3
      <3>2. CASE ~CanSave(wtask[w].version)
        <4>1. wkey'[w] = PublishKey /\ wpc'[w] = "failFinal"
          BY <1>0, <2>2, <3>2 DEF SaveReceipt, Goto
        <4> QED  BY <4>1 DEF Posting
      <3> QED  BY <3>1, <3>2
    <2> QED
      BY <1>2, <2>1, <2>2
      DEF Execute, ReadToPublish, Send, ReadAtDeadline, SaveOverdue, CreateOccurrence,
          ScheduleOccurrence
  <1>3. CASE Settle(w)
    <2>1. row' = [row EXCEPT ![PublishKey] = Failed(@, FALSE)]
      BY <1>3 DEF Settle
    <2>2. Failed(row[PublishKey], FALSE).status = "FAILED"
      BY <1>0 DEF Failed, JobRow
    <2> QED  BY <1>0, <2>1, <2>2
  <1>4. CASE \E k \in JobKeys : Claim(w, k)
    BY <1>4 DEF Claim
  <1> QED  BY <1>1, <1>2, <1>3, <1>4, WorkerMoves

LEMMA StepPostedOnce ==
  ASSUME Base, LedgerInv, OneVersion, PostedOnce, [Next]_vars, faults' = 0
  PROVE  PostedOnce'
  <1>0. /\ sent \in 0..2 /\ wpc \in [Workers -> WorkerStates] /\ PublishKey \in JobKeys
        /\ wkey \in [Workers -> JobKeys \cup {NoKey}] /\ row \in [JobKeys -> JobRow]
        /\ task \in Task
    BY KeyFacts DEF Base, Inv, Types, LedgerTypes, PublishKey
  <1>1. ASSUME NEW w \in Workers, Send(w), sent' = UpTo2(sent + 1), sent' # sent
        PROVE  PostedOnce'
    <2>1. sent = 0 /\ sent' = 1
      BY <1>0, <1>1 DEF Send, PostedOnce, UpTo2
    <2>2. wpc' = [wpc EXCEPT ![w] = "receipt"] /\ UNCHANGED wkey
      BY <1>1 DEF Send, Goto
    <2>3. wkey[w] = PublishKey
      BY <1>1, HolderKey DEF Send
    <2>4. \A u \in Workers : wpc'[u] # "sending"
      <3> SUFFICES ASSUME NEW u \in Workers, u # w, wpc[u] = "sending" PROVE FALSE
        BY <1>0, <2>2
      <3>1. wkey[u] = PublishKey /\ \A v \in Workers : wkey[v] = wkey[u] => v = u
        BY <1>0, HolderKey
      <3> QED  BY <2>3, <3>1
    <2>5. Posting'
      BY <1>0, <2>2, <2>3 DEF Posting
    <2> QED  BY <2>1, <2>4, <2>5 DEF PostedOnce
  <1>2. ASSUME sent' = sent PROVE PostedOnce'
    <2>1. ASSUME NEW w \in Workers, wpc'[w] = "sending" PROVE sent = 0
      <3>1. CASE wpc[w] = "sending"
        BY <3>1 DEF PostedOnce
      <3>2. CASE wpc[w] # "sending"
        <4>1. ReadToPublish(w)
          <5>1. ~Settle(w) /\ ~\E k \in JobKeys : Claim(w, k)
            BY <1>0, <2>1, KeyFacts DEF Settle, Claim, Goto, Operation, JobTypes
          <5>2. Execute(w)
            BY <2>1, <3>2, <5>1, WorkerMoves
          <5> QED
            BY <1>0, <2>1, <5>2
            DEF Execute, Send, ReadForReceipt, SaveReceipt, ReadAtDeadline, SaveOverdue,
                CreateOccurrence, ScheduleOccurrence, Goto
        <4>2. task.status # "CANCELLED" /\ ~task.published
          BY <1>0, <2>1, <4>1 DEF ReadToPublish, Goto
        <4>3. /\ wkey[w] = PublishKey /\ row[PublishKey].status \in {"PROCESSING", "CANCELLED"}
              /\ \A u \in Workers : wkey[u] = PublishKey => u = w
          BY <1>0, <4>1, HolderKey DEF ReadToPublish
        <4>4. ~Posting
          BY <4>1, <4>3 DEF Posting, ReadToPublish
        <4> QED  BY <4>2, <4>3, <4>4 DEF PostedOnce
      <3> QED  BY <3>1, <3>2
    <2>2. ASSUME row[PublishKey].status = "FAILED" PROVE row'[PublishKey].status = "FAILED"
      <3>1. ~RowMade(PublishKey) /\ ~RowClaimed(PublishKey) /\ ~RowCancelled(PublishKey)
        BY <2>2 DEF RowMade, RowClaimed, RowCancelled
      <3>2. ~RowSettled(PublishKey)
        BY <1>0, <2>2, HolderKey DEF RowSettled
      <3>3. row'[PublishKey] = row[PublishKey]
        BY <1>0, <3>1, <3>2, RowChange
      <3> QED  BY <2>2, <3>3
    <2>3. /\ task.published => task'.published
          /\ task.status = "CANCELLED" => task'.status = "CANCELLED"
      <3>1. TaskChange /\ (task.status = "NONE" => ~task.published)
        BY StepChange DEF Base, Inv, BlankInv, NoTask
      <3> QED  BY <3>1 DEF TaskChange
    <2>4. Posting => \/ Posting' \/ task'.published \/ task'.status = "CANCELLED"
                     \/ row'[PublishKey].status = "FAILED"
      BY PostingMoves DEF Posting
    <2> QED  BY <1>2, <2>1, <2>2, <2>3, <2>4 DEF PostedOnce
  <1> QED  BY <1>1, <1>2, CountChange

LEMMA StepRecurredOnce ==
  ASSUME Base, LedgerInv, OneVersion, RecurredOnce, [Next]_vars, faults' = 0
  PROVE  RecurredOnce'
  <1>0. /\ occurrences \in 0..2 /\ wpc \in [Workers -> WorkerStates] /\ RoutineKey \in JobKeys
        /\ wkey \in [Workers -> JobKeys \cup {NoKey}] /\ row \in [JobKeys -> JobRow]
    BY KeyFacts DEF Base, CounterTypes, Inv, Types, LedgerTypes, RoutineKey
  <1>1. ASSUME NEW w \in Workers, CreateOccurrence(w), occurrences' = UpTo2(occurrences + 1),
               occurrences' # occurrences
        PROVE  RecurredOnce'
    <2>1. occurrences = 0 /\ occurrences' = 1
      BY <1>0, <1>1 DEF CreateOccurrence, RecurredOnce, UpTo2
    <2>2. wpc' = [wpc EXCEPT ![w] = "recurJobs"] /\ UNCHANGED wkey
      BY <1>1 DEF CreateOccurrence, Goto
    <2>3. wkey[w] = RoutineKey
      BY <1>1, HolderKey DEF CreateOccurrence
    <2>4. \A u \in Workers : wpc'[u] # "recur"
      <3> SUFFICES ASSUME NEW u \in Workers, u # w, wpc[u] = "recur" PROVE FALSE
        BY <1>0, <2>2
      <3>1. wkey[u] = RoutineKey /\ \A v \in Workers : wkey[v] = wkey[u] => v = u
        BY <1>0, HolderKey
      <3> QED  BY <2>3, <3>1
    <2>5. Recurring'
      BY <1>0, <2>2, <2>3 DEF Recurring
    <2> QED  BY <2>1, <2>4, <2>5 DEF RecurredOnce
  <1>2. ASSUME occurrences' = occurrences PROVE RecurredOnce'
    <2>1. ASSUME NEW w \in Workers, wpc'[w] = "recur" PROVE occurrences = 0
      <3>1. CASE wpc[w] = "recur"
        BY <3>1 DEF RecurredOnce
      <3>2. CASE wpc[w] # "recur"
        <4>1. PICK k \in JobKeys : Claim(w, k)
          <5>1. ~Settle(w)
            BY <1>0, <2>1 DEF Settle, Goto
          <5>2. ~Execute(w)
            BY <1>0, <2>1
            DEF Execute, ReadToPublish, Send, ReadForReceipt, SaveReceipt, ReadAtDeadline,
                SaveOverdue, CreateOccurrence, ScheduleOccurrence, Goto
          <5> QED  BY <2>1, <3>2, <5>1, <5>2, WorkerMoves
        <4>2. row[k].status = "PENDING" /\ Operation(k) = "recur"
          BY <1>0, <2>1, <4>1 DEF Claim, Goto
        <4>3. k[2] = "RECURRENCE"
          BY <4>2, KeyFacts DEF Operation, JobTypes
        <4>4. k = RoutineKey
          BY <4>2, <4>3, KeyFacts DEF OneVersion, RoutineKey
        <4>5. ~Recurring /\ ~Ended(row[RoutineKey].status)
          BY <1>0, <4>2, <4>4, HolderKey DEF Recurring, Ended
        <4> QED  BY <4>5 DEF RecurredOnce
      <3> QED  BY <3>1, <3>2
    <2>2. ASSUME Ended(row[RoutineKey].status)
          PROVE  Ended(row'[RoutineKey].status)
      <3>1. ~RowMade(RoutineKey) /\ ~RowClaimed(RoutineKey) /\ ~RowCancelled(RoutineKey)
        BY <2>2 DEF RowMade, RowClaimed, RowCancelled, Ended
      <3>2. CASE row'[RoutineKey] = row[RoutineKey]
        BY <2>2, <3>2
      <3>3. CASE RowSettled(RoutineKey)
        <4>1. PICK w \in Workers : /\ Settle(w) /\ wkey[w] = RoutineKey
                                   /\ \/ wpc[w] = "completing"
                                         /\ row'[RoutineKey].status \in {"SUCCEEDED", "CANCELLED"}
                                      \/ wpc[w] = "failRetry"
                                      \/ wpc[w] = "failFinal"
                                         /\ row'[RoutineKey].status = "FAILED"
          BY <3>3 DEF RowSettled
        <4>2. wpc[w] # "failRetry"
          BY <4>1 DEF LedgerInv, StageFits, RoutineKey
        <4> QED  BY <4>1, <4>2 DEF Ended
      <3> QED  BY <1>0, <3>1, <3>2, <3>3, RowChange
    <2>3. ASSUME NEW w \in Workers, wkey[w] = RoutineKey, wpc[w] \in {"recurJobs", "completing"}
          PROVE  Recurring' \/ Ended(row'[RoutineKey].status)
      <3>1. CASE UNCHANGED <<wpc[w], wkey[w]>>
        BY <2>3, <3>1 DEF Recurring
      <3>2. CASE Execute(w)
        <4>1. ScheduleOccurrence(w)
          BY <2>3, <3>2
          DEF Execute, ReadToPublish, Send, ReadForReceipt, SaveReceipt, ReadAtDeadline,
              SaveOverdue, CreateOccurrence
        <4>2. wkey'[w] = RoutineKey /\ wpc'[w] = "completing"
          BY <1>0, <2>3, <4>1 DEF ScheduleOccurrence, Goto
        <4> QED  BY <4>2 DEF Recurring
      <3>3. CASE Settle(w)
        <4>1. row' = [row EXCEPT ![RoutineKey] = Completed(@)]
          BY <2>3, <3>3 DEF Settle
        <4>2. row[RoutineKey].status \in {"PROCESSING", "CANCELLED"}
          BY <1>0, <2>3, HolderKey
        <4>3. Completed(row[RoutineKey]).status \in {"SUCCEEDED", "CANCELLED"}
          BY <1>0, <4>2, RowStatus
        <4> QED  BY <1>0, <4>1, <4>3 DEF Ended
      <3>4. CASE \E k \in JobKeys : Claim(w, k)
        BY <2>3, <3>4 DEF Claim
      <3> QED  BY <3>1, <3>2, <3>3, <3>4, WorkerMoves
    <2> QED  BY <1>2, <2>1, <2>2, <2>3 DEF RecurredOnce, Recurring
  <1> QED  BY <1>1, <1>2, CountChange

LEMMA StepSingle == Base /\ LedgerOK /\ Single /\ [Next]_vars => Single'
  <1> SUFFICES ASSUME Base, LedgerOK, Single, [Next]_vars, ~edited', faults' = 0
               PROVE  OneVersion' /\ PostedOnce' /\ RecurredOnce'
    BY DEF Single
  <1>1. LedgerInv /\ OneVersion /\ PostedOnce /\ RecurredOnce
    BY FaultRemembered, EditRemembered DEF LedgerOK, Single
  <1> QED  BY <1>1, StepOneVersion, StepPostedOnce, StepRecurredOnce

LEMMA InitSingle == Init => Single
  <1> SUFFICES ASSUME Init PROVE OneVersion /\ PostedOnce /\ RecurredOnce
    BY DEF Single
  <1>1. \A k \in JobKeys : row[k].status = "NONE"
    BY DEF Init, NoRow
  <1> QED  BY <1>1 DEF Init, OneVersion, PostedOnce, RecurredOnce

\* While nothing fails and nothing is edited the assignment is posted once, although a failed
\* send is retried: a job that has sent never goes back to PENDING without a stored receipt
\* (publishTask, recordPublishReceipt).
THEOREM PostedAtMostOnce == Spec => []SentOnceUndisturbed
  <1>1. Single => SentOnceUndisturbed
    BY DEF Single, PostedOnce, SentOnceUndisturbed
  <1> QED
    BY <1>1, InitBase, StepBase, InitLedger, StepLedger, InitSingle, StepSingle, PTL DEF Spec

\* Nor does the routine double: a recurrence job that has created an occurrence ends
\* (createRecurringInstance).
THEOREM OccurrenceAtMostOnce == Spec => []RoutineStaysSingle
  <1>1. Single => RoutineStaysSingle
    BY DEF Single, RecurredOnce, RoutineStaysSingle
  <1> QED
    BY <1>1, InitBase, StepBase, InitLedger, StepLedger, InitSingle, StepSingle, PTL DEF Spec

-----------------------------------------------------------------------------
(* The routine while nothing fails and no two requests schedule at once.   *)

RoutineComing == \E h \in Handlers : Scheduler(h) /\ "RECURRENCE" \in Range(todo[h])

NoneWaiting ==
  \A v \in 1..MaxVersion : row[<<v, "RECURRENCE">>].status \notin {"PENDING", "PROCESSING"}

OneScheduling == \A g, h \in Handlers : Scheduling(g) /\ Scheduling(h) => g = h

\* An update that cancels the jobs carries the routine over, unless there is none to carry.
CarriesOver ==
  \A h \in Handlers :
    /\ hpc[h] = "save" /\ hreq[h] = "update" => hroutine[h] \/ NoneWaiting
    /\ Scheduler(h) /\ "cancelJobs" \in Range(todo[h])
         => "RECURRENCE" \in Range(todo[h]) \/ NoneWaiting

RoutineInv ==
  /\ OneScheduling /\ CarriesOver
  /\ task.status \notin {"NONE", "CANCELLED"} => RoutineAlive \/ RoutineComing

RoutineOK == faults = 0 /\ ~overlap => RoutineInv

\* An overlap is remembered, and an update notices it.
LEMMA OverlapRemembered ==
  ASSUME Base, [Next]_vars, ~overlap'
  PROVE  /\ ~overlap
         /\ \A h \in Handlers : Update(h) => \A g \in Handlers \ {h} : ~Scheduling(g)
  <1>1. ASSUME NEW h \in Handlers, Update(h)
        PROVE  ~overlap /\ \A g \in Handlers \ {h} : ~Scheduling(g)
    <2>1. overlap' = (overlap \/ \E g \in Handlers \ {h} : Scheduling(g))
      BY <1>1 DEF Update, NoteOverlap
    <2> QED  BY <2>1, Zenon
  <1>2. ASSUME NEW h \in Handlers,
               \/ Create(h) \/ Cancel(h) \/ Complete(h) \/ Submit(h) \/ FindRoutine(h)
               \/ Save(h) \/ Ledger(h) \/ HandlerStoreError(h)
        PROVE  ~overlap
    BY <1>2 DEF Create, Cancel, Complete, Submit, FindRoutine, Save, Ledger, HandlerStoreError,
                history
  <1>3. ASSUME NEW w \in Workers, \/ Execute(w) \/ Settle(w) \/ WorkerStoreError(w)
                                  \/ \E k \in JobKeys : Claim(w, k)
        PROVE  ~overlap
    <2>1. OnlyWorker \/ UNCHANGED overlap
      BY <1>3
      DEF Execute, ReadToPublish, Send, ReadForReceipt, SaveReceipt, ReadAtDeadline,
          SaveOverdue, CreateOccurrence, ScheduleOccurrence, Settle, Claim, WorkerStoreError
    <2> QED  BY <2>1 DEF OnlyWorker
  <1>4. ASSUME NEW k \in JobKeys, RecoverStale(k) PROVE ~overlap
    BY <1>4 DEF RecoverStale
  <1>5. ASSUME Crash \/ UNCHANGED vars PROVE ~overlap
    BY <1>5 DEF Crash, vars, history
  <1>6. ~overlap
    BY <1>1, <1>2, <1>3, <1>4, <1>5 DEF Next
  <1> QED  BY <1>1, <1>6

\* While nothing fails only a request moves a request.
LEMMA HandlerMoves ==
  ASSUME Base, [Next]_vars, faults' = 0, NEW h \in Handlers
  PROVE  \/ UNCHANGED <<hpc[h], hreq[h], htask[h], hroutine[h], todo[h]>>
         \/ Create(h) \/ Update(h) \/ Cancel(h) \/ Complete(h) \/ Submit(h)
         \/ FindRoutine(h) \/ Save(h) \/ Ledger(h)
  <1> DEFINE Same == UNCHANGED <<hpc[h], hreq[h], htask[h], hroutine[h], todo[h]>>
  <1>0. /\ hpc \in [Handlers -> HandlerStates] /\ hreq \in [Handlers -> Requests]
        /\ htask \in [Handlers -> Task] /\ hroutine \in [Handlers -> BOOLEAN]
        /\ todo \in [Handlers -> Seq(Statements)]
    BY DEF Base, Inv, Types, LedgerTypes
  <1>1. ASSUME NEW g \in Handlers, g # h,
               \/ Create(g) \/ Update(g) \/ Cancel(g) \/ Complete(g) \/ Submit(g)
               \/ FindRoutine(g)
        PROVE  Same
    BY <1>0, <1>1 DEF Create, Update, Cancel, Complete, Submit, Ask, FindRoutine
  <1>2. ASSUME NEW g \in Handlers, g # h, Save(g) \/ Ledger(g)
        PROVE  Same
    BY <1>0, <1>2 DEF Save, Ledger, Answer
  <1>3. ASSUME NEW w \in Workers, Execute(w) \/ Settle(w) \/ \E k \in JobKeys : Claim(w, k)
        PROVE  Same
    <2>1. OnlyWorker
      BY <1>3
      DEF Execute, ReadToPublish, Send, ReadForReceipt, SaveReceipt, ReadAtDeadline,
          SaveOverdue, CreateOccurrence, ScheduleOccurrence, Settle, Claim
    <2> QED  BY <2>1 DEF OnlyWorker, handlerVars
  <1>4. ASSUME UNCHANGED vars PROVE Same
    BY <1>4 DEF vars, handlerVars
  <1> QED  BY <1>1, <1>2, <1>3, <1>4, FaultFree

\* Nobody begins to schedule while another does.
LEMMA StepScheduling ==
  ASSUME Base, LedgerInv, OneScheduling, [Next]_vars, faults' = 0, ~overlap'
  PROVE  OneScheduling'
  <1>1. ASSUME NEW h \in Handlers, Scheduling(h)'
        PROVE  \/ Scheduling(h)
               \/ (Create(h) \/ Update(h)) /\ \A g \in Handlers \ {h} : ~Scheduling(g)
    <2>1. CASE Create(h)
      BY <2>1 DEF Create, Scheduling, Base, Grounds
    <2>2. CASE Update(h)
      BY <2>2, OverlapRemembered
    <2>3. CASE Cancel(h) \/ Complete(h) \/ Submit(h)
      BY <1>1, <2>3 DEF Cancel, Complete, Submit, Ask, Scheduling, Base, Inv, Types
    <2>4. CASE FindRoutine(h) \/ Save(h) \/ Ledger(h)
      BY <1>1, <2>4 DEF FindRoutine, Save, Ledger, Answer, Scheduling, Base, Inv, Types
    <2>5. CASE UNCHANGED <<hpc[h], hreq[h], htask[h], hroutine[h], todo[h]>>
      BY <1>1, <2>5 DEF Scheduling
    <2> QED  BY <2>1, <2>2, <2>3, <2>4, <2>5, HandlerMoves
  <1>2. ASSUME NEW h \in Handlers, Create(h) \/ Update(h), NEW g \in Handlers, g # h
        PROVE  hpc'[g] = hpc[g] /\ hreq'[g] = hreq[g]
    BY <1>2 DEF Create, Update, Ask, Base, Inv, Types
  <1>3. ASSUME NEW h \in Handlers, Scheduling(h)', NEW g \in Handlers, Scheduling(g)', g # h,
               ~Scheduling(h)
        PROVE  FALSE
    <2>1. (Create(h) \/ Update(h)) /\ ~Scheduling(g)
      BY <1>1, <1>3
    <2>2. hpc'[g] = hpc[g] /\ hreq'[g] = hreq[g]
      BY <1>2, <1>3, <2>1
    <2> QED  BY <1>3, <2>1, <2>2 DEF Scheduling
  <1> QED  BY <1>3 DEF OneScheduling

\* Only a request that schedules makes a routine job to wait.
LEMMA NoneWaitingKept ==
  ASSUME Base, LedgerInv, [Next]_vars, faults' = 0, NoneWaiting,
         \A h \in Handlers : Ledger(h) /\ Scheduler(h) => Head(todo[h]) # "RECURRENCE"
  PROVE  NoneWaiting'
  <1> SUFFICES ASSUME NEW v \in 1..MaxVersion
               PROVE  row'[<<v, "RECURRENCE">>].status \notin {"PENDING", "PROCESSING"}
    BY DEF NoneWaiting
  <1> DEFINE k == <<v, "RECURRENCE">>
  <1>1. k \in JobKeys /\ row[k].status \notin {"PENDING", "PROCESSING"}
    BY DEF JobKeys, JobTypes, NoneWaiting
  <1>2. ~RowMade(k)
    BY DEF RowMade
  <1>3. ~RowClaimed(k) /\ ~RowCancelled(k)
    BY <1>1 DEF RowClaimed, RowCancelled
  <1>4. RowSettled(k) => row'[k].status \notin {"PENDING", "PROCESSING"}
    <2> SUFFICES ASSUME RowSettled(k) PROVE row'[k].status \notin {"PENDING", "PROCESSING"}
      OBVIOUS
    <2>1. PICK w \in Workers :
            /\ wkey[w] = k
            /\ \/ wpc[w] = "completing" /\ row'[k].status \in {"SUCCEEDED", "CANCELLED"}
               \/ wpc[w] = "failRetry"
               \/ wpc[w] = "failFinal"  /\ row'[k].status = "FAILED"
      BY DEF RowSettled
    <2>2. wpc[w] # "failRetry"
      BY <2>1 DEF LedgerInv, StageFits
    <2> QED  BY <2>1, <2>2
  <1> HIDE DEF k
  <1>5. row'[k].status \notin {"PENDING", "PROCESSING"}
    BY <1>1, <1>2, <1>3, <1>4, RowChange
  <1> QED  BY <1>5 DEF k

LEMMA CancelIsFirst ==
  ASSUME NEW s, Ordered(s), "cancelJobs" \in Range(s)
  PROVE  Head(s) = "cancelJobs"
  <1>1. s \in Seq(Statements) /\ s # <<>> /\ DOMAIN s = 1..Len(s)
    BY LenProperties DEF Ordered
  <1>2. PICK i \in 1..Len(s) : s[i] = "cancelJobs"
    BY <1>1 DEF Range
  <1>3. i = 1
    BY <1>2 DEF Ordered, JobTypes
  <1> QED  BY <1>1, <1>2, <1>3, HeadTailProperties

LEMMA StepCarries ==
  ASSUME Base, LedgerInv, RoutineInv, [Next]_vars, faults' = 0, NEW h \in Handlers
  PROVE  /\ hpc'[h] = "save" /\ hreq'[h] = "update" => hroutine'[h] \/ NoneWaiting'
         /\ Scheduler(h)' /\ "cancelJobs" \in Range(todo'[h])
              => "RECURRENCE" \in Range(todo'[h]) \/ NoneWaiting'
  <1>0. /\ hpc \in [Handlers -> HandlerStates] /\ hreq \in [Handlers -> Requests]
        /\ hroutine \in [Handlers -> BOOLEAN] /\ todo \in [Handlers -> Seq(Statements)]
    BY DEF Base, Inv, Types, LedgerTypes
  <1>1. /\ hpc[h] = "save" /\ hreq[h] = "update" => hroutine[h] \/ NoneWaiting
        /\ Scheduler(h) /\ "cancelJobs" \in Range(todo[h])
             => "RECURRENCE" \in Range(todo[h]) \/ NoneWaiting
    BY DEF RoutineInv, CarriesOver
  <1>2. CASE UNCHANGED <<hpc[h], hreq[h], htask[h], hroutine[h], todo[h]>>
    <2>1. ASSUME NoneWaiting,
                 \/ hpc[h] = "save" /\ hreq[h] = "update"
                 \/ Scheduler(h) /\ "cancelJobs" \in Range(todo[h])
          PROVE  NoneWaiting'
      <3>1. ASSUME NEW g \in Handlers, Ledger(g), Scheduler(g)
            PROVE  Head(todo[g]) # "RECURRENCE"
        <4>1. g = h
          BY <2>1, <3>1 DEF RoutineInv, OneScheduling, Scheduling, Scheduler
        <4>2. hpc[h] = "ledger" /\ "cancelJobs" \in Range(todo[h]) /\ Ordered(todo[h])
          BY <2>1, <3>1, <4>1 DEF Scheduler, LedgerInv, ListFits
        <4> QED  BY <4>1, <4>2, CancelIsFirst
      <3> QED  BY <2>1, <3>1, NoneWaitingKept
    <2> QED  BY <1>1, <1>2, <2>1 DEF Scheduler
  <1>3. CASE Create(h)
    <2>1. hpc'[h] = "ledger" /\ todo'[h] \in Seq(JobTypes)
      BY <1>0, <1>3, StatementsOfCreate DEF Create
    <2>2. DOMAIN todo'[h] = 1..Len(todo'[h]) /\ \A i \in 1..Len(todo'[h]) : todo'[h][i] \in JobTypes
      BY <2>1, LenProperties, ElementOfSeq
    <2>3. "cancelJobs" \notin Range(todo'[h])
      BY <2>2 DEF Range, JobTypes
    <2> QED  BY <2>1, <2>3
  <1>4. CASE Update(h) \/ Cancel(h) \/ Complete(h) \/ Submit(h)
    <2>1. hpc'[h] # "ledger" /\ ~(hpc'[h] = "save" /\ hreq'[h] = "update")
      BY <1>0, <1>4 DEF Update, Cancel, Complete, Submit, Ask
    <2> QED  BY <2>1 DEF Scheduler
  <1>5. CASE FindRoutine(h)
    <2>1. /\ hpc'[h] = "save" /\ row' = row
          /\ hroutine'[h] = \E v \in 1..MaxVersion :
               row[<<v, "RECURRENCE">>].status \in {"PENDING", "PROCESSING"}
      BY <1>0, <1>5 DEF FindRoutine
    <2>2. hroutine'[h] \/ NoneWaiting'
      BY <2>1 DEF NoneWaiting
    <2> QED  BY <2>1, <2>2 DEF Scheduler
  <1>6. CASE Save(h)
    <2>1. hpc'[h] # "save" /\ row' = row /\ hpc[h] = "save"
      BY <1>0, <1>6 DEF Save, Answer
    <2>2. CASE Scheduler(h)'
      <3>1. hreq'[h] = hreq[h] /\ todo'[h] = LedgerStatements(h)
        BY <1>0, <1>6, <2>2 DEF Save, Answer, Scheduler
      <3>2. hreq[h] = "update"
        BY <2>1, <2>2, <3>1 DEF Scheduler, Base, Inv, HandlerKnows
      <3>3. hroutine[h] => "RECURRENCE" \in Range(todo'[h])
        BY <1>0, <3>1, <3>2, StatementsOf DEF Requests
      <3>4. NoneWaiting => NoneWaiting'
        BY <2>1 DEF NoneWaiting
      <3> QED  BY <1>1, <2>1, <3>2, <3>3, <3>4
    <2> QED  BY <2>1, <2>2
  <1>7. CASE Ledger(h)
    <2>1. hpc'[h] # "save"
      BY <1>0, <1>7 DEF Ledger, Answer
    <2>2. CASE Scheduler(h)'
      <3>1. Len(todo[h]) # 1 /\ todo'[h] = Tail(todo[h]) /\ Scheduler(h)
        BY <1>7, <2>2, NextStatement DEF Scheduler, Ledger
      <3>2. Ordered(todo[h])
        BY <3>1 DEF Scheduler, LedgerInv, ListFits
      <3>3. "cancelJobs" \notin Range(todo'[h])
        BY <3>1, <3>2, TailOrdered
      <3> QED  BY <2>1, <3>3
    <2> QED  BY <2>1, <2>2
  <1> QED  BY <1>2, <1>3, <1>4, <1>5, <1>6, <1>7, HandlerMoves

\* A task comes into being by its creation.
LEMMA OnlyCreation ==
  ASSUME Base, LedgerInv, [Next]_vars, faults' = 0, task.status = "NONE", task' # task
  PROVE  \E h \in Handlers : Create(h)
  <1>1. \A h \in Handlers : hpc[h] = "idle"
    BY DEF Base, Grounds
  <1>2. \A w \in Workers : wpc[w] = "idle"
    BY BusyMeansTask
  <1>3. ASSUME NEW h \in Handlers, \/ Update(h) \/ Cancel(h) \/ Complete(h) \/ Submit(h)
                                   \/ FindRoutine(h) \/ Save(h) \/ Ledger(h)
        PROVE  FALSE
    BY <1>1, <1>3 DEF Update, Cancel, Complete, Submit, Ask, FindRoutine, Save, Ledger
  <1>4. ASSUME NEW w \in Workers, Execute(w) \/ Settle(w) \/ \E k \in JobKeys : Claim(w, k)
        PROVE  FALSE
    BY <1>2, <1>4
    DEF Execute, ReadToPublish, Send, ReadForReceipt, SaveReceipt, ReadAtDeadline, SaveOverdue,
        CreateOccurrence, ScheduleOccurrence, Settle, Claim
  <1>5. ~UNCHANGED vars
    BY DEF vars
  <1> QED  BY <1>3, <1>4, <1>5, FaultFree

\* A request that still has the routine on its list makes its job or keeps it there.
LEMMA ComingMoves ==
  ASSUME Base, LedgerInv, [Next]_vars, faults' = 0, task.status # "NONE", RoutineComing
  PROVE  RoutineComing' \/ RoutineAlive'
  <1>1. PICK h \in Handlers : Scheduler(h) /\ "RECURRENCE" \in Range(todo[h])
    BY DEF RoutineComing
  <1>2. /\ htask[h].version \in 1..MaxVersion /\ Ordered(todo[h]) /\ hpc[h] = "ledger"
        /\ row[<<htask[h].version, "RECURRENCE">>].status = "NONE"
    BY <1>1 DEF Scheduler, LedgerInv, ListFits, Fresh, JobTypes
  <1>3. CASE UNCHANGED <<hpc[h], hreq[h], htask[h], hroutine[h], todo[h]>>
    BY <1>1, <1>3 DEF RoutineComing, Scheduler
  <1>4. CASE Ledger(h)
    <2>1. CASE Head(todo[h]) = "RECURRENCE"
      <3> DEFINE key == <<htask[h].version, "RECURRENCE">>
      <3>1. CreateJob(key) /\ key \in JobKeys
        BY <1>2, <1>4, <2>1 DEF Ledger, JobKeys, JobTypes
      <3> HIDE DEF key
      <3>2. row'[key].status = "PENDING"
        BY <1>2, <3>1, CreateRow DEF key
      <3> QED  BY <1>2, <3>2 DEF RoutineAlive, key
    <2>2. CASE Head(todo[h]) # "RECURRENCE"
      <3>1. Len(todo[h]) # 1
        BY <1>1, <1>4, <2>2, NextStatement
      <3>2. Range(Tail(todo[h])) = Range(todo[h]) \ {Head(todo[h])}
        BY <1>2, <3>1, TailOrdered
      <3>3. /\ hpc'[h] = "ledger" /\ todo'[h] = Tail(todo[h]) /\ hreq'[h] = hreq[h]
        BY <1>4, <3>1, NextStatement
      <3> QED  BY <1>1, <2>2, <3>2, <3>3 DEF RoutineComing, Scheduler
    <2> QED  BY <2>1, <2>2
  <1>5. ~Create(h) /\ ~Update(h) /\ ~Cancel(h) /\ ~Complete(h) /\ ~Submit(h)
        /\ ~FindRoutine(h) /\ ~Save(h)
    BY <1>2 DEF Create, Update, Cancel, Complete, Submit, Ask, FindRoutine, Save
  <1> QED  BY <1>3, <1>4, <1>5, HandlerMoves

\* A routine ends with its task only, or by creating the next occurrence.
LEMMA AliveMoves ==
  ASSUME Base, LedgerInv, RoutineInv, [Next]_vars, faults' = 0,
         task.status # "CANCELLED", RoutineAlive
  PROVE  RoutineComing' \/ RoutineAlive'
  <1>1. CASE occurrences > 0
    BY <1>1, CountChange DEF UpTo2, RoutineAlive, Base, CounterTypes
  <1>2. ASSUME NEW v \in 1..MaxVersion,
               row[<<v, "RECURRENCE">>].status \in {"PENDING", "PROCESSING", "FAILED"}
        PROVE  RoutineComing' \/ RoutineAlive'
    <2> DEFINE k == <<v, "RECURRENCE">>
    <2>1. k \in JobKeys /\ k[2] = "RECURRENCE"
      BY DEF JobKeys, JobTypes
    <2>2. row'[k].status \in {"PENDING", "PROCESSING", "FAILED"} => RoutineAlive'
      BY DEF RoutineAlive
    <2>3. ~RowMade(k)
      BY <1>2 DEF RowMade
    <2>4. RowClaimed(k) => RoutineAlive'
      BY <2>2 DEF RowClaimed
    <2>5. ASSUME RowCancelled(k) PROVE RoutineComing'
      <3>1. PICK h \in Handlers : Ledger(h) /\ Head(todo[h]) = "cancelJobs"
        BY <2>1, <2>5 DEF RowCancelled
      <3>2. Head(todo[h]) \in Range(todo[h]) /\ hpc[h] = "ledger"
        BY <3>1, NextStatement DEF Ledger
      <3>3. Scheduler(h)
        <4>1. ListFits(h) /\ hreq[h] \in Requests
          BY DEF LedgerInv, Base, Inv, Types
        <4>2. todo[h] # <<"cancelJobsButRoutine">>
          BY <3>1
        <4> QED  BY <3>2, <4>1, <4>2 DEF ListFits, Scheduler, Requests
      <3>4. ~NoneWaiting
        BY <2>5 DEF NoneWaiting, RowCancelled
      <3>5. "RECURRENCE" \in Range(todo[h]) /\ Ordered(todo[h])
        BY <3>1, <3>2, <3>3, <3>4 DEF RoutineInv, CarriesOver, LedgerInv, ListFits
      <3>6. Len(todo[h]) # 1
        BY <3>1, <3>5, NextStatement
      <3>7. /\ hpc'[h] = "ledger" /\ todo'[h] = Tail(todo[h]) /\ hreq'[h] = hreq[h]
            /\ Range(Tail(todo[h])) = Range(todo[h]) \ {Head(todo[h])}
        BY <3>1, <3>5, <3>6, NextStatement, TailOrdered
      <3> QED  BY <3>1, <3>3, <3>5, <3>7 DEF RoutineComing, Scheduler
    <2>6. ASSUME RowSettled(k) PROVE RoutineAlive'
      <3>1. PICK w \in Workers :
              /\ Settle(w) /\ wkey[w] = k
              /\ \/ wpc[w] = "completing" \/ wpc[w] = "failRetry"
                 \/ wpc[w] = "failFinal" /\ row'[k].status = "FAILED"
        BY <2>6 DEF RowSettled
      <3>2. wpc[w] # "failRetry" /\ (wpc[w] = "completing" => occurrences > 0)
        BY <2>1, <3>1 DEF LedgerInv, StageFits
      <3>3. occurrences' = occurrences
        BY <3>1 DEF Settle
      <3> QED  BY <2>2, <3>1, <3>2, <3>3 DEF RoutineAlive
    <2>7. row'[k] = row[k] => RoutineAlive'
      BY <1>2, <2>2
    <2> HIDE DEF k
    <2> QED  BY <2>1, <2>3, <2>4, <2>5, <2>6, <2>7, RowChange
  <1> QED  BY <1>1, <1>2 DEF RoutineAlive

LEMMA StepRoutine ==
  ASSUME "RECURRENCE" \in Followed
  PROVE  Base /\ LedgerOK /\ RoutineOK /\ [Next]_vars => RoutineOK'
  <1> SUFFICES ASSUME Base, LedgerOK, RoutineOK, [Next]_vars, faults' = 0, ~overlap'
               PROVE  RoutineInv'
    BY DEF RoutineOK
  <1>0. LedgerInv /\ RoutineInv
    BY FaultRemembered, OverlapRemembered DEF LedgerOK, RoutineOK
  <1>1. OneScheduling'
    BY <1>0, StepScheduling DEF RoutineInv
  <1>2. CarriesOver'
    BY <1>0, StepCarries DEF CarriesOver
  <1>3. ASSUME task'.status \notin {"NONE", "CANCELLED"} PROVE RoutineAlive' \/ RoutineComing'
    <2>1. CASE task.status = "NONE"
      <3>1. PICK h \in Handlers : Create(h)
        BY <1>0, <1>3, <2>1, OnlyCreation
      <3>2. hpc'[h] = "ledger" /\ hreq'[h] = "create" /\ "RECURRENCE" \in Range(todo'[h])
        BY <3>1, StatementsOfCreate DEF Create, Base, Inv, Types, LedgerTypes
      <3> QED  BY <3>2 DEF RoutineComing, Scheduler
    <2>2. CASE task.status # "NONE"
      <3>1. task.status # "CANCELLED"
        BY <1>3, StatusChange DEF Base
      <3>2. RoutineAlive \/ RoutineComing
        BY <1>0, <2>2, <3>1 DEF RoutineInv
      <3> QED  BY <1>0, <2>2, <3>1, <3>2, ComingMoves, AliveMoves
    <2> QED  BY <2>1, <2>2
  <1> QED  BY <1>1, <1>2, <1>3 DEF RoutineInv

LEMMA InitRoutine == Init => RoutineOK
  <1> SUFFICES ASSUME Init PROVE RoutineInv
    BY DEF RoutineOK
  <1>1. OneScheduling /\ CarriesOver
    BY DEF Init, OneScheduling, Scheduling, CarriesOver, Scheduler
  <1>2. task.status = "NONE"
    BY DEF Init, NoTask
  <1> QED  BY <1>1, <1>2 DEF RoutineInv

\* While nothing fails and the requests that schedule jobs do not overlap, editing or
\* completing an occurrence leaves the routine alive as soon as no request is at work, and
\* nothing doubles it: update looks for the recurrence job before it saves, and carries it
\* over after the cancellation; complete leaves it alone (task.service.ts).
THEOREM RoutineIsKept ==
  ASSUME "RECURRENCE" \in Followed
  PROVE  Spec => []RoutineSurvives
  <1>1. RoutineOK /\ Single => RoutineSurvives
    <2>1. Single => RoutineStaysSingle
      BY DEF Single, RecurredOnce, RoutineStaysSingle
    <2>2. Quiet => ~RoutineComing
      BY DEF Quiet, RoutineComing, Scheduler
    <2> QED  BY <2>1, <2>2 DEF RoutineOK, RoutineInv, RoutineSurvives
  <1>2. Base /\ LedgerOK /\ RoutineOK /\ [Next]_vars => RoutineOK'
    BY StepRoutine
  <1> QED
    BY <1>1, <1>2, InitBase, StepBase, InitLedger, StepLedger, InitSingle, StepSingle, InitRoutine,
       PTL DEF Spec
=============================================================================
