--------------------------- MODULE TaskAssignments ---------------------------
(***************************************************************************)
(* One task, its assignees, and the handlers of TaskService that change    *)
(* them: officials reply to the assignment (acknowledge, blocked, progress,*)
(* submit), the Super Admin completes, cancels or reassigns the task, and  *)
(* the automation stores the publish receipt and marks the deadline.       *)
(*                                                                         *)
(* The task row is saved only at the version that was read (saveTask); a   *)
(* row of an assignee is overwritten with the copy that was read           *)
(* (saveTaskAssignee), whoever changed it meanwhile.  A handler is a       *)
(* process; each await is a step boundary:                                 *)
(*                                                                         *)
(*   acknowledge, blocked, progress   saveRow                              *)
(*   submit            readRow, file, saveRow, listRows, saveTask          *)
(*   complete, overdue listRows, saveEach, saveTask                        *)
(*   cancel, receipt   saveTask                                            *)
(*   reassign          saveTask, listRows, replace                         *)
(***************************************************************************)
EXTENDS Naturals

CONSTANTS
  Officials,  \* active registered officials
  Nobody,     \* the official of a handler that serves none
  Handlers,   \* the handlers that can be in flight together
  MaxHandlers \* bound: how many handlers are started in all

ASSUME NobodyAssumption == Nobody \notin Officials
ASSUME MaxHandlersAssumption == MaxHandlers \in Nat

RowStatus == {"PENDING", "ACKNOWLEDGED", "IN_PROGRESS", "BLOCKED",
              "SUBMITTED", "COMPLETED", "OVERDUE"}
MaybeRow == RowStatus \cup {"NONE"}   \* NONE: not an assignee
TaskStatus == {"SCHEDULED", "ACTIVE", "SUBMITTED", "OVERDUE", "COMPLETED", "CANCELLED"}
Task == [status : TaskStatus, version : Nat, published : BOOLEAN]

Operations == {"acknowledge", "blocked", "progress", "submit",
               "complete", "cancel", "reassign", "receipt", "overdue"}
Steps == {"readRow", "file", "saveRow", "listRows", "saveEach", "saveTask", "replace"}

VARIABLES
  task,    \* the task row
  rows,    \* task_assignees: [Officials -> MaybeRow]
  filed,   \* officials with a row in task_submissions
  pc, op,  \* per handler: the step it is at, what it does
  who,     \* per handler: the official it serves
  seen,    \* per handler: the task as it read it
  copy,    \* per handler: the assignee rows as it read them
  left,    \* per handler: the officials whose rows it has still to save,
           \* or the new assignees of a reassignment
  started, \* how many handlers have been started
  signedOff,  \* history: officials whose row the Super Admin completed
  raced,      \* history: officials whose row was saved over an outdated copy
  reassigned, \* history: the assignees have been replaced
  broken,     \* history: a handler was cut short by an error or a crash
  interfered  \* history: the task was saved by something other than a submission
              \* after or while somebody submitted

handlerVars == <<pc, op, who, seen, copy, left>>
history == <<signedOff, raced, reassigned, broken, interfered>>
vars == <<task, rows, filed, handlerVars, started, history>>

NoRows == [u \in Officials |-> "NONE"]
NewTask == [status |-> "SCHEDULED", version |-> 1, published |-> FALSE]

Assignees == {u \in Officials : rows[u] # "NONE"}
Handed == {"SUBMITTED", "COMPLETED"}

TypeOK ==
  /\ task \in Task
  /\ rows \in [Officials -> MaybeRow]
  /\ Assignees # {}
  /\ filed \subseteq Officials
  /\ pc \in [Handlers -> Steps \cup {"idle"}]
  /\ op \in [Handlers -> Operations]
  /\ who \in [Handlers -> Officials \cup {Nobody}]
  /\ seen \in [Handlers -> Task]
  /\ copy \in [Handlers -> [Officials -> MaybeRow]]
  /\ left \in [Handlers -> SUBSET Officials]
  /\ \A h \in Handlers : pc[h] \in {"saveEach", "replace"} => left[h] # {}
  /\ started \in 0..MaxHandlers
  /\ signedOff \subseteq Officials /\ raced \subseteq Officials
  /\ reassigned \in BOOLEAN /\ broken \in BOOLEAN /\ interfered \in BOOLEAN

Init ==
  /\ task = NewTask
  /\ \E S \in (SUBSET Officials) \ {{}} :
       rows = [u \in Officials |-> IF u \in S THEN "PENDING" ELSE "NONE"]
  /\ filed = {}
  /\ pc = [h \in Handlers |-> "idle"]
  /\ op = [h \in Handlers |-> "acknowledge"]
  /\ who = [h \in Handlers |-> Nobody]
  /\ seen = [h \in Handlers |-> NewTask]
  /\ copy = [h \in Handlers |-> NoRows]
  /\ left = [h \in Handlers |-> {}]
  /\ started = 0
  /\ signedOff = {} /\ raced = {}
  /\ reassigned = FALSE /\ broken = FALSE /\ interfered = FALSE

-----------------------------------------------------------------------------
(* The beginning of a handler: what it reads first, and its early returns. *)

Start(h, o, u, step, S) ==
  /\ pc[h] = "idle" /\ started < MaxHandlers
  /\ started' = started + 1
  /\ pc' = [pc EXCEPT ![h] = step]
  /\ op' = [op EXCEPT ![h] = o]
  /\ who' = [who EXCEPT ![h] = u]
  /\ left' = [left EXCEPT ![h] = S]
  /\ UNCHANGED <<task, rows, filed, history>>

\* requireAssignee: the row of the official is read.
Reply(h, o, u) ==
  /\ u \in Assignees
  /\ copy' = [copy EXCEPT ![h][u] = rows[u]]
  /\ UNCHANGED seen
  /\ Start(h, o, u, "saveRow", {})

\* acknowledge without its check.
AcknowledgeAnything(h, u) == Reply(h, "acknowledge", u)

\* A row that has been handed in is returned as it is.
Acknowledge(h, u) == rows[u] \notin Handed /\ Reply(h, "acknowledge", u)

RecordProgress(h, u) == rows[u] \notin Handed /\ Reply(h, "progress", u)

\* No such check here.
RecordBlocked(h, u) == Reply(h, "blocked", u)

\* submit reads the task; only a cancelled one is refused.
Submit(h, u) ==
  /\ task.status # "CANCELLED"
  /\ seen' = [seen EXCEPT ![h] = task]
  /\ UNCHANGED copy
  /\ Start(h, "submit", u, "readRow", {})

\* The other handlers read the task, check its status and serve no official.
Operate(h, o, step, S) ==
  /\ seen' = [seen EXCEPT ![h] = task]
  /\ UNCHANGED copy
  /\ Start(h, o, Nobody, step, S)

Complete(h) == task.status # "CANCELLED" /\ Operate(h, "complete", "listRows", {})

Cancel(h) == task.status # "CANCELLED" /\ Operate(h, "cancel", "saveTask", {})

\* update with new assignees S.
Reassign(h, S) ==
  /\ task.status \notin {"CANCELLED", "COMPLETED"}
  /\ Operate(h, "reassign", "saveTask", S)

RecordPublishReceipt(h) ==
  /\ task.status # "CANCELLED" /\ ~task.published
  /\ Operate(h, "receipt", "saveTask", {})

MarkOverdue(h) ==
  /\ task.status \notin {"CANCELLED", "COMPLETED", "SUBMITTED"}
  /\ Operate(h, "overdue", "listRows", {})

-----------------------------------------------------------------------------
(* The steps after it.                                                     *)

\* The handler returns or throws; what it held is gone.
Leave(h) ==
  /\ pc' = [pc EXCEPT ![h] = "idle"]
  /\ op' = [op EXCEPT ![h] = "acknowledge"]
  /\ who' = [who EXCEPT ![h] = Nobody]
  /\ seen' = [seen EXCEPT ![h] = NewTask]
  /\ copy' = [copy EXCEPT ![h] = NoRows]
  /\ left' = [left EXCEPT ![h] = {}]

Goto(h, step) == pc' = [pc EXCEPT ![h] = step] /\ UNCHANGED <<op, who>>

\* requireAssignee; somebody the task is not assigned to is refused.
ReadRow(h) ==
  /\ pc[h] = "readRow"
  /\ IF who[h] \in Assignees
     THEN /\ copy' = [copy EXCEPT ![h][who[h]] = rows[who[h]]]
          /\ Goto(h, "file") /\ UNCHANGED <<seen, left>>
     ELSE Leave(h)
  /\ UNCHANGED <<task, rows, filed, started, history>>

\* createSubmission.
FileSubmission(h) ==
  /\ pc[h] = "file"
  /\ filed' = filed \cup {who[h]}
  /\ Goto(h, "saveRow")
  /\ UNCHANGED <<task, rows, seen, copy, left, started, history>>

\* The rows other handlers have read and will still write back.
WillWrite(h) ==
  CASE pc[h] = "saveRow"          -> {who[h]}
    [] pc[h] = "file"             -> {who[h]}
    [] pc[h] = "saveEach"         -> left[h]
    [] pc[h] = "replace"          -> Officials
    [] OTHER                      -> {}

Write(h, u, status) ==
  /\ rows' = [rows EXCEPT ![u] = status]
  /\ raced' = IF \E g \in Handlers \ {h} : u \in WillWrite(g) THEN raced \cup {u} ELSE raced

NewStatus(o) ==
  CASE o = "acknowledge" -> "ACKNOWLEDGED"
    [] o = "blocked"     -> "BLOCKED"
    [] o = "progress"    -> "IN_PROGRESS"
    [] o = "submit"      -> "SUBMITTED"
    [] o = "complete"    -> "COMPLETED"
    [] o = "overdue"     -> "OVERDUE"

\* saveTaskAssignee throws when the official has been taken off the task.
SaveRow(h) ==
  /\ pc[h] = "saveRow"
  /\ IF who[h] \in Assignees
     THEN /\ Write(h, who[h], NewStatus(op[h]))
          /\ IF op[h] = "submit"
             THEN /\ Goto(h, "listRows")
                  /\ copy' = [copy EXCEPT ![h] = NoRows]
                  /\ UNCHANGED <<seen, left>>
             ELSE Leave(h)
     ELSE Leave(h) /\ UNCHANGED <<rows, raced>>
  /\ UNCHANGED <<task, filed, started, signedOff, reassigned, broken, interfered>>

\* The check of submit with some() for every(), and one that looks for COMPLETED alone.
SomeHandedIn == \E u \in Assignees : rows[u] \in Handed
AllCompleted == \A u \in Assignees : rows[u] = "COMPLETED"

AllHandedIn == \A u \in Assignees : rows[u] \in Handed

\* listTaskAssignees, and what each handler makes of it.
ListRows(h) ==
  /\ pc[h] = "listRows"
  /\ CASE op[h] = "submit" ->
            IF AllHandedIn /\ seen[h].status # "OVERDUE"
            THEN Goto(h, "saveTask") /\ UNCHANGED <<seen, copy, left>>
            ELSE Leave(h)
       [] op[h] = "complete" ->
            LET S == {u \in Assignees : rows[u] # "COMPLETED"}
            IN  /\ copy' = [copy EXCEPT ![h] = rows]
                /\ left' = [left EXCEPT ![h] = S]
                /\ Goto(h, IF S = {} THEN "saveTask" ELSE "saveEach")
                /\ UNCHANGED seen
       [] op[h] = "overdue" ->
            LET S == {u \in Assignees : rows[u] \notin Handed}
            IN  IF S = {} THEN Leave(h)
                ELSE /\ copy' = [copy EXCEPT ![h] = rows]
                     /\ left' = [left EXCEPT ![h] = S]
                     /\ Goto(h, "saveEach") /\ UNCHANGED seen
       [] op[h] = "reassign" ->
            /\ copy' = [copy EXCEPT ![h] = rows]
            /\ Goto(h, "replace") /\ UNCHANGED <<seen, left>>
  /\ UNCHANGED <<task, rows, filed, started, history>>

\* The loop over the assignees, one saveTaskAssignee at a time.
SaveEach(h) ==
  /\ pc[h] = "saveEach"
  /\ \E u \in left[h] :
       IF u \in Assignees
       THEN /\ Write(h, u, NewStatus(op[h]))
            /\ signedOff' = IF op[h] = "complete" THEN signedOff \cup {u} ELSE signedOff
            /\ IF left[h] = {u}
               THEN Goto(h, "saveTask") /\ copy' = [copy EXCEPT ![h] = NoRows]
               ELSE Goto(h, "saveEach") /\ UNCHANGED copy
            /\ left' = [left EXCEPT ![h] = @ \ {u}]
            /\ UNCHANGED seen
       ELSE Leave(h) /\ UNCHANGED <<rows, raced, signedOff>>
  /\ UNCHANGED <<task, filed, started, reassigned, broken, interfered>>

Saved(h) ==
  CASE op[h] = "submit"   -> [seen[h] EXCEPT !.status = "SUBMITTED"]
    [] op[h] = "complete" -> [seen[h] EXCEPT !.status = "COMPLETED"]
    [] op[h] = "cancel"   -> [seen[h] EXCEPT !.status = "CANCELLED"]
    [] op[h] = "reassign" -> seen[h]
    [] op[h] = "receipt"  -> [seen[h] EXCEPT !.status = "ACTIVE", !.published = TRUE]
    [] op[h] = "overdue"  -> [seen[h] EXCEPT !.status = "OVERDUE"]

Submitting == \E g \in Handlers : pc[g] # "idle" /\ op[g] = "submit"

\* saveTask that takes the version from the row it overwrites.
SaveTaskUnchecked(h) ==
  /\ pc[h] = "saveTask"
  /\ task' = [Saved(h) EXCEPT !.version = task.version + 1]
  /\ interfered' = (interfered \/ (op[h] # "submit" /\ (filed # {} \/ Submitting)))
  /\ IF op[h] = "reassign"
     THEN Goto(h, "listRows") /\ UNCHANGED <<seen, copy, left>>
     ELSE Leave(h)
  /\ UNCHANGED <<rows, filed, started, signedOff, raced, reassigned, broken>>

\* saveTask at the version read; a conflict is a 409 and ends the handler.
SaveTask(h) ==
  /\ pc[h] = "saveTask"
  /\ IF task.version = seen[h].version
     THEN /\ task' = [Saved(h) EXCEPT !.version = @ + 1]
          /\ interfered' = (interfered \/ (op[h] # "submit" /\ (filed # {} \/ Submitting)))
          /\ IF op[h] = "reassign"
             THEN Goto(h, "listRows") /\ UNCHANGED <<seen, copy, left>>
             ELSE Leave(h)
     ELSE Leave(h) /\ UNCHANGED <<task, interfered>>
  /\ UNCHANGED <<rows, filed, started, signedOff, raced, reassigned, broken>>

\* replaceTaskAssignees: the rows read before are written back, new assignees are
\* PENDING, all others are deleted.
Replace(h) ==
  /\ pc[h] = "replace"
  /\ rows' = [u \in Officials |->
       IF u \notin left[h] THEN "NONE"
       ELSE IF copy[h][u] # "NONE" THEN copy[h][u] ELSE "PENDING"]
  /\ reassigned' = TRUE
  /\ raced' = raced \cup (UNION {WillWrite(g) : g \in Handlers \ {h}})
                    \cup {u \in Officials : rows[u] # copy[h][u]}
  /\ Leave(h)
  /\ UNCHANGED <<task, filed, started, signedOff, broken, interfered>>

\* A statement throws, or the process dies, once: the handler stops where it stands.
Break(h) ==
  /\ pc[h] # "idle" /\ ~broken
  /\ broken' = TRUE
  /\ Leave(h)
  /\ UNCHANGED <<task, rows, filed, started, signedOff, raced, reassigned, interfered>>

-----------------------------------------------------------------------------
Next ==
  \E h \in Handlers :
    \/ \E u \in Officials :
         Acknowledge(h, u) \/ RecordProgress(h, u) \/ RecordBlocked(h, u) \/ Submit(h, u)
    \/ \E S \in (SUBSET Officials) \ {{}} : Reassign(h, S)
    \/ Complete(h) \/ Cancel(h) \/ RecordPublishReceipt(h) \/ MarkOverdue(h)
    \/ ReadRow(h) \/ FileSubmission(h) \/ SaveRow(h) \/ ListRows(h)
    \/ SaveEach(h) \/ SaveTask(h) \/ Replace(h)
    \/ Break(h)

Spec == Init /\ [][Next]_vars

-----------------------------------------------------------------------------
(* Properties.                                                             *)

Quiet == \A h \in Handlers : pc[h] = "idle"

\* PRD 6.1 "the task remains historically overdue until explicitly completed": no late
\* submission, receipt or older copy takes a published task out of OVERDUE.
HistoricallyOverdue ==
  [][task.status = "OVERDUE" /\ task.published
       => task'.status \in {"OVERDUE", "COMPLETED", "CANCELLED"}]_vars

\* PRD 6.1: a task is SUBMITTED only when every assignee has a submission on record or
\* was completed by the Super Admin - whatever the interleaving of the replies, as long
\* as the assignees themselves are not replaced.
SubmittedIsBacked ==
  /\ TypeOK
  /\ task.status = "SUBMITTED" /\ ~reassigned => Assignees \subseteq filed \cup signedOff

\* A row that was handed in is not reset by a reply, a deadline or a reassignment that
\* begins afterwards; only a report of being blocked reopens it.
SubmissionStays ==
  [][\A u \in Officials \ raced' :
       rows[u] = "SUBMITTED" => rows'[u] \in {"SUBMITTED", "COMPLETED", "BLOCKED", "NONE"}]_vars

\* When the last assignees submit at the same time, the task does not miss it, unless a
\* submission is cut short between its two saves.
AllSubmittedNoticed ==
  Quiet /\ ~broken /\ ~interfered /\ ~reassigned /\ (\A u \in Assignees : rows[u] = "SUBMITTED")
    => task.status \notin {"SCHEDULED", "ACTIVE"}
=============================================================================
