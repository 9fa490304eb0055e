------------------------ MODULE TaskAssignmentProofs ------------------------
(***************************************************************************)
(* What the handlers of TaskService keep of a task and its assignees, for  *)
(* any number of officials and of handlers, in every interleaving.         *)
(*                                                                         *)
(* The task is guarded by its version, so a copy with the version of the   *)
(* row is the row (CopyInv).  The rows of the assignees are guarded by     *)
(* nothing; what is known of them is what a handler saw and no other has   *)
(* overwritten since (Unraced), what is on record for each of them         *)
(* (BackedInv), and who is still to notice the last submission             *)
(* (NoticeInv).                                                            *)
(***************************************************************************)
EXTENDS TaskAssignments, TLAPS

\* The handlers, and then the rest of TypeOK.
HandlerTypes ==
  /\ pc \in [Handlers -> Steps \cup {"idle"}]
  /\ op \in [Handlers -> Operations]
  /\ who \in [Handlers -> Officials \cup {Nobody}]
  /\ seen \in [Handlers -> Task]
  /\ copy \in [Handlers -> [Officials -> MaybeRow]]
  /\ left \in [Handlers -> SUBSET Officials]
  /\ \A h \in Handlers : pc[h] \in {"saveEach", "replace"} => left[h] # {}

StoreTypes ==
  /\ task \in Task
  /\ rows \in [Officials -> MaybeRow]
  /\ \E u \in Officials : rows[u] # "NONE"
  /\ filed \subseteq Officials
  /\ started \in 0..MaxHandlers
  /\ signedOff \subseteq Officials /\ raced \subseteq Officials
  /\ reassigned \in BOOLEAN /\ broken \in BOOLEAN /\ interfered \in BOOLEAN

LEMMA TypesJoin == TypeOK <=> HandlerTypes /\ StoreTypes
  BY DEF TypeOK, HandlerTypes, StoreTypes, Assignees

\* Which operation may be at which step, and for whom.
OpFits(h) ==
  /\ pc[h] \in {"readRow", "file"} => op[h] = "submit"
  /\ pc[h] = "saveRow" => op[h] \in {"acknowledge", "blocked", "progress", "submit"}
  /\ pc[h] = "listRows" => op[h] \in {"submit", "complete", "overdue", "reassign"}
  /\ pc[h] = "saveEach" => op[h] \in {"complete", "overdue"}
  /\ pc[h] = "saveTask"
       => op[h] \in {"submit", "complete", "cancel", "reassign", "receipt", "overdue"}
  /\ pc[h] = "replace" => op[h] = "reassign"
  /\ pc[h] \in {"readRow", "file", "saveRow"} => who[h] \in Officials
  /\ op[h] = "reassign" => left[h] # {}

\* A copy is older than the row, or it is the row.
IsCopy(c) == c.version <= task.version /\ (c.version = task.version => c = task)

CopyInv ==
  /\ task.version >= 1 /\ (task.version = 1 => task = NewTask)
  /\ \A h \in Handlers : IsCopy(seen[h])

\* What a handler that is to save the task has seen of it.
SeenFits(h) ==
  /\ pc[h] = "saveTask" /\ op[h] = "submit" => seen[h].status # "OVERDUE"
  /\ pc[h] = "saveTask" /\ op[h] = "receipt" => ~seen[h].published

Base ==
  /\ HandlerTypes /\ StoreTypes /\ CopyInv
  /\ \A h \in Handlers : OpFits(h) /\ SeenFits(h)

-----------------------------------------------------------------------------
(* The steps, by what they do to their own handler.                        *)

Begins(h) ==
  \/ \E u \in Officials :
       Acknowledge(h, u) \/ RecordProgress(h, u) \/ RecordBlocked(h, u) \/ Submit(h, u)
  \/ \E S \in (SUBSET Officials) \ {{}} : Reassign(h, S)
  \/ Complete(h) \/ Cancel(h) \/ RecordPublishReceipt(h) \/ MarkOverdue(h)

Continues(h) ==
  \/ ReadRow(h) \/ FileSubmission(h) \/ SaveRow(h) \/ ListRows(h)
  \/ SaveEach(h) \/ SaveTask(h) \/ Replace(h) \/ Break(h)

LEMMA NextSteps ==
  [Next]_vars => UNCHANGED vars \/ \E h \in Handlers : Begins(h) \/ Continues(h)
  BY DEF Next, Begins, Continues

\* Nobody else's handler moves.
OthersStay(h) ==
  \A g \in Handlers \ {h} :
    /\ pc'[g] = pc[g] /\ op'[g] = op[g] /\ who'[g] = who[g]
    /\ seen'[g] = seen[g] /\ copy'[g] = copy[g] /\ left'[g] = left[g]

\* The handler has returned.
Gone(h) == pc'[h] = "idle" /\ op'[h] = "acknowledge" /\ seen'[h] = NewTask /\ left'[h] = {}

NoCopies == NewTask \in Task /\ NoRows \in [Officials -> MaybeRow]

LEMMA NoCopiesTyping == NoCopies
  BY DEF NoCopies, NewTask, NoRows, Task, TaskStatus, MaybeRow

LEMMA LeaveFacts ==
  ASSUME HandlerTypes, NEW h \in Handlers, Leave(h)
  PROVE  HandlerTypes' /\ OthersStay(h) /\ Gone(h)
  <1>1. /\ "idle" \in Steps \cup {"idle"} /\ "acknowledge" \in Operations
        /\ "idle" \notin {"saveEach", "replace"}
    BY DEF Operations
  <1> QED  BY <1>1, NoCopiesTyping DEF Leave, HandlerTypes, OthersStay, Gone, NoCopies

\* Start, by the fields of the handler.
LEMMA StartFacts ==
  ASSUME HandlerTypes, NEW h \in Handlers, NEW o \in Operations,
         NEW u \in Officials \cup {Nobody}, NEW step \in Steps \ {"saveEach", "replace"},
         NEW S \in SUBSET Officials, Start(h, o, u, step, S)
  PROVE  /\ pc[h] = "idle" /\ started < MaxHandlers /\ started' = started + 1
         /\ UNCHANGED <<task, rows, filed, history>>
         /\ pc' \in [Handlers -> Steps \cup {"idle"}] /\ op' \in [Handlers -> Operations]
         /\ who' \in [Handlers -> Officials \cup {Nobody}]
         /\ left' \in [Handlers -> SUBSET Officials]
         /\ pc'[h] = step /\ op'[h] = o /\ who'[h] = u /\ left'[h] = S
         /\ \A g \in Handlers \ {h} : /\ pc'[g] = pc[g] /\ op'[g] = op[g]
                                      /\ who'[g] = who[g] /\ left'[g] = left[g]
  BY DEF Start, HandlerTypes

\* A reply begins with the row of the official, the others with the task.
BeginFits(h) ==
  \/ /\ pc'[h] = "saveRow" /\ op'[h] \in {"acknowledge", "blocked", "progress"}
     /\ who'[h] \in Officials /\ seen'[h] = seen[h]
     /\ op'[h] # "blocked" => rows[who'[h]] \notin Handed
  \/ /\ pc'[h] = "readRow" /\ op'[h] = "submit" /\ who'[h] \in Officials /\ seen'[h] = task
  \/ /\ pc'[h] = "listRows" /\ op'[h] \in {"complete", "overdue"} /\ seen'[h] = task
  \/ /\ pc'[h] = "saveTask" /\ op'[h] \in {"cancel", "reassign", "receipt"} /\ seen'[h] = task
     /\ op'[h] = "receipt" => ~task.published
     /\ op'[h] = "reassign" => left'[h] # {}

BeginGoal(h) ==
  /\ HandlerTypes' /\ OthersStay(h) /\ pc[h] = "idle" /\ BeginFits(h)
  /\ started < MaxHandlers /\ started' = started + 1
  /\ UNCHANGED <<task, rows, filed, history>>

LEMMA ReplyFacts ==
  ASSUME HandlerTypes, StoreTypes, NEW h \in Handlers, NEW u \in Officials,
         NEW o \in {"acknowledge", "blocked", "progress"}, Reply(h, o, u),
         o # "blocked" => rows[u] \notin Handed
  PROVE  BeginGoal(h)
  <1>1. /\ o \in Operations /\ "saveRow" \in Steps \ {"saveEach", "replace"}
        /\ {} \in SUBSET Officials /\ rows[u] \in MaybeRow
    BY DEF Operations, Steps, StoreTypes
  <1>2. Start(h, o, u, "saveRow", {}) /\ seen' = seen /\ copy' = [copy EXCEPT ![h][u] = rows[u]]
    BY DEF Reply
  <1> HIDE DEF Start
  <1>3. /\ pc[h] = "idle" /\ started < MaxHandlers /\ started' = started + 1
        /\ UNCHANGED <<task, rows, filed, history>>
        /\ pc' \in [Handlers -> Steps \cup {"idle"}] /\ op' \in [Handlers -> Operations]
        /\ who' \in [Handlers -> Officials \cup {Nobody}]
        /\ left' \in [Handlers -> SUBSET Officials]
        /\ pc'[h] = "saveRow" /\ op'[h] = o /\ who'[h] = u /\ left'[h] = {}
        /\ \A g \in Handlers \ {h} : /\ pc'[g] = pc[g] /\ op'[g] = op[g]
                                     /\ who'[g] = who[g] /\ left'[g] = left[g]
    BY <1>1, <1>2, StartFacts
  <1>4. /\ copy' \in [Handlers -> [Officials -> MaybeRow]]
        /\ \A g \in Handlers \ {h} : copy'[g] = copy[g]
    BY <1>1, <1>2 DEF HandlerTypes
  <1>5. HandlerTypes'
    BY <1>2, <1>3, <1>4 DEF HandlerTypes
  <1>6. OthersStay(h)
    BY <1>2, <1>3, <1>4 DEF OthersStay
  <1>7. BeginFits(h)
    BY <1>2, <1>3 DEF BeginFits
  <1> QED  BY <1>3, <1>5, <1>6, <1>7 DEF BeginGoal

LEMMA OperateFacts ==
  ASSUME HandlerTypes, StoreTypes, NEW h \in Handlers, NEW o \in Operations,
         NEW u \in Officials \cup {Nobody}, NEW step \in {"readRow", "listRows", "saveTask"},
         NEW S \in SUBSET Officials, Start(h, o, u, step, S),
         seen' = [seen EXCEPT ![h] = task], UNCHANGED copy,
         \/ step = "readRow" /\ o = "submit" /\ u \in Officials
         \/ step = "listRows" /\ o \in {"complete", "overdue"}
         \/ /\ step = "saveTask" /\ o \in {"cancel", "reassign", "receipt"}
            /\ o = "receipt" => ~task.published
            /\ o = "reassign" => S # {}
  PROVE  BeginGoal(h)
  <1>1. step \in Steps \ {"saveEach", "replace"}
    BY DEF Steps
  <1> HIDE DEF Start
  <1>2. /\ pc[h] = "idle" /\ started < MaxHandlers /\ started' = started + 1
        /\ UNCHANGED <<task, rows, filed, history>>
        /\ pc' \in [Handlers -> Steps \cup {"idle"}] /\ op' \in [Handlers -> Operations]
        /\ who' \in [Handlers -> Officials \cup {Nobody}]
        /\ left' \in [Handlers -> SUBSET Officials]
        /\ pc'[h] = step /\ op'[h] = o /\ who'[h] = u /\ left'[h] = S
        /\ \A g \in Handlers \ {h} : /\ pc'[g] = pc[g] /\ op'[g] = op[g]
                                     /\ who'[g] = who[g] /\ left'[g] = left[g]
    BY <1>1, StartFacts
  <1>3. /\ seen' \in [Handlers -> Task] /\ seen'[h] = task
        /\ \A g \in Handlers \ {h} : seen'[g] = seen[g]
    BY DEF HandlerTypes, StoreTypes
  <1>4. HandlerTypes'
    BY <1>2, <1>3 DEF HandlerTypes
  <1>5. OthersStay(h)
    BY <1>2, <1>3 DEF OthersStay
  <1>6. BeginFits(h)
    BY <1>2, <1>3 DEF BeginFits
  <1> QED  BY <1>2, <1>4, <1>5, <1>6 DEF BeginGoal

LEMMA BeginFacts ==
  ASSUME HandlerTypes, StoreTypes, NEW h \in Handlers, Begins(h)
  PROVE  BeginGoal(h)
  <1>0. /\ {"submit", "complete", "cancel", "reassign", "receipt", "overdue"} \subseteq Operations
        /\ {} \in SUBSET Officials /\ Nobody \in Officials \cup {Nobody}
        /\ Officials \subseteq Officials \cup {Nobody}
    BY DEF Operations
  <1>1. ASSUME NEW u \in Officials, Acknowledge(h, u) \/ RecordProgress(h, u) \/ RecordBlocked(h, u)
        PROVE  BeginGoal(h)
    BY <1>1, ReplyFacts DEF Acknowledge, RecordProgress, RecordBlocked
  <1>2. ASSUME NEW u \in Officials, Submit(h, u) PROVE BeginGoal(h)
    BY <1>0, <1>2, OperateFacts DEF Submit
  <1>3. ASSUME NEW S \in (SUBSET Officials) \ {{}}, Reassign(h, S) PROVE BeginGoal(h)
    <2>1. /\ S \in SUBSET Officials /\ S # {}
          /\ seen' = [seen EXCEPT ![h] = task] /\ UNCHANGED copy
          /\ Start(h, "reassign", Nobody, "saveTask", S)
      BY <1>3 DEF Reassign, Operate
    <2> QED  BY <1>0, <2>1, OperateFacts
  <1>4. ASSUME Complete(h) \/ MarkOverdue(h) PROVE BeginGoal(h)
    BY <1>0, <1>4, OperateFacts DEF Complete, MarkOverdue, Operate
  <1>5. ASSUME Cancel(h) \/ RecordPublishReceipt(h) PROVE BeginGoal(h)
    BY <1>0, <1>5, OperateFacts DEF Cancel, RecordPublishReceipt, Operate
  <1> QED  BY <1>1, <1>2, <1>3, <1>4, <1>5 DEF Begins

\* What the row of a handler that moves on may become, and the task.
StepGoal(h) ==
  /\ HandlerTypes' /\ StoreTypes' /\ OthersStay(h)
  /\ OpFits(h)' /\ SeenFits(h)'
  /\ seen'[h] \in {seen[h], NewTask}
  /\ task' = task \/ task'.version = task.version + 1

LEMMA GoneFits ==
  ASSUME NEW h \in Handlers, Gone(h)
  PROVE  OpFits(h)' /\ SeenFits(h)' /\ seen'[h] \in {seen[h], NewTask}
  BY DEF Gone, OpFits, SeenFits

LEMMA StoreStays ==
  ASSUME StoreTypes, UNCHANGED <<task, rows, started, history>>, filed' \subseteq Officials
  PROVE  StoreTypes'
  BY DEF StoreTypes, history

LEMMA ReadRowFacts ==
  ASSUME Base, NEW h \in Handlers, ReadRow(h)
  PROVE  /\ StepGoal(h) /\ pc[h] = "readRow"
         /\ UNCHANGED <<task, rows, filed, started, history>>
         /\ Gone(h) \/ (pc'[h] = "file" /\ seen'[h] = seen[h])
  <1>1. OpFits(h) /\ HandlerTypes /\ StoreTypes /\ pc[h] = "readRow"
    BY DEF Base, ReadRow
  <1>2. UNCHANGED <<task, rows, filed, started, history>> /\ StoreTypes'
    <2>1. UNCHANGED <<task, rows, filed, started, history>> /\ filed \subseteq Officials
      BY <1>1 DEF ReadRow, StoreTypes
    <2> QED  BY <1>1, <2>1, StoreStays
  <1>3. CASE Leave(h)
    <2>1. HandlerTypes' /\ OthersStay(h) /\ Gone(h)
      BY <1>1, <1>3, LeaveFacts
    <2> QED  BY <1>1, <1>2, <2>1, GoneFits DEF StepGoal
  <1>4. CASE ~Leave(h)
    <2>1. /\ copy' = [copy EXCEPT ![h][who[h]] = rows[who[h]]] /\ Goto(h, "file")
          /\ UNCHANGED <<seen, left>> /\ who[h] \in Officials
      BY <1>1, <1>4 DEF ReadRow, OpFits
    <2>2. rows[who[h]] \in MaybeRow /\ "file" \in Steps \cup {"idle"}
      BY <1>1, <2>1 DEF StoreTypes, Steps
    <2>3. copy' \in [Handlers -> [Officials -> MaybeRow]]
          /\ \A g \in Handlers \ {h} : copy'[g] = copy[g]
      BY <1>1, <2>1, <2>2 DEF HandlerTypes
    <2>4. HandlerTypes' /\ OthersStay(h) /\ OpFits(h)' /\ SeenFits(h)' /\ seen'[h] = seen[h]
          /\ pc'[h] = "file"
      BY <1>1, <2>1, <2>2, <2>3 DEF HandlerTypes, Goto, OthersStay, OpFits, SeenFits
    <2> QED  BY <1>1, <1>2, <2>4 DEF StepGoal
  <1> QED  BY <1>3, <1>4

LEMMA FileFacts ==
  ASSUME Base, NEW h \in Handlers, FileSubmission(h)
  PROVE  /\ StepGoal(h) /\ pc[h] = "file"
         /\ UNCHANGED <<task, rows, started, history>> /\ filed' = filed \cup {who[h]}
         /\ pc'[h] = "saveRow" /\ op'[h] = "submit" /\ who'[h] = who[h] /\ seen'[h] = seen[h]
  <1>1. OpFits(h) /\ HandlerTypes /\ StoreTypes /\ pc[h] = "file" /\ who[h] \in Officials
    BY DEF Base, FileSubmission, OpFits
  <1>2. StoreTypes' /\ task' = task
    BY <1>1, StoreStays DEF FileSubmission, StoreTypes
  <1>3. /\ HandlerTypes' /\ OthersStay(h) /\ OpFits(h)' /\ SeenFits(h)'
        /\ pc'[h] = "saveRow" /\ op'[h] = "submit" /\ who'[h] = who[h] /\ seen'[h] = seen[h]
    BY <1>1 DEF FileSubmission, Goto, HandlerTypes, OthersStay, OpFits, SeenFits, Steps
  <1>4. UNCHANGED <<task, rows, started, history>> /\ filed' = filed \cup {who[h]}
    BY DEF FileSubmission
  <1> QED  BY <1>1, <1>2, <1>3, <1>4 DEF StepGoal

LEMMA BreakFacts ==
  ASSUME Base, NEW h \in Handlers, Break(h)
  PROVE  /\ StepGoal(h) /\ Gone(h) /\ broken'
         /\ UNCHANGED <<task, rows, filed, started, signedOff, raced, reassigned, interfered>>
  <1>1. HandlerTypes /\ StoreTypes /\ Leave(h)
    BY DEF Base, Break
  <1>2. /\ UNCHANGED <<task, rows, filed, started, signedOff, raced, reassigned, interfered>>
        /\ broken' = TRUE
    BY DEF Break
  <1>3. StoreTypes'
    BY <1>1, <1>2 DEF StoreTypes
  <1>4. HandlerTypes' /\ OthersStay(h) /\ Gone(h)
    BY <1>1, LeaveFacts
  <1> QED  BY <1>2, <1>3, <1>4, GoneFits DEF StepGoal

\* The rows somebody will still write, step by step.
LEMMA WillWriteValue ==
  ASSUME NEW h \in Handlers
  PROVE  /\ pc[h] = "saveRow" => WillWrite(h) = {who[h]}
         /\ pc[h] = "file" => WillWrite(h) = {who[h]}
         /\ pc[h] = "saveEach" => WillWrite(h) = left[h]
         /\ pc[h] = "replace" => WillWrite(h) = Officials
         /\ pc[h] \notin {"saveRow", "file", "saveEach", "replace"} => WillWrite(h) = {}
  BY DEF WillWrite

LEMMA WillWriteTyping ==
  ASSUME HandlerTypes, NEW h \in Handlers, OpFits(h)
  PROVE  WillWrite(h) \subseteq Officials
  <1> HIDE DEF WillWrite
  <1>1. left[h] \in SUBSET Officials /\ (pc[h] \in {"saveRow", "file"} => who[h] \in Officials)
    BY DEF HandlerTypes, OpFits
  <1> QED  BY <1>1, WillWriteValue

LEMMA NewStatusValue ==
  /\ NewStatus("acknowledge") = "ACKNOWLEDGED" /\ NewStatus("blocked") = "BLOCKED"
  /\ NewStatus("progress") = "IN_PROGRESS" /\ NewStatus("submit") = "SUBMITTED"
  /\ NewStatus("complete") = "COMPLETED" /\ NewStatus("overdue") = "OVERDUE"
  BY DEF NewStatus

\* A row written by a reply, a deadline or the Super Admin.
LEMMA WriteFacts ==
  ASSUME Base, NEW h \in Handlers, NEW u \in Assignees,
         NEW status \in RowStatus, Write(h, u, status)
  PROVE  /\ rows' \in [Officials -> MaybeRow] /\ rows'[u] = status /\ rows'[u] # "NONE"
         /\ \A v \in Officials \ {u} : rows'[v] = rows[v]
         /\ u \in Officials /\ Assignees' = Assignees /\ \E v \in Officials : rows'[v] # "NONE"
         /\ raced' \subseteq Officials /\ raced \subseteq raced'
         /\ \A g \in Handlers \ {h} : u \in WillWrite(g) => u \in raced'
  <1>1. rows \in [Officials -> MaybeRow] /\ u \in Officials /\ rows[u] # "NONE"
        /\ raced \subseteq Officials /\ status # "NONE" /\ status \in MaybeRow
    BY DEF Base, StoreTypes, Assignees, MaybeRow, RowStatus
  <1>2. /\ rows' \in [Officials -> MaybeRow] /\ rows'[u] = status /\ rows'[u] # "NONE"
        /\ \A v \in Officials \ {u} : rows'[v] = rows[v]
    BY <1>1 DEF Write
  <1>3. Assignees' = Assignees
    BY <1>1, <1>2 DEF Assignees
  <1>4. /\ raced' \subseteq Officials /\ raced \subseteq raced'
        /\ \A g \in Handlers \ {h} : u \in WillWrite(g) => u \in raced'
    BY <1>1 DEF Write
  <1> QED  BY <1>1, <1>2, <1>3, <1>4

\* A row saved as it was read: refused, or written and, for a submission, on to the rows.
SavesRow(h) ==
  /\ who[h] \in Assignees
  /\ Write(h, who[h], NewStatus(op[h]))
  /\ IF op[h] = "submit" THEN pc'[h] = "listRows" /\ op'[h] = "submit" /\ seen'[h] = seen[h]
                         ELSE Gone(h)

LEMMA SaveRowFacts ==
  ASSUME Base, NEW h \in Handlers, SaveRow(h)
  PROVE  /\ StepGoal(h) /\ pc[h] = "saveRow"
         /\ UNCHANGED <<task, filed, started, signedOff, reassigned, broken, interfered>>
         /\ SavesRow(h) \/ (Gone(h) /\ UNCHANGED <<rows, raced>>)
  <1>1. /\ OpFits(h) /\ HandlerTypes /\ StoreTypes /\ pc[h] = "saveRow"
        /\ UNCHANGED <<task, filed, started, signedOff, reassigned, broken, interfered>>
    BY DEF Base, SaveRow
  <1>2. NewStatus(op[h]) \in RowStatus
    BY <1>1, NewStatusValue DEF OpFits, RowStatus
  <1>3. CASE who[h] \notin Assignees
    <2>1. Leave(h) /\ UNCHANGED <<rows, raced>>
      BY <1>3 DEF SaveRow
    <2>2. HandlerTypes' /\ OthersStay(h) /\ Gone(h)
      BY <1>1, <2>1, LeaveFacts
    <2>3. StoreTypes'
      BY <1>1, <2>1 DEF StoreTypes
    <2> QED  BY <1>1, <2>1, <2>2, <2>3, GoneFits DEF StepGoal
  <1>4. CASE who[h] \in Assignees
    <2>1. Write(h, who[h], NewStatus(op[h]))
      BY <1>4 DEF SaveRow
    <2>2. /\ rows' \in [Officials -> MaybeRow] /\ \E v \in Officials : rows'[v] # "NONE"
          /\ raced' \subseteq Officials
      BY <1>2, <1>4, <2>1, WriteFacts
    <2>3. StoreTypes'
      BY <1>1, <2>2 DEF StoreTypes
    <2>4. CASE op[h] = "submit"
      <3>1. /\ Goto(h, "listRows") /\ copy' = [copy EXCEPT ![h] = NoRows]
            /\ UNCHANGED <<seen, left>>
        BY <1>4, <2>4 DEF SaveRow
      <3>2. /\ HandlerTypes' /\ OthersStay(h) /\ pc'[h] = "listRows" /\ op'[h] = op[h]
            /\ seen'[h] = seen[h] /\ left'[h] = left[h]
        BY <1>1, <3>1, NoCopiesTyping DEF HandlerTypes, Goto, OthersStay, Steps, NoCopies
      <3>3. OpFits(h)' /\ SeenFits(h)'
        BY <1>1, <2>4, <3>2 DEF OpFits, SeenFits
      <3> QED  BY <1>1, <1>4, <2>1, <2>3, <2>4, <3>2, <3>3 DEF StepGoal, SavesRow
    <2>5. CASE op[h] # "submit"
      <3>1. Leave(h)
        BY <1>4, <2>5 DEF SaveRow
      <3>2. HandlerTypes' /\ OthersStay(h) /\ Gone(h)
        BY <1>1, <3>1, LeaveFacts
      <3> QED  BY <1>1, <1>4, <2>1, <2>3, <2>5, <3>2, GoneFits DEF StepGoal, SavesRow
    <2> QED  BY <2>4, <2>5
  <1> QED  BY <1>3, <1>4

\* What a handler makes of the rows it lists.
ListsRows(h) ==
  \/ Gone(h) /\ (op[h] = "submit" => ~AllHandedIn \/ seen[h].status = "OVERDUE")
  \/ /\ op[h] = "submit" /\ AllHandedIn /\ seen[h].status # "OVERDUE"
     /\ pc'[h] = "saveTask" /\ op'[h] = "submit" /\ seen'[h] = seen[h]
  \/ /\ op[h] \in {"complete", "overdue", "reassign"} /\ op'[h] = op[h]
     /\ pc'[h] \in {"saveEach", "saveTask", "replace"} /\ seen'[h] = seen[h]
     /\ op[h] = "overdue" => \A u \in left'[h] : rows[u] \notin Handed

LEMMA ListRowsFacts ==
  ASSUME Base, NEW h \in Handlers, ListRows(h)
  PROVE  /\ StepGoal(h) /\ ListsRows(h) /\ pc[h] = "listRows"
         /\ UNCHANGED <<task, rows, filed, started, history>>
  <1> DEFINE Undone == {u \in Assignees : rows[u] # "COMPLETED"}
             Late == {u \in Assignees : rows[u] \notin Handed}
             Copies == copy' = [copy EXCEPT ![h] = rows] /\ UNCHANGED seen
  <1>1. /\ OpFits(h) /\ HandlerTypes /\ StoreTypes /\ pc[h] = "listRows"
        /\ UNCHANGED <<task, rows, filed, started, history>>
        /\ op[h] \in {"submit", "complete", "overdue", "reassign"}
    BY DEF Base, ListRows, OpFits
  <1>2. StoreTypes'
    BY <1>1, StoreStays DEF StoreTypes
  <1>3. Undone \in SUBSET Officials /\ Late \in SUBSET Officials
    BY DEF Assignees
  <1>4. \/ Leave(h) /\ (op[h] = "submit" => ~AllHandedIn \/ seen[h].status = "OVERDUE")
        \/ /\ op[h] = "submit" /\ AllHandedIn /\ seen[h].status # "OVERDUE"
           /\ Goto(h, "saveTask") /\ UNCHANGED <<seen, copy, left>>
        \/ /\ op[h] = "complete" /\ Copies /\ left' = [left EXCEPT ![h] = Undone]
           /\ Goto(h, IF Undone = {} THEN "saveTask" ELSE "saveEach")
        \/ /\ op[h] = "overdue" /\ Copies /\ left' = [left EXCEPT ![h] = Late]
           /\ Late # {} /\ Goto(h, "saveEach")
        \/ /\ op[h] = "reassign" /\ Copies /\ Goto(h, "replace") /\ UNCHANGED left
    <2>1. CASE op[h] = "submit"
      BY <2>1 DEF ListRows
    <2>2. CASE op[h] = "complete"
      BY <2>2 DEF ListRows
    <2>3. CASE op[h] = "overdue"
      BY <2>3 DEF ListRows
    <2>4. CASE op[h] = "reassign"
      BY <2>4 DEF ListRows
    <2> QED  BY <1>1, <2>1, <2>2, <2>3, <2>4
  <1> HIDE DEF Undone, Late
  <1>5. CASE Leave(h) /\ (op[h] = "submit" => ~AllHandedIn \/ seen[h].status = "OVERDUE")
    <2>1. HandlerTypes' /\ OthersStay(h) /\ Gone(h)
      BY <1>1, <1>5, LeaveFacts
    <2> QED  BY <1>1, <1>2, <1>5, <2>1, GoneFits DEF StepGoal, ListsRows
  <1>6. CASE /\ op[h] = "submit" /\ AllHandedIn /\ seen[h].status # "OVERDUE"
             /\ Goto(h, "saveTask") /\ UNCHANGED <<seen, copy, left>>
    <2>1. /\ HandlerTypes' /\ OthersStay(h) /\ pc'[h] = "saveTask" /\ op'[h] = op[h]
          /\ seen'[h] = seen[h] /\ left'[h] = left[h]
      BY <1>1, <1>6 DEF HandlerTypes, Goto, OthersStay, Steps
    <2>2. OpFits(h)' /\ SeenFits(h)'
      BY <1>1, <1>6, <2>1 DEF OpFits, SeenFits
    <2> QED  BY <1>1, <1>2, <1>6, <2>1, <2>2 DEF StepGoal, ListsRows
  <1>7. ASSUME NEW step \in {"saveTask", "saveEach", "replace"}, Copies, Goto(h, step),
               NEW S \in SUBSET Officials, left' = [left EXCEPT ![h] = S],
               step # "saveTask" => S # {},
               \/ op[h] = "complete" /\ step # "replace"
               \/ /\ op[h] = "overdue" /\ step = "saveEach"
                  /\ \A u \in S : rows[u] \notin Handed
               \/ op[h] = "reassign" /\ step = "replace"
        PROVE  StepGoal(h) /\ ListsRows(h)
    <2>1. copy' \in [Handlers -> [Officials -> MaybeRow]]
          /\ \A g \in Handlers \ {h} : copy'[g] = copy[g]
      BY <1>1, <1>7 DEF HandlerTypes, StoreTypes
    <2>2. /\ HandlerTypes' /\ OthersStay(h) /\ pc'[h] = step /\ op'[h] = op[h]
          /\ seen'[h] = seen[h] /\ left'[h] = S
      BY <1>1, <1>7, <2>1 DEF HandlerTypes, Goto, OthersStay, Steps
    <2>3. OpFits(h)' /\ SeenFits(h)'
      BY <1>1, <1>7, <2>2 DEF OpFits, SeenFits
    <2>4. ListsRows(h)
      BY <1>7, <2>2 DEF ListsRows
    <2> QED  BY <1>1, <1>2, <2>2, <2>3, <2>4 DEF StepGoal
  <1>8. CASE /\ op[h] = "complete" /\ Copies /\ left' = [left EXCEPT ![h] = Undone]
             /\ Goto(h, IF Undone = {} THEN "saveTask" ELSE "saveEach")
    <2>1. CASE Undone = {}
      BY <1>1, <1>3, <1>7, <1>8, <2>1
    <2>2. CASE Undone # {}
      BY <1>1, <1>3, <1>7, <1>8, <2>2
    <2> QED  BY <2>1, <2>2
  <1>9. CASE /\ op[h] = "overdue" /\ Copies /\ left' = [left EXCEPT ![h] = Late]
             /\ Late # {} /\ Goto(h, "saveEach")
    <2>1. \A u \in Late : rows[u] \notin Handed
      BY DEF Late
    <2> QED  BY <1>1, <1>3, <1>7, <1>9, <2>1
  <1>10. CASE op[h] = "reassign" /\ Copies /\ Goto(h, "replace") /\ UNCHANGED left
    <2>1. left' = [left EXCEPT ![h] = left[h]] /\ left[h] \in SUBSET Officials /\ left[h] # {}
      BY <1>1, <1>10 DEF HandlerTypes, OpFits
    <2> QED  BY <1>1, <1>7, <1>10, <2>1
  <1> QED  BY <1>1, <1>4, <1>5, <1>6, <1>8, <1>9, <1>10

\* One row of a loop saved, or the loop ended by an official who is off the task.
SavesOne(h, u) ==
  /\ u \in left[h] /\ u \in Assignees /\ Write(h, u, NewStatus(op[h]))
  /\ signedOff' = IF op[h] = "complete" THEN signedOff \cup {u} ELSE signedOff
  /\ pc'[h] \in {"saveEach", "saveTask"} /\ op'[h] = op[h] /\ left'[h] = left[h] \ {u}

LEMMA SaveEachFacts ==
  ASSUME Base, NEW h \in Handlers, SaveEach(h)
  PROVE  /\ StepGoal(h) /\ pc[h] = "saveEach" /\ op[h] \in {"complete", "overdue"}
         /\ UNCHANGED <<task, filed, started, reassigned, broken, interfered>>
         /\ \/ \E u \in Officials : SavesOne(h, u)
            \/ Gone(h) /\ UNCHANGED <<rows, raced, signedOff>>
  <1>1. /\ OpFits(h) /\ HandlerTypes /\ StoreTypes /\ pc[h] = "saveEach"
        /\ op[h] \in {"complete", "overdue"}
        /\ UNCHANGED <<task, filed, started, reassigned, broken, interfered>>
    BY DEF Base, SaveEach, OpFits
  <1>2. NewStatus(op[h]) \in RowStatus
    BY <1>1, NewStatusValue DEF RowStatus
  <1>3. PICK u \in left[h] :
          \/ u \notin Assignees /\ Leave(h) /\ UNCHANGED <<rows, raced, signedOff>>
          \/ /\ u \in Assignees /\ Write(h, u, NewStatus(op[h]))
             /\ signedOff' = IF op[h] = "complete" THEN signedOff \cup {u} ELSE signedOff
             /\ \/ /\ left[h] = {u} /\ Goto(h, "saveTask")
                   /\ copy' = [copy EXCEPT ![h] = NoRows]
                \/ left[h] # {u} /\ Goto(h, "saveEach") /\ UNCHANGED copy
             /\ left' = [left EXCEPT ![h] = @ \ {u}]
             /\ UNCHANGED seen
    BY DEF SaveEach
  <1>4. CASE u \notin Assignees /\ Leave(h) /\ UNCHANGED <<rows, raced, signedOff>>
    <2>1. HandlerTypes' /\ OthersStay(h) /\ Gone(h)
      BY <1>1, <1>4, LeaveFacts
    <2>2. StoreTypes'
      BY <1>1, <1>4 DEF StoreTypes
    <2> QED  BY <1>1, <1>4, <2>1, <2>2, GoneFits DEF StepGoal
  <1>5. CASE u \in Assignees
    <2>1. /\ Write(h, u, NewStatus(op[h])) /\ left' = [left EXCEPT ![h] = @ \ {u}]
          /\ signedOff' = IF op[h] = "complete" THEN signedOff \cup {u} ELSE signedOff
          /\ UNCHANGED seen
      BY <1>3, <1>5
    <2>2. /\ rows' \in [Officials -> MaybeRow] /\ \E v \in Officials : rows'[v] # "NONE"
          /\ raced' \subseteq Officials /\ u \in Officials
      BY <1>2, <1>5, <2>1, WriteFacts
    <2>3. StoreTypes'
      BY <1>1, <2>1, <2>2 DEF StoreTypes
    <2>4. /\ left' \in [Handlers -> SUBSET Officials] /\ left'[h] = left[h] \ {u}
          /\ \A g \in Handlers \ {h} : left'[g] = left[g]
      BY <1>1, <2>1 DEF HandlerTypes
    <2>5. /\ copy' \in [Handlers -> [Officials -> MaybeRow]]
          /\ \A g \in Handlers \ {h} : copy'[g] = copy[g]
      BY <1>1, <1>3, <1>5, NoCopiesTyping DEF HandlerTypes, NoCopies
    <2>6. ASSUME NEW step \in {"saveEach", "saveTask"}, Goto(h, step),
                 step = "saveEach" => left'[h] # {}
          PROVE  StepGoal(h) /\ SavesOne(h, u)
      <3>1. /\ HandlerTypes' /\ OthersStay(h) /\ pc'[h] = step /\ op'[h] = op[h]
            /\ seen'[h] = seen[h]
        BY <1>1, <2>1, <2>4, <2>5, <2>6 DEF HandlerTypes, Goto, OthersStay, Steps
      <3>2. OpFits(h)' /\ SeenFits(h)'
        BY <1>1, <2>6, <3>1 DEF OpFits, SeenFits
      <3>3. SavesOne(h, u)
        BY <1>5, <2>1, <2>4, <2>6, <3>1 DEF SavesOne
      <3> QED  BY <1>1, <2>3, <3>1, <3>2, <3>3 DEF StepGoal
    <2>7. CASE left[h] = {u} /\ Goto(h, "saveTask")
      BY <1>1, <2>2, <2>6, <2>7
    <2>8. CASE left[h] # {u} /\ Goto(h, "saveEach")
      BY <1>1, <2>2, <2>4, <2>6, <2>8
    <2> QED  BY <1>3, <1>5, <2>7, <2>8
  <1> QED  BY <1>3, <1>4, <1>5

\* What a save of the task leaves, by the operation.
LEMMA SavedValue ==
  ASSUME Base, NEW h \in Handlers, pc[h] = "saveTask"
  PROVE  /\ [Saved(h) EXCEPT !.version = @ + 1] \in Task
         /\ [Saved(h) EXCEPT !.version = @ + 1].version = seen[h].version + 1
         /\ LET t == [Saved(h) EXCEPT !.version = @ + 1]
            IN  \/ op[h] = "submit" /\ t.status = "SUBMITTED"
                \/ op[h] = "complete" /\ t.status = "COMPLETED"
                \/ op[h] = "cancel" /\ t.status = "CANCELLED"
                \/ op[h] = "reassign" /\ t.status = seen[h].status
                \/ op[h] = "receipt" /\ t.status = "ACTIVE"
                \/ op[h] = "overdue" /\ t.status = "OVERDUE"
  <1>1. seen[h] \in Task /\ OpFits(h)
    BY DEF Base, HandlerTypes
  <1>2. op[h] \in {"submit", "complete", "cancel", "reassign", "receipt", "overdue"}
    BY <1>1 DEF OpFits
  <1>3. /\ op[h] = "submit" => Saved(h) = [seen[h] EXCEPT !.status = "SUBMITTED"]
        /\ op[h] = "complete" => Saved(h) = [seen[h] EXCEPT !.status = "COMPLETED"]
        /\ op[h] = "cancel" => Saved(h) = [seen[h] EXCEPT !.status = "CANCELLED"]
        /\ op[h] = "reassign" => Saved(h) = seen[h]
        /\ op[h] = "receipt" =>
             Saved(h) = [seen[h] EXCEPT !.status = "ACTIVE", !.published = TRUE]
        /\ op[h] = "overdue" => Saved(h) = [seen[h] EXCEPT !.status = "OVERDUE"]
    BY DEF Saved
  <1>4. Saved(h) \in Task /\ Saved(h).version = seen[h].version
    BY <1>1, <1>2, <1>3 DEF Task, TaskStatus
  <1>5. /\ op[h] = "submit" => Saved(h).status = "SUBMITTED"
        /\ op[h] = "complete" => Saved(h).status = "COMPLETED"
        /\ op[h] = "cancel" => Saved(h).status = "CANCELLED"
        /\ op[h] = "reassign" => Saved(h).status = seen[h].status
        /\ op[h] = "receipt" => Saved(h).status = "ACTIVE"
        /\ op[h] = "overdue" => Saved(h).status = "OVERDUE"
    BY <1>1, <1>3 DEF Task
  <1> HIDE DEF Saved
  <1> QED  BY <1>2, <1>4, <1>5 DEF Task

\* The task saved at the version that was read.
SavesTheTask(h) ==
  /\ task.version = seen[h].version /\ seen[h] = task /\ task'.version = task.version + 1
  /\ interfered' = (interfered \/ (op[h] # "submit" /\ (filed # {} \/ Submitting)))
  /\ \/ op[h] = "submit" /\ task'.status = "SUBMITTED" /\ task.status # "OVERDUE"
     \/ op[h] = "complete" /\ task'.status = "COMPLETED"
     \/ op[h] = "cancel" /\ task'.status = "CANCELLED"
     \/ op[h] = "reassign" /\ task'.status = task.status
     \/ op[h] = "receipt" /\ task'.status = "ACTIVE" /\ ~task.published
     \/ op[h] = "overdue" /\ task'.status = "OVERDUE"
  /\ Gone(h) \/ (op[h] = "reassign" /\ op'[h] = "reassign" /\ pc'[h] = "listRows")

LEMMA SaveTaskFacts ==
  ASSUME Base, NEW h \in Handlers, SaveTask(h)
  PROVE  /\ StepGoal(h) /\ pc[h] = "saveTask"
         /\ UNCHANGED <<rows, filed, started, signedOff, raced, reassigned, broken>>
         /\ \/ SavesTheTask(h)
            \/ Gone(h) /\ UNCHANGED <<task, interfered>> /\ seen[h] # task
  <1>1. /\ OpFits(h) /\ SeenFits(h) /\ HandlerTypes /\ StoreTypes /\ pc[h] = "saveTask"
        /\ UNCHANGED <<rows, filed, started, signedOff, raced, reassigned, broken>>
        /\ IsCopy(seen[h])
    BY DEF Base, SaveTask, CopyInv
  <1>2. CASE task.version # seen[h].version
    <2>1. Leave(h) /\ UNCHANGED <<task, interfered>>
      BY <1>2 DEF SaveTask
    <2>2. HandlerTypes' /\ OthersStay(h) /\ Gone(h)
      BY <1>1, <2>1, LeaveFacts
    <2>3. StoreTypes'
      BY <1>1, <2>1 DEF StoreTypes
    <2> QED  BY <1>1, <1>2, <2>1, <2>2, <2>3, GoneFits DEF StepGoal
  <1>3. CASE task.version = seen[h].version
    <2>1. /\ task' = [Saved(h) EXCEPT !.version = @ + 1] /\ seen[h] = task
          /\ interfered' = (interfered \/ (op[h] # "submit" /\ (filed # {} \/ Submitting)))
          /\ IF op[h] = "reassign"
             THEN Goto(h, "listRows") /\ UNCHANGED <<seen, copy, left>>
             ELSE Leave(h)
      BY <1>1, <1>3 DEF SaveTask, IsCopy
    <2>2. task' \in Task /\ task'.version = task.version + 1
      BY <1>1, <1>3, <2>1, SavedValue
    <2>3. \/ op[h] = "submit" /\ task'.status = "SUBMITTED" /\ task.status # "OVERDUE"
          \/ op[h] = "complete" /\ task'.status = "COMPLETED"
          \/ op[h] = "cancel" /\ task'.status = "CANCELLED"
          \/ op[h] = "reassign" /\ task'.status = task.status
          \/ op[h] = "receipt" /\ task'.status = "ACTIVE" /\ ~task.published
          \/ op[h] = "overdue" /\ task'.status = "OVERDUE"
      BY <1>1, <2>1, SavedValue DEF SeenFits
    <2>4. interfered' \in BOOLEAN
      BY <2>1
    <2>5. StoreTypes'
      BY <1>1, <2>2, <2>4 DEF StoreTypes
    <2>6. CASE op[h] = "reassign"
      <3>1. /\ HandlerTypes' /\ OthersStay(h) /\ pc'[h] = "listRows" /\ op'[h] = op[h]
            /\ seen'[h] = seen[h] /\ left'[h] = left[h]
        BY <1>1, <2>1, <2>6 DEF HandlerTypes, Goto, OthersStay, Steps
      <3>2. OpFits(h)' /\ SeenFits(h)'
        BY <1>1, <2>6, <3>1 DEF OpFits, SeenFits
      <3> QED  BY <1>1, <1>3, <2>1, <2>2, <2>3, <2>5, <2>6, <3>1, <3>2 DEF StepGoal, SavesTheTask
    <2>7. CASE op[h] # "reassign"
      <3>1. HandlerTypes' /\ OthersStay(h) /\ Gone(h)
        BY <1>1, <2>1, <2>7, LeaveFacts
      <3> QED  BY <1>1, <1>3, <2>1, <2>2, <2>3, <2>5, <3>1, GoneFits DEF StepGoal, SavesTheTask
    <2> QED  BY <2>6, <2>7
  <1> QED  BY <1>2, <1>3

LEMMA ReplaceFacts ==
  ASSUME Base, NEW h \in Handlers, Replace(h)
  PROVE  /\ StepGoal(h) /\ pc[h] = "replace" /\ reassigned'
         /\ UNCHANGED <<task, filed, started, signedOff, broken, interfered>> /\ Gone(h)
         /\ raced \subseteq raced'
         /\ \A g \in Handlers \ {h} : WillWrite(g) \subseteq raced'
         /\ \A u \in Officials \ raced' : rows'[u] \in {rows[u], "NONE", "PENDING"}
         /\ \A u \in Officials \ raced' : rows'[u] = "PENDING" => rows[u] \in {"PENDING", "NONE"}
  <1>1. /\ OpFits(h) /\ HandlerTypes /\ StoreTypes /\ pc[h] = "replace" /\ reassigned' = TRUE
        /\ UNCHANGED <<task, filed, started, signedOff, broken, interfered>> /\ Leave(h)
        /\ \A g \in Handlers : OpFits(g)
    BY DEF Base, Replace
  <1>2. HandlerTypes' /\ OthersStay(h) /\ Gone(h)
    BY <1>1, LeaveFacts
  <1>3. /\ copy[h] \in [Officials -> MaybeRow] /\ left[h] \subseteq Officials /\ left[h] # {}
        /\ rows \in [Officials -> MaybeRow] /\ raced \subseteq Officials
    BY <1>1 DEF HandlerTypes, StoreTypes
  <1>4. \A u \in Officials :
          rows'[u] = IF u \notin left[h] THEN "NONE"
                     ELSE IF copy[h][u] # "NONE" THEN copy[h][u] ELSE "PENDING"
    BY DEF Replace
  <1>5. rows' \in [Officials -> MaybeRow] /\ \E u \in Officials : rows'[u] # "NONE"
    <2>1. "NONE" \in MaybeRow /\ "PENDING" \in MaybeRow
      BY DEF MaybeRow, RowStatus
    <2>2. rows' \in [Officials -> MaybeRow]
      BY <1>3, <2>1 DEF Replace
    <2>3. PICK u \in left[h] : TRUE
      BY <1>3
    <2>4. u \in Officials /\ rows'[u] # "NONE"
      BY <1>3, <1>4, <2>3
    <2> QED  BY <2>2, <2>4
  <1>6. raced' = raced \cup (UNION {WillWrite(g) : g \in Handlers \ {h}})
                       \cup {u \in Officials : rows[u] # copy[h][u]}
    BY DEF Replace
  <1>7. \A g \in Handlers : WillWrite(g) \subseteq Officials
    BY <1>1, WillWriteTyping
  <1> HIDE DEF WillWrite
  <1>8. raced' \subseteq Officials /\ raced \subseteq raced'
        /\ \A g \in Handlers \ {h} : WillWrite(g) \subseteq raced'
    BY <1>3, <1>6, <1>7
  <1>9. \A u \in Officials \ raced' : rows[u] = copy[h][u]
    BY <1>6
  <1>10. StoreTypes'
    BY <1>1, <1>5, <1>8 DEF StoreTypes
  <1>11. \A u \in Officials \ raced' :
           /\ rows'[u] \in {rows[u], "NONE", "PENDING"}
           /\ rows'[u] = "PENDING" => rows[u] \in {"PENDING", "NONE"}
    BY <1>4, <1>9
  <1> QED  BY <1>1, <1>2, <1>8, <1>10, <1>11, GoneFits DEF StepGoal

-----------------------------------------------------------------------------
(* The types, the operations and the copies: Base is an invariant.         *)

LEMMA CopyStep ==
  ASSUME Base, NEW h \in Handlers, StoreTypes', OthersStay(h),
         seen'[h] \in {seen[h], NewTask, task},
         task' = task \/ task'.version = task.version + 1
  PROVE  CopyInv'
  <1>1. /\ CopyInv /\ HandlerTypes /\ task \in Task /\ task' \in Task
        /\ task.version \in Nat /\ task'.version \in Nat
    BY DEF Base, StoreTypes, Task
  <1>2. IsCopy(NewTask) /\ IsCopy(task) /\ \A g \in Handlers : IsCopy(seen[g])
    BY <1>1 DEF CopyInv, IsCopy, NewTask
  <1>3. ASSUME NEW c \in Task, IsCopy(c)
        PROVE  c.version <= task'.version /\ (c.version = task'.version => c = task')
    <2>1. c.version \in Nat
      BY DEF Task
    <2> QED  BY <1>1, <1>3, <2>1 DEF IsCopy
  <1>4. \A g \in Handlers : IsCopy(seen[g])'
    <2>1. ASSUME NEW g \in Handlers PROVE seen'[g] \in {seen[g], NewTask, task}
      BY DEF OthersStay
    <2>2. ASSUME NEW g \in Handlers PROVE seen[g] \in Task /\ NewTask \in Task
      BY <1>1, NoCopiesTyping DEF HandlerTypes, NoCopies
    <2>3. ASSUME NEW g \in Handlers
          PROVE  /\ seen'[g].version <= task'.version
                 /\ seen'[g].version = task'.version => seen'[g] = task'
      BY <1>1, <1>2, <1>3, <2>1, <2>2
    <2> QED  BY <2>3 DEF IsCopy
  <1>5. task'.version >= 1 /\ (task'.version = 1 => task' = NewTask)
    BY <1>1 DEF CopyInv
  <1> QED  BY <1>4, <1>5 DEF CopyInv

LEMMA ContinueFacts ==
  ASSUME Base, NEW h \in Handlers, Continues(h)
  PROVE  StepGoal(h)
  BY ReadRowFacts, FileFacts, SaveRowFacts, ListRowsFacts, SaveEachFacts, SaveTaskFacts,
     ReplaceFacts, BreakFacts DEF Continues

LEMMA OthersFit ==
  ASSUME Base, NEW h \in Handlers, OthersStay(h), OpFits(h)', SeenFits(h)'
  PROVE  \A g \in Handlers : OpFits(g)' /\ SeenFits(g)'
  <1>1. ASSUME NEW g \in Handlers \ {h} PROVE OpFits(g)' /\ SeenFits(g)'
    BY DEF Base, OthersStay, OpFits, SeenFits
  <1> QED  BY <1>1

LEMMA BaseStep ==
  ASSUME Base, [Next]_vars
  PROVE  Base'
  <1>1. CASE UNCHANGED vars
    BY <1>1 DEF vars, handlerVars, history, Base, HandlerTypes, StoreTypes, CopyInv, IsCopy,
                OpFits, SeenFits
  <1>2. ASSUME NEW h \in Handlers, Begins(h) PROVE Base'
    <2>1. HandlerTypes /\ StoreTypes
      BY DEF Base
    <2>2. BeginGoal(h)
      BY <1>2, <2>1, BeginFacts
    <2>3. /\ HandlerTypes' /\ OthersStay(h) /\ BeginFits(h) /\ started < MaxHandlers
          /\ started' = started + 1 /\ UNCHANGED <<task, rows, filed, history>>
      BY <2>2 DEF BeginGoal
    <2>4. StoreTypes'
      BY <2>1, <2>3, MaxHandlersAssumption DEF StoreTypes, history
    <2>5. OpFits(h)' /\ SeenFits(h)' /\ seen'[h] \in {seen[h], task}
      BY <2>3 DEF BeginFits, OpFits, SeenFits
    <2>6. CopyInv'
      BY <2>3, <2>4, <2>5, CopyStep
    <2>7. \A g \in Handlers : OpFits(g)' /\ SeenFits(g)'
      BY <2>3, <2>5, OthersFit
    <2> QED  BY <2>3, <2>4, <2>6, <2>7 DEF Base
  <1>3. ASSUME NEW h \in Handlers, Continues(h) PROVE Base'
    <2>1. StepGoal(h)
      BY <1>3, ContinueFacts
    <2>2. /\ HandlerTypes' /\ StoreTypes' /\ OthersStay(h) /\ OpFits(h)' /\ SeenFits(h)'
          /\ seen'[h] \in {seen[h], NewTask}
          /\ task' = task \/ task'.version = task.version + 1
      BY <2>1 DEF StepGoal
    <2>3. CopyInv'
      BY <2>2, CopyStep
    <2>4. \A g \in Handlers : OpFits(g)' /\ SeenFits(g)'
      BY <2>2, OthersFit
    <2> QED  BY <2>2, <2>3, <2>4 DEF Base
  <1> QED  BY <1>1, <1>2, <1>3, NextSteps

LEMMA InitBase == Init => Base
  <1> SUFFICES ASSUME Init PROVE Base
    OBVIOUS
  <1>1. PICK S \in (SUBSET Officials) \ {{}} :
          rows = [u \in Officials |-> IF u \in S THEN "PENDING" ELSE "NONE"]
    BY DEF Init
  <1>2. StoreTypes
    <2>0. PICK u \in S : u \in Officials
      BY <1>1
    <2>1. rows \in [Officials -> MaybeRow] /\ \E v \in Officials : rows[v] # "NONE"
      BY <1>1, <2>0 DEF MaybeRow, RowStatus
    <2>2. task \in Task /\ filed \subseteq Officials /\ started \in 0..MaxHandlers
      BY NoCopiesTyping, MaxHandlersAssumption DEF Init, NoCopies
    <2>3. /\ signedOff \subseteq Officials /\ raced \subseteq Officials
          /\ reassigned \in BOOLEAN /\ broken \in BOOLEAN /\ interfered \in BOOLEAN
      BY DEF Init
    <2> QED  BY <2>1, <2>2, <2>3 DEF StoreTypes
  <1>3. HandlerTypes
    BY NoCopiesTyping DEF Init, HandlerTypes, NoCopies, Operations, Steps
  <1>4. CopyInv
    BY DEF Init, CopyInv, IsCopy, NewTask
  <1>5. \A h \in Handlers : OpFits(h) /\ SeenFits(h)
    BY DEF Init, OpFits, SeenFits
  <1> QED  BY <1>2, <1>3, <1>4, <1>5 DEF Base

\* TypeOK, for any number of officials and of handlers in flight: the task always has an
\* assignee (replaceTaskAssignees is given at least one), and a loop over the rows always
\* has one left to save.
THEOREM TypeCorrect == Spec => []TypeOK
  <1>1. Base => TypeOK
    BY TypesJoin DEF Base
  <1> QED  BY <1>1, InitBase, BaseStep, PTL DEF Spec

-----------------------------------------------------------------------------
(* The deadline that has passed.                                           *)

LEMMA StaysOverdue ==
  ASSUME Base, [Next]_vars, task.status = "OVERDUE", task.published
  PROVE  task'.status \in {"OVERDUE", "COMPLETED", "CANCELLED"}
  <1>1. CASE task' = task
    BY <1>1
  <1>2. ASSUME NEW h \in Handlers, SaveTask(h)
        PROVE  task'.status \in {"OVERDUE", "COMPLETED", "CANCELLED"}
    BY <1>2, SaveTaskFacts DEF SavesTheTask
  <1>3. CASE UNCHANGED vars
    BY <1>1, <1>3 DEF vars
  <1>4. ASSUME NEW h \in Handlers, Begins(h) PROVE task' = task
    <2>1. HandlerTypes /\ StoreTypes
      BY DEF Base
    <2> QED  BY <1>4, <2>1, BeginFacts DEF BeginGoal
  <1>5. ASSUME NEW h \in Handlers, Continues(h), ~SaveTask(h) PROVE task' = task
    BY <1>5 DEF Continues, ReadRow, FileSubmission, SaveRow, ListRows, SaveEach, Replace, Break
  <1> QED  BY <1>1, <1>2, <1>3, <1>4, <1>5, NextSteps

\* The PRD: "the task remains historically overdue until explicitly completed".  The save
\* at the version read makes the handler's copy the row (CopyInv), and the handler has
\* decided on that copy: submit does not write over OVERDUE, a receipt is stored once.
THEOREM OverdueIsHistorical == Spec => HistoricallyOverdue
  <1>1. Base /\ [Next]_vars =>
          [task.status = "OVERDUE" /\ task.published
             => task'.status \in {"OVERDUE", "COMPLETED", "CANCELLED"}]_vars
    BY StaysOverdue
  <1> QED  BY <1>1, InitBase, BaseStep, PTL DEF Spec, HistoricallyOverdue

-----------------------------------------------------------------------------
(* What was handed in and is not reset.                                    *)

\* A reply or a deadline about to be saved: it saw the row before it was handed in, so
\* the row has not been, or the history names the row as raced.
UnracedAt(h) ==
  /\ pc[h] = "saveRow" /\ op[h] \in {"acknowledge", "progress"}
       => rows[who[h]] # "SUBMITTED" \/ who[h] \in raced
  /\ pc[h] = "saveEach" /\ op[h] = "overdue"
       => \A u \in left[h] : rows[u] # "SUBMITTED" \/ u \in raced

Unraced == \A h \in Handlers : UnracedAt(h)

\* A row that changes while another handler holds a copy of it is named.
RowsMove(h) ==
  /\ raced \subseteq raced'
  /\ \A g \in Handlers \ {h} : \A u \in WillWrite(g) : u \in raced' \/ rows'[u] = rows[u]

RowsKept ==
  \A u \in Officials \ raced' :
    rows[u] = "SUBMITTED" => rows'[u] \in {"SUBMITTED", "COMPLETED", "BLOCKED", "NONE"}

RowGoal(h) == OthersStay(h) /\ RowsMove(h) /\ UnracedAt(h)' /\ RowsKept

LEMMA UnracedOthers ==
  ASSUME Base, Unraced, NEW h \in Handlers, OthersStay(h), RowsMove(h),
         NEW g \in Handlers \ {h}
  PROVE  UnracedAt(g)'
  <1>1. /\ pc'[g] = pc[g] /\ op'[g] = op[g] /\ who'[g] = who[g] /\ left'[g] = left[g]
        /\ UnracedAt(g) /\ raced \subseteq raced'
        /\ \A u \in WillWrite(g) : u \in raced' \/ rows'[u] = rows[u]
    BY DEF OthersStay, Unraced, RowsMove
  <1> HIDE DEF WillWrite
  <1>2. ASSUME pc[g] = "saveRow", op[g] \in {"acknowledge", "progress"}
        PROVE  rows'[who[g]] # "SUBMITTED" \/ who[g] \in raced'
    <2>1. who[g] \in WillWrite(g)
      BY <1>2, WillWriteValue
    <2> QED  BY <1>1, <1>2, <2>1 DEF UnracedAt
  <1>3. ASSUME pc[g] = "saveEach", op[g] = "overdue", NEW u \in left[g]
        PROVE  rows'[u] # "SUBMITTED" \/ u \in raced'
    <2>1. u \in WillWrite(g)
      BY <1>3, WillWriteValue
    <2> QED  BY <1>1, <1>3, <2>1 DEF UnracedAt
  <1> QED  BY <1>1, <1>2, <1>3 DEF UnracedAt

\* The steps that write no row.
LEMMA NoRowsMoved ==
  ASSUME NEW h \in Handlers, OthersStay(h), UNCHANGED <<rows, raced>>, UnracedAt(h)'
  PROVE  RowGoal(h)
  BY DEF RowGoal, RowsMove, RowsKept

LEMMA GoneUnraced ==
  ASSUME NEW h \in Handlers, Gone(h)
  PROVE  UnracedAt(h)'
  BY DEF Gone, UnracedAt

\* One row written.
LEMMA OneRowMoved ==
  ASSUME Base, NEW h \in Handlers, NEW u \in Assignees, NEW status \in RowStatus,
         Write(h, u, status), OthersStay(h), UnracedAt(h)',
         \/ status \in {"SUBMITTED", "COMPLETED", "BLOCKED"}
         \/ rows[u] # "SUBMITTED" \/ u \in raced
  PROVE  RowGoal(h)
  <1> HIDE DEF WillWrite, Write
  <1>1. /\ rows'[u] = status /\ \A v \in Officials \ {u} : rows'[v] = rows[v]
        /\ u \in Officials /\ raced \subseteq raced'
        /\ \A g \in Handlers \ {h} : u \in WillWrite(g) => u \in raced'
    BY WriteFacts
  <1>2. \A g \in Handlers : WillWrite(g) \subseteq Officials
    BY WillWriteTyping DEF Base
  <1>3. RowsMove(h)
    BY <1>1, <1>2 DEF RowsMove
  <1>4. RowsKept
    BY <1>1 DEF RowsKept
  <1> QED  BY <1>3, <1>4 DEF RowGoal

LEMMA RowStep ==
  ASSUME Base, Unraced, NEW h \in Handlers, Begins(h) \/ Continues(h)
  PROVE  RowGoal(h)
  <1> HIDE DEF WillWrite, Write
  <1>0. HandlerTypes /\ StoreTypes /\ UnracedAt(h) /\ OpFits(h)
    BY DEF Base, Unraced
  <1>1. CASE Begins(h)
    <2>1. OthersStay(h) /\ BeginFits(h) /\ UNCHANGED <<rows, raced>>
      BY <1>0, <1>1, BeginFacts DEF BeginGoal, history
    <2>2. UnracedAt(h)'
      BY <2>1 DEF BeginFits, UnracedAt, Handed
    <2> QED  BY <2>1, <2>2, NoRowsMoved
  <1>2. CASE ReadRow(h)
    <2>1. /\ OthersStay(h) /\ UNCHANGED <<rows, raced>>
          /\ pc'[h] \in {"idle", "file"}
      BY <1>2, ReadRowFacts DEF StepGoal, history, Gone
    <2> QED  BY <2>1, NoRowsMoved DEF UnracedAt
  <1>3. CASE FileSubmission(h)
    <2>1. /\ OthersStay(h) /\ UNCHANGED <<rows, raced>>
          /\ pc'[h] = "saveRow" /\ op'[h] = "submit"
      BY <1>3, FileFacts DEF StepGoal, history
    <2> QED  BY <2>1, NoRowsMoved DEF UnracedAt
  <1>4. CASE SaveRow(h)
    <2>1. /\ OthersStay(h) /\ pc[h] = "saveRow"
          /\ SavesRow(h) \/ (Gone(h) /\ UNCHANGED <<rows, raced>>)
      BY <1>4, SaveRowFacts DEF StepGoal
    <2>2. CASE SavesRow(h)
      <3>1. /\ who[h] \in Assignees /\ Write(h, who[h], NewStatus(op[h]))
            /\ pc'[h] \in {"listRows", "idle"}
        BY <2>2 DEF SavesRow, Gone
      <3>2. UnracedAt(h)'
        BY <3>1 DEF UnracedAt
      <3>3. /\ NewStatus(op[h]) \in RowStatus
            /\ \/ NewStatus(op[h]) \in {"SUBMITTED", "COMPLETED", "BLOCKED"}
               \/ op[h] \in {"acknowledge", "progress"}
        BY <1>0, <2>1, NewStatusValue DEF OpFits, RowStatus
      <3> QED  BY <1>0, <2>1, <3>1, <3>2, <3>3, OneRowMoved DEF UnracedAt
    <2>3. CASE Gone(h) /\ UNCHANGED <<rows, raced>>
      BY <2>1, <2>3, GoneUnraced, NoRowsMoved
    <2> QED  BY <2>1, <2>2, <2>3
  <1>5. CASE ListRows(h)
    <2>1. OthersStay(h) /\ ListsRows(h) /\ UNCHANGED <<rows, raced>>
      BY <1>5, ListRowsFacts DEF StepGoal, history
    <2>2. UnracedAt(h)'
      BY <2>1 DEF ListsRows, Gone, UnracedAt, Handed
    <2> QED  BY <2>1, <2>2, NoRowsMoved
  <1>6. CASE SaveEach(h)
    <2>1. /\ OthersStay(h) /\ pc[h] = "saveEach" /\ op[h] \in {"complete", "overdue"}
          /\ \/ \E u \in Officials : SavesOne(h, u)
             \/ Gone(h) /\ UNCHANGED <<rows, raced>>
      BY <1>6, SaveEachFacts DEF StepGoal
    <2>2. ASSUME NEW u \in Officials, SavesOne(h, u) PROVE RowGoal(h)
      <3>1. /\ u \in left[h] /\ u \in Assignees /\ Write(h, u, NewStatus(op[h]))
            /\ pc'[h] \in {"saveEach", "saveTask"} /\ op'[h] = op[h] /\ left'[h] = left[h] \ {u}
        BY <2>2 DEF SavesOne
      <3>2. NewStatus(op[h]) \in RowStatus
        BY <2>1, NewStatusValue DEF RowStatus
      <3>3. /\ \A v \in Officials \ {u} : rows'[v] = rows[v]
            /\ raced \subseteq raced' /\ left[h] \subseteq Officials
        BY <1>0, <3>1, <3>2, WriteFacts DEF HandlerTypes
      <3>4. UnracedAt(h)'
        BY <1>0, <2>1, <3>1, <3>3 DEF UnracedAt
      <3>5. \/ NewStatus(op[h]) \in {"SUBMITTED", "COMPLETED", "BLOCKED"}
            \/ rows[u] # "SUBMITTED" \/ u \in raced
        BY <1>0, <2>1, <3>1, NewStatusValue DEF UnracedAt
      <3> QED  BY <2>1, <3>1, <3>2, <3>4, <3>5, OneRowMoved
    <2>3. CASE Gone(h) /\ UNCHANGED <<rows, raced>>
      BY <2>1, <2>3, GoneUnraced, NoRowsMoved
    <2> QED  BY <2>1, <2>2, <2>3
  <1>7. CASE SaveTask(h)
    <2>1. OthersStay(h) /\ UNCHANGED <<rows, raced>> /\ pc'[h] \in {"idle", "listRows"}
      BY <1>7, SaveTaskFacts DEF StepGoal, SavesTheTask, Gone
    <2> QED  BY <2>1, NoRowsMoved DEF UnracedAt
  <1>8. CASE Replace(h)
    <2>1. /\ OthersStay(h) /\ Gone(h) /\ raced \subseteq raced'
          /\ \A g \in Handlers \ {h} : WillWrite(g) \subseteq raced'
          /\ \A u \in Officials \ raced' : rows'[u] \in {rows[u], "NONE", "PENDING"}
          /\ \A u \in Officials \ raced' : rows'[u] = "PENDING" => rows[u] \in {"PENDING", "NONE"}
      BY <1>8, ReplaceFacts DEF StepGoal
    <2>2. RowsMove(h) /\ RowsKept
      BY <2>1 DEF RowsMove, RowsKept
    <2> QED  BY <2>1, <2>2, GoneUnraced DEF RowGoal
  <1>9. CASE Break(h)
    <2>1. OthersStay(h) /\ Gone(h) /\ UNCHANGED <<rows, raced>>
      BY <1>9, BreakFacts DEF StepGoal
    <2> QED  BY <2>1, GoneUnraced, NoRowsMoved
  <1> QED  BY <1>1, <1>2, <1>3, <1>4, <1>5, <1>6, <1>7, <1>8, <1>9 DEF Continues

LEMMA UnracedStep ==
  ASSUME Base, Unraced, [Next]_vars
  PROVE  Unraced' /\ [RowsKept]_vars
  <1>1. CASE UNCHANGED vars
    BY <1>1 DEF vars, handlerVars, history, Unraced, UnracedAt
  <1>2. ASSUME NEW h \in Handlers, Begins(h) \/ Continues(h) PROVE Unraced' /\ RowsKept
    <2>1. OthersStay(h) /\ RowsMove(h) /\ UnracedAt(h)' /\ RowsKept
      BY <1>2, RowStep DEF RowGoal
    <2>2. \A g \in Handlers \ {h} : UnracedAt(g)'
      BY <2>1, UnracedOthers
    <2> QED  BY <2>1, <2>2 DEF Unraced
  <1> QED  BY <1>1, <1>2, NextSteps

\* Submissions stay: acknowledge, progress, a deadline and a reassignment that read the
\* row after it was handed in leave it alone.  A row is overwritten with the copy that was
\* read (saveTaskAssignee checks no version), so the history of the raced rows is needed.
THEOREM SubmissionsStay == Spec => SubmissionStays
  <1>1. Init => Unraced
    BY DEF Init, Unraced, UnracedAt
  <1>2. Base /\ Unraced /\ [Next]_vars => Base' /\ Unraced'
    BY BaseStep, UnracedStep
  <1>3. Base /\ Unraced /\ [Next]_vars =>
          [\A u \in Officials \ raced' : rows[u] = "SUBMITTED"
             => rows'[u] \in {"SUBMITTED", "COMPLETED", "BLOCKED", "NONE"}]_vars
    BY UnracedStep DEF RowsKept
  <1> QED  BY <1>1, <1>2, <1>3, InitBase, PTL DEF Spec, SubmissionStays

-----------------------------------------------------------------------------
(* What backs a task that is SUBMITTED, while its assignees are the same.  *)

OnRecord == filed \cup signedOff

RowsBacked ==
  \A u \in Officials : /\ rows[u] = "SUBMITTED" => u \in filed
                       /\ rows[u] = "COMPLETED" => u \in OnRecord

\* submit saves the row after the submission, and the task after it saw every row.
HandlerBacked(h) ==
  /\ pc[h] = "saveRow" /\ op[h] = "submit" => who[h] \in filed
  /\ pc[h] = "saveTask" /\ op[h] = "submit" => Assignees \subseteq OnRecord

TaskBacked == task.status = "SUBMITTED" => Assignees \subseteq OnRecord

Backed == RowsBacked /\ TaskBacked /\ \A h \in Handlers : HandlerBacked(h)

BackedInv == ~reassigned => Backed

RecordGrows == filed \subseteq filed' /\ signedOff \subseteq signedOff' /\ Assignees' = Assignees

BackedGoal(h) ==
  OthersStay(h) /\ RecordGrows /\ RowsBacked' /\ TaskBacked' /\ HandlerBacked(h)'

LEMMA BackedFrame ==
  ASSUME Backed, NEW h \in Handlers, BackedGoal(h)
  PROVE  Backed'
  <1>1. ASSUME NEW g \in Handlers \ {h} PROVE HandlerBacked(g)'
    BY DEF Backed, BackedGoal, OthersStay, RecordGrows, HandlerBacked, OnRecord
  <1> QED  BY <1>1 DEF Backed, BackedGoal

\* The steps that only add to the record.
LEMMA RowsAndTaskBacked ==
  ASSUME Backed, NEW h \in Handlers, OthersStay(h), UNCHANGED <<task, rows, signedOff>>,
         filed \subseteq filed', HandlerBacked(h)'
  PROVE  BackedGoal(h)
  BY DEF Backed, BackedGoal, RecordGrows, RowsBacked, TaskBacked, OnRecord, Assignees

LEMMA GoneBacked ==
  ASSUME NEW h \in Handlers, Gone(h)
  PROVE  HandlerBacked(h)'
  BY DEF Gone, HandlerBacked

\* One row written, as it is on record.
LEMMA OneRowBacked ==
  ASSUME Base, Backed, NEW h \in Handlers, NEW u \in Assignees, NEW status \in RowStatus,
         Write(h, u, status), OthersStay(h), UNCHANGED <<task, filed>>,
         signedOff \subseteq signedOff', HandlerBacked(h)',
         status = "SUBMITTED" => u \in filed, status = "COMPLETED" => u \in signedOff'
  PROVE  BackedGoal(h)
  <1> HIDE DEF Write
  <1>1. /\ rows'[u] = status /\ \A v \in Officials \ {u} : rows'[v] = rows[v]
        /\ u \in Officials /\ Assignees' = Assignees
    BY WriteFacts
  <1>2. RecordGrows /\ RowsBacked /\ TaskBacked
    BY <1>1 DEF RecordGrows, Backed
  <1>3. RowsBacked'
    BY <1>1, <1>2 DEF RowsBacked, OnRecord
  <1>4. TaskBacked'
    BY <1>1, <1>2 DEF TaskBacked, OnRecord
  <1> QED  BY <1>2, <1>3, <1>4 DEF BackedGoal

LEMMA BackedMove ==
  ASSUME Base, Backed, NEW h \in Handlers, Begins(h) \/ Continues(h), ~Replace(h)
  PROVE  BackedGoal(h)
  <1> HIDE DEF Write
  <1>0. HandlerTypes /\ StoreTypes /\ HandlerBacked(h) /\ OpFits(h) /\ RowsBacked
    BY DEF Base, Backed
  <1>1. CASE Begins(h)
    <2>1. OthersStay(h) /\ BeginFits(h) /\ UNCHANGED <<task, rows, filed, signedOff>>
      BY <1>0, <1>1, BeginFacts DEF BeginGoal, history
    <2>2. HandlerBacked(h)'
      BY <2>1 DEF BeginFits, HandlerBacked
    <2> QED  BY <2>1, <2>2, RowsAndTaskBacked
  <1>2. CASE ReadRow(h)
    <2>1. /\ OthersStay(h) /\ UNCHANGED <<task, rows, filed, signedOff>>
          /\ pc'[h] \in {"idle", "file"}
      BY <1>2, ReadRowFacts DEF StepGoal, history, Gone
    <2>2. HandlerBacked(h)'
      BY <2>1 DEF HandlerBacked
    <2> QED  BY <2>1, <2>2, RowsAndTaskBacked
  <1>3. CASE FileSubmission(h)
    <2>1. /\ OthersStay(h) /\ UNCHANGED <<task, rows, signedOff>> /\ filed' = filed \cup {who[h]}
          /\ pc'[h] = "saveRow" /\ who'[h] = who[h]
      BY <1>3, FileFacts DEF StepGoal, history
    <2>2. HandlerBacked(h)'
      BY <2>1 DEF HandlerBacked
    <2> QED  BY <2>1, <2>2, RowsAndTaskBacked
  <1>4. CASE SaveRow(h)
    <2>1. /\ OthersStay(h) /\ pc[h] = "saveRow" /\ UNCHANGED <<task, filed, signedOff>>
          /\ SavesRow(h) \/ (Gone(h) /\ UNCHANGED <<rows, raced>>)
      BY <1>4, SaveRowFacts DEF StepGoal
    <2>2. CASE SavesRow(h)
      <3>1. /\ who[h] \in Assignees /\ Write(h, who[h], NewStatus(op[h]))
            /\ pc'[h] \in {"listRows", "idle"}
        BY <2>2 DEF SavesRow, Gone
      <3>2. HandlerBacked(h)'
        BY <3>1 DEF HandlerBacked
      <3>3. /\ NewStatus(op[h]) \in RowStatus /\ NewStatus(op[h]) # "COMPLETED"
            /\ NewStatus(op[h]) = "SUBMITTED" => op[h] = "submit"
        BY <1>0, <2>1, NewStatusValue DEF OpFits, RowStatus
      <3>4. NewStatus(op[h]) = "SUBMITTED" => who[h] \in filed
        BY <1>0, <2>1, <3>3 DEF HandlerBacked
      <3> QED  BY <2>1, <3>1, <3>2, <3>3, <3>4, OneRowBacked
    <2>3. CASE Gone(h) /\ UNCHANGED <<rows, raced>>
      BY <2>1, <2>3, GoneBacked, RowsAndTaskBacked
    <2> QED  BY <2>1, <2>2, <2>3
  <1>5. CASE ListRows(h)
    <2>1. OthersStay(h) /\ ListsRows(h) /\ UNCHANGED <<task, rows, filed, signedOff>>
      BY <1>5, ListRowsFacts DEF StepGoal, history
    <2>2. Assignees' = Assignees /\ OnRecord' = OnRecord
      BY <2>1 DEF Assignees, OnRecord
    <2>3. AllHandedIn => Assignees \subseteq OnRecord
      BY <1>0 DEF AllHandedIn, Handed, RowsBacked, OnRecord, Assignees
    <2>4. HandlerBacked(h)'
      BY <2>1, <2>2, <2>3 DEF ListsRows, Gone, HandlerBacked
    <2> QED  BY <2>1, <2>4, RowsAndTaskBacked
  <1>6. CASE SaveEach(h)
    <2>1. /\ OthersStay(h) /\ pc[h] = "saveEach" /\ op[h] \in {"complete", "overdue"}
          /\ UNCHANGED <<task, filed>>
          /\ \/ \E u \in Officials : SavesOne(h, u)
             \/ Gone(h) /\ UNCHANGED <<rows, signedOff>>
      BY <1>6, SaveEachFacts DEF StepGoal
    <2>2. ASSUME NEW u \in Officials, SavesOne(h, u) PROVE BackedGoal(h)
      <3>1. /\ u \in Assignees /\ Write(h, u, NewStatus(op[h])) /\ op'[h] = op[h]
            /\ signedOff' = IF op[h] = "complete" THEN signedOff \cup {u} ELSE signedOff
        BY <2>2 DEF SavesOne
      <3>2. /\ NewStatus(op[h]) \in RowStatus /\ NewStatus(op[h]) # "SUBMITTED"
            /\ NewStatus(op[h]) = "COMPLETED" => op[h] = "complete"
        BY <2>1, NewStatusValue DEF RowStatus
      <3>3. HandlerBacked(h)'
        BY <2>1, <3>1 DEF HandlerBacked
      <3>4. /\ signedOff \subseteq signedOff'
            /\ NewStatus(op[h]) = "COMPLETED" => u \in signedOff'
        BY <3>1, <3>2
      <3> QED  BY <2>1, <3>1, <3>2, <3>3, <3>4, OneRowBacked
    <2>3. CASE Gone(h) /\ UNCHANGED <<rows, signedOff>>
      BY <2>1, <2>3, GoneBacked, RowsAndTaskBacked
    <2> QED  BY <2>1, <2>2, <2>3
  <1>7. CASE SaveTask(h)
    <2>1. /\ OthersStay(h) /\ UNCHANGED <<rows, filed, signedOff>> /\ pc[h] = "saveTask"
          /\ SavesTheTask(h) \/ (Gone(h) /\ UNCHANGED task)
      BY <1>7, SaveTaskFacts DEF StepGoal
    <2>2. CASE SavesTheTask(h)
      <3>1. /\ task'.status = "SUBMITTED" => op[h] = "submit" \/ task.status = "SUBMITTED"
            /\ pc'[h] \in {"idle", "listRows"}
        BY <2>2 DEF SavesTheTask, Gone
      <3>2. Assignees' = Assignees /\ OnRecord' = OnRecord /\ RecordGrows /\ RowsBacked'
        BY <1>0, <2>1 DEF Assignees, OnRecord, RecordGrows, RowsBacked
      <3>3. TaskBacked'
        BY <1>0, <2>1, <3>1, <3>2 DEF TaskBacked, HandlerBacked, Backed
      <3>4. HandlerBacked(h)'
        BY <3>1 DEF HandlerBacked
      <3> QED  BY <2>1, <3>2, <3>3, <3>4 DEF BackedGoal
    <2>3. CASE Gone(h) /\ UNCHANGED task
      BY <2>1, <2>3, GoneBacked, RowsAndTaskBacked
    <2> QED  BY <2>1, <2>2, <2>3
  <1>8. CASE Break(h)
    <2>1. OthersStay(h) /\ Gone(h) /\ UNCHANGED <<task, rows, filed, signedOff>>
      BY <1>8, BreakFacts DEF StepGoal
    <2> QED  BY <2>1, GoneBacked, RowsAndTaskBacked
  <1> QED  BY <1>1, <1>2, <1>3, <1>4, <1>5, <1>6, <1>7, <1>8 DEF Continues

\* The assignees are replaced once and for all.
LEMMA ReassignedStays ==
  ASSUME Base, NEW h \in Handlers, Begins(h) \/ Continues(h)
  PROVE  (reassigned => reassigned') /\ (Replace(h) => reassigned')
  <1>0. HandlerTypes /\ StoreTypes
    BY DEF Base
  <1>1. CASE Begins(h)
    <2>1. UNCHANGED reassigned /\ pc[h] = "idle"
      BY <1>0, <1>1, BeginFacts DEF BeginGoal, history
    <2> QED  BY <2>1 DEF Replace
  <1>2. CASE Continues(h) /\ ~Replace(h)
    <2>1. CASE ReadRow(h) \/ FileSubmission(h) \/ ListRows(h)
      BY <1>2, <2>1, ReadRowFacts, FileFacts, ListRowsFacts DEF history
    <2>2. CASE SaveRow(h) \/ SaveEach(h)
      BY <1>2, <2>2, SaveRowFacts, SaveEachFacts
    <2>3. CASE SaveTask(h) \/ Break(h)
      BY <1>2, <2>3, SaveTaskFacts, BreakFacts
    <2> QED  BY <1>2, <2>1, <2>2, <2>3 DEF Continues
  <1>3. CASE Replace(h)
    BY <1>3 DEF Replace
  <1> QED  BY <1>1, <1>2, <1>3

LEMMA BackedStep ==
  ASSUME Base, BackedInv, [Next]_vars
  PROVE  BackedInv'
  <1>1. CASE UNCHANGED vars
    BY <1>1 DEF vars, handlerVars, history, BackedInv, Backed, RowsBacked, TaskBacked,
                HandlerBacked, OnRecord, Assignees
  <1>2. ASSUME NEW h \in Handlers, Begins(h) \/ Continues(h) PROVE BackedInv'
    <2>1. CASE reassigned'
      BY <2>1 DEF BackedInv
    <2>2. CASE ~reassigned'
      <3>1. Backed /\ ~Replace(h)
        BY <1>2, <2>2, ReassignedStays DEF BackedInv
      <3>2. BackedGoal(h)
        BY <1>2, <3>1, BackedMove
      <3> QED  BY <3>1, <3>2, BackedFrame DEF BackedInv
    <2> QED  BY <2>1, <2>2
  <1> QED  BY <1>1, <1>2, NextSteps

LEMMA InitBacked == Init => BackedInv
  <1> SUFFICES ASSUME Init PROVE Backed
    BY DEF BackedInv
  <1>1. PICK S \in (SUBSET Officials) \ {{}} :
          rows = [u \in Officials |-> IF u \in S THEN "PENDING" ELSE "NONE"]
    BY DEF Init
  <1>2. RowsBacked
    BY <1>1 DEF RowsBacked
  <1>3. TaskBacked /\ \A h \in Handlers : HandlerBacked(h)
    BY DEF Init, TaskBacked, HandlerBacked, NewTask
  <1> QED  BY <1>2, <1>3 DEF Backed

\* PRD 6.1: a task is SUBMITTED only when every assignee has a submission on record or was
\* completed by the Super Admin.  submit looks at the rows and saves the task in two
\* steps: what it saw is still on record, because the record only grows.
THEOREM SubmittedTasksAreBacked == Spec => []SubmittedIsBacked
  <1>1. Base /\ BackedInv => SubmittedIsBacked
    BY TypesJoin DEF Base, BackedInv, Backed, TaskBacked, OnRecord, SubmittedIsBacked
  <1>2. Base /\ BackedInv /\ [Next]_vars => Base' /\ BackedInv'
    BY BaseStep, BackedStep
  <1> QED  BY <1>1, <1>2, InitBase, InitBacked, PTL DEF Spec

-----------------------------------------------------------------------------
(* Who notices the last submission.                                        *)

Undisturbed == ~broken /\ ~interfered /\ ~reassigned

\* Nobody else saves the task while somebody submits, so a submitter has the task as it
\* is, or another submitter has noticed first.
SeesTask(h) == pc[h] # "idle" /\ op[h] = "submit" => seen[h] = task \/ task.status = "SUBMITTED"

AllSubmitted == \A u \in Assignees : rows[u] = "SUBMITTED"

Notices(h) == pc[h] \in {"listRows", "saveTask"} /\ op[h] = "submit"

\* The rows are all handed in and the task does not say so: somebody is to look.
Noticed ==
  AllSubmitted /\ task.status \in {"SCHEDULED", "ACTIVE"} => \E h \in Handlers : Notices(h)

NoticeInv == Undisturbed => Noticed /\ \A h \in Handlers : SeesTask(h)

\* The steps that leave the task.
LEMMA OthersSeeTask ==
  ASSUME NEW h \in Handlers, OthersStay(h), UNCHANGED task, \A g \in Handlers : SeesTask(g),
         \/ Gone(h)
         \/ pc[h] # "idle" /\ (op'[h] = "submit" => op[h] = "submit") /\ seen'[h] = seen[h]
         \/ seen'[h] = task \/ op'[h] # "submit"
  PROVE  \A g \in Handlers : SeesTask(g)'
  <1>1. ASSUME NEW g \in Handlers \ {h} PROVE SeesTask(g)'
    BY DEF OthersStay, SeesTask
  <1>2. SeesTask(h)'
    BY DEF SeesTask, Gone
  <1> QED  BY <1>1, <1>2

LEMMA OthersNotice ==
  ASSUME NEW h \in Handlers, OthersStay(h), UNCHANGED <<task, rows>>, Noticed,
         ~Notices(h)
  PROVE  Noticed'
  <1>1. \A g \in Handlers \ {h} : Notices(g) => Notices(g)'
    BY DEF OthersStay, Notices
  <1>2. AllSubmitted' => AllSubmitted
    BY DEF AllSubmitted, Assignees
  <1> QED  BY <1>1, <1>2 DEF Noticed

NoticeGoal == Noticed' /\ \A g \in Handlers : SeesTask(g)'

LEMMA NoticeMove ==
  ASSUME Base, Backed, Undisturbed, Undisturbed', Noticed, \A g \in Handlers : SeesTask(g),
         NEW h \in Handlers, Begins(h) \/ Continues(h)
  PROVE  NoticeGoal
  <1> HIDE DEF Write
  <1>0. HandlerTypes /\ StoreTypes /\ OpFits(h) /\ SeesTask(h) /\ RowsBacked
    BY DEF Base, Backed
  <1>1. CASE Begins(h)
    <2>1. OthersStay(h) /\ BeginFits(h) /\ UNCHANGED <<task, rows>> /\ pc[h] = "idle"
      BY <1>0, <1>1, BeginFacts DEF BeginGoal
    <2>2. seen'[h] = task \/ op'[h] # "submit"
      BY <2>1 DEF BeginFits
    <2>3. ~Notices(h)
      BY <2>1 DEF Notices
    <2> QED  BY <2>1, <2>2, <2>3, OthersSeeTask, OthersNotice DEF NoticeGoal
  <1>2. CASE ReadRow(h)
    <2>1. /\ OthersStay(h) /\ UNCHANGED <<task, rows>> /\ pc[h] = "readRow"
          /\ Gone(h) \/ (pc'[h] = "file" /\ seen'[h] = seen[h])
      BY <1>2, ReadRowFacts DEF StepGoal
    <2>2. ~Notices(h) /\ op[h] = "submit"
      BY <1>0, <2>1 DEF Notices, OpFits
    <2> QED  BY <2>1, <2>2, OthersSeeTask, OthersNotice DEF NoticeGoal
  <1>3. CASE FileSubmission(h)
    <2>1. /\ OthersStay(h) /\ UNCHANGED <<task, rows>> /\ pc[h] = "file"
          /\ seen'[h] = seen[h]
      BY <1>3, FileFacts DEF StepGoal
    <2>2. ~Notices(h) /\ op[h] = "submit"
      BY <1>0, <2>1 DEF Notices, OpFits
    <2> QED  BY <2>1, <2>2, OthersSeeTask, OthersNotice DEF NoticeGoal
  <1>4. CASE SaveRow(h)
    <2>1. /\ OthersStay(h) /\ pc[h] = "saveRow" /\ UNCHANGED task
          /\ SavesRow(h) \/ (Gone(h) /\ UNCHANGED <<rows, raced>>)
      BY <1>4, SaveRowFacts DEF StepGoal
    <2>2. ~Notices(h)
      BY <2>1 DEF Notices
    <2>3. CASE SavesRow(h)
      <3>1. /\ who[h] \in Assignees /\ Write(h, who[h], NewStatus(op[h]))
            /\ \/ /\ op[h] = "submit" /\ pc'[h] = "listRows" /\ op'[h] = "submit"
                  /\ seen'[h] = seen[h]
               \/ op[h] # "submit" /\ Gone(h)
        BY <2>3 DEF SavesRow
      <3>2. CASE op[h] = "submit"
        <4>1. \A g \in Handlers : SeesTask(g)'
          BY <2>1, <3>1, <3>2, OthersSeeTask
        <4>2. Notices(h)'
          BY <3>1, <3>2 DEF Notices
        <4> QED  BY <4>1, <4>2 DEF Noticed, NoticeGoal
      <3>3. CASE op[h] # "submit"
        <4>1. \A g \in Handlers : SeesTask(g)'
          BY <2>1, <3>1, <3>3, OthersSeeTask
        <4>2. NewStatus(op[h]) \in RowStatus /\ NewStatus(op[h]) # "SUBMITTED"
          BY <1>0, <2>1, <3>3, NewStatusValue DEF OpFits, RowStatus
        <4>3. who[h] \in Assignees' /\ rows'[who[h]] # "SUBMITTED"
          BY <3>1, <4>2, WriteFacts
        <4> QED  BY <4>1, <4>3 DEF Noticed, AllSubmitted, NoticeGoal
      <3> QED  BY <3>2, <3>3
    <2>4. CASE Gone(h) /\ UNCHANGED <<rows, raced>>
      BY <2>1, <2>2, <2>4, OthersSeeTask, OthersNotice DEF NoticeGoal
    <2> QED  BY <2>1, <2>3, <2>4
  <1>5. CASE ListRows(h)
    <2>1. OthersStay(h) /\ ListsRows(h) /\ UNCHANGED <<task, rows>> /\ pc[h] = "listRows"
      BY <1>5, ListRowsFacts DEF StepGoal
    <2>2. \A g \in Handlers : SeesTask(g)'
      BY <2>1, OthersSeeTask DEF ListsRows
    <2>3. CASE op[h] # "submit"
      BY <2>1, <2>2, <2>3, OthersNotice DEF Notices, NoticeGoal
    <2>4. CASE op[h] = "submit" /\ pc'[h] = "saveTask"
      <3>1. Notices(h)'
        BY <2>1, <2>4 DEF ListsRows, Gone, Notices
      <3> QED  BY <2>2, <3>1 DEF Noticed, NoticeGoal
    <2>5. CASE op[h] = "submit" /\ pc'[h] # "saveTask"
      <3>1. ~AllHandedIn \/ seen[h].status = "OVERDUE"
        BY <2>1, <2>5 DEF ListsRows
      <3>2. AllSubmitted' => AllHandedIn
        BY <2>1 DEF AllSubmitted, AllHandedIn, Handed, Assignees
      <3>3. task.status = "SUBMITTED" \/ seen[h] = task
        BY <1>0, <2>1, <2>5 DEF SeesTask
      <3> QED  BY <2>1, <2>2, <3>1, <3>2, <3>3 DEF Noticed, NoticeGoal
    <2> QED  BY <2>3, <2>4, <2>5
  <1>6. CASE SaveEach(h)
    <2>1. /\ OthersStay(h) /\ pc[h] = "saveEach" /\ op[h] \in {"complete", "overdue"}
          /\ UNCHANGED task
          /\ \/ \E u \in Officials : SavesOne(h, u)
             \/ Gone(h) /\ UNCHANGED rows
      BY <1>6, SaveEachFacts DEF StepGoal
    <2>2. ~Notices(h)
      BY <2>1 DEF Notices
    <2>3. ASSUME NEW u \in Officials, SavesOne(h, u) PROVE NoticeGoal
      <3>1. /\ u \in Assignees /\ Write(h, u, NewStatus(op[h])) /\ op'[h] = op[h]
        BY <2>3 DEF SavesOne
      <3>2. NewStatus(op[h]) \in RowStatus /\ NewStatus(op[h]) # "SUBMITTED"
        BY <2>1, NewStatusValue DEF RowStatus
      <3>3. u \in Assignees' /\ rows'[u] # "SUBMITTED"
        BY <3>1, <3>2, WriteFacts
      <3>4. \A g \in Handlers : SeesTask(g)'
        BY <2>1, <3>1, OthersSeeTask
      <3> QED  BY <3>3, <3>4 DEF Noticed, AllSubmitted, NoticeGoal
    <2>4. CASE Gone(h) /\ UNCHANGED rows
      BY <2>1, <2>2, <2>4, OthersSeeTask, OthersNotice DEF NoticeGoal
    <2> QED  BY <2>1, <2>3, <2>4
  <1>7. CASE SaveTask(h)
    <2>1. /\ OthersStay(h) /\ UNCHANGED <<rows, filed>> /\ pc[h] = "saveTask"
          /\ \/ SavesTheTask(h)
             \/ Gone(h) /\ UNCHANGED task /\ seen[h] # task
      BY <1>7, SaveTaskFacts DEF StepGoal
    <2>2. CASE SavesTheTask(h) /\ op[h] = "submit"
      <3>1. task'.status = "SUBMITTED"
        BY <2>2 DEF SavesTheTask
      <3> QED  BY <3>1 DEF Noticed, SeesTask, NoticeGoal
    <2>3. CASE SavesTheTask(h) /\ op[h] # "submit"
      <3>1. filed = {} /\ ~Submitting
        BY <2>3 DEF SavesTheTask, Undisturbed
      <3>2. Gone(h) \/ op'[h] = "reassign"
        BY <2>3 DEF SavesTheTask
      <3>3. \A g \in Handlers : SeesTask(g)'
        BY <2>1, <3>1, <3>2 DEF Submitting, OthersStay, Gone, SeesTask
      <3>4. PICK u \in Officials : rows[u] # "NONE"
        BY <1>0 DEF StoreTypes
      <3>5. u \in Assignees' /\ rows'[u] # "SUBMITTED"
        BY <1>0, <2>1, <3>1, <3>4 DEF Assignees, RowsBacked
      <3> QED  BY <3>3, <3>5 DEF Noticed, AllSubmitted, NoticeGoal
    <2>4. CASE Gone(h) /\ UNCHANGED task /\ seen[h] # task
      <3>1. \A g \in Handlers : SeesTask(g)'
        BY <2>1, <2>4, OthersSeeTask
      <3>2. op[h] = "submit" => task.status = "SUBMITTED"
        BY <1>0, <2>1, <2>4 DEF SeesTask
      <3>3. CASE op[h] = "submit"
        BY <2>4, <3>1, <3>2, <3>3 DEF Noticed, NoticeGoal
      <3>4. CASE op[h] # "submit"
        BY <2>1, <2>4, <3>1, <3>4, OthersNotice DEF Notices, NoticeGoal
      <3> QED  BY <3>3, <3>4
    <2> QED  BY <2>1, <2>2, <2>3, <2>4
  <1>8. CASE Replace(h) \/ Break(h)
    BY <1>8, ReplaceFacts, BreakFacts DEF Undisturbed
  <1> QED  BY <1>1, <1>2, <1>3, <1>4, <1>5, <1>6, <1>7, <1>8 DEF Continues

LEMMA DisturbedStays ==
  ASSUME Base, NEW h \in Handlers, Begins(h) \/ Continues(h), Undisturbed'
  PROVE  Undisturbed
  <1>0. HandlerTypes /\ StoreTypes
    BY DEF Base
  <1>1. CASE Begins(h)
    BY <1>0, <1>1, BeginFacts DEF BeginGoal, history, Undisturbed
  <1>2. CASE ReadRow(h) \/ FileSubmission(h) \/ ListRows(h)
    BY <1>2, ReadRowFacts, FileFacts, ListRowsFacts DEF history, Undisturbed
  <1>3. CASE SaveRow(h) \/ SaveEach(h)
    BY <1>3, SaveRowFacts, SaveEachFacts DEF Undisturbed
  <1>4. CASE SaveTask(h)
    BY <1>4, SaveTaskFacts DEF SavesTheTask, Undisturbed
  <1>5. CASE Replace(h) \/ Break(h)
    BY <1>5, ReplaceFacts, BreakFacts DEF Undisturbed
  <1> QED  BY <1>1, <1>2, <1>3, <1>4, <1>5 DEF Continues

LEMMA NoticeStep ==
  ASSUME Base, BackedInv, NoticeInv, [Next]_vars
  PROVE  NoticeInv'
  <1>1. CASE UNCHANGED vars
    BY <1>1 DEF vars, handlerVars, history, NoticeInv, Undisturbed, Noticed, AllSubmitted,
                Notices, SeesTask, Assignees
  <1>2. ASSUME NEW h \in Handlers, Begins(h) \/ Continues(h) PROVE NoticeInv'
    <2>1. SUFFICES ASSUME Undisturbed' PROVE NoticeGoal
      BY DEF NoticeInv, NoticeGoal
    <2>2. Undisturbed /\ Backed
      BY <1>2, <2>1, DisturbedStays DEF Undisturbed, BackedInv
    <2>3. Noticed /\ \A g \in Handlers : SeesTask(g)
      BY <2>2 DEF NoticeInv
    <2> QED  BY <1>2, <2>1, <2>2, <2>3, NoticeMove
  <1> QED  BY <1>1, <1>2, NextSteps

LEMMA InitNotice == Init => NoticeInv
  <1> SUFFICES ASSUME Init PROVE Noticed /\ \A h \in Handlers : SeesTask(h)
    BY DEF NoticeInv
  <1>1. PICK S \in (SUBSET Officials) \ {{}} :
          rows = [u \in Officials |-> IF u \in S THEN "PENDING" ELSE "NONE"]
    BY DEF Init
  <1>2. PICK u \in S : u \in Officials
    BY <1>1
  <1>3. u \in Assignees /\ rows[u] # "SUBMITTED"
    BY <1>1, <1>2 DEF Assignees
  <1>4. \A h \in Handlers : SeesTask(h)
    BY DEF Init, SeesTask
  <1> QED  BY <1>3, <1>4 DEF Noticed, AllSubmitted

\* Two officials who submit at the same time do not each leave the task to the other:
\* submit saves its row before it lists them, so the last one to save sees them all, and
\* its copy of the task is still the row unless somebody else saved it or was cut short.
THEOREM LastSubmissionNoticed == Spec => []AllSubmittedNoticed
  <1>1. NoticeInv => AllSubmittedNoticed
    BY DEF NoticeInv, Undisturbed, Noticed, AllSubmitted, Notices, Quiet, AllSubmittedNoticed
  <1>2. Base /\ BackedInv /\ NoticeInv /\ [Next]_vars => Base' /\ BackedInv' /\ NoticeInv'
    BY BaseStep, BackedStep, NoticeStep
  <1> QED  BY <1>1, <1>2, InitBase, InitBacked, InitNotice, PTL DEF Spec
=============================================================================
