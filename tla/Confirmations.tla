---------------------------- MODULE Confirmations ----------------------------
(***************************************************************************)
(* Sensitive actions of the Super Admins: a message asks for the action, a *)
(* confirmation is stored, and a second message confirms or discards it    *)
(* within 15 minutes (InboundRouter, ConfirmationService).  Two kinds      *)
(* exist: to cancel a task, here one task all cancellations are about, and *)
(* to announce something to everyone.                                      *)
(*                                                                         *)
(* WhatsApp may deliver a message again, and messages are handled          *)
(* concurrently.  A handler records the message id before anything else,   *)
(* takes the confirmation in one statement and carries the action out      *)
(* afterwards, statement by statement; every await is a step boundary.     *)
(* The confirm and cancel endpoints do the same for a request that is not  *)
(* delivered twice.                                                        *)
(***************************************************************************)
EXTENDS Naturals

CONSTANTS
  Admins,     \* the Super Admins
  Slots,      \* handlings of messages in flight
  Requests,   \* other requests in flight that save the task
  MaxMessages,     \* bound: messages written
  MaxConfs,        \* bound: confirmations asked for
  MaxEvents        \* bound: messages delivered again, saves of the task by others,
                   \* executions of its jobs, store errors and crashes, taken together

ASSUME AdminsAssumption == Admins # {}
ASSUME BoundsAssumption ==
  /\ MaxMessages \in Nat \ {0} /\ MaxConfs \in Nat \ {0}
  /\ MaxEvents \in Nat

\* Messages and confirmations are numbered in the order they are written and inserted.
Messages == 1..MaxMessages
Confs == 1..MaxConfs
NoConf == 0

Kinds == {"askCancel", "askAnnounce", "confirm", "discard"}
Asking == {"askCancel", "askAnnounce"}
Answers == {"asked", "done", "discarded"}

Message == [kind : Kinds \cup {"none"}, conf : Confs \cup {NoConf}, from : Admins]

\* version: expectedVersion in the draft of a task cancellation (0 in an announcement).
Confirmation ==
  [status : {"NONE", "PENDING", "CONFIRMED", "CANCELLED", "EXPIRED"},
   action : {"cancel", "announce"}, owner : Admins, version : Nat]

VARIABLES
  msg,        \* the messages written so far
  again,      \* deliveries of messages delivered before
  processed,  \* processed_messages
  conf,       \* action_confirmations
  outdated,   \* its draft was refused: the publish time has gone by meanwhile, or the
              \* group is no longer active
  task,       \* the task: version, open (not CANCELLED), jobs (it has PENDING or
              \* PROCESSING rows in the ledger)
  scheduled,  \* the announcement made from a draft has its publish job
  pc, at, about, late, version, \* handlings: where, message, confirmation, the clock
                                \* read by confirm, the version FindTask has read
  request,    \* other requests that have saved the task: what they still do to its jobs
  working,    \* the automation is executing a job of the task
  said,       \* history: the answers that reached the admins, by confirmation
  shown,      \* history: the version of the task the question showed its admin
  acted,      \* history: how often a confirmation was acted on, counted up to 2
  revived,    \* history: the jobs the task has now were put into the ledger after it
              \* had been cancelled
  edits, runs, faults  \* history: saves by others, executions of jobs, faults

handling == <<pc, at, about, late, version>>
inbox == <<msg, again, processed>>
others == <<edits, runs, request, working, revived>>
told == <<said, shown>>
vars == <<inbox, conf, outdated, others, task, scheduled, handling, told, acted, faults>>

States ==
  {"idle", "mark", "find", "insert", "expire", "take", "readTask", "saveTask",
   "cancelJobs", "create", "schedule", "tell", "sorry"}

\* update cancels the jobs it finds and makes new ones, cancel only does the first.
RequestStates == {"idle", "clear", "create", "stop"}

TypeOK ==
  /\ msg \in [Messages -> Message]
  /\ again \in 0..MaxEvents
  /\ processed \in SUBSET Messages
  /\ conf \in [Confs -> Confirmation]
  /\ outdated \in [Confs -> BOOLEAN]
  /\ task \in [version : Nat, open : BOOLEAN, jobs : BOOLEAN]
  /\ scheduled \in [Confs -> BOOLEAN]
  /\ pc \in [Slots -> States]
  /\ at \in [Slots -> Messages]
  /\ about \in [Slots -> Confs \cup {NoConf}]
  /\ \A s \in Slots :
       pc[s] \notin {"idle", "mark", "find", "insert", "sorry"} => about[s] # NoConf
  /\ late \in [Slots -> BOOLEAN] /\ version \in [Slots -> Nat]
  /\ request \in [Requests -> RequestStates]
  /\ working \in BOOLEAN /\ revived \in BOOLEAN
  /\ said \in [Confs -> SUBSET Answers] /\ shown \in [Confs -> Nat]
  /\ acted \in [Confs -> 0..2]
  /\ edits \in 0..MaxEvents /\ runs \in 0..MaxEvents /\ faults \in 0..MaxEvents

SomeAdmin == CHOOSE a \in Admins : TRUE

Init ==
  /\ msg = [m \in Messages |-> [kind |-> "none", conf |-> NoConf, from |-> SomeAdmin]]
  /\ again = 0
  /\ processed = {}
  /\ conf = [c \in Confs |->
       [status |-> "NONE", action |-> "cancel", owner |-> SomeAdmin, version |-> 0]]
  /\ outdated = [c \in Confs |-> FALSE]
  /\ task = [version |-> 1, open |-> TRUE, jobs |-> TRUE]
  /\ scheduled = [c \in Confs |-> FALSE]
  /\ pc = [s \in Slots |-> "idle"]
  /\ at = [s \in Slots |-> 1]
  /\ about = [s \in Slots |-> NoConf]
  /\ late = [s \in Slots |-> FALSE]
  /\ version = [s \in Slots |-> 0]
  /\ request = [r \in Requests |-> "idle"]
  /\ working = FALSE /\ revived = FALSE
  /\ said = [c \in Confs |-> {}] /\ shown = [c \in Confs |-> 0]
  /\ acted = [c \in Confs |-> 0]
  /\ edits = 0 /\ runs = 0 /\ faults = 0

-----------------------------------------------------------------------------
(* Admins and WhatsApp.                                                    *)

CanHappen == again + edits + runs + faults < MaxEvents
Written(m) == msg[m].kind # "none"

\* messages.upsert: every message of a batch is handled at once, whatever runs already.
Handle(s, m) ==
  /\ pc[s] = "idle"
  /\ pc' = [pc EXCEPT ![s] = "mark"]
  /\ at' = [at EXCEPT ![s] = m]
  /\ UNCHANGED <<processed, conf, outdated, others, task, scheduled, about, late, version,
                 told, acted, faults>>

\* A new message.  The id of a confirmation is known from the reply to the question,
\* which another admin may have seen too.
Deliver(s, m, kind, c, a) ==
  /\ ~Written(m) /\ \A n \in 1..(m - 1) : Written(n)
  /\ IF kind \in Asking THEN c = NoConf ELSE c # NoConf /\ "asked" \in said[c]
  /\ msg' = [msg EXCEPT ![m] = [kind |-> kind, conf |-> c, from |-> a]]
  /\ UNCHANGED again
  /\ Handle(s, m)

Redeliver(s, m) ==
  /\ Written(m) /\ CanHappen
  /\ again' = again + 1
  /\ UNCHANGED msg
  /\ Handle(s, m)

-----------------------------------------------------------------------------
(* Handling a message (InboundRouter.handle and handleAdmin).              *)

Msg(s) == msg[at[s]]
Goto(s, state) == pc' = [pc EXCEPT ![s] = state]

Finish(s) ==
  /\ Goto(s, "idle")
  /\ at' = [at EXCEPT ![s] = 1]
  /\ about' = [about EXCEPT ![s] = NoConf]
  /\ late' = [late EXCEPT ![s] = FALSE]
  /\ version' = [version EXCEPT ![s] = 0]

\* An error below 500 reaches the catch block of handle(), which replies with its message.
Refuse(s) == Finish(s)

First == [askCancel |-> "find", askAnnounce |-> "insert",
          confirm |-> "expire", discard |-> "expire"]

\* markMessageProcessed: INSERT ... ON CONFLICT DO NOTHING.
Mark(s) ==
  /\ pc[s] = "mark"
  /\ IF at[s] \in processed
     THEN Finish(s) /\ UNCHANGED processed
     ELSE /\ processed' = processed \cup {at[s]}
          /\ Goto(s, First[Msg(s).kind])
          /\ about' = [about EXCEPT ![s] = Msg(s).conf]
          /\ UNCHANGED <<at, late, version>>
  /\ UNCHANGED <<msg, again, conf, outdated, others, task, scheduled, told, acted, faults>>

\* resolveTaskReference: among the active tasks; otherwise the admin is asked which.
FindTask(s) ==
  /\ pc[s] = "find"
  /\ IF task.open
     THEN Goto(s, "insert") /\ version' = [version EXCEPT ![s] = task.version]
                            /\ UNCHANGED <<at, about, late>>
     ELSE Finish(s)
  /\ UNCHANGED <<inbox, conf, outdated, others, task, scheduled, told, acted, faults>>

\* A draft that reads the version again.
InsertLatest(s, c) ==
  /\ pc[s] = "insert"
  /\ conf[c].status = "NONE" /\ \A d \in 1..(c - 1) : conf[d].status # "NONE"
  /\ conf' = [conf EXCEPT ![c] =
       [status |-> "PENDING", owner |-> Msg(s).from, version |-> task.version,
        action |-> IF Msg(s).kind = "askCancel" THEN "cancel" ELSE "announce"]]
  /\ about' = [about EXCEPT ![s] = c]
  /\ Goto(s, "tell")
  /\ UNCHANGED <<inbox, outdated, others, task, scheduled, at, late, version, told, acted,
                 faults>>

\* createActionConfirmation, under a new id; its 15 minutes begin.
Insert(s, c) ==
  /\ pc[s] = "insert"
  /\ conf[c].status = "NONE" /\ \A d \in 1..(c - 1) : conf[d].status # "NONE"
  /\ conf' = [conf EXCEPT ![c] =
       [status |-> "PENDING", owner |-> Msg(s).from, version |-> version[s],
        action |-> IF Msg(s).kind = "askCancel" THEN "cancel" ELSE "announce"]]
  /\ about' = [about EXCEPT ![s] = c]
  /\ Goto(s, "tell")
  /\ UNCHANGED <<inbox, outdated, others, task, scheduled, at, late, version, told, acted,
                 faults>>

\* The first UPDATE of confirmActionConfirmation and cancelActionConfirmation.  Both
\* statements get the time read here: the 15 minutes may be over, which is on record
\* from then on.
Expire(s) ==
  /\ pc[s] = "expire"
  /\ \E over \in BOOLEAN :
       /\ late' = [late EXCEPT ![s] = over]
       /\ conf' = IF over /\ conf[about[s]].status = "PENDING"
                  THEN [conf EXCEPT ![about[s]].status = "EXPIRED"]
                  ELSE conf
  /\ Goto(s, "take")
  /\ UNCHANGED <<inbox, outdated, others, task, scheduled, at, about, version, told, acted,
                 faults>>

\* Without the requester in the WHERE clause.
PendingForAnyone(s) == conf[about[s]].status = "PENDING" /\ ~late[s]

Pending(s) ==
  /\ conf[about[s]].status = "PENDING" /\ ~late[s]
  /\ conf[about[s]].owner = Msg(s).from

\* The second UPDATE: it takes a pending confirmation of the sender's own.
Take(s) ==
  /\ pc[s] = "take"
  /\ IF ~Pending(s)
     THEN Refuse(s) /\ UNCHANGED conf
     ELSE /\ IF Msg(s).kind = "discard"
             THEN /\ Goto(s, "tell")
                  /\ conf' = [conf EXCEPT ![about[s]].status = "CANCELLED"]
             ELSE /\ Goto(s, IF conf[about[s]].action = "cancel" THEN "readTask" ELSE "create")
                  /\ conf' = [conf EXCEPT ![about[s]].status = "CONFIRMED"]
          /\ UNCHANGED <<at, about, late, version>>
  /\ UNCHANGED <<inbox, outdated, others, task, scheduled, told, acted, faults>>

-----------------------------------------------------------------------------
(* Acting on it.                                                           *)

UpTo2(n) == IF n > 2 THEN 2 ELSE n
Acted(s) == acted' = [acted EXCEPT ![about[s]] = UpTo2(@ + 1)]

\* TaskService.cancel: a task that is CANCELLED already is returned as it is.
ReadTask(s) ==
  /\ pc[s] = "readTask"
  /\ Goto(s, IF task.open THEN "saveTask" ELSE "tell")
  /\ UNCHANGED <<inbox, conf, outdated, others, task, scheduled, at, about, late, version,
                 told, acted, faults>>

\* A cancellation that leaves the jobs to find out for themselves.
SaveTaskKeepsJobs(s) ==
  /\ pc[s] = "saveTask"
  /\ IF task.version = conf[about[s]].version
     THEN /\ task' = [task EXCEPT !.version = @ + 1, !.open = FALSE]
          /\ Goto(s, "tell") /\ Acted(s)
          /\ UNCHANGED <<at, about, late, version>>
     ELSE Refuse(s) /\ UNCHANGED <<task, acted>>
  /\ UNCHANGED <<inbox, conf, outdated, others, scheduled, told, faults>>

\* A draft that holds the version the cancellation will make.
SaveTaskOffByOne(s) ==
  /\ pc[s] = "saveTask"
  /\ IF task.version + 1 = conf[about[s]].version
     THEN /\ task' = [task EXCEPT !.version = @ + 1, !.open = FALSE]
          /\ Goto(s, "cancelJobs") /\ Acted(s)
          /\ UNCHANGED <<at, about, late, version>>
     ELSE Refuse(s) /\ UNCHANGED <<task, acted>>
  /\ UNCHANGED <<inbox, conf, outdated, others, scheduled, told, faults>>

\* saveTask, at the version the draft was made of; a conflict is answered with 409.
SaveTask(s) ==
  /\ pc[s] = "saveTask"
  /\ IF task.version = conf[about[s]].version
     THEN /\ task' = [task EXCEPT !.version = @ + 1, !.open = FALSE]
          /\ Goto(s, "cancelJobs") /\ Acted(s)
          /\ UNCHANGED <<at, about, late, version>>
     ELSE Refuse(s) /\ UNCHANGED <<task, acted>>
  /\ UNCHANGED <<inbox, conf, outdated, others, scheduled, told, faults>>

\* cancelJobsForEntity: every row that is PENDING or PROCESSING.
NoJobs ==
  /\ task' = [task EXCEPT !.jobs = FALSE]
  /\ revived' = FALSE

CancelJobs(s) ==
  /\ pc[s] = "cancelJobs"
  /\ NoJobs
  /\ Goto(s, "tell")
  /\ UNCHANGED <<inbox, conf, outdated, edits, runs, request, working, scheduled, at, about,
                 late, version, told, acted, faults>>

\* AnnouncementService.create refuses a draft that no longer holds.
CreateAnnouncement(s) ==
  /\ pc[s] = "create"
  /\ \/ /\ outdated' = [outdated EXCEPT ![about[s]] = TRUE]
        /\ Refuse(s) /\ UNCHANGED acted
     \/ /\ Goto(s, "schedule") /\ Acted(s)
        /\ UNCHANGED <<outdated, at, about, late, version>>
  /\ UNCHANGED <<inbox, conf, others, task, scheduled, told, faults>>

SchedulePublish(s) ==
  /\ pc[s] = "schedule"
  /\ scheduled' = [scheduled EXCEPT ![about[s]] = TRUE]
  /\ Goto(s, "tell")
  /\ UNCHANGED <<inbox, conf, outdated, others, task, at, about, late, version, told, acted,
                 faults>>

-----------------------------------------------------------------------------
(* Replying.                                                               *)

\* The question names the task as FindTask has read it.
Say(s, answer) ==
  /\ said' = [said EXCEPT ![about[s]] = @ \cup {answer}]
  /\ shown' = IF answer = "asked" THEN [shown EXCEPT ![about[s]] = version[s]] ELSE shown

Reply == [askCancel |-> "asked", askAnnounce |-> "asked",
          confirm |-> "done", discard |-> "discarded"]

\* respond: silent while disconnected, and the send may throw.
Tell(s) ==
  /\ pc[s] = "tell"
  /\ \/ Say(s, Reply[Msg(s).kind]) /\ Finish(s)
     \/ UNCHANGED told /\ Finish(s)
     \/ UNCHANGED <<told, at, about, late, version>> /\ Goto(s, "sorry")
  /\ UNCHANGED <<inbox, conf, outdated, others, task, scheduled, acted, faults>>

\* The catch block of handle() after any other error: "please try again in a moment".
Apologise(s) ==
  /\ pc[s] = "sorry"
  /\ Finish(s)
  /\ UNCHANGED <<inbox, conf, outdated, others, task, scheduled, told, acted, faults>>

-----------------------------------------------------------------------------
(* Other requests, and faults.                                             *)

\* TaskService.update or cancel, up to its saveTask, or any other save that leaves the task
\* active (a receipt, a deadline, a submission).  No confirmation is needed at the
\* endpoints; what the request does to the jobs comes after the save.
EditTask(r) ==
  /\ request[r] = "idle" /\ task.open /\ CanHappen
  /\ edits' = edits + 1
  /\ \E state \in {"idle", "clear", "stop"} :
       /\ request' = [request EXCEPT ![r] = state]
       /\ task' = [task EXCEPT !.version = @ + 1, !.open = (state # "stop")]
  /\ UNCHANGED <<inbox, conf, outdated, runs, working, revived, scheduled, handling, told,
                 acted, faults>>

OnlyJobs ==
  UNCHANGED <<inbox, conf, outdated, edits, scheduled, handling, told, acted, faults>>

ClearJobs(r) ==
  /\ request[r] \in {"clear", "stop"}
  /\ NoJobs
  /\ request' = [request EXCEPT ![r] = IF @ = "clear" THEN "create" ELSE "idle"]
  /\ UNCHANGED <<runs, working>> /\ OnlyJobs

\* Rows that are PENDING, with whatever has become of the task.
AddJobs ==
  /\ task' = [task EXCEPT !.jobs = TRUE]
  /\ revived' = (revived \/ ~(task.open \/ task.jobs))

\* scheduleLifecycle makes one job after the other, and the recurrence job follows.
CreateJobs(r) ==
  /\ request[r] = "create"
  /\ AddJobs
  /\ \E state \in {"create", "idle"} : request' = [request EXCEPT ![r] = state]
  /\ UNCHANGED <<runs, working>> /\ OnlyJobs

\* claimJob.
StartJob ==
  /\ task.jobs /\ ~working /\ CanHappen
  /\ working' = TRUE /\ runs' = runs + 1
  /\ UNCHANGED <<task, request, revived>> /\ OnlyJobs

\* The job was the last one, or it was not (or has been cancelled meanwhile).
EndJob ==
  /\ working
  /\ working' = FALSE
  /\ \E jobs \in {FALSE, task.jobs} : task' = [task EXCEPT !.jobs = jobs]
  /\ UNCHANGED <<runs, request, revived>> /\ OnlyJobs

\* failJob with a retry puts its row back whatever it has become; others may still run.
ReturnJob ==
  /\ working
  /\ \E more \in BOOLEAN : working' = more
  /\ AddJobs
  /\ UNCHANGED <<runs, request>> /\ OnlyJobs

Fault == CanHappen /\ faults' = faults + 1

\* A statement throws.  markMessageProcessed is outside the try of handle().
StoreError(s) ==
  /\ pc[s] \notin {"idle", "sorry"} /\ Fault
  /\ IF pc[s] = "mark"
     THEN Finish(s)
     ELSE Goto(s, "sorry") /\ UNCHANGED <<at, about, late, version>>
  /\ UNCHANGED <<inbox, conf, outdated, others, task, scheduled, told, acted>>

\* A statement of another request throws, and the request ends there.
RequestFails(r) ==
  /\ request[r] # "idle" /\ Fault
  /\ request' = [request EXCEPT ![r] = "idle"]
  /\ UNCHANGED <<inbox, conf, outdated, edits, runs, working, revived, task, scheduled, handling,
                 told, acted>>

Crash ==
  /\ Fault
  /\ request' = [r \in Requests |-> "idle"] /\ working' = FALSE
  /\ pc' = [s \in Slots |-> "idle"]
  /\ at' = [s \in Slots |-> 1]
  /\ about' = [s \in Slots |-> NoConf]
  /\ late' = [s \in Slots |-> FALSE]
  /\ version' = [s \in Slots |-> 0]
  /\ UNCHANGED <<inbox, conf, outdated, edits, runs, revived, task, scheduled, told, acted>>

-----------------------------------------------------------------------------
Step(s) ==
  \/ Mark(s) \/ FindTask(s) \/ (\E c \in Confs : Insert(s, c)) \/ Expire(s) \/ Take(s)
  \/ ReadTask(s) \/ SaveTask(s) \/ CancelJobs(s)
  \/ CreateAnnouncement(s) \/ SchedulePublish(s)
  \/ Tell(s) \/ Apologise(s)

Next ==
  \/ \E s \in Slots, m \in Messages, kind \in Kinds, c \in Confs \cup {NoConf}, a \in Admins :
       Deliver(s, m, kind, c, a)
  \/ \E s \in Slots, m \in Messages : Redeliver(s, m)
  \/ \E s \in Slots : Step(s) \/ StoreError(s)
  \/ \E r \in Requests : EditTask(r) \/ ClearJobs(r) \/ CreateJobs(r) \/ RequestFails(r)
  \/ StartJob \/ EndJob \/ ReturnJob
  \/ Crash

Spec == Init /\ [][Next]_vars

-----------------------------------------------------------------------------
(* Properties.                                                             *)

ConfirmedByOwner(c) ==
  \E m \in processed : msg[m] = [kind |-> "confirm", conf |-> c, from |-> conf[c].owner]

\* PRD 5.2: an action is carried out only after its requester has confirmed it, once
\* however often that is said, delivered and retried, and not after "That announcement
\* will not be published" has been answered.
ActedWithConsent ==
  \A c \in Confs :
    /\ acted[c] <= 1
    /\ acted[c] > 0 => conf[c].status = "CONFIRMED" /\ ConfirmedByOwner(c)
    /\ "discarded" \in said[c] => conf[c].status = "CANCELLED"

Stopping ==
  (\E s \in Slots : pc[s] = "cancelJobs") \/ \E r \in Requests : request[r] = "stop"

\* "I've cancelled the task and stopped its remaining reminders": the task is cancelled, and
\* the jobs it had are, or a cancellation under way is about to stop them; jobs it still
\* has were put into the ledger afterwards, by an update that was saved before or by
\* failJob.  "I've scheduled the announcement": it has its job.
DoneIsDone ==
  \A c \in Confs : "done" \in said[c] =>
    IF conf[c].action = "cancel"
    THEN ~task.open /\ (task.jobs => revived \/ Stopping \/ faults > 0)
    ELSE acted[c] = 1 /\ scheduled[c]

\* PRD 5.2 "Never accept `confirm` from ... a changed draft": a confirmation cancels the
\* task only in the version its question has shown, whoever saves the task between the
\* reading of the task, the insertion of the draft, the question and the answer.
CancelsWhatWasShown ==
  [][\A c \in Confs : conf[c].action = "cancel" /\ acted'[c] > acted[c]
       => "asked" \in said[c] /\ shown[c] = task.version]_vars

Fulfilled(c) == acted[c] > 0 \/ (conf[c].action = "cancel" /\ ~task.open)

Acting(s, c) == about[s] = c /\ pc[s] \in {"readTask", "saveTask", "create"}

\* A confirmation that has been taken is being acted on by one handling, and is acted on
\* in the end, unless something fails or what was asked no longer holds.
ConsentIsActedOn ==
  \A c \in Confs : conf[c].status = "CONFIRMED" =>
    Fulfilled(c) \/ outdated[c] \/ edits > 0 \/ faults > 0 \/ \E s \in Slots : Acting(s, c)
=============================================================================
