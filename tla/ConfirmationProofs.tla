------------------------- MODULE ConfirmationProofs -------------------------
(***************************************************************************)
(* Proofs about Confirmations.  A confirmation leaves PENDING once, in one *)
(* statement, so one handling at most is acting on it; everything else     *)
(* only ever grows, and what a handling knows of it stays true.            *)
(***************************************************************************)
EXTENDS Confirmations, TLAPS

ActStates == {"readTask", "saveTask", "create"}
TakenStates == ActStates \cup {"cancelJobs", "schedule"}
NamedStates == TakenStates \cup {"expire", "take", "tell"}

\* What the answer to a confirmation says.
Done(c) ==
  IF conf[c].action = "cancel" THEN ~task.open ELSE acted[c] = 1 /\ scheduled[c]

\* What a handling relies on, by the state it has reached.
SlotInv(s) ==
  /\ pc[s] # "idle" => Written(at[s])
  /\ pc[s] \in NamedStates \cup {"find", "insert"} => at[s] \in processed
  /\ pc[s] = "find" => Msg(s).kind = "askCancel"
  /\ pc[s] = "insert" =>
       /\ Msg(s).kind \in Asking
       /\ Msg(s).kind = "askCancel" /\ edits = 0 /\ task.open => version[s] = task.version
  /\ pc[s] \in {"expire", "take"} => Msg(s).kind \in {"confirm", "discard"}
  /\ pc[s] \in NamedStates =>
       /\ about[s] \in Confs /\ conf[about[s]].status # "NONE"
       /\ Msg(s).kind \notin Asking => about[s] = Msg(s).conf
  /\ pc[s] \in TakenStates =>
       Msg(s).kind = "confirm" /\ conf[about[s]].status = "CONFIRMED"
  /\ pc[s] \in {"readTask", "saveTask", "cancelJobs"} => conf[about[s]].action = "cancel"
  /\ pc[s] \in {"create", "schedule"} => conf[about[s]].action = "announce"
  /\ pc[s] \in ActStates => acted[about[s]] = 0
  /\ pc[s] = "cancelJobs" => ~task.open
  /\ pc[s] = "schedule" => acted[about[s]] = 1
  /\ pc[s] = "tell" /\ Msg(s).kind = "confirm" =>
       conf[about[s]].status = "CONFIRMED" /\ Done(about[s])
  /\ pc[s] = "tell" /\ Msg(s).kind = "discard" => conf[about[s]].status = "CANCELLED"
  /\ pc[s] = "tell" /\ Msg(s).kind \in Asking => version[s] = conf[about[s]].version

MessageInv ==
  \A m \in Messages :
    /\ m \in processed => Written(m)
    /\ msg[m].kind \in {"confirm", "discard"} =>
         /\ msg[m].conf \in Confs /\ conf[msg[m].conf].status # "NONE"
         /\ "asked" \in said[msg[m].conf]

ConfInv(c) ==
  /\ "asked" \in said[c] => conf[c].status # "NONE" /\ shown[c] = conf[c].version
  /\ "done" \in said[c] => conf[c].status = "CONFIRMED" /\ Done(c)
  /\ "discarded" \in said[c] => conf[c].status = "CANCELLED"
  /\ acted[c] <= 1
  /\ acted[c] > 0 => conf[c].status = "CONFIRMED"
  /\ conf[c].status = "CONFIRMED" => ConfirmedByOwner(c)
  /\ conf[c].status # "NONE" /\ conf[c].action = "cancel" /\ edits = 0 /\ task.open
       => conf[c].version = task.version
  /\ conf[c].status = "CONFIRMED" =>
       Fulfilled(c) \/ outdated[c] \/ edits > 0 \/ faults > 0 \/ \E s \in Slots : Acting(s, c)

\* The handling that took a confirmation is the only one to act on it.
Exclusive ==
  \A s, t \in Slots : pc[s] \in ActStates /\ pc[t] \in ActStates /\ about[s] = about[t] => s = t

\* The jobs a cancelled task has are about to be stopped, or were made afterwards, unless
\* a fault has kept them from being stopped.
JobsInv ==
  ~task.open /\ task.jobs => revived \/ Stopping \/ faults > 0

Inv ==
  /\ TypeOK
  /\ \A s \in Slots : SlotInv(s)
  /\ MessageInv
  /\ \A c \in Confs : ConfInv(c)
  /\ Exclusive
  /\ JobsInv

-----------------------------------------------------------------------------
(* What every step does to what is stored.                                 *)

\* Another request saves the task, or a step changes the jobs of the task only.
Edit == \E r \in Requests : EditTask(r)

JobStep ==
  \/ \E r \in Requests : ClearJobs(r) \/ CreateJobs(r) \/ RequestFails(r)
  \/ StartJob \/ EndJob \/ ReturnJob

Tasks == [version : Nat, open : BOOLEAN, jobs : BOOLEAN]

\* The step is one of this handling.
Moves(s) ==
  \/ \E m \in Messages, kind \in Kinds, c \in Confs \cup {NoConf}, a \in Admins :
       Deliver(s, m, kind, c, a)
  \/ \E m \in Messages : Redeliver(s, m)
  \/ Step(s) \/ StoreError(s)

Still(t) ==
  /\ pc'[t] = pc[t] /\ at'[t] = at[t] /\ about'[t] = about[t]
  /\ late'[t] = late[t] /\ version'[t] = version[t]

\* Where handlings go, and with what.
LEMMA Going ==
  ASSUME NEW s \in Slots, NEW state, TypeOK, Goto(s, state)
  PROVE  pc'[s] = state /\ \A t \in Slots \ {s} : pc'[t] = pc[t]
  BY DEF TypeOK, Goto

LEMMA Finishing ==
  ASSUME NEW s \in Slots, TypeOK, Finish(s)
  PROVE  /\ pc' \in [Slots -> States] /\ pc'[s] = "idle"
         /\ at' \in [Slots -> Messages] /\ about' \in [Slots -> Confs \cup {NoConf}]
         /\ late' \in [Slots -> BOOLEAN] /\ version' \in [Slots -> Nat]
         /\ \A t \in Slots \ {s} : Still(t)
         /\ \A t \in Slots :
              pc'[t] \notin {"idle", "mark", "find", "insert", "sorry"} => about'[t] # NoConf
  BY BoundsAssumption DEF TypeOK, Finish, Goto, Still, Messages, States

\* What the cancellation leaves of the task.
LEMMA TaskCancelled ==
  ASSUME TypeOK, task' = [task EXCEPT !.version = @ + 1, !.open = FALSE]
  PROVE  task' \in [version : Nat, open : BOOLEAN, jobs : BOOLEAN] /\ ~task'.open
  <1>1. task = [version |-> task.version, open |-> task.open, jobs |-> task.jobs]
    BY DEF TypeOK
  <1>2. task' = [version |-> task.version + 1, open |-> FALSE, jobs |-> task.jobs]
    BY <1>1
  <1>3. task.version + 1 \in Nat /\ task.jobs \in BOOLEAN
    BY DEF TypeOK
  <1>4. QED
    BY <1>2, <1>3

\* What the save of another request leaves of it.
LEMMA TaskEdited ==
  ASSUME TypeOK, NEW r \in Requests, EditTask(r)
  PROVE  /\ task' \in Tasks /\ task.open /\ task'.jobs = task.jobs
         /\ ~task'.open => request'[r] = "stop"
         /\ request' \in [Requests -> RequestStates] /\ edits' = edits + 1 /\ CanHappen
         /\ UNCHANGED <<inbox, conf, outdated, runs, working, revived, scheduled, handling, told,
                        acted, faults>>
  <1>1. PICK state \in {"idle", "clear", "stop"} :
          /\ request' = [request EXCEPT ![r] = state]
          /\ task' = [task EXCEPT !.version = @ + 1, !.open = (state # "stop")]
    BY DEF EditTask
  <1>2. task = [version |-> task.version, open |-> task.open, jobs |-> task.jobs]
        /\ task.version \in Nat /\ task.jobs \in BOOLEAN
    BY DEF TypeOK
  <1>3. task' = [version |-> task.version + 1, open |-> state # "stop", jobs |-> task.jobs]
    BY <1>1, <1>2
  <1>4. task.version + 1 \in Nat
    BY <1>2
  <1>5. task' \in Tasks /\ task'.jobs = task.jobs /\ task'.open = (state # "stop")
    BY <1>2, <1>3, <1>4, Zenon DEF Tasks
  <1>6. request' \in [Requests -> RequestStates] /\ request'[r] = state
    BY <1>1 DEF TypeOK, RequestStates
  <1>7. QED
    BY <1>5, <1>6 DEF EditTask

\* What the other steps leave of it.
LEMMA JobsChanged ==
  ASSUME TypeOK, JobStep
  PROVE  /\ task' \in Tasks /\ task'.open = task.open /\ task'.version = task.version
         /\ request' \in [Requests -> RequestStates]
         /\ working' \in BOOLEAN /\ revived' \in BOOLEAN /\ runs' \in 0..MaxEvents
         /\ faults' = faults \/ (faults' = faults + 1 /\ CanHappen)
         /\ UNCHANGED <<inbox, conf, outdated, edits, scheduled, handling, told, acted>>
  <1>. USE BoundsAssumption DEF TypeOK, RequestStates, NoJobs, AddJobs, OnlyJobs, Tasks
  <1>1. ASSUME NEW jobs \in BOOLEAN, task' = [task EXCEPT !.jobs = jobs]
        PROVE  task' \in Tasks /\ task'.open = task.open /\ task'.version = task.version
    BY <1>1
  <1>2. ASSUME NEW r \in Requests, ClearJobs(r)
        PROVE  task' = [task EXCEPT !.jobs = FALSE] /\ request' \in [Requests -> RequestStates]
    BY <1>2 DEF ClearJobs
  <1>3. ASSUME NEW r \in Requests, CreateJobs(r)
        PROVE  /\ task' = [task EXCEPT !.jobs = TRUE] /\ revived' \in BOOLEAN
               /\ request' \in [Requests -> RequestStates]
    BY <1>3 DEF CreateJobs
  <1>4. ASSUME NEW r \in Requests, RequestFails(r)
        PROVE  UNCHANGED task /\ request' \in [Requests -> RequestStates]
               /\ faults' = faults + 1 /\ CanHappen
    BY <1>4 DEF RequestFails, Fault
  <1>5. CanHappen => runs + 1 \in 0..MaxEvents
    BY DEF CanHappen
  <1>6. CASE \E r \in Requests : ClearJobs(r) \/ CreateJobs(r) \/ RequestFails(r)
    <2>1. PICK r \in Requests : ClearJobs(r) \/ CreateJobs(r) \/ RequestFails(r)
      BY <1>6
    <2>2. CASE ClearJobs(r)
      BY <1>1, <1>2, <2>2 DEF ClearJobs
    <2>3. CASE CreateJobs(r)
      BY <1>1, <1>3, <2>3 DEF CreateJobs
    <2>4. CASE RequestFails(r)
      BY <1>4, <2>4 DEF RequestFails
    <2>5. QED
      BY <2>1, <2>2, <2>3, <2>4
  <1>7. CASE StartJob
    BY <1>5, <1>7 DEF StartJob
  <1>8. CASE EndJob
    <2>1. PICK jobs \in {FALSE, task.jobs} : task' = [task EXCEPT !.jobs = jobs]
      BY <1>8 DEF EndJob
    <2>2. jobs \in BOOLEAN
      OBVIOUS
    <2>3. QED
      BY <1>1, <1>8, <2>1, <2>2 DEF EndJob
  <1>9. CASE ReturnJob
    BY <1>1, <1>9 DEF ReturnJob
  <1>10. QED
    BY <1>6, <1>7, <1>8, <1>9 DEF JobStep

\* What counts as acting.
LEMMA Counting ==
  ASSUME NEW s \in Slots, TypeOK, about[s] \in Confs, Acted(s)
  PROVE  /\ acted' \in [Confs -> 0..2]
         /\ acted[about[s]] = 0 => acted'[about[s]] = 1
         /\ \A c \in Confs \ {about[s]} : acted'[c] = acted[c]
  <1>1. acted[about[s]] \in 0..2
    BY DEF TypeOK
  <1>2. UpTo2(acted[about[s]] + 1) \in 0..2
    BY <1>1 DEF UpTo2
  <1>3. acted' = [acted EXCEPT ![about[s]] = UpTo2(acted[about[s]] + 1)]
    BY DEF Acted
  <1>4. acted[about[s]] = 0 => UpTo2(acted[about[s]] + 1) = 1
    BY DEF UpTo2
  <1>5. QED
    BY <1>2, <1>3, <1>4 DEF TypeOK

\* An UPDATE of the status of a confirmation.
LEMMA StatusSaved ==
  ASSUME TypeOK, NEW c \in Confs,
         NEW status \in {"CONFIRMED", "CANCELLED", "EXPIRED"},
         conf' = [conf EXCEPT ![c].status = status]
  PROVE  /\ conf' \in [Confs -> Confirmation]
         /\ conf'[c].status = status /\ conf'[c].owner = conf[c].owner
         /\ conf'[c].action = conf[c].action /\ conf'[c].version = conf[c].version
         /\ \A d \in Confs \ {c} : conf'[d] = conf[d]
  BY DEF TypeOK, Confirmation

\* createActionConfirmation.
LEMMA Inserted ==
  ASSUME Inv, NEW s \in Slots, NEW c \in Confs, Insert(s, c)
  PROVE  /\ conf' \in [Confs -> Confirmation]
         /\ conf'[c].status = "PENDING" /\ conf'[c].owner = Msg(s).from
         /\ conf'[c].version = version[s]
         /\ conf'[c].action = IF Msg(s).kind = "askCancel" THEN "cancel" ELSE "announce"
         /\ \A d \in Confs \ {c} : conf'[d] = conf[d]
  <1>1. Msg(s).from \in Admins /\ version[s] \in Nat
    BY DEF Inv, TypeOK, Msg, Message
  <1>2. QED
    BY <1>1 DEF Insert, Inv, TypeOK, Confirmation

-----------------------------------------------------------------------------
(* Type correctness.                                                       *)

LEMMA InitType == Init => TypeOK
  <1>. SUFFICES ASSUME Init PROVE TypeOK
    OBVIOUS
  <1>1. SomeAdmin \in Admins
    BY AdminsAssumption DEF SomeAdmin
  <1>2. 1 \in Messages /\ 0 \in 0..MaxEvents
    BY BoundsAssumption DEF Messages
  <1>3. request \in [Requests -> RequestStates] /\ shown \in [Confs -> Nat]
    BY DEF Init, RequestStates
  <1>4. working \in BOOLEAN /\ revived \in BOOLEAN
    BY Zenon DEF Init
  <1>5. QED
    BY <1>1, <1>2, <1>3, <1>4 DEF Init, TypeOK, Message, Confirmation, States, Kinds

\* A delivery keeps the types.
LEMMA DeliveryType ==
  ASSUME TypeOK, NEW s \in Slots, NEW m \in Messages,
         \/ \E kind \in Kinds, c \in Confs \cup {NoConf}, a \in Admins : Deliver(s, m, kind, c, a)
         \/ Redeliver(s, m)
  PROVE  TypeOK'
  <1>1. msg' \in [Messages -> Message]
    BY DEF Deliver, Redeliver, TypeOK, Message
  <1>2. again' \in 0..MaxEvents
    BY BoundsAssumption DEF Deliver, Redeliver, TypeOK, CanHappen
  <1>3. Handle(s, m)
    BY DEF Deliver, Redeliver
  <1>4. QED
    BY <1>1, <1>2, <1>3 DEF TypeOK, Handle, States, others, told

\* The steps of a handling up to the answer it takes keep the types.
LEMMA TakingType ==
  ASSUME Inv, NEW s \in Slots,
         Mark(s) \/ FindTask(s) \/ (\E c \in Confs : Insert(s, c)) \/ Expire(s) \/ Take(s)
  PROVE  TypeOK'
  <1>. USE DEF TypeOK, States, Goto, inbox, others, told
  <1>0. TypeOK /\ SlotInv(s)
    BY DEF Inv
  <1>1. CASE Mark(s)
    <2>1. CASE at[s] \in processed
      BY <1>0, <1>1, <2>1, Finishing DEF Mark
    <2>2. CASE at[s] \notin processed
      <3>1. Written(at[s]) /\ Msg(s) \in Message
        BY <1>0, <1>1 DEF Mark, SlotInv, Msg
      <3>2. Msg(s).conf \in Confs \cup {NoConf}
        BY <3>1 DEF Message
      <3>3. Msg(s).kind \notin Asking => Msg(s).conf # NoConf
        BY <1>0, <3>1, BoundsAssumption
          DEF Inv, MessageInv, Message, Kinds, Asking, Msg, Written, Confs, NoConf
      <3>4. pc' \in [Slots -> States]
        BY <1>0, <1>1, <2>2, <3>1 DEF Mark, First, Message, Kinds, Written, Msg
      <3>5. Msg(s).kind \in Asking => pc'[s] \in {"find", "insert"}
        BY <1>0, <1>1, <2>2 DEF Mark, First, Asking
      <3>6. /\ processed' \in SUBSET Messages
            /\ about' \in [Slots -> Confs \cup {NoConf}] /\ about'[s] = Msg(s).conf
            /\ \A t \in Slots \ {s} : pc'[t] = pc[t] /\ about'[t] = about[t]
        BY <1>0, <1>1, <2>2, <3>2 DEF Mark
      <3>7. \A t \in Slots :
              pc'[t] \notin {"idle", "mark", "find", "insert", "sorry"} => about'[t] # NoConf
        BY <1>0, <3>3, <3>5, <3>6
      <3>8. QED
        BY <1>0, <1>1, <2>2, <3>4, <3>6, <3>7 DEF Mark
    <2>3. QED
      BY <2>1, <2>2
  <1>2. CASE FindTask(s)
    <2>1. CASE task.open
      BY <1>0, <1>2, <2>1 DEF FindTask
    <2>2. CASE ~task.open
      BY <1>0, <1>2, <2>2, Finishing DEF FindTask
    <2>3. QED
      BY <2>1, <2>2
  <1>3. ASSUME NEW c \in Confs, Insert(s, c) PROVE TypeOK'
    <2>1. conf' \in [Confs -> Confirmation]
      BY <1>3, Inserted
    <2>2. c # NoConf
      BY DEF Confs, NoConf
    <2>3. QED
      BY <1>0, <1>3, <2>1, <2>2 DEF Insert
  <1>4. CASE Expire(s)
    <2>1. about[s] \in Confs
      BY <1>0, <1>4 DEF Expire, SlotInv, NamedStates
    <2>2. conf' \in [Confs -> Confirmation]
      BY <1>0, <1>4, <2>1, StatusSaved DEF Expire
    <2>3. QED
      BY <1>0, <1>4, <2>1, <2>2 DEF Expire, Confs, NoConf
  <1>5. CASE Take(s)
    <2>1. about[s] \in Confs
      BY <1>0, <1>5 DEF Take, SlotInv, NamedStates
    <2>2. conf' \in [Confs -> Confirmation]
      BY <1>0, <1>5, <2>1, StatusSaved DEF Take
    <2>3. CASE Pending(s)
      BY <1>0, <1>5, <2>1, <2>2, <2>3 DEF Take
    <2>4. CASE ~Pending(s)
      BY <1>0, <1>5, <2>4, Finishing DEF Take, Refuse
    <2>5. QED
      BY <2>3, <2>4
  <1>6. QED
    BY <1>1, <1>2, <1>3, <1>4, <1>5

\* The steps that act on a confirmation, and the replies, keep the types.
LEMMA ActingType ==
  ASSUME Inv, NEW s \in Slots,
         \/ ReadTask(s) \/ SaveTask(s) \/ CancelJobs(s)
         \/ CreateAnnouncement(s) \/ SchedulePublish(s) \/ Tell(s) \/ Apologise(s)
  PROVE  TypeOK'
  <1>. USE DEF TypeOK, States, Goto, inbox, others, told
  <1>0. TypeOK /\ SlotInv(s)
    BY DEF Inv
  <1>a. (SaveTask(s) \/ CreateAnnouncement(s)) /\ Acted(s) => acted' \in [Confs -> 0..2]
    <2>1. SaveTask(s) \/ CreateAnnouncement(s) => about[s] \in Confs
      BY <1>0 DEF SaveTask, CreateAnnouncement, SlotInv, NamedStates, TakenStates, ActStates
    <2>2. QED
      BY <1>0, <2>1, Counting
  <1>1. CASE ReadTask(s)
    BY <1>0, <1>1 DEF ReadTask
  <1>2. CASE SaveTask(s)
    <2>1. CASE task.version = conf[about[s]].version
      <3>1. task' \in [version : Nat, open : BOOLEAN, jobs : BOOLEAN]
        BY <1>0, <1>2, <2>1, TaskCancelled DEF SaveTask
      <3>2. acted' \in [Confs -> 0..2]
        BY <1>a, <1>2, <2>1 DEF SaveTask
      <3>3. QED
        BY <1>0, <1>2, <2>1, <3>1, <3>2 DEF SaveTask
    <2>2. CASE task.version # conf[about[s]].version
      BY <1>0, <1>2, <2>2, Finishing DEF SaveTask, Refuse
    <2>3. QED
      BY <2>1, <2>2
  <1>3. CASE CancelJobs(s)
    BY <1>0, <1>3 DEF CancelJobs, NoJobs
  <1>4. CASE CreateAnnouncement(s)
    <2>1. outdated' \in [Confs -> BOOLEAN]
      BY <1>0, <1>4 DEF CreateAnnouncement
    <2>2. CASE Finish(s) /\ UNCHANGED acted
      BY <1>0, <1>4, <2>1, <2>2, Finishing DEF CreateAnnouncement
    <2>3. CASE Goto(s, "schedule") /\ Acted(s) /\ UNCHANGED <<at, about, late, version>>
      BY <1>0, <1>a, <1>4, <2>1, <2>3 DEF CreateAnnouncement
    <2>4. QED
      BY <1>4, <2>2, <2>3 DEF CreateAnnouncement, Refuse
  <1>5. CASE SchedulePublish(s)
    BY <1>0, <1>5 DEF SchedulePublish
  <1>6. CASE Tell(s)
    <2>1. Reply[Msg(s).kind] \in Answers
      <3>1. Msg(s) \in Message /\ Msg(s).kind # "none"
        BY <1>0, <1>6 DEF Tell, SlotInv, Written, Msg
      <3>2. QED
        BY <3>1 DEF Reply, Answers, Message, Kinds
    <2>2. said' \in [Confs -> SUBSET Answers] /\ shown' \in [Confs -> Nat]
      BY <1>0, <1>6, <2>1 DEF Tell, Say
    <2>3. CASE Finish(s)
      BY <1>0, <1>6, <2>2, <2>3, Finishing DEF Tell
    <2>4. CASE Goto(s, "sorry") /\ UNCHANGED <<at, about, late, version>>
      BY <1>0, <1>6, <2>2, <2>4 DEF Tell
    <2>5. QED
      BY <1>6, <2>3, <2>4 DEF Tell
  <1>7. CASE Apologise(s)
    BY <1>0, <1>7, Finishing DEF Apologise
  <1>8. QED
    BY <1>1, <1>2, <1>3, <1>4, <1>5, <1>6, <1>7

\* What happens besides the handlings keeps the types.
LEMMA OtherType ==
  ASSUME TypeOK, Edit \/ JobStep \/ Crash \/ \E s \in Slots : StoreError(s)
  PROVE  TypeOK'
  <1>. USE BoundsAssumption DEF TypeOK, States, inbox, others, told
  <1>0. CanHappen => edits + 1 \in 0..MaxEvents /\ faults + 1 \in 0..MaxEvents
    BY DEF CanHappen
  <1>1. ASSUME NEW r \in Requests, EditTask(r) PROVE TypeOK'
    BY <1>0, <1>1, TaskEdited DEF handling, Tasks
  <1>2. CASE Crash
    <2>1. request' \in [Requests -> RequestStates]
      BY <1>2 DEF Crash, RequestStates
    <2>2. working' \in BOOLEAN
      BY <1>2, Zenon DEF Crash
    <2>3. QED
      BY <1>0, <1>2, <2>1, <2>2 DEF Crash, Fault, Messages
  <1>3. ASSUME NEW s \in Slots, StoreError(s) PROVE TypeOK'
    <2>1. CASE pc[s] = "mark"
      BY <1>0, <1>3, <2>1, Finishing DEF StoreError, Fault
    <2>2. CASE pc[s] # "mark"
      BY <1>0, <1>3, <2>2 DEF StoreError, Fault, Goto
    <2>3. QED
      BY <2>1, <2>2
  <1>4. CASE JobStep
    BY <1>0, <1>4, JobsChanged DEF handling, Tasks
  <1>5. QED
    BY <1>1, <1>2, <1>3, <1>4 DEF Edit

LEMMA NextType == Inv /\ Next => TypeOK'
  <1>. SUFFICES ASSUME Inv, Next PROVE TypeOK'
    OBVIOUS
  <1>0. TypeOK
    BY DEF Inv
  <1>1. ASSUME NEW s \in Slots, Step(s) PROVE TypeOK'
    BY <1>1, TakingType, ActingType DEF Step
  <1>2. QED
    BY <1>0, <1>1, DeliveryType, OtherType DEF Next, Edit, JobStep

-----------------------------------------------------------------------------
(* What is stored only grows.                                              *)

\* A message that is written stays; a confirmation that is inserted keeps its draft, and
\* its status once it is not PENDING; what is done stays done, and is done once; only an
\* edit changes an open task.
Grows ==
  /\ \A m \in Messages : Written(m) => msg'[m] = msg[m]
  /\ processed \subseteq processed'
  /\ \A c \in Confs : conf[c].status # "NONE" =>
       /\ conf'[c].status # "NONE" /\ conf'[c].owner = conf[c].owner
       /\ conf'[c].action = conf[c].action /\ conf'[c].version = conf[c].version
       /\ conf[c].status # "PENDING" => conf'[c].status = conf[c].status
  /\ \A c \in Confs : acted'[c] = acted[c] \/ (acted[c] = 0 /\ acted'[c] = 1)
  /\ \A c \in Confs : (scheduled[c] => scheduled'[c]) /\ (outdated[c] => outdated'[c])
  /\ ~task.open => ~task'.open
  /\ edits' = 0 => edits = 0 /\ (task'.open => task'.version = task.version)
  /\ faults > 0 => faults' > 0
  /\ \A c \in Confs : said[c] \subseteq said'[c]

LEMMA TakingGrows ==
  ASSUME Inv, NEW s \in Slots,
         Mark(s) \/ FindTask(s) \/ (\E c \in Confs : Insert(s, c)) \/ Expire(s) \/ Take(s)
  PROVE  Grows
  <1>. USE DEF Grows, inbox, others, told
  <1>0. TypeOK /\ SlotInv(s)
    BY DEF Inv
  <1>1. CASE Mark(s) \/ FindTask(s)
    BY <1>1 DEF Mark, FindTask
  <1>2. ASSUME NEW c \in Confs, Insert(s, c) PROVE Grows
    BY <1>2, Inserted DEF Insert
  <1>3. CASE Expire(s)
    <2>1. about[s] \in Confs
      BY <1>0, <1>3 DEF Expire, SlotInv, NamedStates
    <2>2. CASE UNCHANGED conf
      BY <1>3, <2>2 DEF Expire
    <2>3. CASE /\ conf[about[s]].status = "PENDING"
               /\ conf' = [conf EXCEPT ![about[s]].status = "EXPIRED"]
      <3>1. conf'[about[s]].status = "EXPIRED"
        BY <1>0, <2>1, <2>3, StatusSaved
      <3>2. QED
        BY <1>0, <1>3, <2>1, <2>3, <3>1, StatusSaved DEF Expire
    <2>4. QED
      BY <1>3, <2>2, <2>3 DEF Expire
  <1>4. CASE Take(s)
    <2>1. about[s] \in Confs
      BY <1>0, <1>4 DEF Take, SlotInv, NamedStates
    <2>2. CASE UNCHANGED conf
      BY <1>4, <2>2 DEF Take
    <2>3. ASSUME NEW status \in {"CONFIRMED", "CANCELLED"},
                 conf[about[s]].status = "PENDING",
                 conf' = [conf EXCEPT ![about[s]].status = status]
          PROVE  Grows
      <3>1. conf'[about[s]].status = status
        BY <1>0, <2>1, <2>3, StatusSaved
      <3>2. QED
        BY <1>0, <1>4, <2>1, <2>3, <3>1, StatusSaved DEF Take
    <2>4. QED
      BY <1>4, <2>2, <2>3 DEF Take, Pending
  <1>5. QED
    BY <1>1, <1>2, <1>3, <1>4

LEMMA ActingGrows ==
  ASSUME Inv, NEW s \in Slots,
         \/ ReadTask(s) \/ SaveTask(s) \/ CancelJobs(s)
         \/ CreateAnnouncement(s) \/ SchedulePublish(s) \/ Tell(s) \/ Apologise(s)
  PROVE  Grows
  <1>. USE DEF Grows, inbox, others, told
  <1>0. TypeOK /\ SlotInv(s)
    BY DEF Inv
  <1>1. CASE ReadTask(s) \/ Tell(s) \/ Apologise(s)
    BY <1>0, <1>1 DEF ReadTask, Tell, Say, Apologise, TypeOK
  <1>2. CASE SaveTask(s)
    <2>1. CASE task.version = conf[about[s]].version
      <3>1. ~task'.open
        BY <1>0, <1>2, <2>1, TaskCancelled DEF SaveTask
      <3>2. acted[about[s]] = 0 /\ about[s] \in Confs /\ Acted(s)
        BY <1>0, <1>2, <2>1 DEF SaveTask, SlotInv, NamedStates, TakenStates, ActStates
      <3>3. \A c \in Confs : acted'[c] = acted[c] \/ (acted[c] = 0 /\ acted'[c] = 1)
        BY <1>0, <3>2, Counting
      <3>4. QED
        BY <1>2, <3>1, <3>3 DEF SaveTask
    <2>2. CASE task.version # conf[about[s]].version
      BY <1>2, <2>2 DEF SaveTask
    <2>3. QED
      BY <2>1, <2>2
  <1>3. CASE CancelJobs(s)
    BY <1>0, <1>3 DEF CancelJobs, NoJobs, TypeOK
  <1>4. CASE CreateAnnouncement(s)
    <2>1. \A c \in Confs : outdated[c] => outdated'[c]
      BY <1>0, <1>4 DEF CreateAnnouncement, TypeOK
    <2>2. \A c \in Confs : acted'[c] = acted[c] \/ (acted[c] = 0 /\ acted'[c] = 1)
      <3>1. acted[about[s]] = 0 /\ about[s] \in Confs
        BY <1>0, <1>4 DEF CreateAnnouncement, SlotInv, NamedStates, TakenStates, ActStates
      <3>2. QED
        BY <1>0, <1>4, <3>1, Counting DEF CreateAnnouncement
    <2>3. QED
      BY <1>4, <2>1, <2>2 DEF CreateAnnouncement
  <1>5. CASE SchedulePublish(s)
    BY <1>0, <1>5 DEF SchedulePublish, TypeOK
  <1>6. QED
    BY <1>1, <1>2, <1>3, <1>4, <1>5

LEMMA OtherGrows ==
  ASSUME TypeOK,
         \/ Edit \/ JobStep \/ Crash
         \/ \E s \in Slots : StoreError(s)
         \/ \E s \in Slots, m \in Messages :
              \/ \E kind \in Kinds, c \in Confs \cup {NoConf}, a \in Admins :
                   Deliver(s, m, kind, c, a)
              \/ Redeliver(s, m)
  PROVE  Grows
  <1>. USE DEF Grows, inbox, others, told
  <1>1. ASSUME NEW r \in Requests, EditTask(r) PROVE Grows
    <2>1. edits' # 0
      BY <1>1 DEF EditTask, TypeOK
    <2>2. QED
      BY <1>1, <2>1, TaskEdited
  <1>2. CASE Crash
    BY <1>2 DEF Crash, Fault, TypeOK
  <1>3. ASSUME NEW s \in Slots, StoreError(s) PROVE Grows
    BY <1>3 DEF StoreError, Fault, TypeOK
  <1>4. ASSUME NEW s \in Slots, NEW m \in Messages, NEW kind \in Kinds,
               NEW c \in Confs \cup {NoConf}, NEW a \in Admins, Deliver(s, m, kind, c, a)
        PROVE  Grows
    BY <1>4 DEF Deliver, Handle, TypeOK, Written
  <1>5. ASSUME NEW s \in Slots, NEW m \in Messages, Redeliver(s, m) PROVE Grows
    BY <1>5 DEF Redeliver, Handle
  <1>6. CASE JobStep
    BY <1>6, JobsChanged DEF TypeOK
  <1>7. QED
    BY <1>1, <1>2, <1>3, <1>4, <1>5, <1>6 DEF Edit

LEMMA NextGrows == Inv /\ Next => Grows
  <1>. SUFFICES ASSUME Inv, Next PROVE Grows
    OBVIOUS
  <1>0. TypeOK
    BY DEF Inv
  <1>1. ASSUME NEW s \in Slots, Step(s) PROVE Grows
    BY <1>1, TakingGrows, ActingGrows DEF Step
  <1>2. QED
    BY <1>0, <1>1, OtherGrows DEF Next, Edit, JobStep

-----------------------------------------------------------------------------
(* What handlings rely on.                                                 *)

\* A handling that does not move keeps what it relies on.
LEMMA StillRelies ==
  ASSUME Inv, Grows, NEW t \in Slots, Still(t),
         pc[t] \in ActStates => acted'[about[t]] = 0
  PROVE  SlotInv(t)'
  <1>. USE DEF Still, Grows, NamedStates, TakenStates, ActStates, Msg, Written
  <1>0. TypeOK /\ SlotInv(t)
    BY DEF Inv
  <1>1. at[t] \in Messages
    BY <1>0 DEF TypeOK
  <1>2. pc[t] # "idle" => msg[at[t]].kind # "none" /\ msg'[at'[t]] = msg[at[t]]
    BY <1>0, <1>1 DEF SlotInv
  <1>3. pc[t] \in NamedStates =>
          /\ about[t] \in Confs
          /\ conf'[about[t]].status # "NONE"
          /\ conf'[about[t]].action = conf[about[t]].action
          /\ conf'[about[t]].version = conf[about[t]].version
    BY <1>0 DEF SlotInv
  <1>4. pc[t] \in NamedStates /\ conf[about[t]].status \in {"CONFIRMED", "CANCELLED"} =>
          conf'[about[t]].status = conf[about[t]].status
    BY <1>0 DEF SlotInv
  <1>5. pc[t] \in NamedStates /\ acted[about[t]] = 1 => acted'[about[t]] = 1
    BY <1>0 DEF SlotInv
  <1>6. pc[t] = "tell" /\ msg[at[t]].kind = "confirm" => Done(about[t])'
    BY <1>0, <1>3, <1>5 DEF SlotInv, Done
  <1>7. pc[t] = "insert" /\ msg[at[t]].kind = "askCancel" /\ edits' = 0 /\ task'.open =>
          version'[t] = task'.version
    BY <1>0 DEF SlotInv
  <1>8. QED
    BY <1>0, <1>2, <1>3, <1>4, <1>5, <1>6, <1>7 DEF SlotInv

\* One handling moves at a time, and only an acting one counts.
LEMMA OthersWait ==
  ASSUME Inv, NEW s \in Slots, Moves(s)
  PROVE  /\ \A t \in Slots \ {s} : Still(t)
         /\ \A c \in Confs : acted'[c] # acted[c] => pc[s] \in ActStates /\ about[s] = c
  <1>. USE DEF Still, Goto, handling
  <1>0. TypeOK /\ SlotInv(s)
    BY DEF Inv
  <1>1. ASSUME NEW m \in Messages, NEW kind \in Kinds, NEW c \in Confs \cup {NoConf},
               NEW a \in Admins, Deliver(s, m, kind, c, a)
        PROVE  (\A t \in Slots \ {s} : Still(t)) /\ UNCHANGED acted
    BY <1>0, <1>1 DEF Deliver, Handle, TypeOK
  <1>2. ASSUME NEW m \in Messages, Redeliver(s, m)
        PROVE  (\A t \in Slots \ {s} : Still(t)) /\ UNCHANGED acted
    BY <1>0, <1>2 DEF Redeliver, Handle, TypeOK
  <1>3. CASE Mark(s) \/ FindTask(s) \/ StoreError(s)
    BY <1>0, <1>3, Finishing DEF Mark, FindTask, StoreError, TypeOK
  <1>4. ASSUME NEW c \in Confs, Insert(s, c)
        PROVE  (\A t \in Slots \ {s} : Still(t)) /\ UNCHANGED acted
    BY <1>0, <1>4 DEF Insert, TypeOK
  <1>5. CASE Expire(s)
    BY <1>0, <1>5 DEF Expire, TypeOK
  <1>6. CASE Take(s)
    BY <1>0, <1>6, Finishing DEF Take, Refuse, TypeOK
  <1>7. CASE ReadTask(s) \/ CancelJobs(s) \/ SchedulePublish(s)
    BY <1>0, <1>7 DEF ReadTask, CancelJobs, SchedulePublish, TypeOK
  <1>8. CASE SaveTask(s)
    BY <1>0, <1>8, Finishing, Counting
      DEF SaveTask, Refuse, TypeOK, SlotInv, NamedStates, TakenStates, ActStates
  <1>9. CASE CreateAnnouncement(s)
    BY <1>0, <1>9, Finishing, Counting
      DEF CreateAnnouncement, Refuse, TypeOK, SlotInv, NamedStates, TakenStates, ActStates
  <1>10. CASE Tell(s) \/ Apologise(s)
    BY <1>0, <1>10, Finishing DEF Tell, Apologise, TypeOK
  <1>11. CASE Step(s)
    BY <1>3, <1>4, <1>5, <1>6, <1>7, <1>8, <1>9, <1>10, <1>11 DEF Step
  <1>12. QED
    BY <1>1, <1>3, <1>11, <1>2 DEF Moves

\* A handling that moves relies on what it finds.
LEMMA DeliveredRelies ==
  ASSUME Inv, NEW s \in Slots, NEW m \in Messages,
         \/ \E kind \in Kinds, c \in Confs \cup {NoConf}, a \in Admins : Deliver(s, m, kind, c, a)
         \/ Redeliver(s, m)
  PROVE  SlotInv(s)'
  <1>1. pc'[s] = "mark" /\ at'[s] = m
    BY DEF Deliver, Redeliver, Handle, Inv, TypeOK
  <1>2. Written(m)'
    BY DEF Deliver, Redeliver, Inv, TypeOK, Written, Kinds
  <1>3. QED
    BY <1>1, <1>2 DEF SlotInv, NamedStates, TakenStates, ActStates

\* The error path and the end of a handling rely on nothing but the message.
LEMMA IdleRelies ==
  ASSUME NEW s \in Slots, pc'[s] = "idle" \/ (pc'[s] = "sorry" /\ Written(at[s])')
  PROVE  SlotInv(s)'
  BY DEF SlotInv, NamedStates, TakenStates, ActStates, Written

LEMMA TakingRelies ==
  ASSUME Inv, NEW s \in Slots,
         Mark(s) \/ FindTask(s) \/ (\E c \in Confs : Insert(s, c)) \/ Expire(s) \/ Take(s)
  PROVE  SlotInv(s)'
  <1>. USE DEF SlotInv, NamedStates, TakenStates, ActStates, Msg, Written, inbox, others, told
  <1>0. TypeOK /\ SlotInv(s) /\ Grows
    BY TakingGrows DEF Inv
  <1>1. CASE Mark(s)
    <2>1. CASE at[s] \in processed
      BY <1>0, <1>1, <2>1, Finishing, IdleRelies DEF Mark
    <2>2. CASE at[s] \notin processed
      <3>1. /\ at[s] \in Messages /\ msg[at[s]] \in Message /\ msg[at[s]].kind # "none"
        BY <1>0, <1>1 DEF Mark, TypeOK
      <3>2. msg[at[s]].kind \in {"confirm", "discard"} =>
              msg[at[s]].conf \in Confs /\ conf[msg[at[s]].conf].status # "NONE"
        BY <3>1 DEF Inv, MessageInv
      <3>3. /\ pc'[s] = First[msg[at[s]].kind] /\ about'[s] = msg[at[s]].conf
            /\ UNCHANGED <<msg, at, conf>> /\ at[s] \in processed'
        BY <1>0, <1>1, <2>2 DEF Mark, Goto, TypeOK
      <3>4. \/ pc'[s] = "find" /\ msg[at[s]].kind = "askCancel"
            \/ pc'[s] = "insert" /\ msg[at[s]].kind = "askAnnounce"
            \/ pc'[s] = "expire" /\ msg[at[s]].kind \in {"confirm", "discard"}
        BY <3>1, <3>3 DEF First, Message, Kinds
      <3>5. QED
        BY <3>1, <3>2, <3>3, <3>4 DEF Asking
    <2>3. QED
      BY <2>1, <2>2
  <1>2. CASE FindTask(s)
    <2>1. CASE task.open
      BY <1>0, <1>2, <2>1 DEF FindTask, Goto, TypeOK, Asking
    <2>2. CASE ~task.open
      BY <1>0, <1>2, <2>2, Finishing, IdleRelies DEF FindTask
    <2>3. QED
      BY <2>1, <2>2
  <1>3. ASSUME NEW c \in Confs, Insert(s, c) PROVE SlotInv(s)'
    <2>1. conf'[c].status = "PENDING" /\ conf'[c].version = version[s]
      BY <1>3, Inserted
    <2>2. pc'[s] = "tell" /\ about'[s] = c
      BY <1>0, <1>3 DEF Insert, Goto, TypeOK
    <2>3. QED
      BY <1>0, <1>3, <2>1, <2>2 DEF Insert, Asking
  <1>4. CASE Expire(s)
    <2>1. pc'[s] = "take" /\ about[s] \in Confs
      BY <1>0, <1>4 DEF Expire, Goto, TypeOK
    <2>2. conf'[about[s]].status # "NONE"
      BY <1>0, <1>4, <2>1 DEF Expire, Grows
    <2>3. QED
      BY <1>0, <1>4, <2>1, <2>2 DEF Expire
  <1>5. CASE Take(s)
    <2>0. about[s] \in Confs /\ at[s] \in processed
      BY <1>0, <1>5 DEF Take
    <2>1. CASE ~Pending(s)
      BY <1>0, <1>5, <2>1, Finishing, IdleRelies DEF Take, Refuse
    <2>2. CASE Pending(s) /\ msg[at[s]].kind = "discard"
      <3>1. conf'[about[s]].status = "CANCELLED"
        BY <1>0, <1>5, <2>0, <2>2, StatusSaved DEF Take
      <3>2. pc'[s] = "tell"
        BY <1>0, <1>5, <2>2 DEF Take, Goto, TypeOK
      <3>3. QED
        BY <1>0, <1>5, <2>0, <2>2, <3>1, <3>2 DEF Take, Asking
    <2>3. CASE Pending(s) /\ msg[at[s]].kind = "confirm"
      <3>1. /\ conf'[about[s]].status = "CONFIRMED"
            /\ conf'[about[s]].action = conf[about[s]].action
        BY <1>0, <1>5, <2>0, <2>3, StatusSaved DEF Take
      <3>2. /\ conf[about[s]].action = "cancel" => pc'[s] = "readTask"
            /\ conf[about[s]].action = "announce" => pc'[s] = "create"
            /\ conf[about[s]].action \in {"cancel", "announce"}
        BY <1>0, <1>5, <2>0, <2>3 DEF Take, Goto, TypeOK, Confirmation
      <3>3. acted'[about[s]] = 0
        <4>1. acted[about[s]] \in 0..2 /\ ~(acted[about[s]] > 0)
          BY <1>0, <2>0, <2>3 DEF Inv, ConfInv, TypeOK, Pending
        <4>2. QED
          BY <1>5, <4>1 DEF Take
      <3>4. QED
        BY <1>0, <1>5, <2>0, <2>3, <3>1, <3>2, <3>3 DEF Take
    <2>4. QED
      BY <1>0, <1>5, <2>1, <2>2, <2>3 DEF Take
  <1>6. QED
    BY <1>1, <1>2, <1>3, <1>4, <1>5

LEMMA ActingRelies ==
  ASSUME Inv, NEW s \in Slots,
         \/ ReadTask(s) \/ SaveTask(s) \/ CancelJobs(s) \/ CreateAnnouncement(s)
         \/ SchedulePublish(s) \/ Tell(s) \/ Apologise(s) \/ StoreError(s)
  PROVE  SlotInv(s)'
  <1>. USE DEF SlotInv, NamedStates, TakenStates, ActStates, Msg, Written, inbox, others, told
  <1>0. TypeOK /\ SlotInv(s)
    BY DEF Inv
  <1>1. CASE ReadTask(s)
    <2>1. pc'[s] = IF task.open THEN "saveTask" ELSE "tell"
      BY <1>0, <1>1 DEF ReadTask, Goto, TypeOK
    <2>2. QED
      BY <1>0, <1>1, <2>1 DEF ReadTask, Done, Asking
  <1>2. CASE SaveTask(s)
    <2>1. CASE task.version = conf[about[s]].version
      <3>1. ~task'.open
        BY <1>0, <1>2, <2>1, TaskCancelled DEF SaveTask
      <3>2. pc'[s] = "cancelJobs"
        BY <1>0, <1>2, <2>1 DEF SaveTask, Goto, TypeOK
      <3>3. QED
        BY <1>0, <1>2, <2>1, <3>1, <3>2 DEF SaveTask
    <2>2. CASE task.version # conf[about[s]].version
      BY <1>0, <1>2, <2>2, Finishing, IdleRelies DEF SaveTask, Refuse
    <2>3. QED
      BY <2>1, <2>2
  <1>3. CASE CancelJobs(s)
    <2>1. pc'[s] = "tell" /\ ~task'.open
      BY <1>0, <1>3 DEF CancelJobs, NoJobs, Goto, TypeOK
    <2>2. QED
      BY <1>0, <1>3, <2>1 DEF CancelJobs, Done, Asking
  <1>4. CASE CreateAnnouncement(s)
    <2>1. CASE Finish(s)
      BY <1>0, <2>1, Finishing, IdleRelies
    <2>2. CASE Goto(s, "schedule") /\ Acted(s) /\ UNCHANGED about
      <3>1. pc'[s] = "schedule" /\ acted'[about[s]] = 1
        BY <1>0, <1>4, <2>2, Going, Counting DEF CreateAnnouncement
      <3>2. UNCHANGED at
        BY <1>0, <1>4, <3>1, Finishing DEF CreateAnnouncement, Refuse
      <3>3. QED
        BY <1>0, <1>4, <2>2, <3>1, <3>2 DEF CreateAnnouncement
    <2>3. QED
      BY <1>4, <2>1, <2>2 DEF CreateAnnouncement, Refuse
  <1>5. CASE SchedulePublish(s)
    <2>1. pc'[s] = "tell" /\ scheduled'[about[s]]
      BY <1>0, <1>5 DEF SchedulePublish, Goto, TypeOK
    <2>2. QED
      BY <1>0, <1>5, <2>1 DEF SchedulePublish, Done, Asking
  <1>6. CASE Tell(s) \/ Apologise(s)
    BY <1>0, <1>6, Finishing, Going, IdleRelies DEF Tell, Apologise
  <1>7. CASE StoreError(s)
    BY <1>0, <1>7, Finishing, Going, IdleRelies DEF StoreError
  <1>8. QED
    BY <1>1, <1>2, <1>3, <1>4, <1>5, <1>6, <1>7

\* Every step is one of a handling, one of somebody else, or a crash.
LEMMA NextCases ==
  ASSUME Next PROVE (\E s \in Slots : Moves(s)) \/ Edit \/ JobStep \/ Crash
  BY DEF Next, Moves, Edit, JobStep

LEMMA SlotsStep ==
  ASSUME Inv, Next PROVE \A t \in Slots : SlotInv(t)'
  <1>0. TypeOK /\ Grows
    BY NextGrows DEF Inv
  <1>1. ASSUME NEW s \in Slots, Moves(s), NEW t \in Slots PROVE SlotInv(t)'
    <2>1. CASE t = s
      <3>1. CASE Step(s) \/ StoreError(s)
        BY <2>1, <3>1, TakingRelies, ActingRelies DEF Step
      <3>2. QED
        BY <1>1, <2>1, <3>1, DeliveredRelies DEF Moves
    <2>2. CASE t # s
      <3>1. Still(t)
        BY <1>1, <2>2, OthersWait
      <3>2. ASSUME pc[t] \in ActStates PROVE acted'[about[t]] = 0
        <4>1. about[t] \in Confs /\ acted[about[t]] = 0
          BY <3>2 DEF Inv, SlotInv, NamedStates, TakenStates
        <4>2. ~(pc[s] \in ActStates /\ about[s] = about[t])
          BY <2>2, <3>2 DEF Inv, Exclusive
        <4>3. QED
          BY <1>1, <4>1, <4>2, OthersWait
      <3>3. QED
        BY <1>0, <3>1, <3>2, StillRelies
    <2>3. QED
      BY <2>1, <2>2
  <1>2. ASSUME Edit \/ JobStep, NEW t \in Slots PROVE SlotInv(t)'
    <2>1. Still(t) /\ UNCHANGED acted
      BY <1>0, <1>2, TaskEdited, JobsChanged DEF Edit, handling, Still
    <2>2. pc[t] \in ActStates => acted[about[t]] = 0
      BY DEF Inv, SlotInv
    <2>3. QED
      BY <1>0, <2>1, <2>2, StillRelies
  <1>3. ASSUME Crash, NEW t \in Slots PROVE SlotInv(t)'
    <2>1. pc'[t] = "idle"
      BY <1>3 DEF Crash
    <2>2. QED
      BY <2>1, IdleRelies
  <1>4. QED
    BY <1>1, <1>2, <1>3, NextCases

-----------------------------------------------------------------------------
(* Messages, answers and statuses: where each comes from.                  *)

\* Only a delivery writes a message, and only Mark records one.
LEMMA MessagesStep ==
  ASSUME Inv, Next PROVE MessageInv'
  <1>. USE DEF inbox, others, told, Written
  <1>0. TypeOK /\ MessageInv /\ Grows /\ TypeOK'
    BY NextGrows, NextType DEF Inv
  <1>1. \A c \in Confs :
          /\ conf[c].status # "NONE" => conf'[c].status # "NONE"
          /\ "asked" \in said[c] => "asked" \in said'[c]
    BY <1>0 DEF Grows
  <1>2. ASSUME NEW s \in Slots, NEW m \in Messages, NEW kind \in Kinds,
               NEW c \in Confs \cup {NoConf}, NEW a \in Admins, Deliver(s, m, kind, c, a)
        PROVE  MessageInv'
    <2>1. /\ msg'[m].kind = kind /\ msg'[m].conf = c
          /\ \A n \in Messages \ {m} : msg'[n] = msg[n]
          /\ UNCHANGED processed
      BY <1>0, <1>2 DEF Deliver, Handle, TypeOK
    <2>2. kind \in {"confirm", "discard"} =>
            c \in Confs /\ conf[c].status # "NONE" /\ "asked" \in said[c]
      BY <1>2 DEF Deliver, Asking, Inv, ConfInv
    <2>3. kind # "none"
      BY DEF Kinds
    <2>4. QED
      BY <1>0, <1>1, <2>1, <2>2, <2>3 DEF MessageInv
  <1>3. ASSUME NEW s \in Slots, Mark(s) PROVE MessageInv'
    <2>1. UNCHANGED msg /\ processed' \subseteq processed \cup {at[s]}
      BY <1>3 DEF Mark
    <2>2. msg[at[s]].kind # "none"
      BY <1>3 DEF Mark, Inv, SlotInv
    <2>3. QED
      BY <1>0, <1>1, <2>1, <2>2 DEF MessageInv
  <1>4. CASE UNCHANGED <<msg, processed>>
    BY <1>0, <1>1, <1>4 DEF MessageInv
  <1>5. ASSUME NEW s \in Slots, Step(s) PROVE MessageInv'
    <2>1. Mark(s) \/ UNCHANGED <<msg, processed>>
      BY <1>5 DEF Step, FindTask, Insert, Expire, Take, ReadTask, SaveTask, CancelJobs,
        CreateAnnouncement, SchedulePublish, Tell, Apologise
    <2>2. QED
      BY <1>3, <1>4, <2>1
  <1>6. ASSUME NEW s \in Slots, StoreError(s) PROVE MessageInv'
    BY <1>4, <1>6 DEF StoreError
  <1>7. ASSUME NEW s \in Slots, NEW m \in Messages, Redeliver(s, m) PROVE MessageInv'
    BY <1>4, <1>7 DEF Redeliver, Handle
  <1>8. CASE Edit \/ JobStep \/ Crash
    BY <1>0, <1>4, <1>8, TaskEdited, JobsChanged DEF Edit, Crash
  <1>9. QED
    BY <1>2, <1>5, <1>6, <1>7, <1>8 DEF Next, Edit, JobStep

\* An answer is new only when a handling has just given it.
LEMMA NewAnswer ==
  ASSUME Inv, Next, NEW c \in Confs, NEW answer \in said'[c], answer \notin said[c]
  PROVE  \E s \in Slots : pc[s] = "tell" /\ about[s] = c /\ answer = Reply[Msg(s).kind]
  <1>. USE DEF inbox, others, told
  <1>1. CASE UNCHANGED said
    BY <1>1
  <1>2. ASSUME NEW s \in Slots, Tell(s), ~UNCHANGED said
        PROVE  pc[s] = "tell" /\ about[s] = c /\ answer = Reply[Msg(s).kind]
    BY <1>2 DEF Tell, Say, Inv, TypeOK
  <1>3. ASSUME NEW s \in Slots, Step(s)
        PROVE  Tell(s) \/ UNCHANGED told
    BY <1>3 DEF Step, Mark, FindTask, Insert, Expire, Take, ReadTask, SaveTask, CancelJobs,
      CreateAnnouncement, SchedulePublish, Apologise
  <1>4. (\E s \in Slots : Step(s)) \/ UNCHANGED said
    <2>1. TypeOK /\ (Edit \/ JobStep => UNCHANGED told)
      BY TaskEdited, JobsChanged DEF Edit, Inv
    <2>2. QED
      BY <2>1 DEF Next, Edit, JobStep, Deliver, Redeliver, Handle, StoreError, Crash
  <1>5. QED
    BY <1>1, <1>2, <1>3, <1>4

\* A confirmation comes from Insert and becomes CONFIRMED in Take.
LEMMA NewStatus ==
  ASSUME Inv, Next, NEW c \in Confs, conf'[c].status # conf[c].status
  PROVE  \E s \in Slots :
           \/ Insert(s, c)
           \/ about[s] = c /\ Expire(s) /\ conf'[c].status = "EXPIRED"
           \/ about[s] = c /\ Take(s) /\ Pending(s)
  <1>. USE DEF inbox, others, told
  <1>0. TypeOK
    BY DEF Inv
  <1>1. PICK s \in Slots :
          (\E d \in Confs : Insert(s, d)) \/ Expire(s) \/ (Take(s) /\ Pending(s))
    <2>1. ASSUME NEW s \in Slots, Step(s)
          PROVE  \/ \E d \in Confs : Insert(s, d)
                 \/ Expire(s) \/ (Take(s) /\ Pending(s)) \/ UNCHANGED conf
      BY <2>1 DEF Step, Mark, FindTask, Take, ReadTask, SaveTask, CancelJobs,
        CreateAnnouncement, SchedulePublish, Tell, Apologise
    <2>2. Edit \/ JobStep => UNCHANGED conf
      BY <1>0, TaskEdited, JobsChanged DEF Edit
    <2>3. \E s \in Slots : Step(s)
      BY <2>2 DEF Next, Edit, JobStep, Deliver, Redeliver, Handle, StoreError, Crash
    <2>4. QED
      BY <2>1, <2>3
  <1>2. ASSUME NEW d \in Confs, Insert(s, d) PROVE d = c
    BY <1>2, Inserted
  <1>3. ASSUME Expire(s) PROVE about[s] = c /\ conf'[c].status = "EXPIRED"
    <2>1. about[s] \in Confs
      BY <1>3 DEF Inv, SlotInv, NamedStates, Expire
    <2>2. conf' = [conf EXCEPT ![about[s]].status = "EXPIRED"]
      BY <1>3 DEF Expire
    <2>3. QED
      BY <1>0, <2>1, <2>2, StatusSaved
  <1>4. ASSUME Take(s), Pending(s) PROVE about[s] = c
    <2>1. about[s] \in Confs
      BY <1>4 DEF Inv, SlotInv, NamedStates, Take
    <2>2. PICK status \in {"CONFIRMED", "CANCELLED"} :
            conf' = [conf EXCEPT ![about[s]].status = status]
      BY <1>4 DEF Take
    <2>3. QED
      BY <1>0, <2>1, <2>2, StatusSaved
  <1>5. QED
    BY <1>1, <1>2, <1>3, <1>4

-----------------------------------------------------------------------------
(* Confirmations.                                                          *)

\* Taking a confirmation is where the acting begins.
LEMMA Taking ==
  ASSUME Inv, TypeOK', NEW s \in Slots, NEW c \in Confs, about[s] = c,
         Take(s), Pending(s), conf'[c].status = "CONFIRMED"
  PROVE  ConfirmedByOwner(c)' /\ Acting(s, c)'
  <1>. USE DEF inbox, Msg
  <1>0. TypeOK
    BY DEF Inv
  <1>1. /\ pc[s] = "take" /\ at[s] \in processed
        /\ at[s] \in Messages /\ msg[at[s]].conf = c
        /\ msg[at[s]].kind \in {"confirm", "discard"}
        /\ conf[c].owner = msg[at[s]].from
    BY <1>0 DEF Inv, SlotInv, NamedStates, Take, Pending, Msg, Asking, TypeOK
  <1>2. msg[at[s]].kind = "confirm"
    <2>1. CASE msg[at[s]].kind = "discard"
      <3>1. conf' = [conf EXCEPT ![about[s]].status = "CANCELLED"]
        BY <2>1 DEF Take
      <3>2. QED
        BY <1>0, <1>1, <3>1, StatusSaved
    <2>2. QED
      BY <1>1, <2>1
  <1>3. conf'[c].owner = conf[c].owner
    <2>1. conf' = [conf EXCEPT ![about[s]].status = "CONFIRMED"]
      BY <1>2 DEF Take
    <2>2. QED
      BY <1>0, <1>1, <2>1, StatusSaved
  <1>4. UNCHANGED <<msg, processed, about>>
    BY DEF Take
  <1>5. msg[at[s]] = [kind |-> "confirm", conf |-> c, from |-> conf'[c].owner]
    <2>1. msg[at[s]] \in Message
      BY <1>0, <1>1 DEF TypeOK
    <2>2. QED
      BY <1>1, <1>2, <1>3, <2>1 DEF Message
  <1>6. pc'[s] \in {"readTask", "create"}
    BY <1>0, <1>2 DEF Take, Goto, TypeOK
  <1>7. QED
    BY <1>1, <1>4, <1>5, <1>6 DEF ConfirmedByOwner, Acting

\* The acting ends in the act, or because of what has changed or failed meanwhile.
LEMMA ActingEnds ==
  ASSUME Inv, Next, TypeOK', NEW s \in Slots, NEW c \in Confs, Acting(s, c)
  PROVE  Acting(s, c)' \/ Fulfilled(c)' \/ outdated'[c] \/ edits' > 0 \/ faults' > 0
  <1>. USE DEF Acting
  <1>0. TypeOK /\ SlotInv(s) /\ ConfInv(c) /\ Grows
    BY NextGrows DEF Inv
  <1>1. ASSUME NEW t \in Slots \ {s}, Moves(t) PROVE Acting(s, c)'
    BY <1>1, OthersWait DEF Still
  <1>2. CASE Edit
    BY <1>0, <1>2, TaskEdited DEF Edit, TypeOK
  <1>3. CASE Crash \/ StoreError(s)
    BY <1>3 DEF Crash, StoreError, Fault, TypeOK, Inv
  <1>4. CASE Step(s)
    <2>1. CASE ReadTask(s)
      <3>1. pc'[s] = IF task.open THEN "saveTask" ELSE "tell"
        BY <1>0, <2>1 DEF ReadTask, Goto, TypeOK
      <3>2. ~task.open => Fulfilled(c)'
        BY <1>0, <2>1 DEF ReadTask, Fulfilled, SlotInv
      <3>3. QED
        BY <2>1, <3>1, <3>2 DEF ReadTask
    <2>2. CASE SaveTask(s)
      <3>1. conf'[c].action = "cancel"
        BY <1>0, <2>2 DEF SaveTask, SlotInv
      <3>2. CASE task.version = conf[c].version
        <4>1. ~task'.open
          BY <1>0, <2>2, <3>2, TaskCancelled DEF SaveTask
        <4>2. QED
          BY <3>1, <4>1 DEF Fulfilled
      <3>3. CASE task.version # conf[c].version
        <4>1. edits # 0 \/ ~task.open
          BY <1>0, <2>2, <3>3
            DEF SaveTask, SlotInv, ConfInv, NamedStates, TakenStates, ActStates
        <4>2. edits' # 0 \/ ~task'.open
          BY <1>0, <4>1 DEF Grows
        <4>3. QED
          BY <3>1, <4>2 DEF Fulfilled, TypeOK
      <3>4. QED
        BY <3>2, <3>3
    <2>3. CASE CreateAnnouncement(s)
      <3>1. CASE outdated' = [outdated EXCEPT ![c] = TRUE]
        BY <1>0, <3>1 DEF TypeOK
      <3>2. CASE Acted(s)
        <4>1. acted[c] = 0
          BY <1>0, <2>3 DEF SlotInv, CreateAnnouncement, ActStates
        <4>2. acted'[c] = 1
          BY <1>0, <3>2, <4>1, Counting
        <4>3. QED
          BY <4>2 DEF Fulfilled
      <3>3. QED
        BY <2>3, <3>1, <3>2 DEF CreateAnnouncement
    <2>4. QED
      BY <1>4, <2>1, <2>2, <2>3 DEF Step, Mark, FindTask, Insert, Expire, Take, CancelJobs,
        SchedulePublish, Tell, Apologise
  <1>5. CASE Moves(s)
    <2>1. Step(s) \/ StoreError(s)
      BY <1>5 DEF Moves, Deliver, Redeliver, Handle
    <2>2. QED
      BY <1>3, <1>4, <2>1
  <1>6. CASE JobStep
    BY <1>0, <1>6, JobsChanged DEF handling
  <1>7. QED
    BY <1>1, <1>2, <1>3, <1>5, <1>6, NextCases

\* What a question has shown is the version its draft holds: both are of one reading.
LEMMA ShownStep ==
  ASSUME Inv, Next, NEW c \in Confs, "asked" \in said'[c]
  PROVE  shown'[c] = conf'[c].version
  <1>. USE DEF inbox, others, told
  <1>0. TypeOK /\ Grows
    BY NextGrows DEF Inv
  <1>1. ASSUME NEW s \in Slots, Tell(s), ~UNCHANGED told PROVE shown'[c] = conf'[c].version
    <2>1. /\ pc[s] = "tell" /\ about[s] \in Confs /\ UNCHANGED conf
          /\ said' = [said EXCEPT ![about[s]] = @ \cup {Reply[Msg(s).kind]}]
          /\ shown' = IF Reply[Msg(s).kind] = "asked"
                      THEN [shown EXCEPT ![about[s]] = version[s]] ELSE shown
      BY <1>1 DEF Tell, Say, Inv, SlotInv, NamedStates
    <2>2. CASE about[s] = c /\ Reply[Msg(s).kind] = "asked"
      <3>1. Msg(s) \in Message /\ Msg(s).kind # "none"
        BY <2>1 DEF Inv, SlotInv, TypeOK, Written, Msg
      <3>2. Msg(s).kind \in Asking
        BY <2>2, <3>1 DEF Reply, Message, Kinds, Asking
      <3>3. version[s] = conf[c].version
        BY <2>1, <2>2, <3>2 DEF Inv, SlotInv
      <3>4. QED
        BY <1>0, <2>1, <2>2, <3>3 DEF TypeOK
    <2>3. CASE about[s] # c \/ Reply[Msg(s).kind] # "asked"
      <3>1. "asked" \in said[c] /\ shown'[c] = shown[c]
        BY <1>0, <2>1, <2>3 DEF TypeOK
      <3>2. QED
        BY <2>1, <3>1 DEF Inv, ConfInv
    <2>4. QED
      BY <2>2, <2>3
  <1>2. CASE UNCHANGED told
    <2>1. "asked" \in said[c] /\ conf[c].status # "NONE" /\ shown[c] = conf[c].version
      BY <1>2 DEF Inv, ConfInv
    <2>2. QED
      BY <1>0, <1>2, <2>1 DEF Grows
  <1>3. ASSUME NEW s \in Slots, Step(s)
        PROVE  Tell(s) \/ UNCHANGED told
    BY <1>3 DEF Step, Mark, FindTask, Insert, Expire, Take, ReadTask, SaveTask, CancelJobs,
      CreateAnnouncement, SchedulePublish, Apologise
  <1>4. (\E s \in Slots : Step(s)) \/ UNCHANGED told
    <2>1. Edit \/ JobStep => UNCHANGED told
      BY <1>0, TaskEdited, JobsChanged DEF Edit
    <2>2. QED
      BY <2>1 DEF Next, Edit, JobStep, Deliver, Redeliver, Handle, StoreError, Crash
  <1>5. QED
    BY <1>1, <1>2, <1>3, <1>4

LEMMA ConfirmationStep ==
  ASSUME Inv, Next, NEW c \in Confs PROVE ConfInv(c)'
  <1>. DEFINE old == conf[c]
  <1>0. TypeOK /\ ConfInv(c) /\ Grows /\ TypeOK'
    BY NextGrows, NextType DEF Inv
  <1>1. old.status # "NONE" =>
          /\ conf'[c].status # "NONE" /\ conf'[c].owner = old.owner
          /\ conf'[c].action = old.action /\ conf'[c].version = old.version
          /\ old.status # "PENDING" => conf'[c].status = old.status
    BY <1>0 DEF Grows
  <1>2. old.status # "NONE" /\ Done(c) => Done(c)'
    BY <1>0, <1>1 DEF Done, Grows
  <1>3. "asked" \in said'[c] => conf'[c].status # "NONE"
    <2>1. CASE "asked" \in said[c]
      BY <1>0, <1>1, <2>1 DEF ConfInv
    <2>2. ASSUME "asked" \in said'[c], "asked" \notin said[c] PROVE conf'[c].status # "NONE"
      <3>1. PICK s \in Slots : pc[s] = "tell" /\ about[s] = c
        BY <2>2, NewAnswer
      <3>2. old.status # "NONE"
        BY <3>1 DEF Inv, SlotInv, NamedStates
      <3>3. QED
        BY <1>1, <3>2
    <2>3. QED
      BY <2>1, <2>2
  <1>4. "done" \in said'[c] => conf'[c].status = "CONFIRMED" /\ Done(c)'
    <2>1. CASE "done" \in said[c]
      BY <1>0, <1>1, <1>2, <2>1 DEF ConfInv
    <2>2. ASSUME "done" \in said'[c], "done" \notin said[c]
          PROVE  conf'[c].status = "CONFIRMED" /\ Done(c)'
      <3>1. PICK s \in Slots : pc[s] = "tell" /\ about[s] = c /\ "done" = Reply[Msg(s).kind]
        BY <2>2, NewAnswer
      <3>2. Msg(s) \in Message /\ Msg(s).kind # "none"
        BY <3>1 DEF Inv, SlotInv, TypeOK, Written, Msg
      <3>3. Msg(s).kind = "confirm"
        BY <3>1, <3>2 DEF Reply, Message, Kinds
      <3>4. old.status = "CONFIRMED" /\ Done(c)
        BY <3>1, <3>3 DEF Inv, SlotInv
      <3>5. QED
        BY <1>1, <1>2, <3>4
    <2>3. QED
      BY <2>1, <2>2
  <1>5. "discarded" \in said'[c] => conf'[c].status = "CANCELLED"
    <2>1. CASE "discarded" \in said[c]
      BY <1>0, <1>1, <2>1 DEF ConfInv
    <2>2. ASSUME "discarded" \in said'[c], "discarded" \notin said[c]
          PROVE  conf'[c].status = "CANCELLED"
      <3>1. PICK s \in Slots :
              pc[s] = "tell" /\ about[s] = c /\ "discarded" = Reply[Msg(s).kind]
        BY <2>2, NewAnswer
      <3>2. Msg(s) \in Message /\ Msg(s).kind # "none"
        BY <3>1 DEF Inv, SlotInv, TypeOK, Written, Msg
      <3>3. Msg(s).kind = "discard"
        BY <3>1, <3>2 DEF Reply, Message, Kinds
      <3>4. old.status = "CANCELLED"
        BY <3>1, <3>3 DEF Inv, SlotInv
      <3>5. QED
        BY <1>1, <3>4
    <2>3. QED
      BY <2>1, <2>2
  <1>6. acted'[c] <= 1
    BY <1>0 DEF Grows, ConfInv
  <1>7. acted'[c] > 0 => conf'[c].status = "CONFIRMED"
    <2>1. CASE acted[c] > 0
      BY <1>0, <1>1, <2>1 DEF ConfInv
    <2>2. ASSUME acted'[c] # acted[c] PROVE conf'[c].status = "CONFIRMED"
      <3>1. PICK s \in Slots : Moves(s)
        BY <1>0, <2>2, NextCases, TaskEdited, JobsChanged DEF Edit, Crash
      <3>2. pc[s] \in ActStates /\ about[s] = c
        BY <2>2, <3>1, OthersWait
      <3>3. old.status = "CONFIRMED"
        BY <3>2 DEF Inv, SlotInv, TakenStates
      <3>4. QED
        BY <1>1, <3>3
    <2>3. QED
      BY <2>1, <2>2
  <1>8. conf'[c].status = "CONFIRMED" /\ old.status # "CONFIRMED" =>
          ConfirmedByOwner(c)' /\ \E s \in Slots : Acting(s, c)'
    <2>1. SUFFICES ASSUME conf'[c].status = "CONFIRMED", old.status # "CONFIRMED"
                   PROVE  ConfirmedByOwner(c)' /\ \E s \in Slots : Acting(s, c)'
      OBVIOUS
    <2>2. PICK s \in Slots : about[s] = c /\ Take(s) /\ Pending(s)
      BY <2>1, NewStatus, Inserted
    <2>3. QED
      BY <1>0, <2>1, <2>2, Taking
  <1>9. conf'[c].status = "CONFIRMED" => ConfirmedByOwner(c)'
    <2>1. CASE old.status = "CONFIRMED"
      <3>1. PICK m \in processed : msg[m] = [kind |-> "confirm", conf |-> c, from |-> old.owner]
        BY <1>0, <2>1 DEF ConfInv, ConfirmedByOwner
      <3>2. m \in Messages /\ Written(m)
        BY <1>0, <3>1 DEF TypeOK, Written
      <3>3. msg'[m] = msg[m] /\ m \in processed'
        BY <1>0, <3>1, <3>2 DEF Grows
      <3>4. QED
        BY <1>1, <2>1, <3>1, <3>3 DEF ConfirmedByOwner
    <2>2. QED
      BY <1>8, <2>1
  <1>10. conf'[c].status # "NONE" /\ conf'[c].action = "cancel" /\ edits' = 0 /\ task'.open
           => conf'[c].version = task'.version
    <2>1. CASE old.status # "NONE"
      BY <1>0, <1>1, <2>1 DEF ConfInv, Grows
    <2>2. CASE old.status = "NONE" /\ conf'[c].status # "NONE"
      <3>1. PICK s \in Slots : Insert(s, c)
        BY <2>2, NewStatus DEF Pending, Expire
      <3>2. /\ conf'[c].version = version[s]
            /\ conf'[c].action = "cancel" => Msg(s).kind = "askCancel"
        BY <3>1, Inserted
      <3>3. edits = 0 /\ task.open /\ Msg(s).kind = "askCancel" => version[s] = task.version
        BY <3>1 DEF Insert, Inv, SlotInv
      <3>4. UNCHANGED <<edits, task>>
        BY <3>1 DEF Insert, others
      <3>5. QED
        BY <3>2, <3>3, <3>4
    <2>3. QED
      BY <2>1, <2>2
  <1>11. conf'[c].status = "CONFIRMED" =>
           \/ Fulfilled(c)' \/ outdated'[c] \/ edits' > 0 \/ faults' > 0
           \/ \E s \in Slots : Acting(s, c)'
    <2>1. CASE old.status = "CONFIRMED"
      <3>1. CASE Fulfilled(c) \/ outdated[c] \/ edits > 0 \/ faults > 0
        <4>1. Fulfilled(c) => Fulfilled(c)'
          BY <1>0, <1>1, <2>1 DEF Fulfilled, Grows, TypeOK
        <4>2. edits > 0 => edits' > 0
          BY <1>0 DEF Grows, TypeOK
        <4>3. QED
          BY <1>0, <3>1, <4>1, <4>2 DEF Grows
      <3>2. ASSUME NEW s \in Slots, Acting(s, c)
            PROVE  \/ Fulfilled(c)' \/ outdated'[c] \/ edits' > 0 \/ faults' > 0
                   \/ \E t \in Slots : Acting(t, c)'
        BY <1>0, <3>2, ActingEnds
      <3>3. QED
        BY <1>0, <2>1, <3>1, <3>2 DEF ConfInv
    <2>2. QED
      BY <1>8, <2>1
  <1>12. "asked" \in said'[c] => shown'[c] = conf'[c].version
    BY ShownStep
  <1>13. QED
    BY <1>3, <1>4, <1>5, <1>6, <1>7, <1>9, <1>10, <1>11, <1>12 DEF ConfInv

-----------------------------------------------------------------------------
(* One handling acts, and one cancels jobs.                                *)

\* Acting starts with a confirmation that was PENDING.
LEMMA ActingStarts ==
  ASSUME Inv, NEW s \in Slots, Moves(s), pc'[s] \in ActStates
  PROVE  /\ about'[s] = about[s]
         /\ pc[s] \in ActStates \/ conf[about[s]].status = "PENDING"
  <1>. USE DEF ActStates, Goto
  <1>0. TypeOK
    BY DEF Inv
  <1>1. CASE Take(s)
    BY <1>0, <1>1, Finishing DEF Take, Refuse, Pending
  <1>2. CASE ReadTask(s)
    BY <1>2 DEF ReadTask
  <1>3. CASE Mark(s) \/ FindTask(s) \/ Expire(s) \/ StoreError(s)
    <2>1. ASSUME Mark(s), at[s] \notin processed PROVE pc'[s] \in {"find", "insert", "expire"}
      <3>1. Msg(s) \in Message /\ Msg(s).kind # "none"
        BY <1>0, <2>1 DEF Mark, Inv, SlotInv, Written, Msg, TypeOK
      <3>2. pc'[s] = First[Msg(s).kind]
        BY <1>0, <2>1 DEF Mark, TypeOK
      <3>3. QED
        BY <3>1, <3>2 DEF First, Message, Kinds
    <2>2. QED
      BY <1>0, <1>3, <2>1, Finishing DEF Mark, FindTask, Expire, StoreError, TypeOK
  <1>4. CASE SaveTask(s) \/ CancelJobs(s) \/ CreateAnnouncement(s) \/ SchedulePublish(s)
    BY <1>0, <1>4, Finishing DEF SaveTask, CancelJobs, CreateAnnouncement, SchedulePublish,
      Refuse, TypeOK
  <1>5. CASE Tell(s) \/ Apologise(s)
    BY <1>0, <1>5, Finishing DEF Tell, Apologise, TypeOK
  <1>6. ASSUME NEW c \in Confs, Insert(s, c) PROVE FALSE
    BY <1>0, <1>6 DEF Insert, TypeOK
  <1>7. ASSUME NEW m \in Messages, NEW kind \in Kinds, NEW c \in Confs \cup {NoConf},
               NEW a \in Admins, Deliver(s, m, kind, c, a)
        PROVE  FALSE
    BY <1>0, <1>7 DEF Deliver, Handle, TypeOK
  <1>8. ASSUME NEW m \in Messages, Redeliver(s, m) PROVE FALSE
    BY <1>0, <1>8 DEF Redeliver, Handle, TypeOK
  <1>9. CASE Step(s)
    BY <1>1, <1>2, <1>3, <1>4, <1>5, <1>6, <1>9 DEF Step
  <1>10. QED
    BY <1>3, <1>7, <1>8, <1>9 DEF Moves

\* Requests and executions that change the jobs of the task.
LEMMA LedgerStep ==
  ASSUME TypeOK, TypeOK', JobsInv, JobStep PROVE JobsInv'
  <1>0. task'.open = task.open /\ UNCHANGED pc /\ (faults > 0 => faults' > 0)
    BY JobsChanged DEF handling, TypeOK
  <1>1. ASSUME NEW jobs, task' = [task EXCEPT !.jobs = jobs] PROVE task'.jobs = jobs
    BY <1>1 DEF TypeOK
  <1>2. CASE AddJobs /\ \A r \in Requests : request[r] = "stop" => request'[r] = "stop"
    BY <1>0, <1>2 DEF AddJobs, JobsInv, Stopping, TypeOK
  <1>3. ASSUME NEW r \in Requests, ClearJobs(r) PROVE JobsInv'
    BY <1>1, <1>3 DEF ClearJobs, NoJobs, JobsInv
  <1>4. ASSUME NEW r \in Requests, CreateJobs(r) PROVE JobsInv'
    BY <1>2, <1>4 DEF CreateJobs, TypeOK
  <1>5. ASSUME NEW r \in Requests, RequestFails(r) PROVE JobsInv'
    <2>1. faults' > 0
      BY <1>5 DEF RequestFails, Fault, TypeOK
    <2>2. QED
      BY <2>1 DEF JobsInv
  <1>6. CASE StartJob
    BY <1>0, <1>6 DEF StartJob, OnlyJobs, JobsInv, Stopping
  <1>7. CASE EndJob
    <2>1. UNCHANGED <<request, revived>> /\ (task'.jobs => task.jobs)
      BY <1>1, <1>7 DEF EndJob
    <2>2. QED
      BY <1>0, <2>1 DEF JobsInv, Stopping
  <1>8. CASE ReturnJob
    BY <1>2, <1>8 DEF ReturnJob
  <1>9. QED
    BY <1>3, <1>4, <1>5, <1>6, <1>7, <1>8 DEF JobStep

LEMMA ExclusiveStep ==
  ASSUME Inv, Next PROVE Exclusive'
  <1>0. TypeOK /\ Exclusive
    BY DEF Inv
  <1>1. ASSUME NEW r \in Slots, Moves(r), NEW s \in Slots, NEW t \in Slots,
               pc'[s] \in ActStates, pc'[t] \in ActStates, about'[s] = about'[t], s # t
        PROVE  FALSE
    <2>1. ASSUME NEW u \in Slots, pc'[u] \in ActStates
          PROVE  /\ about'[u] = about[u]
                 /\ u # r => pc[u] \in ActStates
                 /\ pc[u] \in ActStates \/ conf[about[u]].status = "PENDING"
      BY <1>1, <2>1, OthersWait, ActingStarts DEF Still
    <2>2. ASSUME NEW u \in Slots, pc[u] \in ActStates PROVE conf[about[u]].status = "CONFIRMED"
      BY <2>2 DEF Inv, SlotInv, TakenStates
    <2>3. pc[s] \in ActStates /\ pc[t] \in ActStates
      BY <1>1, <2>1, <2>2
    <2>4. QED
      BY <1>0, <1>1, <2>1, <2>3 DEF Exclusive
  <1>2. CASE Edit \/ JobStep
    BY <1>0, <1>2, TaskEdited, JobsChanged DEF Edit, handling, Exclusive
  <1>3. CASE Crash
    BY <1>3 DEF Crash, Exclusive, ActStates
  <1>4. QED
    BY <1>1, <1>2, <1>3, NextCases DEF Exclusive

\* The jobs that are left stay under the same excuse until they are stopped.
LEMMA JobsStep ==
  ASSUME Inv, Next PROVE JobsInv'
  <1>. USE DEF Stopping
  <1>0. TypeOK /\ JobsInv /\ Grows /\ TypeOK'
    BY NextGrows, NextType DEF Inv
  <1>1. ASSUME NEW r \in Requests, EditTask(r) PROVE JobsInv'
    BY <1>0, <1>1, TaskEdited DEF JobsInv
  <1>2. CASE JobStep
    BY <1>0, <1>2, LedgerStep
  <1>3. ASSUME NEW s \in Slots, SaveTask(s), ~UNCHANGED task PROVE JobsInv'
    <2>1. pc'[s] = "cancelJobs"
      BY <1>0, <1>3 DEF SaveTask, Goto, TypeOK
    <2>2. QED
      BY <2>1 DEF JobsInv
  <1>4. ASSUME NEW s \in Slots, CancelJobs(s) PROVE JobsInv'
    <2>1. task'.jobs = FALSE
      BY <1>0, <1>4 DEF CancelJobs, NoJobs, TypeOK
    <2>2. QED
      BY <2>1 DEF JobsInv
  <1>5. CASE Crash
    BY <1>0, <1>5 DEF Crash, Fault, JobsInv, TypeOK
  <1>6. ASSUME NEW t \in Slots, Moves(t), UNCHANGED task, ~CancelJobs(t) PROVE JobsInv'
    <2>1. UNCHANGED <<request, revived>>
      BY <1>6 DEF Moves, Deliver, Redeliver, Handle, StoreError, Step, Mark, FindTask, Insert,
        Expire, Take, ReadTask, SaveTask, CreateAnnouncement, SchedulePublish, Tell,
        Apologise, others
    <2>2. SUFFICES ASSUME ~task.open, task.jobs, ~revived, faults' = 0,
                          \A r \in Requests : request[r] # "stop"
                   PROVE  \E s \in Slots : pc'[s] = "cancelJobs"
      BY <1>0, <1>6, <2>1 DEF JobsInv, TypeOK
    <2>3. faults = 0
      BY <1>0, <2>2 DEF Grows, TypeOK
    <2>4. PICK s \in Slots : pc[s] = "cancelJobs"
      BY <1>0, <2>2, <2>3 DEF JobsInv
    <2>5. ~StoreError(t)
      BY <1>0, <2>2 DEF StoreError, Fault, TypeOK
    <2>6. s # t
      BY <1>6, <2>4, <2>5 DEF Moves, Deliver, Redeliver, Handle, Step, Mark, FindTask, Insert,
        Expire, Take, ReadTask, SaveTask, CreateAnnouncement, SchedulePublish, Tell, Apologise
    <2>7. QED
      BY <1>6, <2>4, <2>6, OthersWait DEF Still
  <1>7. ASSUME NEW s \in Slots, Moves(s)
        PROVE  UNCHANGED task \/ SaveTask(s) \/ CancelJobs(s)
    BY <1>7 DEF Moves, Deliver, Redeliver, Handle, StoreError, Step, Mark, FindTask, Insert,
      Expire, Take, ReadTask, CreateAnnouncement, SchedulePublish, Tell, Apologise
  <1>8. QED
    BY <1>1, <1>2, <1>3, <1>4, <1>5, <1>6, <1>7, NextCases DEF Edit

-----------------------------------------------------------------------------
(* The invariant and what follows from it.                                 *)

LEMMA InitInv == Init => Inv
  <1>. SUFFICES ASSUME Init PROVE Inv
    OBVIOUS
  <1>1. TypeOK
    BY InitType
  <1>2. \A s \in Slots : SlotInv(s)
    BY DEF Init, SlotInv, NamedStates, TakenStates, ActStates
  <1>3. MessageInv
    BY DEF Init, MessageInv
  <1>4. \A c \in Confs : ConfInv(c)
    BY DEF Init, ConfInv
  <1>5. Exclusive
    BY DEF Init, Exclusive, ActStates
  <1>6. JobsInv
    BY DEF Init, JobsInv
  <1>7. QED
    BY <1>1, <1>2, <1>3, <1>4, <1>5, <1>6 DEF Inv

LEMMA InvStep == Inv /\ [Next]_vars => Inv'
  <1>. SUFFICES ASSUME Inv, [Next]_vars PROVE Inv'
    OBVIOUS
  <1>1. CASE Next
    BY <1>1, NextType, SlotsStep, MessagesStep, ConfirmationStep, ExclusiveStep, JobsStep DEF Inv
  <1>2. CASE UNCHANGED vars
    <2>. USE <1>2 DEF vars, inbox, handling, others, told
    <2>1. TypeOK'
      BY DEF Inv, TypeOK
    <2>2. \A s \in Slots : SlotInv(s)'
      BY DEF Inv, SlotInv, Msg, Written, Done
    <2>3. MessageInv'
      BY DEF Inv, MessageInv, Written
    <2>4. \A c \in Confs : ConfInv(c)'
      BY DEF Inv, ConfInv, Done, ConfirmedByOwner, Fulfilled, Acting
    <2>5. Exclusive' /\ JobsInv'
      BY DEF Inv, Exclusive, JobsInv, Stopping
    <2>6. QED
      BY <2>1, <2>2, <2>3, <2>4, <2>5 DEF Inv
  <1>3. QED
    BY <1>1, <1>2

LEMMA Invariance == Spec => []Inv
  BY InitInv, InvStep, PTL DEF Spec

\* Every variable keeps its type, however many messages, handlings and faults there are.
THEOREM TypeCorrect == Spec => []TypeOK
  <1>1. Inv => TypeOK
    BY DEF Inv
  <1>2. QED
    BY <1>1, Invariance, PTL

\* PRD 5.2: what is asked for is done only after its requester has confirmed it, once,
\* and never after a discard has been answered.
THEOREM ConsentIsKept == Spec => []ActedWithConsent
  <1>1. Inv => ActedWithConsent
    <2>. SUFFICES ASSUME Inv, NEW c \in Confs
                  PROVE  /\ acted[c] <= 1
                         /\ acted[c] > 0 => conf[c].status = "CONFIRMED" /\ ConfirmedByOwner(c)
                         /\ "discarded" \in said[c] => conf[c].status = "CANCELLED"
      BY DEF ActedWithConsent
    <2>1. ConfInv(c)
      BY DEF Inv
    <2>2. QED
      BY <2>1 DEF ConfInv
  <1>2. QED
    BY <1>1, Invariance, PTL

\* "Confirmed. I've cancelled the task ..." and "I've scheduled the announcement" are true
\* when they are said and stay true, up to jobs put into the ledger after the cancellation.
THEOREM AnswersAreTrue == Spec => []DoneIsDone
  <1>1. Inv => DoneIsDone
    <2>. SUFFICES ASSUME Inv, NEW c \in Confs, "done" \in said[c]
                  PROVE  IF conf[c].action = "cancel"
                         THEN ~task.open /\ (task.jobs => revived \/ Stopping \/ faults > 0)
                         ELSE acted[c] = 1 /\ scheduled[c]
      BY DEF DoneIsDone
    <2>1. Done(c) /\ JobsInv
      BY DEF Inv, ConfInv
    <2>2. QED
      BY <2>1 DEF Done, JobsInv
  <1>2. QED
    BY <1>1, Invariance, PTL

\* A confirmation that was taken is acted on, unless something fails or what was asked
\* no longer holds.
THEOREM ConsentIsCarriedOut == Spec => []ConsentIsActedOn
  <1>1. Inv => ConsentIsActedOn
    BY DEF Inv, ConfInv, ConsentIsActedOn
  <1>2. QED
    BY <1>1, Invariance, PTL

\* PRD 5.2: a confirmation never cancels another version of the task than its question has
\* shown (requestTaskCancellation's draft, and the version check of saveTask).
THEOREM ShownIsCancelled == Spec => CancelsWhatWasShown
  <1>. DEFINE AsShown == \A c \in Confs : conf[c].action = "cancel" /\ acted'[c] > acted[c]
                           => "asked" \in said[c] /\ shown[c] = task.version
  <1>1. Inv /\ [Next]_vars => [AsShown]_vars
    <2>. SUFFICES ASSUME Inv, Next, NEW c \in Confs, conf[c].action = "cancel",
                         acted'[c] > acted[c]
                  PROVE  "asked" \in said[c] /\ shown[c] = task.version
      OBVIOUS
    <2>0. acted'[c] # acted[c] /\ TypeOK
      BY NextType DEF Inv, TypeOK
    <2>1. PICK s \in Slots : Moves(s)
      BY <2>0, NextCases, TaskEdited, JobsChanged DEF Edit, Crash
    <2>2. pc[s] \in ActStates /\ about[s] = c
      BY <2>0, <2>1, OthersWait
    <2>3. SaveTask(s) \/ CreateAnnouncement(s)
      BY <2>0, <2>1 DEF Moves, Deliver, Redeliver, Handle, StoreError, Step, Mark, FindTask,
        Insert, Expire, Take, ReadTask, CancelJobs, SchedulePublish, Tell, Apologise
    <2>4. ~CreateAnnouncement(s)
      BY <2>2 DEF CreateAnnouncement, Inv, SlotInv
    <2>5. conf[c].version = task.version
      BY <2>0, <2>2, <2>3, <2>4 DEF SaveTask
    \* The message that confirms it was written when the question had been told.
    <2>6. "asked" \in said[c]
      <3>1. at[s] \in Messages /\ msg[at[s]].kind = "confirm" /\ msg[at[s]].conf = c
        BY <2>0, <2>2 DEF Inv, SlotInv, NamedStates, TakenStates, Msg, Asking, TypeOK
      <3>2. QED
        BY <3>1 DEF Inv, MessageInv
    <2>7. shown[c] = conf[c].version
      BY <2>6 DEF Inv, ConfInv
    <2>8. QED
      BY <2>5, <2>6, <2>7
  <1>2. QED
    BY <1>1, Invariance, PTL DEF Spec, CancelsWhatWasShown
=============================================================================
