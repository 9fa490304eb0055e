--------------------------- MODULE ScheduleProofs ---------------------------
(***************************************************************************)
(* What happens by the clock: the chain of planning jobs with its check-   *)
(* ins, and the turns of recurring tasks.                                  *)
(*                                                                         *)
(* DailyPlanning is proved for any number of days, members, executions and *)
(* approvals, and any of the limits and distances in time.  ChainUnbroken  *)
(* rests on the time at which a job is claimed: it is past 6 o'clock of    *)
(* its day, so the day scheduled at its end is a later one.  CheckedInOnce *)
(* rests on what a run knew when it chose whom to write to, and on a draft *)
(* having one sender.                                                      *)
(*                                                                         *)
(* Routine is proved for every request, year and lateness, in a zone whose *)
(* clocks are tame (TameClocks).  A time decided upon is the time computed *)
(* for its local day, and that day is the first of those nextRecurrenceAt  *)
(* compares; local days and months do not go back with time, so what lies  *)
(* between two occurrences lies between their days.  The facts about the   *)
(* calendar that need an induction over months use the least month that    *)
(* contradicts them.                                                       *)
(***************************************************************************)
EXTENDS DailyPlanning, Routine, SequenceTheorems, WellFoundedInduction, TLAPS


\* A job that fell due or was claimed is past 6 o'clock of its day.
PastSix ==
    /\ \A d \in Days : jobs[d].due \/ jobs[d].status = "PROCESSING" => now >= 2 * d + 1
    /\ \A w \in Workers : job[w] # NoJob => now >= 2 * job[w] + 1

\* What is executed has a row, and what is about to be completed a later one.
HasRow == \A w \in Workers : job[w] # NoJob => jobs[job[w]].status # "NONE"
HasSuccessor ==
    \A w \in Workers : pc[w] = "complete" =>
        \E d \in Days : d > job[w] /\ jobs[d].status # "NONE"

LastIsOpen ==
    \E d \in Days : /\ jobs[d].status \in {"PENDING", "PROCESSING", "FAILED"}
                    /\ \A later \in Days : later > d => jobs[later].status = "NONE"

ChainInv == PastSix /\ HasRow /\ HasSuccessor /\ LastIsOpen

\* A member for whom a run will draft wrote long before the run, or during it.
WasQuiet ==
    /\ \A i \in DOMAIN checkins :
          checkins[i].heard < checkins[i].created =>
             checkins[i].heard + Quiet <= checkins[i].created
    /\ \A w \in Drafting :
          /\ since[w] <= now
          /\ \A m \in toDraft[w] : heard[m] < since[w] => heard[m] + Quiet <= since[w]

\* As long as no two runs drafted together, what a run will draft is as far from the
\* check-ins there are as those are from each other.
KeptApart ==
    ~overlapped =>
       /\ \A i, k \in DOMAIN checkins :
             i < k /\ checkins[i].member = checkins[k].member =>
                checkins[i].created + Recheck < checkins[k].created
       /\ \A w \in Drafting : \A m \in toDraft[w] : \A i \in DOMAIN checkins :
             checkins[i].member = m => checkins[i].created + Recheck < since[w]
       /\ \A w, x \in Drafting : w = x

\* An undisturbed draft is in the hands of one approval at most, and was sent if it
\* is the one that approval has to save.
IsSent(i) == \E a \in Approvals : apc[a] = "save" /\ IsFirst(i, chosen[a])
OneSender(i) ==
    /\ \A a, b \in Approvals : i \in chosen[a] /\ i \in chosen[b] => a = b
    /\ \A a \in Approvals : i \in chosen[a] => checkins[i].status = "DRAFT"
    /\ checkins[i].status = "DRAFT" /\ ~IsSent(i) => checkins[i].sent = 0
    /\ checkins[i].sent <= 1
SentOnce == \A i \in DOMAIN checkins : i \notin unsettled => OneSender(i)

CheckinInv == WasQuiet /\ KeptApart /\ SentOnce

-----------------------------------------------------------------------------
(* Lemmas.                                                                 *)

\* The day scheduled is one of the model, and after 6 o'clock of a day a later one.
LEMMA TargetDay ==
    ASSUME TypeOK
    PROVE  /\ Target \in Days
           /\ \A d \in Days : now >= 2 * d + 1 => Target > d
  <1> USE PlanningAssumption
  <1>1. now \in Nat /\ LastDay \in Nat /\ now <= 2 * LastDay + 1
    BY DEF TypeOK
  <1>2. now = 2 * (now \div 2) + (now % 2) /\ now % 2 \in {0, 1} /\ now \div 2 \in Nat
    BY <1>1
  <1>3. Target \in Days
    BY <1>1, <1>2 DEF Target, IsEarly, Day, Days
  <1>4. ASSUME NEW d \in Days, now >= 2 * d + 1 PROVE Target > d
    BY <1>1, <1>2, <1>4 DEF Target, IsEarly, Day, Days
  <1> QED  BY <1>3, <1>4

\* The statements on a row give a row.
LEMMA RowOperations ==
    ASSUME NEW row \in JobRow
    PROVE  /\ [row EXCEPT !.due = TRUE] \in JobRow
           /\ Created(row, FALSE) \in JobRow /\ Claimed(row) \in JobRow
           /\ Completed(row) \in JobRow /\ Failed(row, TRUE) \in JobRow
           /\ Recovered([row EXCEPT !.stale = TRUE]) \in JobRow
  <1>1. [row EXCEPT !.due = TRUE] \in JobRow /\ Created(row, FALSE) \in JobRow
    BY DEF JobRow, Created, JobStatus
  <1>2. Claimed(row) \in JobRow
    <2>1. row.attempts + 1 \in Nat
      BY DEF JobRow
    <2> QED  BY <2>1 DEF JobRow, Claimed, JobStatus
  <1>3. Completed(row) \in JobRow /\ Failed(row, TRUE) \in JobRow
    BY DEF JobRow, Completed, Failed, JobStatus
  <1>4. Recovered([row EXCEPT !.stale = TRUE]) \in JobRow
    BY DEF JobRow, Recovered, JobStatus
  <1> QED  BY <1>1, <1>2, <1>3, <1>4

\* scheduleNext gives the day a job that has none, and leaves every other row.
LEMMA Scheduling ==
    ASSUME TypeOK, NEW rows, rows = ScheduleNext(jobs)
    PROVE  /\ rows \in [Days -> JobRow]
           /\ \A d \in Days : jobs[d].status # "NONE" \/ d # Target => rows[d] = jobs[d]
           /\ jobs[Target].status = "NONE" =>
                 rows[Target].status = "PENDING" /\ rows[Target].due = FALSE
  <1>1. Target \in Days /\ jobs \in [Days -> JobRow]
    BY TargetDay DEF TypeOK
  <1>2. rows = [jobs EXCEPT ![Target] = Created(jobs[Target], FALSE)]
    BY DEF ScheduleNext
  <1>3. Created(jobs[Target], FALSE) \in JobRow
    BY <1>1, RowOperations
  <1>4. rows \in [Days -> JobRow]
    BY <1>1, <1>2, <1>3
  <1>5. \A d \in Days : jobs[d].status # "NONE" \/ d # Target => rows[d] = jobs[d]
    BY <1>1, <1>2 DEF Created
  <1>6. jobs[Target].status = "NONE" =>
           rows[Target].status = "PENDING" /\ rows[Target].due = FALSE
    BY <1>1, <1>2 DEF Created, JobRow
  <1> QED  BY <1>4, <1>5, <1>6

\* There is one newest draft at most.
LEMMA FirstIsOne ==
    ASSUME TypeOK, NEW a \in Approvals, NEW i, NEW k, IsFirst(i, chosen[a]), IsFirst(k, chosen[a])
    PROVE  i = k /\ i \in DOMAIN checkins
  <1>1. chosen[a] \subseteq DOMAIN checkins /\ DOMAIN checkins \subseteq Nat
    BY DEF TypeOK
  <1> QED  BY <1>1 DEF IsFirst

-----------------------------------------------------------------------------
(* Types.                                                                  *)

LEMMA InitType == Init => TypeOK
  <1> SUFFICES ASSUME Init PROVE TypeOK
    OBVIOUS
  <1> USE PlanningAssumption
  <1>1. now \in 0..(2 * LastDay + 1) /\ up \in BOOLEAN
    BY DEF Init
  <1>2. jobs \in [Days -> JobRow]
    <2>1. PICK none : none = [d \in Days |-> NoRow(Attempts)] /\ jobs = ScheduleNext(none)
      BY DEF Init
    <2>2. none \in [Days -> JobRow]
      BY <2>1 DEF NoRow, Attempts, JobRow, JobStatus
    <2>3. Target \in Days
      BY <1>1 DEF Target, IsEarly, Day, Days, Init
    <2>4. Created(none[Target], FALSE) \in JobRow
      BY <2>2, <2>3, RowOperations
    <2> QED  BY <2>1, <2>2, <2>3, <2>4 DEF ScheduleNext
  <1>3. checkins \in Seq(Checkin) /\ DOMAIN checkins = {}
    BY EmptySeq DEF Init
  <1>4. heard \in [Members -> Int] /\ since \in [Workers -> Nat]
    BY DEF Init
  <1>5. /\ pc \in [Workers -> {"idle", "read", "draft", "send", "schedule", "complete", "fail"}]
        /\ job \in [Workers -> Days \cup {NoJob}]
        /\ \A w \in Workers : (pc[w] = "idle") = (job[w] = NoJob)
        /\ toDraft \in [Workers -> SUBSET Members]
    BY DEF Init
  <1>6. /\ apc \in [Approvals -> {"idle", "send", "save"}]
        /\ chosen \in [Approvals -> SUBSET DOMAIN checkins]
        /\ unsettled \subseteq DOMAIN checkins
    BY DEF Init
  <1> QED  BY <1>1, <1>2, <1>3, <1>4, <1>5, <1>6 DEF TypeOK

\* The clock, the connection, the members and the rows.
LEMMA WorldType ==
    ASSUME TypeOK,
           \/ Tick \/ GoesDown \/ ComesUp \/ \E m \in Members : RecordMessage(m)
           \/ \E d \in Days : RunAtReached(d) \/ RecoverStale(d)
    PROVE  TypeOK'
  <1> USE PlanningAssumption DEF workerVars, approvalVars
  <1>1. CASE Tick
    BY <1>1 DEF Tick, TypeOK
  <1>2. CASE GoesDown \/ ComesUp
    BY <1>2 DEF GoesDown, ComesUp, TypeOK
  <1>3. ASSUME NEW m \in Members, RecordMessage(m) PROVE TypeOK'
    BY <1>3 DEF RecordMessage, TypeOK
  <1>4. ASSUME NEW d \in Days, RunAtReached(d) PROVE TypeOK'
    <2>1. jobs[d] \in JobRow /\ [jobs[d] EXCEPT !.due = TRUE] \in JobRow
      BY RowOperations DEF TypeOK
    <2>2. jobs' = [jobs EXCEPT ![d] = [jobs[d] EXCEPT !.due = TRUE]]
      BY <1>4 DEF RunAtReached
    <2>3. jobs' \in [Days -> JobRow]
      BY <2>1, <2>2 DEF TypeOK
    <2> QED  BY <1>4, <2>3 DEF RunAtReached, TypeOK
  <1>5. ASSUME NEW d \in Days, RecoverStale(d) PROVE TypeOK'
    <2>1. jobs[d] \in JobRow /\ Recovered([jobs[d] EXCEPT !.stale = TRUE]) \in JobRow
      BY RowOperations DEF TypeOK
    <2>2. jobs' \in [Days -> JobRow]
      BY <1>5, <2>1 DEF RecoverStale, TypeOK
    <2> QED  BY <1>5, <2>2 DEF RecoverStale, TypeOK
  <1> QED  BY <1>1, <1>2, <1>3, <1>4, <1>5

\* The execution of a job, from its claim to its end.
LEMMA WorkerType ==
    ASSUME TypeOK, NEW w \in Workers,
           \/ \E d \in Days : Claim(w, d)
           \/ ReadForDrafts(w) \/ SaveDraft(w) \/ SavePlanningRun(w)
           \/ SendSummary(w) \/ ScheduleTomorrow(w) \/ Settle(w) \/ StoreError(w)
    PROVE  TypeOK'
  <1> USE PlanningAssumption DEF workerVars, approvalVars, Step
  <1>1. ASSUME NEW d \in Days, Claim(w, d) PROVE TypeOK'
    <2>1. Claimed(jobs[d]) \in JobRow /\ d # NoJob
      <3>1. jobs[d] \in JobRow
        BY DEF TypeOK
      <3>2. d \in Nat
        BY DEF Days
      <3> QED  BY <3>1, <3>2, RowOperations
    <2>2. jobs' \in [Days -> JobRow] /\ job' = [job EXCEPT ![w] = d]
          /\ pc' = [pc EXCEPT ![w] = "read"]
      BY <1>1, <2>1 DEF Claim, TypeOK
    <2> QED  BY <1>1, <2>1, <2>2 DEF Claim, TypeOK
  <1>2. CASE ReadForDrafts(w)
    <2>1. PICK ms \in SUBSET Members : toDraft' = [toDraft EXCEPT ![w] = ms]
      BY <1>2 DEF ReadForDrafts, Wanted
    <2>2. since' \in [Workers -> Nat]
      BY <1>2 DEF ReadForDrafts, TypeOK
    <2> QED  BY <1>2, <2>1, <2>2 DEF ReadForDrafts, TypeOK
  <1>3. CASE SaveDraft(w)
    <2>1. PICK m \in toDraft[w] :
             /\ toDraft' = [toDraft EXCEPT ![w] = @ \ {m}]
             /\ checkins' = Append(checkins, [member |-> m, created |-> since[w],
                                              heard |-> heard[m], status |-> "DRAFT", sent |-> 0])
      BY <1>3 DEF SaveDraft
    <2>2. [member |-> m, created |-> since[w], heard |-> heard[m], status |-> "DRAFT",
           sent |-> 0] \in Checkin
      BY <2>1 DEF TypeOK, Checkin
    <2>3. checkins' \in Seq(Checkin) /\ DOMAIN checkins \subseteq DOMAIN checkins'
      BY <2>1, <2>2, AppendProperties DEF TypeOK
    <2> QED  BY <1>3, <2>1, <2>3 DEF SaveDraft, TypeOK
  <1>4. CASE SavePlanningRun(w)
    <2>1. pc' = [pc EXCEPT ![w] = "send"] \/ pc' = [pc EXCEPT ![w] = "schedule"]
      BY <1>4 DEF SavePlanningRun
    <2> QED  BY <1>4, <2>1 DEF SavePlanningRun, TypeOK
  <1>5. CASE SendSummary(w)
    <2>1. pc' = [pc EXCEPT ![w] = "schedule"] \/ pc' = [pc EXCEPT ![w] = "fail"]
      BY <1>5 DEF SendSummary
    <2> QED  BY <1>5, <2>1 DEF SendSummary, TypeOK
  <1>6. CASE ScheduleTomorrow(w)
    <2>1. jobs' \in [Days -> JobRow]
      BY <1>6, Scheduling DEF ScheduleTomorrow
    <2> QED  BY <1>6, <2>1 DEF ScheduleTomorrow, TypeOK
  <1>7. CASE Settle(w)
    <2>1. job[w] \in Days /\ jobs[job[w]] \in JobRow
      BY <1>7 DEF Settle, TypeOK
    <2>2. Completed(jobs[job[w]]) \in JobRow /\ Failed(jobs[job[w]], TRUE) \in JobRow
      BY <2>1, RowOperations
    <2>3. jobs' \in [Days -> JobRow]
      BY <1>7, <2>1, <2>2 DEF Settle, TypeOK
    <2> QED  BY <1>7, <2>3 DEF Settle, TypeOK
  <1>8. CASE StoreError(w)
    BY <1>8 DEF StoreError, TypeOK
  <1> QED  BY <1>1, <1>2, <1>3, <1>4, <1>5, <1>6, <1>7, <1>8

\* What a change of one check-in leaves of the others.
LEMMA CheckinChanged ==
    ASSUME TypeOK, NEW i \in DOMAIN checkins, NEW c \in Checkin,
           checkins' = [checkins EXCEPT ![i] = c]
    PROVE  /\ checkins' \in Seq(Checkin) /\ DOMAIN checkins' = DOMAIN checkins
           /\ \A k \in DOMAIN checkins : checkins'[k] = IF k = i THEN c ELSE checkins[k]
  <1>1. checkins \in Seq(Checkin)
    BY DEF TypeOK
  <1>2. DOMAIN checkins = 1..Len(checkins)
    BY <1>1
  <1> QED  BY <1>1, <1>2, ExceptSeq

LEMMA CheckinOperations ==
    ASSUME TypeOK, NEW i \in DOMAIN checkins
    PROVE  /\ [checkins[i] EXCEPT !.sent = @ + 1] \in Checkin
           /\ [checkins[i] EXCEPT !.status = "SENT"] \in Checkin
  <1>1. checkins[i] \in Checkin
    BY ElementOfSeq DEF TypeOK
  <1>2. checkins[i].sent + 1 \in Nat
    BY <1>1 DEF Checkin
  <1> QED  BY <1>1, <1>2 DEF Checkin

\* Approvals, and a restart of the process.
LEMMA ApprovalType ==
    ASSUME TypeOK, Restart \/ \E a \in Approvals : Approve(a) \/ SendCheckin(a) \/ SaveSent(a)
    PROVE  TypeOK'
  <1> USE PlanningAssumption DEF workerVars
  <1>1. CASE Restart
    <2>1. jobs' \in [Days -> JobRow]
      BY <1>1, Scheduling DEF Restart
    <2>2. unsettled' \subseteq DOMAIN checkins
      BY <1>1 DEF Restart, Sending, TypeOK
    <2> QED  BY <1>1, <2>1, <2>2 DEF Restart, TypeOK, approvalVars
  <1>2. ASSUME NEW a \in Approvals, Approve(a) PROVE TypeOK'
    <2>1. Newest \subseteq DOMAIN checkins
      BY DEF Newest, Drafts
    <2> QED  BY <1>2, <2>1 DEF Approve, TypeOK
  <1>3. ASSUME NEW a \in Approvals, SendCheckin(a) PROVE TypeOK'
    <2>1. CASE up
      <3>1. PICK i \in chosen[a] : checkins' = [checkins EXCEPT ![i].sent = @ + 1]
        BY <1>3, <2>1 DEF SendCheckin
      <3>2. i \in DOMAIN checkins
        BY DEF TypeOK
      <3>3. checkins' \in Seq(Checkin) /\ DOMAIN checkins' = DOMAIN checkins
        BY <3>1, <3>2, CheckinChanged, CheckinOperations
      <3> QED  BY <1>3, <2>1, <3>3 DEF SendCheckin, TypeOK
    <2>2. CASE ~up
      BY <1>3, <2>2 DEF SendCheckin, TypeOK
    <2> QED  BY <2>1, <2>2
  <1>4. ASSUME NEW a \in Approvals, SaveSent(a) PROVE TypeOK'
    <2>1. PICK i \in chosen[a] :
             Done(a, i) /\ checkins' = [checkins EXCEPT ![i] = [@ EXCEPT !.status = "SENT"]]
      BY <1>4 DEF SaveSent
    <2>2. i \in DOMAIN checkins
      BY DEF TypeOK
    <2>3. checkins' \in Seq(Checkin) /\ DOMAIN checkins' = DOMAIN checkins
      BY <2>1, <2>2, CheckinChanged, CheckinOperations
    <2> QED  BY <2>1, <2>3 DEF Done, TypeOK
  <1> QED  BY <1>1, <1>2, <1>3, <1>4

\* Every step keeps the types.
LEMMA NextType == TypeOK /\ [Next]_vars => TypeOK'
  <1> SUFFICES ASSUME TypeOK, [Next]_vars PROVE TypeOK'
    OBVIOUS
  <1>1. CASE UNCHANGED vars
    BY <1>1 DEF vars, TypeOK
  <1> QED  BY <1>1, WorldType, WorkerType, ApprovalType DEF Next

-----------------------------------------------------------------------------
(* The chain of jobs.                                                      *)

\* The job of a row that there is changes, and stays open: what is said of the rows
\* alone is kept.
LEMMA RowStaysOpen ==
    ASSUME TypeOK, HasRow, HasSuccessor, LastIsOpen, NEW d \in Days, NEW row \in JobRow,
           jobs' = [jobs EXCEPT ![d] = row], jobs[d].status # "NONE",
           row.status \in {"PENDING", "PROCESSING", "FAILED"},
           \A w \in Workers : job'[w] \in {job[w], NoJob, d},
           \A w \in Workers : pc'[w] = "complete" => pc[w] = "complete" /\ job'[w] = job[w]
    PROVE  HasRow' /\ HasSuccessor' /\ LastIsOpen'
  <1>1. /\ \A e \in Days : jobs'[e] = IF e = d THEN row ELSE jobs[e]
        /\ \A e \in Days : jobs[e].status # "NONE" => jobs'[e].status # "NONE"
    BY DEF TypeOK
  <1>2. HasRow'
    BY <1>1 DEF HasRow, TypeOK
  <1>3. HasSuccessor'
    BY <1>1 DEF HasSuccessor
  <1>4. LastIsOpen'
    <2>1. PICK e \in Days : /\ jobs[e].status \in {"PENDING", "PROCESSING", "FAILED"}
                            /\ \A later \in Days : later > e => jobs[later].status = "NONE"
      BY DEF LastIsOpen
    <2>2. jobs'[e].status \in {"PENDING", "PROCESSING", "FAILED"}
      BY <1>1, <2>1
    <2>3. \A later \in Days : later > e => jobs'[later].status = "NONE"
      BY <1>1, <2>1
    <2> QED  BY <2>2, <2>3 DEF LastIsOpen
  <1> QED  BY <1>2, <1>3, <1>4

\* Scheduling keeps the rows that there are, and leaves the last day open.
LEMMA SchedulingKeeps ==
    ASSUME TypeOK, LastIsOpen, PastSix, jobs' = ScheduleNext(jobs), now' = now
    PROVE  /\ \A d \in Days : jobs[d].status # "NONE" => jobs'[d].status # "NONE"
           /\ jobs'[Target].status # "NONE" /\ Target \in Days
           /\ LastIsOpen'
           /\ \A d \in Days : jobs'[d].due \/ jobs'[d].status = "PROCESSING" => now >= 2 * d + 1
  <1>1. /\ \A d \in Days : jobs[d].status # "NONE" \/ d # Target => jobs'[d] = jobs[d]
        /\ jobs[Target].status = "NONE" =>
              jobs'[Target].status = "PENDING" /\ jobs'[Target].due = FALSE
        /\ Target \in Days
    BY Scheduling, TargetDay
  <1>2. \A d \in Days : d \in Nat
    BY PlanningAssumption DEF Days
  <1>3. PICK e \in Days : /\ jobs[e].status \in {"PENDING", "PROCESSING", "FAILED"}
                          /\ \A later \in Days : later > e => jobs[later].status = "NONE"
    BY DEF LastIsOpen
  <1>4. jobs'[e].status \in {"PENDING", "PROCESSING", "FAILED"}
    BY <1>1, <1>3
  <1>5. LastIsOpen'
    <2>1. CASE Target > e
      <3>1. jobs'[Target].status = "PENDING"
        BY <1>1, <1>3, <2>1
      <3>2. \A later \in Days : later > Target => jobs'[later].status = "NONE"
        BY <1>1, <1>2, <1>3, <2>1
      <3> QED  BY <1>1, <3>1, <3>2 DEF LastIsOpen
    <2>2. CASE ~(Target > e)
      <3>1. \A later \in Days : later > e => jobs'[later].status = "NONE"
        BY <1>1, <1>2, <1>3, <2>2
      <3> QED  BY <1>4, <3>1 DEF LastIsOpen
    <2> QED  BY <2>1, <2>2
  <1>6. ASSUME NEW d \in Days, jobs'[d].due \/ jobs'[d].status = "PROCESSING"
        PROVE  now >= 2 * d + 1
    BY <1>1, <1>6 DEF PastSix
  <1> QED  BY <1>1, <1>5, <1>6

\* The chain has begun when the process starts.
LEMMA InitChain == Init => ChainInv
  <1> SUFFICES ASSUME Init PROVE ChainInv
    OBVIOUS
  <1>1. PICK none : none = [d \in Days |-> NoRow(Attempts)] /\ jobs = ScheduleNext(none)
    BY DEF Init
  <1>2. Target \in Days /\ \A d \in Days : d \in Nat
    BY InitType, TargetDay, PlanningAssumption DEF Days
  <1>3. /\ \A d \in Days : d # Target => jobs[d].status = "NONE" /\ jobs[d].due = FALSE
        /\ jobs[Target].status = "PENDING" /\ jobs[Target].due = FALSE
    BY <1>1, <1>2 DEF ScheduleNext, Created, NoRow
  <1>4. LastIsOpen
    BY <1>2, <1>3 DEF LastIsOpen
  <1>5. \A w \in Workers : pc[w] = "idle" /\ job[w] = NoJob
    BY DEF Init
  <1>6. PastSix /\ HasRow /\ HasSuccessor
    BY <1>3, <1>5 DEF PastSix, HasRow, HasSuccessor
  <1> QED  BY <1>4, <1>6 DEF ChainInv

\* Nothing of the chain is touched, or only the clock goes on.
LEMMA ChainUntouched ==
    ASSUME TypeOK, ChainInv, jobs' = jobs, job' = job, now' \in {now, now + 1},
           \A w \in Workers : pc'[w] = "complete" => pc[w] = "complete"
    PROVE  ChainInv'
  <1>1. now \in Nat /\ now' >= now /\ now' \in Nat
    BY PlanningAssumption DEF TypeOK
  <1>2. \A d \in Days : d \in Nat
    BY PlanningAssumption DEF Days
  <1>3. PastSix'
    <2>1. ASSUME NEW d \in Days, now >= 2 * d + 1 PROVE now' >= 2 * d + 1
      BY <1>1, <1>2, <2>1
    <2>2. \A w \in Workers : job[w] # NoJob => job[w] \in Days
      BY DEF TypeOK
    <2> QED  BY <2>1, <2>2 DEF ChainInv, PastSix
  <1>4. HasRow' /\ HasSuccessor' /\ LastIsOpen'
    BY DEF ChainInv, HasRow, HasSuccessor, LastIsOpen
  <1> QED  BY <1>3, <1>4 DEF ChainInv

\* A job falls due, is recovered or is claimed.
LEMMA RowChain ==
    ASSUME TypeOK, ChainInv, NEW d \in Days,
           RunAtReached(d) \/ RecoverStale(d) \/ \E w \in Workers : Claim(w, d)
    PROVE  ChainInv'
  <1> USE DEF ChainInv, workerVars
  <1>1. jobs[d] \in JobRow /\ \A e \in Days : e \in Nat
    BY PlanningAssumption DEF TypeOK, Days
  <1>2. CASE RunAtReached(d)
    <2>1. DEFINE row == [jobs[d] EXCEPT !.due = TRUE]
    <2>2. /\ row \in JobRow /\ jobs' = [jobs EXCEPT ![d] = row]
          /\ jobs[d].status = "PENDING" /\ row.status = "PENDING"
          /\ now >= 2 * d + 1 /\ now' = now /\ job' = job /\ pc' = pc
      BY <1>1, <1>2, RowOperations DEF RunAtReached, FallsDue, JobRow
    <2> HIDE DEF row
    <2>3. HasRow' /\ HasSuccessor' /\ LastIsOpen'
      BY <2>2, RowStaysOpen
    <2>4. PastSix'
      BY <2>2 DEF PastSix, TypeOK
    <2> QED  BY <2>3, <2>4
  <1>3. CASE RecoverStale(d)
    <2>1. DEFINE row == Recovered([jobs[d] EXCEPT !.stale = TRUE])
    <2>2. row \in JobRow /\ row.status \in {"PENDING", "FAILED"}
      <3>1. jobs[d].status = "PROCESSING"
        BY <1>3 DEF RecoverStale
      <3> QED  BY <1>1, <3>1, RowOperations DEF Recovered, Interrupted, JobRow
    <2>3. /\ jobs' = [jobs EXCEPT ![d] = row] /\ jobs[d].status = "PROCESSING"
          /\ now' = now /\ job' = job /\ pc' = pc
      BY <1>3 DEF RecoverStale
    <2> HIDE DEF row
    <2>4. HasRow' /\ HasSuccessor' /\ LastIsOpen'
      BY <2>2, <2>3, RowStaysOpen
    <2>5. PastSix'
      BY <2>2, <2>3 DEF PastSix, TypeOK
    <2> QED  BY <2>4, <2>5
  <1>4. ASSUME NEW w \in Workers, Claim(w, d) PROVE ChainInv'
    <2>1. DEFINE row == Claimed(jobs[d])
    <2>2. row \in JobRow /\ row.status = "PROCESSING"
      BY <1>1, RowOperations DEF Claimed, JobRow
    <2>3. /\ jobs' = [jobs EXCEPT ![d] = row] /\ jobs[d].status = "PENDING" /\ jobs[d].due
          /\ now' = now /\ job' = [job EXCEPT ![w] = d] /\ pc' = [pc EXCEPT ![w] = "read"]
      BY <1>4 DEF Claim, Claimable, Step
    <2> HIDE DEF row
    <2>4. /\ \A x \in Workers : job'[x] \in {job[x], d}
          /\ \A x \in Workers : pc'[x] = "complete" => pc[x] = "complete" /\ job'[x] = job[x]
      BY <2>3 DEF TypeOK
    <2>5. HasRow' /\ HasSuccessor' /\ LastIsOpen'
      BY <2>2, <2>3, <2>4, RowStaysOpen
    <2>6. now >= 2 * d + 1
      BY <2>3 DEF PastSix
    <2>7. PastSix'
      BY <2>2, <2>3, <2>4, <2>6 DEF PastSix, TypeOK
    <2> QED  BY <2>5, <2>7
  <1> QED  BY <1>2, <1>3, <1>4

\* The next day is scheduled past 6 o'clock of the day of the run: it is a later one.
LEMMA ScheduleChain ==
    ASSUME TypeOK, ChainInv, Restart \/ \E w \in Workers : ScheduleTomorrow(w)
    PROVE  ChainInv'
  <1> USE DEF ChainInv, workerVars
  <1>1. jobs' = ScheduleNext(jobs) /\ now' = now
    BY DEF Restart, ScheduleTomorrow
  <1>2. /\ \A d \in Days : jobs[d].status # "NONE" => jobs'[d].status # "NONE"
        /\ jobs'[Target].status # "NONE" /\ Target \in Days
        /\ LastIsOpen'
        /\ \A d \in Days : jobs'[d].due \/ jobs'[d].status = "PROCESSING" => now >= 2 * d + 1
    BY <1>1, SchedulingKeeps
  <1>3. CASE Restart
    BY <1>2, <1>3 DEF Restart, PastSix, HasRow, HasSuccessor
  <1>4. ASSUME NEW w \in Workers, ScheduleTomorrow(w) PROVE ChainInv'
    <2>1. pc' = [pc EXCEPT ![w] = "complete"] /\ pc[w] = "schedule" /\ job' = job
      BY <1>4 DEF ScheduleTomorrow, Step
    <2>2. job[w] \in Days /\ job[w] # NoJob
      BY <2>1 DEF TypeOK
    <2>3. Target > job[w]
      BY <2>2, TargetDay DEF PastSix
    <2>4. HasSuccessor'
      <3>1. ASSUME NEW x \in Workers, pc'[x] = "complete"
            PROVE  \E d \in Days : d > job[x] /\ jobs'[d].status # "NONE"
        <4>1. CASE x = w
          BY <1>2, <2>3, <4>1
        <4>2. CASE x # w
          BY <1>2, <2>1, <3>1, <4>2 DEF HasSuccessor, TypeOK
        <4> QED  BY <4>1, <4>2
      <3> QED  BY <2>1, <3>1 DEF HasSuccessor
    <2>5. PastSix' /\ HasRow'
      BY <1>1, <1>2, <2>1 DEF PastSix, HasRow, TypeOK
    <2> QED  BY <1>2, <2>4, <2>5
  <1> QED  BY <1>3, <1>4

\* A run that succeeded is not the last one: its successor has a row.
LEMMA SettleChain ==
    ASSUME TypeOK, ChainInv, NEW w \in Workers, Settle(w)
    PROVE  ChainInv'
  <1> USE DEF ChainInv
  <1>1. /\ pc[w] \in {"complete", "fail"} /\ now' = now
        /\ job' = [job EXCEPT ![w] = NoJob] /\ pc' = [pc EXCEPT ![w] = "idle"]
    BY DEF Settle, Step
  <1>2. job[w] \in Days /\ job[w] # NoJob /\ jobs[job[w]] \in JobRow
    BY <1>1 DEF TypeOK
  <1>3. DEFINE d == job[w]
  <1>4. jobs[d].status # "NONE" /\ now >= 2 * d + 1
    BY <1>2 DEF HasRow, PastSix
  <1>5. CASE pc[w] = "fail"
    <2>1. DEFINE row == Failed(jobs[d], TRUE)
    <2>2. row \in JobRow /\ row.status \in {"PENDING", "PROCESSING", "FAILED"}
      BY <1>2, RowOperations DEF Failed, JobRow
    <2>3. jobs' = [jobs EXCEPT ![d] = row]
      BY <1>5 DEF Settle
    <2> HIDE DEF row, d
    <2>4. /\ \A x \in Workers : job'[x] \in {job[x], NoJob}
          /\ \A x \in Workers : pc'[x] = "complete" => pc[x] = "complete" /\ job'[x] = job[x]
      BY <1>1 DEF TypeOK
    <2>5. d \in Days
      BY <1>2 DEF d
    <2>6. HasRow' /\ HasSuccessor' /\ LastIsOpen'
      BY <1>4, <2>2, <2>3, <2>4, <2>5, RowStaysOpen
    <2>7. PastSix'
      BY <1>1, <1>4, <2>3, <2>4, <2>5 DEF PastSix, TypeOK
    <2> QED  BY <2>6, <2>7
  <1>6. CASE pc[w] = "complete"
    <2>1. DEFINE row == Completed(jobs[d])
    <2>2. row.status # "NONE" /\ (row.status = "PROCESSING" => jobs[d].status = "PROCESSING")
      BY <1>2, <1>4 DEF Completed, JobRow
    <2>3. jobs' = [jobs EXCEPT ![d] = row]
      BY <1>6 DEF Settle
    <2>4. PICK s \in Days : s > d /\ jobs[s].status # "NONE"
      BY <1>6 DEF HasSuccessor
    <2> HIDE DEF row, d
    <2>5. d \in Days /\ \A e \in Days : e \in Nat
      BY <1>2, PlanningAssumption DEF d, Days
    <2>6. \A e \in Days : jobs'[e] = IF e = d THEN row ELSE jobs[e]
      BY <2>3, <2>5 DEF TypeOK
    <2>7. /\ \A x \in Workers : x # w => job'[x] = job[x] /\ pc'[x] = pc[x]
          /\ job'[w] = NoJob /\ pc'[w] = "idle"
      BY <1>1 DEF TypeOK
    <2>8. PastSix'
      BY <1>1, <1>4, <2>6, <2>7 DEF PastSix
    <2>9. HasRow' /\ HasSuccessor'
      <3>1. \A e \in Days : jobs[e].status # "NONE" => jobs'[e].status # "NONE"
        BY <2>2, <2>6
      <3>2. \A x \in Workers : job[x] # NoJob => job[x] \in Days
        BY DEF TypeOK
      <3>3. HasRow'
        BY <2>7, <3>1, <3>2 DEF HasRow
      <3>4. HasSuccessor'
        BY <2>7, <3>1 DEF HasSuccessor
      <3> QED  BY <3>3, <3>4
    <2>10. PICK e \in Days : /\ jobs[e].status \in {"PENDING", "PROCESSING", "FAILED"}
                             /\ \A later \in Days : later > e => jobs[later].status = "NONE"
      BY DEF LastIsOpen
    <2>11. e > d
      BY <2>4, <2>5, <2>10
    <2>12. LastIsOpen'
      <3>1. jobs'[e].status \in {"PENDING", "PROCESSING", "FAILED"}
        BY <2>5, <2>6, <2>10, <2>11
      <3>2. \A later \in Days : later > e => jobs'[later].status = "NONE"
        BY <2>5, <2>6, <2>10, <2>11
      <3> QED  BY <3>1, <3>2 DEF LastIsOpen
    <2> QED  BY <2>8, <2>9, <2>12
  <1> QED  BY <1>1, <1>5, <1>6

\* Every step keeps the chain.
LEMMA NextChain == TypeOK /\ ChainInv /\ [Next]_vars => ChainInv'
  <1> SUFFICES ASSUME TypeOK, ChainInv, [Next]_vars PROVE ChainInv'
    OBVIOUS
  <1> USE DEF workerVars, approvalVars
  <1>1. CASE Tick \/ GoesDown \/ ComesUp \/ \E m \in Members : RecordMessage(m)
    <2>1. jobs' = jobs /\ job' = job /\ now' \in {now, now + 1} /\ pc' = pc
      BY <1>1 DEF Tick, GoesDown, ComesUp, RecordMessage
    <2> QED  BY <2>1, ChainUntouched
  <1>2. ASSUME NEW w \in Workers,
               \/ ReadForDrafts(w) \/ SaveDraft(w) \/ SavePlanningRun(w)
               \/ SendSummary(w) \/ StoreError(w)
        PROVE  ChainInv'
    <2>1. jobs' = jobs /\ job' = job /\ now' = now
      BY <1>2 DEF ReadForDrafts, SaveDraft, SavePlanningRun, SendSummary, StoreError
    <2>2. \/ pc' = pc
          \/ \E s \in {"draft", "send", "schedule", "fail"} : pc' = [pc EXCEPT ![w] = s]
      BY <1>2 DEF ReadForDrafts, SaveDraft, SavePlanningRun, SendSummary, StoreError, Step
    <2>3. \A x \in Workers : pc'[x] = "complete" => pc[x] = "complete"
      BY <2>2 DEF TypeOK
    <2> QED  BY <2>1, <2>3, ChainUntouched
  <1>3. ASSUME NEW a \in Approvals, Approve(a) \/ SendCheckin(a) \/ SaveSent(a)
        PROVE  ChainInv'
    <2>1. jobs' = jobs /\ job' = job /\ now' = now /\ pc' = pc
      BY <1>3 DEF Approve, SendCheckin, SaveSent, Done
    <2> QED  BY <2>1, ChainUntouched
  <1>4. CASE UNCHANGED vars
    BY <1>4, ChainUntouched DEF vars
  <1> QED  BY <1>1, <1>2, <1>3, <1>4, RowChain, ScheduleChain, SettleChain DEF Next

-----------------------------------------------------------------------------
(* The check-ins.                                                          *)

RunInv == WasQuiet /\ KeptApart

\* No check-in is made, no run begins to draft, and nobody writes.
LEMMA RunsUntouched ==
    ASSUME TypeOK, RunInv, DOMAIN checkins' = DOMAIN checkins,
           \A i \in DOMAIN checkins :
              /\ checkins'[i].member = checkins[i].member
              /\ checkins'[i].created = checkins[i].created
              /\ checkins'[i].heard = checkins[i].heard,
           heard' = heard, now' \in {now, now + 1}, overlapped' = overlapped,
           \A w \in Drafting' :
              w \in Drafting /\ since'[w] = since[w] /\ toDraft'[w] = toDraft[w]
    PROVE  RunInv'
  <1> USE DEF RunInv
  <1>1. now \in Nat /\ now' >= now /\ \A w \in Drafting : since[w] \in Nat
    BY PlanningAssumption DEF TypeOK, Drafting
  <1>2. WasQuiet'
    <2>1. ASSUME NEW w \in Drafting' PROVE since[w] <= now'
      <3>1. w \in Drafting /\ since[w] <= now
        BY DEF WasQuiet
      <3>2. now' \in Nat
        BY <1>1
      <3> QED  BY <1>1, <3>1, <3>2
    <2> QED  BY <2>1 DEF WasQuiet
  <1>3. KeptApart'
    BY DEF KeptApart
  <1> QED  BY <1>2, <1>3

\* A member who writes during a run writes after the run has begun.
LEMMA RecordKeepsRuns ==
    ASSUME TypeOK, RunInv, NEW m \in Members, RecordMessage(m)
    PROVE  RunInv'
  <1> USE DEF RunInv, workerVars
  <1>1. /\ heard' = [heard EXCEPT ![m] = now] /\ checkins' = checkins /\ now' = now
        /\ pc' = pc /\ since' = since /\ toDraft' = toDraft /\ overlapped' = overlapped
        /\ Drafting' = Drafting
    BY DEF RecordMessage, Drafting
  <1>2. now \in Nat /\ \A w \in Drafting : since[w] \in Nat /\ since[w] <= now
    BY PlanningAssumption DEF TypeOK, Drafting, WasQuiet
  <1>3. ASSUME NEW w \in Drafting, NEW x \in toDraft[w], heard'[x] < since[w]
        PROVE  heard'[x] + Quiet <= since[w]
    <2>1. x \in Members
      BY DEF TypeOK, Drafting
    <2>2. x # m
      BY <1>1, <1>2, <1>3, <2>1 DEF TypeOK
    <2> QED  BY <1>1, <1>3, <2>1, <2>2 DEF TypeOK, WasQuiet
  <1>4. WasQuiet'
    BY <1>1, <1>2, <1>3 DEF WasQuiet
  <1>5. KeptApart'
    BY <1>1 DEF KeptApart
  <1> QED  BY <1>4, <1>5

\* A run chooses from those who were quiet and not written to.
LEMMA ReadKeepsRuns ==
    ASSUME TypeOK, RunInv, NEW w \in Workers, ReadForDrafts(w)
    PROVE  RunInv'
  <1> USE DEF RunInv
  <1>1. PICK ms \in SUBSET {m \in Members \ RecentlyChecked : heard[m] + Quiet <= now} :
           toDraft' = [toDraft EXCEPT ![w] = ms]
    BY DEF ReadForDrafts, Wanted
  <1>2. /\ since' = [since EXCEPT ![w] = now] /\ pc' = [pc EXCEPT ![w] = "draft"]
        /\ overlapped' = (overlapped \/ Drafting # {})
        /\ checkins' = checkins /\ heard' = heard /\ now' = now /\ pc[w] = "read"
    BY DEF ReadForDrafts, Step
  <1>3. /\ toDraft'[w] = ms /\ since'[w] = now
        /\ Drafting' = Drafting \cup {w}
        /\ \A x \in Drafting : x # w /\ toDraft'[x] = toDraft[x] /\ since'[x] = since[x]
    BY <1>1, <1>2 DEF TypeOK, Drafting
  <1>4. now \in Nat
    BY PlanningAssumption DEF TypeOK
  <1>5. WasQuiet'
    <2>1. \A m \in ms : heard[m] + Quiet <= now
      OBVIOUS
    <2>2. ASSUME NEW x \in Drafting'
          PROVE  /\ since'[x] <= now
                 /\ \A m \in toDraft'[x] : heard[m] < since'[x] => heard[m] + Quiet <= since'[x]
      BY <1>3, <1>4, <2>1 DEF WasQuiet
    <2> QED  BY <1>2, <2>2 DEF WasQuiet
  <1>6. KeptApart'
    <2> SUFFICES ASSUME ~overlapped' PROVE KeptApart'
      BY DEF KeptApart
    <2>1. ~overlapped /\ Drafting = {} /\ Drafting' = {w}
      BY <1>2, <1>3
    <2>2. ASSUME NEW m \in ms, NEW i \in DOMAIN checkins, checkins[i].member = m
          PROVE  checkins[i].created + Recheck < now
      <3>1. ~(checkins[i].created + Recheck >= now)
        BY <2>2 DEF RecentlyChecked
      <3>2. checkins[i].created \in Nat
        <4>1. checkins[i] \in Checkin
          BY ElementOfSeq DEF TypeOK
        <4> QED  BY <4>1 DEF Checkin
      <3> QED  BY <1>4, <3>1, <3>2, PlanningAssumption
    <2> QED  BY <1>2, <1>3, <2>1, <2>2 DEF KeptApart
  <1> QED  BY <1>5, <1>6

\* The draft that is made is as far from those there are as the run knew.
LEMMA DraftKeepsRuns ==
    ASSUME TypeOK, RunInv, NEW w \in Workers, SaveDraft(w)
    PROVE  RunInv'
  <1> USE DEF RunInv
  <1>1. PICK m \in toDraft[w] :
           /\ toDraft' = [toDraft EXCEPT ![w] = @ \ {m}]
           /\ checkins' = Append(checkins, [member |-> m, created |-> since[w],
                                            heard |-> heard[m], status |-> "DRAFT", sent |-> 0])
    BY DEF SaveDraft
  <1>2. DEFINE new == [member |-> m, created |-> since[w], heard |-> heard[m],
                       status |-> "DRAFT", sent |-> 0]
               n == Len(checkins)
  <1>3. /\ w \in Drafting /\ Drafting' = Drafting /\ heard' = heard /\ now' = now
        /\ since' = since /\ overlapped' = overlapped
    BY DEF SaveDraft, Drafting
  <1>4. new.member = m /\ new.created = since[w] /\ new.heard = heard[m]
    OBVIOUS
  <1>5. checkins \in Seq(Checkin) /\ new \in Checkin
    BY DEF TypeOK, Checkin
  <1> HIDE DEF new
  <1>6. checkins' = Append(checkins, new)
    BY <1>1 DEF new
  <1>7. /\ n \in Nat /\ DOMAIN checkins = 1..n /\ DOMAIN checkins' = 1..(n + 1)
        /\ checkins'[n + 1] = new
        /\ \A i \in DOMAIN checkins : checkins'[i] = checkins[i]
    BY <1>5, <1>6, AppendProperties, LenProperties
  <1> HIDE DEF n
  <1>8. \A x \in Drafting : toDraft'[x] \subseteq toDraft[x] /\ (x = w => m \notin toDraft'[x])
    BY <1>1 DEF TypeOK, Drafting
  <1>9. WasQuiet'
    <2>1. ASSUME NEW i \in DOMAIN checkins', checkins'[i].heard < checkins'[i].created
          PROVE  checkins'[i].heard + Quiet <= checkins'[i].created
      <3>1. CASE i \in DOMAIN checkins
        BY <1>7, <2>1, <3>1 DEF WasQuiet
      <3>2. CASE i \notin DOMAIN checkins
        <4>1. checkins'[i] = new
          BY <1>7, <3>2
        <4> QED  BY <1>1, <1>3, <1>4, <2>1, <4>1 DEF WasQuiet
      <3> QED  BY <3>1, <3>2
    <2> QED  BY <1>3, <1>8, <2>1 DEF WasQuiet
  <1>10. KeptApart'
    <2> SUFFICES ASSUME ~overlapped PROVE KeptApart'
      BY <1>3 DEF KeptApart
    <2>1. ASSUME NEW i \in DOMAIN checkins', NEW k \in DOMAIN checkins', i < k,
                 checkins'[i].member = checkins'[k].member
          PROVE  checkins'[i].created + Recheck < checkins'[k].created
      <3>1. i \in DOMAIN checkins
        BY <1>7, <2>1
      <3>2. CASE k \in DOMAIN checkins
        BY <1>7, <2>1, <3>1, <3>2 DEF KeptApart
      <3>3. CASE k \notin DOMAIN checkins
        <4>1. checkins'[k] = new
          BY <1>7, <3>3
        <4> QED  BY <1>1, <1>3, <1>4, <1>7, <2>1, <3>1, <4>1 DEF KeptApart
      <3> QED  BY <3>2, <3>3
    <2>2. ASSUME NEW x \in Drafting, NEW y \in toDraft'[x], NEW i \in DOMAIN checkins',
                 checkins'[i].member = y
          PROVE  checkins'[i].created + Recheck < since[x]
      <3>1. x = w /\ y # m /\ y \in toDraft[x]
        BY <1>3, <1>8 DEF KeptApart
      <3>2. i \in DOMAIN checkins
        BY <1>4, <1>7, <2>2, <3>1
      <3> QED  BY <1>7, <2>2, <3>1, <3>2 DEF KeptApart
    <2> QED  BY <1>3, <2>1, <2>2 DEF KeptApart
  <1> QED  BY <1>9, <1>10

\* The approvals do not touch what the runs look at, nor do the other steps.
LEMMA ElseKeepsRuns ==
    ASSUME TypeOK, RunInv,
           \/ Tick \/ GoesDown \/ ComesUp \/ Restart
           \/ \E d \in Days : RunAtReached(d) \/ RecoverStale(d)
           \/ \E w \in Workers : \/ \E d \in Days : Claim(w, d)
                                 \/ SavePlanningRun(w) \/ SendSummary(w)
                                 \/ ScheduleTomorrow(w) \/ Settle(w) \/ StoreError(w)
           \/ \E a \in Approvals : Approve(a) \/ SendCheckin(a) \/ SaveSent(a)
    PROVE  RunInv'
  <1> USE DEF workerVars, approvalVars
  <1>1. CASE \/ Tick \/ GoesDown \/ ComesUp
             \/ \E d \in Days : RunAtReached(d) \/ RecoverStale(d)
    <2>1. /\ checkins' = checkins /\ heard' = heard /\ now' \in {now, now + 1}
          /\ overlapped' = overlapped /\ pc' = pc /\ since' = since /\ toDraft' = toDraft
      BY <1>1 DEF Tick, GoesDown, ComesUp, RunAtReached, RecoverStale
    <2> QED  BY <2>1, RunsUntouched DEF Drafting
  <1>2. CASE Restart
    <2>1. /\ checkins' = checkins /\ heard' = heard /\ now' = now
          /\ overlapped' = overlapped /\ Drafting' = {}
      BY <1>2 DEF Restart, Drafting
    <2> QED  BY <2>1, RunsUntouched
  <1>3. ASSUME NEW w \in Workers,
               \/ \E d \in Days : Claim(w, d)
               \/ SavePlanningRun(w) \/ SendSummary(w)
               \/ ScheduleTomorrow(w) \/ Settle(w) \/ StoreError(w)
        PROVE  RunInv'
    <2>1. /\ checkins' = checkins /\ heard' = heard /\ now' = now /\ overlapped' = overlapped
          /\ \E s \in {"read", "send", "schedule", "complete", "fail", "idle"} :
                pc' = [pc EXCEPT ![w] = s]
      BY <1>3 DEF Claim, SavePlanningRun, SendSummary, ScheduleTomorrow, Settle, StoreError, Step
    <2>2. \A x \in Workers : x # w => since'[x] = since[x] /\ toDraft'[x] = toDraft[x]
      BY <1>3 DEF Claim, SavePlanningRun, SendSummary, ScheduleTomorrow, Settle, StoreError, TypeOK
    <2>3. \A x \in Drafting' : x # w /\ x \in Drafting
      BY <2>1 DEF Drafting, TypeOK
    <2>4. \A x \in Drafting' :
             x \in Drafting /\ since'[x] = since[x] /\ toDraft'[x] = toDraft[x]
      BY <2>2, <2>3 DEF Drafting
    <2> QED  BY <2>1, <2>4, RunsUntouched
  <1>4. ASSUME NEW a \in Approvals, Approve(a) \/ SendCheckin(a) \/ SaveSent(a)
        PROVE  RunInv'
    <2>1. /\ heard' = heard /\ now' = now /\ overlapped' = overlapped
          /\ pc' = pc /\ since' = since /\ toDraft' = toDraft /\ Drafting' = Drafting
      BY <1>4 DEF Approve, SendCheckin, SaveSent, Done, Drafting
    <2>2. \/ checkins' = checkins
          \/ \E i \in DOMAIN checkins :
                \/ checkins' = [checkins EXCEPT ![i].sent = @ + 1]
                \/ checkins' = [checkins EXCEPT ![i].status = "SENT"]
      BY <1>4 DEF Approve, SendCheckin, SaveSent, TypeOK
    <2>3. /\ DOMAIN checkins' = DOMAIN checkins
          /\ \A i \in DOMAIN checkins :
                /\ checkins'[i].member = checkins[i].member
                /\ checkins'[i].created = checkins[i].created
                /\ checkins'[i].heard = checkins[i].heard
      <3>1. \A i \in DOMAIN checkins : checkins[i] \in Checkin
        BY ElementOfSeq DEF TypeOK
      <3> QED  BY <2>2, <3>1 DEF Checkin
    <2> QED  BY <2>1, <2>3, RunsUntouched
  <1> QED  BY <1>1, <1>2, <1>3, <1>4

\* The drafts and those who send them stay as they are, or more drafts are given up on.
LEMMA SendersUntouched ==
    ASSUME SentOnce, checkins' = checkins, apc' = apc, chosen' = chosen, unsettled' = unsettled
    PROVE  SentOnce'
  <1>1. \A i : (IsSent(i) <=> IsSent(i)') /\ (OneSender(i) <=> OneSender(i)')
    BY DEF IsSent, IsFirst, OneSender
  <1> QED  BY <1>1 DEF SentOnce

\* A new draft is in nobody's hands.
LEMMA DraftIsUnsent ==
    ASSUME TypeOK, SentOnce, NEW w \in Workers, SaveDraft(w)
    PROVE  SentOnce'
  <1>1. PICK m \in toDraft[w] :
           checkins' = Append(checkins, [member |-> m, created |-> since[w], heard |-> heard[m],
                                         status |-> "DRAFT", sent |-> 0])
    BY DEF SaveDraft
  <1>2. DEFINE new == [member |-> m, created |-> since[w], heard |-> heard[m],
                       status |-> "DRAFT", sent |-> 0]
  <1>3. checkins \in Seq(Checkin) /\ new \in Checkin
    BY DEF TypeOK, Checkin
  <1>4. new.status = "DRAFT" /\ new.sent = 0
    OBVIOUS
  <1> HIDE DEF new
  <1>5. checkins' = Append(checkins, new)
    BY <1>1 DEF new
  <1>6. \A i \in DOMAIN checkins' : IF i \in DOMAIN checkins THEN checkins'[i] = checkins[i]
                                                             ELSE checkins'[i] = new
    BY <1>3, <1>5, AppendProperties, LenProperties
  <1>7. apc' = apc /\ chosen' = chosen /\ unsettled' = unsettled
    BY DEF SaveDraft, approvalVars
  <1>8. \A i : IsSent(i)' <=> IsSent(i)
    BY <1>7 DEF IsSent, IsFirst
  <1>9. ASSUME NEW i \in DOMAIN checkins', i \notin unsettled PROVE OneSender(i)'
    <2>1. CASE i \in DOMAIN checkins
      <3>1. checkins'[i] = checkins[i] /\ OneSender(i)
        BY <1>6, <1>9, <2>1 DEF SentOnce
      <3> QED  BY <1>7, <1>8, <3>1 DEF OneSender
    <2>2. CASE i \notin DOMAIN checkins
      <3>1. checkins'[i] = new /\ \A a \in Approvals : i \notin chosen[a]
        BY <1>6, <2>2 DEF TypeOK
      <3> QED  BY <1>4, <1>7, <3>1 DEF OneSender
    <2> QED  BY <2>1, <2>2
  <1> QED  BY <1>7, <1>9 DEF SentOnce

\* An approval takes drafts that nobody has in hand; those it shares are disturbed.
LEMMA ApproveKeepsSenders ==
    ASSUME TypeOK, SentOnce, NEW a \in Approvals, Approve(a)
    PROVE  SentOnce'
  <1>1. /\ chosen' = [chosen EXCEPT ![a] = Newest] /\ apc' = [apc EXCEPT ![a] = "send"]
        /\ unsettled' = unsettled \cup (Newest \cap Sending)
        /\ checkins' = checkins /\ apc[a] = "idle"
    BY DEF Approve
  <1>2. /\ chosen'[a] = Newest /\ apc'[a] = "send"
        /\ \A b \in Approvals : b # a => chosen'[b] = chosen[b] /\ apc'[b] = apc[b]
    BY <1>1 DEF TypeOK
  <1>3. ASSUME NEW i \in DOMAIN checkins, i \notin unsettled' PROVE OneSender(i)'
    <2>1. OneSender(i)
      BY <1>1, <1>3 DEF SentOnce
    <2>2. i \in Newest => checkins[i].status = "DRAFT" /\ \A b \in Approvals : i \notin chosen[b]
      BY <1>1, <1>3 DEF Newest, Drafts, Sending
    <2>3. IsSent(i) => IsSent(i)'
      BY <1>1, <1>2 DEF IsSent, IsFirst
    <2>4. \A b, c \in Approvals : i \in chosen'[b] /\ i \in chosen'[c] => b = c
      BY <1>2, <2>1, <2>2 DEF OneSender
    <2>5. \A b \in Approvals : i \in chosen'[b] => checkins[i].status = "DRAFT"
      BY <1>2, <2>1, <2>2 DEF OneSender
    <2> QED  BY <1>1, <2>1, <2>3, <2>4, <2>5 DEF OneSender
  <1> QED  BY <1>1, <1>3 DEF SentOnce

\* The newest draft an approval holds was not sent before.
LEMMA SendKeepsSenders ==
    ASSUME TypeOK, SentOnce, NEW a \in Approvals, SendCheckin(a)
    PROVE  SentOnce'
  <1>1. unsettled' = unsettled /\ apc[a] = "send"
    BY DEF SendCheckin
  <1>2. CASE up
    <2>1. PICK i \in chosen[a] : /\ IsFirst(i, chosen[a])
                                 /\ checkins' = [checkins EXCEPT ![i].sent = @ + 1]
      BY <1>2 DEF SendCheckin
    <2>2. apc' = [apc EXCEPT ![a] = "save"] /\ chosen' = chosen
      BY <1>2 DEF SendCheckin
    <2>3. i \in DOMAIN checkins /\ checkins[i] \in Checkin
      BY ElementOfSeq DEF TypeOK
    <2>4. /\ DOMAIN checkins' = DOMAIN checkins
          /\ \A k \in DOMAIN checkins : /\ k # i => checkins'[k] = checkins[k]
                                        /\ checkins'[k].status = checkins[k].status
          /\ checkins'[i].sent = checkins[i].sent + 1
      BY <2>1, <2>3 DEF TypeOK, Checkin
    <2>5. \A k : IsSent(k) => IsSent(k)'
      BY <1>1, <2>2 DEF IsSent, IsFirst, TypeOK
    <2>6. IsSent(i)'
      BY <2>1, <2>2 DEF IsSent, IsFirst, TypeOK
    <2>7. ASSUME NEW k \in DOMAIN checkins, k \notin unsettled PROVE OneSender(k)'
      <3>1. OneSender(k)
        BY <2>7 DEF SentOnce
      <3>2. CASE k # i
        BY <2>2, <2>4, <2>5, <3>1, <3>2 DEF OneSender
      <3>3. CASE k = i
        <4>1. checkins[i].status = "DRAFT" /\ ~IsSent(i)
          BY <1>1, <2>1, <3>1, <3>3 DEF OneSender, IsSent, IsFirst
        <4>2. checkins'[i].sent = 1
          BY <2>4, <3>1, <3>3, <4>1 DEF OneSender
        <4> QED  BY <2>2, <2>4, <2>6, <3>1, <3>3, <4>2 DEF OneSender
      <3> QED  BY <3>2, <3>3
    <2> QED  BY <1>1, <2>4, <2>7 DEF SentOnce
  <1>3. CASE ~up
    <2>1. /\ apc' = [apc EXCEPT ![a] = "idle"] /\ chosen' = [chosen EXCEPT ![a] = {}]
          /\ checkins' = checkins
      BY <1>3 DEF SendCheckin
    <2>2. /\ chosen'[a] = {}
          /\ \A b \in Approvals : b # a => chosen'[b] = chosen[b] /\ apc'[b] = apc[b]
      BY <2>1 DEF TypeOK
    <2>3. \A k : IsSent(k) => IsSent(k)'
      BY <1>1, <2>2 DEF IsSent, IsFirst
    <2>4. ASSUME NEW k \in DOMAIN checkins, k \notin unsettled PROVE OneSender(k)'
      <3>1. OneSender(k)
        BY <2>4 DEF SentOnce
      <3> QED  BY <2>1, <2>2, <2>3, <3>1 DEF OneSender
    <2> QED  BY <1>1, <2>1, <2>4 DEF SentOnce
  <1> QED  BY <1>2, <1>3

\* What was sent is saved, and leaves the hands of its sender.
LEMMA SaveKeepsSenders ==
    ASSUME TypeOK, SentOnce, NEW a \in Approvals, SaveSent(a)
    PROVE  SentOnce'
  <1>1. PICK i \in chosen[a] :
           Done(a, i) /\ checkins' = [checkins EXCEPT ![i].status = "SENT"]
    BY DEF SaveSent
  <1>2. /\ IsFirst(i, chosen[a]) /\ chosen' = [chosen EXCEPT ![a] = @ \ {i}]
        /\ apc' = [apc EXCEPT ![a] = IF chosen[a] = {i} THEN "idle" ELSE "send"]
        /\ unsettled' = unsettled
    BY <1>1 DEF Done
  <1>3. i \in DOMAIN checkins /\ checkins[i] \in Checkin
    BY ElementOfSeq DEF TypeOK
  <1>4. /\ DOMAIN checkins' = DOMAIN checkins
        /\ \A k \in DOMAIN checkins : /\ k # i => checkins'[k] = checkins[k]
                                      /\ checkins'[k].sent = checkins[k].sent
        /\ checkins'[i].status = "SENT"
    BY <1>1, <1>3 DEF TypeOK, Checkin
  <1>5. /\ chosen'[a] = chosen[a] \ {i}
        /\ \A b \in Approvals : b # a => chosen'[b] = chosen[b] /\ apc'[b] = apc[b]
    BY <1>2 DEF TypeOK
  <1>6. ASSUME NEW k, k # i, IsSent(k) PROVE IsSent(k)'
    <2>1. PICK b \in Approvals : apc[b] = "save" /\ IsFirst(k, chosen[b])
      BY <1>6 DEF IsSent
    <2>2. b # a
      BY <1>2, <1>6, <2>1, FirstIsOne
    <2> QED  BY <1>5, <2>1, <2>2 DEF IsSent, IsFirst
  <1>7. ASSUME NEW k \in DOMAIN checkins, k \notin unsettled PROVE OneSender(k)'
    <2>1. OneSender(k)
      BY <1>7 DEF SentOnce
    <2>2. \A b \in Approvals : k \in chosen'[b] => k \in chosen[b] /\ ~(b = a /\ k = i)
      BY <1>5
    <2>3. CASE k # i
      BY <1>4, <1>6, <2>1, <2>2, <2>3 DEF OneSender
    <2>4. CASE k = i
      BY <1>1, <1>4, <2>1, <2>2, <2>4 DEF OneSender
    <2> QED  BY <2>3, <2>4
  <1> QED  BY <1>2, <1>4, <1>7 DEF SentOnce

LEMMA InitCheckins == Init => CheckinInv
  <1> SUFFICES ASSUME Init PROVE CheckinInv
    OBVIOUS
  <1>1. DOMAIN checkins = {}
    BY DEF Init
  <1>2. Drafting = {}
    BY DEF Init, Drafting
  <1> QED  BY <1>1, <1>2 DEF CheckinInv, WasQuiet, KeptApart, SentOnce

\* Every step keeps what is said of the check-ins.
LEMMA NextCheckins == TypeOK /\ CheckinInv /\ [Next]_vars => CheckinInv'
  <1> SUFFICES ASSUME TypeOK, CheckinInv, [Next]_vars PROVE CheckinInv'
    OBVIOUS
  <1> USE DEF CheckinInv, workerVars, approvalVars
  <1>1. RunInv'
    <2>1. CASE UNCHANGED vars
      <3>1. /\ checkins' = checkins /\ heard' = heard /\ now' = now
            /\ overlapped' = overlapped /\ pc' = pc /\ since' = since /\ toDraft' = toDraft
        BY <2>1 DEF vars
      <3> QED  BY <3>1, RunsUntouched DEF RunInv, Drafting
    <2>2. CASE Next
      BY <2>2, RecordKeepsRuns, ReadKeepsRuns, DraftKeepsRuns, ElseKeepsRuns DEF RunInv, Next
    <2> QED  BY <2>1, <2>2
  <1>2. SentOnce'
    <2>1. CASE \/ Tick \/ GoesDown \/ ComesUp \/ \E m \in Members : RecordMessage(m)
               \/ \E d \in Days : RunAtReached(d) \/ RecoverStale(d)
      <3>1. checkins' = checkins /\ apc' = apc /\ chosen' = chosen /\ unsettled' = unsettled
        BY <2>1 DEF Tick, GoesDown, ComesUp, RecordMessage, RunAtReached, RecoverStale
      <3> QED  BY <3>1, SendersUntouched
    <2>2. ASSUME NEW w \in Workers,
                 \/ \E d \in Days : Claim(w, d)
                 \/ ReadForDrafts(w) \/ SavePlanningRun(w) \/ SendSummary(w)
                 \/ ScheduleTomorrow(w) \/ Settle(w) \/ StoreError(w)
          PROVE  SentOnce'
      <3>1. checkins' = checkins /\ apc' = apc /\ chosen' = chosen /\ unsettled' = unsettled
        BY <2>2 DEF Claim, ReadForDrafts, SavePlanningRun, SendSummary, ScheduleTomorrow, Settle,
                    StoreError
      <3> QED  BY <3>1, SendersUntouched
    <2>3. CASE Restart
      <3>1. checkins' = checkins /\ unsettled' = unsettled \cup Sending
            /\ \A a \in Approvals : chosen'[a] = {}
        BY <2>3 DEF Restart
      <3>2. ASSUME NEW i \in DOMAIN checkins, i \notin unsettled' PROVE OneSender(i)'
        <4>1. OneSender(i) /\ ~IsSent(i)
          BY <3>1, <3>2 DEF SentOnce, IsSent, IsFirst, Sending
        <4> QED  BY <3>1, <4>1 DEF OneSender
      <3> QED  BY <3>1, <3>2 DEF SentOnce
    <2>4. CASE UNCHANGED vars
      BY <2>4, SendersUntouched DEF vars
    <2> QED  BY <2>1, <2>2, <2>3, <2>4, DraftIsUnsent, ApproveKeepsSenders, SendKeepsSenders,
                SaveKeepsSenders DEF Next
  <1> QED  BY <1>1, <1>2 DEF RunInv

-----------------------------------------------------------------------------
(* Theorems.                                                               *)

\* The variables keep their types: a job executed is one of the ledger, and an approval
\* holds check-ins that there are.
THEOREM PlanningTypes == Spec => []TypeOK
  BY InitType, NextType, PTL DEF Spec

\* Whatever failed, was retried, interrupted or restarted, the chain of planning jobs
\* has not ended without a trace: the last day with a job has it waiting, running or
\* given up.  (PlanningService.scheduleNext, execute)
THEOREM ChainIsUnbroken == Spec => []ChainUnbroken
  <1>1. TypeOK /\ ChainInv => ChainUnbroken
    BY DEF ChainInv, LastIsOpen, ChainUnbroken
  <1> QED  BY <1>1, InitType, NextType, InitChain, NextChain, PTL DEF Spec

\* A member is drafted for only after 14 days of silence and 30 days without a check-in,
\* and a draft is sent once, unless two runs or two approvals met, or a restart.
\* (draftInactiveMemberCheckins, sendApprovedCheckins)
THEOREM CheckinsAreOnce == Spec => []CheckedInOnce
  <1>1. CheckinInv => CheckedInOnce
    BY DEF CheckinInv, WasQuiet, KeptApart, SentOnce, OneSender, CheckedInOnce
  <1> QED  BY <1>1, InitType, NextType, InitCheckins, NextCheckins, PTL DEF Spec

-----------------------------------------------------------------------------
(* The calendar.                                                           *)

\* A set of natural numbers has a least one.
LEMMA MinOfNats ==
    ASSUME NEW S \in SUBSET Nat, S # {}
    PROVE  Min(S) \in S /\ \A x \in S : Min(S) <= x
  <1>1. PICK x \in S : \A y \in S : ~(<<y, x>> \in OpToRel(<, Nat))
    BY NatLessThanWellFounded, WFMin
  <1>2. ASSUME NEW y \in S PROVE x <= y
    <2>1. ~(<<y, x>>[1] < <<y, x>>[2])
      BY <1>1, Zenon DEF OpToRel
    <2> QED  BY <2>1
  <1> QED  BY <1>2 DEF Min

\* A year has 365 days, or 366 when it is a leap year.
LEMMA YearStep ==
    ASSUME NEW year \in Nat
    PROVE  /\ YearStart(year) \in Int
           /\ YearStart(year + 1) = YearStart(year) + (IF IsLeap(year) THEN 366 ELSE 365)
  <1>1. year \div 4 = (year - 1) \div 4 + (IF year % 4 = 0 THEN 1 ELSE 0)
    OBVIOUS
  <1>2. year \div 100 = (year - 1) \div 100 + (IF year % 100 = 0 THEN 1 ELSE 0)
    OBVIOUS
  <1>3. year \div 400 = (year - 1) \div 400 + (IF year % 400 = 0 THEN 1 ELSE 0)
    OBVIOUS
  <1>4. /\ year % 100 = 0 => year % 4 = 0
        /\ year % 400 = 0 => year % 100 = 0
    OBVIOUS
  <1>5. /\ (year - 1) \div 4 \in Int /\ (year - 1) \div 100 \in Int
        /\ (year - 1) \div 400 \in Int /\ year + 1 - 1 = year
    OBVIOUS
  <1> QED  BY <1>1, <1>2, <1>3, <1>4, <1>5 DEF YearStart, IsLeap

\* Of two years the later one begins 365 days later for each year between them.
LEMMA YearOrder ==
    ASSUME NEW y \in Nat, NEW z \in Nat, y <= z
    PROVE  YearStart(y) + 365 * (z - y) <= YearStart(z)
  <1>1. \A x \in Int : x \div 100 = (x \div 4) \div 25
    OBVIOUS
  <1>2. \A x \in Int : x \div 400 = (x \div 100) \div 4
    OBVIOUS
  <1>3. \A p, q \in Int : p <= q => p - p \div 25 <= q - q \div 25
    OBVIOUS
  <1>4. \A p, q \in Int : p <= q => p \div 4 <= q \div 4 /\ p \div 100 <= q \div 100
    OBVIOUS
  <1> DEFINE a == (y - 1) \div 4
             b == (z - 1) \div 4
  <1>5. a \in Int /\ b \in Int /\ a <= b /\ a - a \div 25 <= b - b \div 25
    BY <1>3, <1>4
  <1>6. (y - 1) \div 100 = a \div 25 /\ (z - 1) \div 100 = b \div 25
    BY <1>1
  <1>7. (y - 1) \div 400 <= (z - 1) \div 400
    OBVIOUS
  <1>8. a \div 25 \in Int /\ b \div 25 \in Int
        /\ (y - 1) \div 400 \in Int /\ (z - 1) \div 400 \in Int
    BY <1>5
  <1> HIDE DEF a, b
  <1>9. YearStart(y) = 365 * y + a - a \div 25 + (y - 1) \div 400
    BY <1>6 DEF YearStart, a
  <1>10. YearStart(z) = 365 * z + b - b \div 25 + (z - 1) \div 400
    BY <1>6 DEF YearStart, b
  <1> QED  BY <1>5, <1>7, <1>8, <1>9, <1>10

\* What the first days of the months of a year are, without the year they are in.
InYear(i, leap) == DaysBefore[i + 1] + (IF i > 1 /\ leap THEN 1 ELSE 0)

LEMMA MonthsOfYear ==
    ASSUME NEW leap \in BOOLEAN
    PROVE  /\ InYear(0, leap) = 0
           /\ \A i \in 0..11 : InYear(i, leap) \in Nat /\ 28 * i <= InYear(i, leap)
           /\ \A i \in 0..10 : InYear(i + 1, leap) - InYear(i, leap) \in 28..31
           /\ (IF leap THEN 366 ELSE 365) - InYear(11, leap) = 31
  <1>1. \A i \in 0..11 : \/ i = 0 \/ i = 1 \/ i = 2 \/ i = 3 \/ i = 4 \/ i = 5
                         \/ i = 6 \/ i = 7 \/ i = 8 \/ i = 9 \/ i = 10 \/ i = 11
    OBVIOUS
  <1>2. InYear(0, leap) = 0 /\ InYear(1, leap) = 31
    BY DEF InYear, DaysBefore
  <1>3. /\ InYear(2, leap) = IF leap THEN 60 ELSE 59
        /\ InYear(3, leap) = IF leap THEN 91 ELSE 90
        /\ InYear(4, leap) = IF leap THEN 121 ELSE 120
    BY DEF InYear, DaysBefore
  <1>4. /\ InYear(5, leap) = IF leap THEN 152 ELSE 151
        /\ InYear(6, leap) = IF leap THEN 182 ELSE 181
        /\ InYear(7, leap) = IF leap THEN 213 ELSE 212
    BY DEF InYear, DaysBefore
  <1>5. /\ InYear(8, leap) = IF leap THEN 244 ELSE 243
        /\ InYear(9, leap) = IF leap THEN 274 ELSE 273
        /\ InYear(10, leap) = IF leap THEN 305 ELSE 304
        /\ InYear(11, leap) = IF leap THEN 335 ELSE 334
    BY DEF InYear, DaysBefore
  <1> QED  BY <1>1, <1>2, <1>3, <1>4, <1>5

LEMMA FirstDayAt ==
    ASSUME NEW m \in Nat
    PROVE  /\ m \div 12 \in Nat /\ m % 12 \in 0..11 /\ m = 12 * (m \div 12) + (m % 12)
           /\ FirstDay(m) = YearStart(FirstYear + m \div 12) - YearStart(FirstYear)
                               + InYear(m % 12, IsLeap(FirstYear + m \div 12))
  <1>1. m \div 12 \in Nat /\ m % 12 \in 0..11 /\ m = 12 * (m \div 12) + (m % 12)
    OBVIOUS
  <1>2. FirstYear + m \div 12 \in Nat /\ FirstYear \in Nat
    BY <1>1, CalendarAssumption
  <1>3. YearStart(FirstYear + m \div 12) \in Int /\ YearStart(FirstYear) \in Int
    BY <1>2, YearStep
  <1>4. DaysBefore[(m % 12) + 1] \in Int
    BY <1>1 DEF DaysBefore
  <1> QED  BY <1>1, <1>3, <1>4 DEF FirstDay, InYear

\* A month has 28 to 31 days.
LEMMA MonthStep ==
    ASSUME NEW m \in Nat
    PROVE  FirstDay(m) \in Nat /\ FirstDay(m + 1) - FirstDay(m) \in 28..31
  <1> DEFINE a == m \div 12
             i == m % 12
             y == FirstYear + a
             leap == IsLeap(y)
  <1>1. a \in Nat /\ i \in 0..11 /\ m = 12 * a + i
        /\ FirstDay(m) = YearStart(y) - YearStart(FirstYear) + InYear(i, leap)
    BY FirstDayAt
  <1>2. FirstYear \in Nat /\ y \in Nat /\ FirstYear <= y
    BY <1>1, CalendarAssumption
  <1>3. YearStart(FirstYear) \in Int /\ YearStart(y) \in Int
        /\ YearStart(FirstYear) <= YearStart(y)
    BY <1>2, YearStep, YearOrder
  <1>4. leap \in BOOLEAN
    BY DEF IsLeap
  <1>5. InYear(i, leap) \in Nat
    BY <1>1, <1>4, MonthsOfYear
  <1>6. CASE i # 11
    <2>1. (m + 1) \div 12 = a /\ (m + 1) % 12 = i + 1
      BY <1>1, <1>6
    <2>2. FirstDay(m + 1) = YearStart(y) - YearStart(FirstYear) + InYear(i + 1, leap)
      BY <2>1, FirstDayAt
    <2>3. i \in 0..10 /\ i + 1 \in 0..11
      BY <1>1, <1>6
    <2>4. InYear(i + 1, leap) - InYear(i, leap) \in 28..31 /\ InYear(i + 1, leap) \in Nat
      BY <1>4, <2>3, MonthsOfYear
    <2> HIDE DEF a, i, y, leap
    <2> QED  BY <1>1, <1>3, <1>5, <2>2, <2>4
  <1>7. CASE i = 11
    <2>1. (m + 1) \div 12 = a + 1 /\ (m + 1) % 12 = 0
      BY <1>1, <1>7
    <2>2. FirstDay(m + 1) = YearStart(y + 1) - YearStart(FirstYear) + InYear(0, IsLeap(y + 1))
      <3>1. m + 1 \in Nat /\ FirstYear + (a + 1) = y + 1
        BY <1>1, <1>2
      <3> HIDE DEF a, i, y, leap
      <3> QED  BY <2>1, <3>1, FirstDayAt
    <2>3. InYear(0, IsLeap(y + 1)) = 0 /\ (IF leap THEN 366 ELSE 365) - InYear(11, leap) = 31
      BY <1>4, MonthsOfYear DEF IsLeap
    <2>4. YearStart(y + 1) = YearStart(y) + (IF leap THEN 366 ELSE 365)
      BY <1>2, YearStep
    <2> HIDE DEF a, i, y, leap
    <2> QED  BY <1>1, <1>3, <1>5, <1>7, <2>2, <2>3, <2>4
  <1> QED  BY <1>6, <1>7

\* Months are not shorter than 28 days, so the days of the year bound them.
LEMMA FirstDayBound ==
    ASSUME NEW m \in Nat
    PROVE  28 * m <= FirstDay(m) /\ FirstDay(0) = 0
  <1> DEFINE a == m \div 12
             i == m % 12
             y == FirstYear + a
             leap == IsLeap(y)
  <1>1. a \in Nat /\ i \in 0..11 /\ m = 12 * a + i
        /\ FirstDay(m) = YearStart(y) - YearStart(FirstYear) + InYear(i, leap)
    BY FirstDayAt
  <1>2. FirstYear \in Nat /\ y \in Nat /\ y - FirstYear = a
    BY <1>1, CalendarAssumption
  <1>3. YearStart(FirstYear) \in Int /\ YearStart(y) \in Int
        /\ YearStart(FirstYear) + 365 * a <= YearStart(y)
    BY <1>1, <1>2, YearStep, YearOrder
  <1>4. leap \in BOOLEAN /\ IsLeap(FirstYear) \in BOOLEAN
    BY DEF IsLeap
  <1>5. InYear(i, leap) \in Nat /\ 28 * i <= InYear(i, leap)
    BY <1>1, <1>4, MonthsOfYear
  <1>6. FirstDay(0) = 0
    <2>1. 0 \div 12 = 0 /\ 0 % 12 = 0 /\ FirstYear + 0 = FirstYear
      BY <1>2
    <2>2. FirstDay(0) = YearStart(FirstYear) - YearStart(FirstYear)
                           + InYear(0, IsLeap(FirstYear))
      BY <2>1, FirstDayAt
    <2> QED  BY <1>3, <1>4, <2>2, MonthsOfYear
  <1> HIDE DEF a, i, y, leap
  <1> QED  BY <1>1, <1>3, <1>5, <1>6

LEMMA MonthOrder ==
    ASSUME NEW m \in Nat, NEW n \in Nat, m < n
    PROVE  FirstDay(m + 1) <= FirstDay(n)
  <1> DEFINE S == {k \in Nat : m < k /\ FirstDay(k) < FirstDay(m + 1)}
  <1>1. SUFFICES ASSUME S # {} PROVE FALSE
    BY MonthStep
  <1>2. Min(S) \in S /\ \A x \in S : Min(S) <= x
    BY <1>1, MinOfNats
  <1>3. PICK k \in S : \A x \in S : k <= x
    BY <1>2
  <1>4. k \in Nat /\ m < k /\ FirstDay(k) < FirstDay(m + 1) /\ k # m + 1
    BY <1>3, MonthStep
  <1>5. k - 1 \in Nat /\ m < k - 1 /\ k - 1 + 1 = k
    BY <1>4
  <1>6. FirstDay(k - 1) \in Nat /\ FirstDay(k) - FirstDay(k - 1) \in 28..31
        /\ FirstDay(k) \in Nat /\ FirstDay(m + 1) \in Nat
    BY <1>4, <1>5, MonthStep
  <1>7. FirstDay(k - 1) < FirstDay(m + 1)
    BY <1>4, <1>6
  <1>8. k - 1 \in S
    BY <1>5, <1>7
  <1> QED  BY <1>3, <1>4, <1>8

\* Every day is in one month, the one MonthOf finds.
LEMMA MonthOfDay ==
    ASSUME NEW day \in Nat
    PROVE  /\ MonthOf(day) \in Nat
           /\ FirstDay(MonthOf(day)) <= day /\ day < FirstDay(MonthOf(day) + 1)
           /\ \A m \in Nat : FirstDay(m) <= day /\ day < FirstDay(m + 1) => m = MonthOf(day)
  <1> DEFINE S == {k \in Nat : day < FirstDay(k + 1)}
  <1>1. day \in S
    <2>1. day + 1 \in Nat /\ FirstDay(day + 1) \in Nat
      BY MonthStep
    <2>2. 28 * (day + 1) <= FirstDay(day + 1)
      BY <2>1, FirstDayBound
    <2> QED  BY <2>1, <2>2
  <1>2. PICK k \in S : \A x \in S : k <= x
    BY <1>1, MinOfNats
  <1>3. k \in Nat /\ day < FirstDay(k + 1)
    BY <1>2
  <1>4. FirstDay(k) <= day
    <2>1. CASE k = 0
      BY <2>1, FirstDayBound
    <2>2. CASE k # 0
      <3>1. k - 1 \in Nat /\ k - 1 + 1 = k /\ ~(k <= k - 1)
        BY <1>3, <2>2
      <3>2. k - 1 \notin S
        BY <1>2, <3>1
      <3>3. ~(day < FirstDay(k)) /\ FirstDay(k) \in Nat
        BY <1>3, <3>1, <3>2, MonthStep
      <3> QED  BY <3>3
    <2> QED  BY <2>1, <2>2
  <1>5. k \in 0..(day \div 28)
    <2>1. 28 * k <= FirstDay(k) /\ FirstDay(k) \in Nat
      BY <1>3, FirstDayBound, MonthStep
    <2> QED  BY <1>3, <1>4, <2>1
  <1>6. /\ MonthOf(day) \in 0..(day \div 28)
        /\ FirstDay(MonthOf(day)) <= day /\ day < FirstDay(MonthOf(day) + 1)
    BY <1>3, <1>4, <1>5 DEF MonthOf
  <1>7. MonthOf(day) \in Nat
    BY <1>6
  <1>8. ASSUME NEW m \in Nat, FirstDay(m) <= day, day < FirstDay(m + 1)
        PROVE  m = MonthOf(day)
    <2> DEFINE n == MonthOf(day)
    <2>1. n \in Nat /\ FirstDay(n) <= day /\ day < FirstDay(n + 1)
      BY <1>6, <1>7
    <2>2. /\ FirstDay(m) \in Nat /\ FirstDay(m + 1) \in Nat
          /\ FirstDay(n) \in Nat /\ FirstDay(n + 1) \in Nat
      BY <2>1, MonthStep
    <2> HIDE DEF n
    <2>3. m < n => FirstDay(m + 1) <= FirstDay(n)
      BY <2>1, MonthOrder
    <2>4. n < m => FirstDay(n + 1) <= FirstDay(m)
      BY <2>1, MonthOrder
    <2>5. m = n
      BY <1>8, <2>1, <2>2, <2>3, <2>4
    <2> QED  BY <2>5 DEF n
  <1> QED  BY <1>6, <1>7, <1>8

\* Later days are in no earlier month.
LEMMA MonthsFollow ==
    ASSUME NEW d \in Nat, NEW e \in Nat, d <= e
    PROVE  MonthOf(d) <= MonthOf(e)
  <1> DEFINE m == MonthOf(d)
             n == MonthOf(e)
  <1>1. m \in Nat /\ n \in Nat /\ FirstDay(m) <= d /\ e < FirstDay(n + 1)
    BY MonthOfDay
  <1>2. FirstDay(m) \in Nat /\ FirstDay(n + 1) \in Nat
    BY <1>1, MonthStep
  <1> HIDE DEF m, n
  <1>3. n < m => FirstDay(n + 1) <= FirstDay(m)
    BY <1>1, MonthOrder
  <1>4. m <= n
    BY <1>1, <1>2, <1>3
  <1> QED  BY <1>4 DEF m, n

\* The day a monthly routine is on is a day of the month, and the one asked for as
\* far as the month has it.
LEMMA DayInMonth ==
    ASSUME NEW m \in Nat, NEW wanted \in Nat \ {0}
    PROVE  /\ DayIn(m, wanted) \in Nat
           /\ MonthOf(DayIn(m, wanted)) = m
           /\ DayIn(m, wanted) - FirstDay(m) + 1 =
                 IF wanted > MonthLength(m) THEN MonthLength(m) ELSE wanted
           /\ DayIn(m, wanted) < FirstDay(m + 1)
  <1> DEFINE day == DayIn(m, wanted)
  <1>1. FirstDay(m) \in Nat /\ FirstDay(m + 1) \in Nat /\ MonthLength(m) \in 28..31
        /\ MonthLength(m) = FirstDay(m + 1) - FirstDay(m)
    BY MonthStep DEF MonthLength
  <1>2. /\ day \in Nat /\ FirstDay(m) <= day /\ day < FirstDay(m + 1)
        /\ day - FirstDay(m) + 1 = IF wanted > MonthLength(m) THEN MonthLength(m) ELSE wanted
    BY <1>1 DEF DayIn
  <1>3. MonthOf(day) = m
    <2> HIDE DEF day
    <2> QED  BY <1>2, MonthOfDay
  <1> QED  BY <1>2, <1>3

-----------------------------------------------------------------------------
(* The clock.                                                              *)

RoutineHours == {HourNamed(text) : text \in Requests}

\* The clocks change by an hour at most, and never so that the time of a routine
\* computed for a day is on another day.
TameClocks ==
    /\ OffsetAfter - OffsetBefore \in -1..1
    /\ \A day \in Nat, hour \in RoutineHours : KeepsDay(day, hour)

LocalDay(t) == getLocalParts(t).day

LEMMA Offset ==
    ASSUME NEW t
    PROVE  getTimeZoneOffset(t) \in -12..14
  BY CalendarAssumption DEF getTimeZoneOffset

LEMMA LocalParts ==
    ASSUME NEW t \in Int
    PROVE  /\ getLocalParts(t).day \in Int /\ getLocalParts(t).hour \in Hours
           /\ getLocalParts(t).weekday = (LocalDay(t) + FirstWeekday) % 7
           /\ 24 * getLocalParts(t).day + getLocalParts(t).hour = t + getTimeZoneOffset(t)
           /\ t >= 12 => LocalDay(t) \in Nat
  <1>1. getTimeZoneOffset(t) \in -12..14
    BY Offset
  <1> QED  BY <1>1 DEF getLocalParts, LocalDay, Hours

\* Local days do not go back.
LEMMA LocalOrder ==
    ASSUME TameClocks, NEW t \in Int, NEW u \in Int, t <= u
    PROVE  LocalDay(t) <= LocalDay(u)
  <1>1. t + getTimeZoneOffset(t) <= u + getTimeZoneOffset(u)
    BY CalendarAssumption DEF getTimeZoneOffset, TameClocks
  <1>2. getTimeZoneOffset(t) \in -12..14 /\ getTimeZoneOffset(u) \in -12..14
    BY Offset
  <1>3. \A a, b \in Int : a <= b => a \div 24 <= b \div 24
    OBVIOUS
  <1> DEFINE p == t + getTimeZoneOffset(t)
             q == u + getTimeZoneOffset(u)
  <1>4. p \in Int /\ q \in Int /\ p <= q
    BY <1>1, <1>2
  <1>5. p \div 24 <= q \div 24
    <2> HIDE DEF p, q
    <2> QED  BY <1>3, <1>4
  <1> QED  BY <1>5 DEF LocalDay, getLocalParts

\* The time of a day is an instant of it, less than an hour from where it should be
\* on the clock.
LEMMA TimeOfDay ==
    ASSUME NEW day \in Int, NEW hour \in Hours
    PROVE  /\ localDateTimeToUtc(day, hour) \in Int
           /\ localDateTimeToUtc(day, hour) \in (24 * day + hour - 14)..(24 * day + hour + 12)
  <1>1. getTimeZoneOffset(24 * day + hour) \in -12..14
    BY Offset
  <1> QED  BY <1>1 DEF localDateTimeToUtc, Hours

LEMMA HoursOfRoutines == RoutineHours \subseteq Hours
  BY RoutineAssumption DEF RoutineHours, HourNamed, Hours

LEMMA DayIsKept ==
    ASSUME TameClocks, NEW day \in Nat, NEW hour \in RoutineHours
    PROVE  LocalDay(localDateTimeToUtc(day, hour)) = day
  BY DEF TameClocks, KeepsDay, LocalDay

\* The time of a later day is later.
LEMMA LaterDay ==
    ASSUME TameClocks, NEW t \in Int, NEW day \in Nat, NEW hour \in RoutineHours,
           LocalDay(t) < day
    PROVE  t < localDateTimeToUtc(day, hour)
  <1> DEFINE u == localDateTimeToUtc(day, hour)
  <1>1. u \in Int /\ LocalDay(u) = day
    BY TimeOfDay, HoursOfRoutines, DayIsKept
  <1>2. LocalDay(t) \in Int
    BY LocalParts DEF LocalDay
  <1> HIDE DEF u
  <1>3. u <= t => LocalDay(u) <= LocalDay(t)
    BY <1>1, LocalOrder
  <1>4. t < u
    BY <1>1, <1>2, <1>3
  <1> QED  BY <1>4 DEF u

\* Away from the change, the time computed is the hour asked for, and an instant at
\* that hour is the time computed for its day.
LEMMA HourIsKept ==
    ASSUME NEW day \in Int, NEW hour \in Hours,
           NEW t \in Int, ~NearChange(t), t = localDateTimeToUtc(day, hour)
    PROVE  getLocalParts(t).hour = hour
  <1>1. getTimeZoneOffset(24 * day + hour) = getTimeZoneOffset(t)
    <2>1. getTimeZoneOffset(24 * day + hour) \in -12..14
      BY Offset
    <2>2. t = (24 * day + hour) - getTimeZoneOffset(24 * day + hour) /\ Change \in Nat
      BY CalendarAssumption DEF localDateTimeToUtc, Hours
    <2>3. 24 * day + hour < Change <=> t < Change
      BY <2>1, <2>2 DEF NearChange, Hours
    <2> QED  BY <2>3 DEF getTimeZoneOffset
  <1>2. t + getTimeZoneOffset(t) = 24 * day + hour
    <2>1. getTimeZoneOffset(t) \in -12..14
      BY Offset
    <2>2. t = (24 * day + hour) - getTimeZoneOffset(t)
      BY <1>1 DEF localDateTimeToUtc
    <2> QED  BY <2>1, <2>2 DEF Hours
  <1>3. getLocalParts(t).hour = (24 * day + hour) % 24
    BY <1>2 DEF getLocalParts
  <1> QED  BY <1>3 DEF Hours

LEMMA TimeAtHour ==
    ASSUME NEW t \in Int, ~NearChange(t)
    PROVE  localDateTimeToUtc(LocalDay(t), getLocalParts(t).hour) = t
  <1> DEFINE day == LocalDay(t)
             hour == getLocalParts(t).hour
  <1>1. day \in Int /\ hour \in Hours /\ 24 * day + hour = t + getTimeZoneOffset(t)
    BY LocalParts DEF LocalDay
  <1>2. getTimeZoneOffset(t) \in -12..14 /\ Change \in Nat
    BY Offset, CalendarAssumption
  <1>3. t + getTimeZoneOffset(t) < Change <=> t < Change
    BY <1>2 DEF NearChange
  <1>4. getTimeZoneOffset(t + getTimeZoneOffset(t)) = getTimeZoneOffset(t)
    BY <1>3 DEF getTimeZoneOffset
  <1> HIDE DEF day, hour
  <1>5. localDateTimeToUtc(day, hour) = t
    BY <1>1, <1>2, <1>4 DEF localDateTimeToUtc
  <1> QED  BY <1>5 DEF day, hour

-----------------------------------------------------------------------------
(* The next occurrence.                                                    *)

IsRoutine(r) ==
    /\ r \in [frequency : {"DAILY", "WEEKLY", "MONTHLY"}, interval : Nat \ {0},
              weekdays : SUBSET Weekdays, dayOfMonth : (1..31) \cup {Never},
              localHour : RoutineHours]
    /\ r.frequency = "WEEKLY" => r.weekdays # {}

TimeOn(day, r) == localDateTimeToUtc(day, r.localHour)

\* The day of the month a monthly routine wants, when it looks from a day.
WantedDay(r, d) == IF r.dayOfMonth = Never THEN d - FirstDay(MonthOf(d)) + 1 ELSE r.dayOfMonth

\* The days whose candidates nextRecurrenceAt compares.
DailyDays(r, d) == {d + k : k \in {0, r.interval}}
WeeklyDays(r, d) == {d + k : k \in {n \in 0..(7 * r.interval) :
                                    (d + n + FirstWeekday) % 7 \in r.weekdays}}
MonthlyDays(r, d) == {DayIn(MonthOf(d) + k, WantedDay(r, d)) : k \in {0, r.interval}}

LEMMA FirstOfCandidates ==
    ASSUME NEW C \in SUBSET Int, NEW after \in Nat, NEW c \in C, c > after
    PROVE  /\ FirstAfter(C, after) \in C /\ FirstAfter(C, after) > after
           /\ FirstAfter(C, after) \in Nat /\ FirstAfter(C, after) # Never
           /\ \A x \in C : x > after => FirstAfter(C, after) <= x
  <1> DEFINE later == {x \in C : x > after}
  <1>1. later \in SUBSET Nat /\ later # {}
    <2>1. c \in later
      OBVIOUS
    <2>2. ASSUME NEW x \in later PROVE x \in Nat
      <3>1. x \in Int /\ x > after
        OBVIOUS
      <3> QED  BY <3>1
    <2> QED  BY <2>1, <2>2
  <1>2. Min(later) \in later /\ \A x \in later : Min(later) <= x
    <2> HIDE DEF later
    <2> QED  BY <1>1, MinOfNats
  <1>3. FirstAfter(C, after) = Min(later)
    BY <1>1 DEF FirstAfter
  <1> HIDE DEF later
  <1>4. FirstAfter(C, after) \in later /\ \A x \in later : FirstAfter(C, after) <= x
    BY <1>2, <1>3
  <1> QED  BY <1>1, <1>4, CalendarAssumption DEF later

\* Candidates on the days D, of which one is a later one.
LEMMA FirstOfDays ==
    ASSUME TameClocks, NEW r, IsRoutine(r), NEW after \in Nat,
           NEW D \in SUBSET Nat, NEW later \in D, LocalDay(after) < later,
           NEW n, n = FirstAfter({TimeOn(day, r) : day \in D}, after)
    PROVE  /\ n \in Nat /\ n > after /\ n # Never
           /\ \E day \in D : n = TimeOn(day, r) /\ LocalDay(n) = day
           /\ \A day \in D : TimeOn(day, r) > after => n <= TimeOn(day, r)
  <1> DEFINE C == {TimeOn(day, r) : day \in D}
  <1>1. r.localHour \in RoutineHours /\ r.localHour \in Hours
    BY HoursOfRoutines DEF IsRoutine
  <1>2. C \in SUBSET Int
    BY <1>1, TimeOfDay DEF TimeOn
  <1>3. TimeOn(later, r) \in C /\ TimeOn(later, r) > after
    <2>1. after < TimeOn(later, r)
      <3>1. after \in Int /\ later \in Nat
        OBVIOUS
      <3> QED  BY <1>1, <3>1, LaterDay DEF TimeOn
    <2> QED  BY <1>2, <2>1
  <1>4. /\ n \in C /\ n > after /\ n \in Nat /\ n # Never
        /\ \A x \in C : x > after => n <= x
    <2> HIDE DEF C
    <2> QED  BY <1>2, <1>3, FirstOfCandidates DEF C
  <1>5. \A day \in D : LocalDay(TimeOn(day, r)) = day
    BY <1>1, DayIsKept DEF TimeOn
  <1> QED  BY <1>4, <1>5

DaysOf(r, d) == IF r.frequency = "DAILY" THEN DailyDays(r, d)
                ELSE IF r.frequency = "WEEKLY" THEN WeeklyDays(r, d) ELSE MonthlyDays(r, d)

\* What MonthlyDays asks of a month.
LEMMA MonthAhead ==
    ASSUME NEW r, IsRoutine(r), NEW d \in Nat, NEW k \in Nat
    PROVE  LET day == DayIn(MonthOf(d) + k, WantedDay(r, d))
           IN /\ WantedDay(r, d) \in Nat \ {0} /\ MonthOf(d) \in Nat
              /\ day \in Nat /\ MonthOf(day) = MonthOf(d) + k
              /\ k > 0 => d < day
  <1> DEFINE m == MonthOf(d)
             w == WantedDay(r, d)
             day == DayIn(m + k, w)
  <1>1. m \in Nat /\ FirstDay(m) <= d /\ FirstDay(m) \in Nat
    BY MonthOfDay, MonthStep
  <1>2. w \in Nat \ {0}
    <2>1. CASE r.dayOfMonth = Never
      BY <1>1, <2>1 DEF WantedDay
    <2>2. CASE r.dayOfMonth # Never
      BY <2>2 DEF WantedDay, IsRoutine
    <2> QED  BY <2>1, <2>2
  <1>3. day \in Nat /\ MonthOf(day) = m + k
    <2>1. m + k \in Nat
      BY <1>1
    <2> HIDE DEF m, w
    <2> QED  BY <1>2, <2>1, DayInMonth
  <1>4. k > 0 => d < day
    <2>1. day <= d => MonthOf(day) <= m
      <3> HIDE DEF day
      <3> QED  BY <1>3, MonthsFollow
    <2> HIDE DEF m, day
    <2> QED  BY <1>1, <1>3, <2>1
  <1> QED  BY <1>1, <1>2, <1>3, <1>4

\* There is a candidate on a later day.
LEMMA CandidateDays ==
    ASSUME NEW r, IsRoutine(r), NEW d \in Nat
    PROVE  DaysOf(r, d) \subseteq Nat /\ \E later \in DaysOf(r, d) : d < later
  <1>1. r.interval \in Nat \ {0} /\ r.weekdays \subseteq Weekdays
        /\ r.frequency \in {"DAILY", "WEEKLY", "MONTHLY"}
    BY DEF IsRoutine
  <1>2. CASE r.frequency = "DAILY"
    <2>1. DaysOf(r, d) = DailyDays(r, d)
      BY <1>2 DEF DaysOf
    <2>2. DailyDays(r, d) = {d, d + r.interval}
      BY <1>1 DEF DailyDays
    <2> QED  BY <1>1, <2>1, <2>2
  <1>3. CASE r.frequency = "WEEKLY"
    <2>1. DaysOf(r, d) = WeeklyDays(r, d)
      BY <1>3 DEF DaysOf
    <2>2. PICK w \in r.weekdays : w \in 0..6
      BY <1>1, <1>3 DEF IsRoutine, Weekdays
    <2> DEFINE today == (d + FirstWeekday) % 7
               k == ((w - today + 6) % 7) + 1
    <2>3. FirstWeekday \in Nat /\ today \in 0..6
      BY CalendarAssumption
    <2>4. k \in 1..7 /\ (today + k) % 7 = w
      <3> HIDE DEF today
      <3> QED  BY <2>2, <2>3
    <2>5. (d + k + FirstWeekday) % 7 = (today + k) % 7
      <3>1. k \in Nat
        BY <2>4
      <3> HIDE DEF k
      <3> QED  BY <2>3, <3>1
    <2> HIDE DEF k, today
    <2>6. k \in 0..(7 * r.interval)
      BY <1>1, <2>4
    <2>7. d + k \in WeeklyDays(r, d)
      BY <2>2, <2>4, <2>5, <2>6 DEF WeeklyDays
    <2>8. WeeklyDays(r, d) \subseteq Nat
      BY <1>1 DEF WeeklyDays
    <2>9. d < d + k
      BY <2>4
    <2> QED  BY <2>1, <2>7, <2>8, <2>9
  <1>4. CASE r.frequency = "MONTHLY"
    <2>1. DaysOf(r, d) = MonthlyDays(r, d)
      BY <1>4 DEF DaysOf
    <2> DEFINE day(k) == DayIn(MonthOf(d) + k, WantedDay(r, d))
    <2>2. MonthlyDays(r, d) = {day(0), day(r.interval)}
      BY <1>1 DEF MonthlyDays
    <2>3. day(0) \in Nat /\ day(r.interval) \in Nat /\ d < day(r.interval)
      <3>1. day(0) \in Nat
        BY MonthAhead
      <3>2. day(r.interval) \in Nat /\ d < day(r.interval)
        BY <1>1, r.interval > 0, MonthAhead
      <3> QED  BY <3>1, <3>2
    <2> HIDE DEF day
    <2> QED  BY <2>1, <2>2, <2>3
  <1> QED  BY <1>1, <1>2, <1>3, <1>4

\* nextRecurrenceAt finds the first of these times, whatever the frequency.
LEMMA NextOccurrence ==
    ASSUME TameClocks, NEW r, IsRoutine(r), NEW after \in Nat, after >= 12,
           NEW n, n = nextRecurrenceAt(r, after)
    PROVE  /\ LocalDay(after) \in Nat
           /\ n \in Nat /\ n > after /\ n # Never
           /\ \E day \in DaysOf(r, LocalDay(after)) : n = TimeOn(day, r) /\ LocalDay(n) = day
           /\ \A day \in DaysOf(r, LocalDay(after)) : TimeOn(day, r) > after => n <= TimeOn(day, r)
  <1> DEFINE local == getLocalParts(after)
             d == LocalDay(after)
             D == DaysOf(r, d)
             C == {TimeOn(day, r) : day \in D}
             first == FirstAfter(C, after)
  <1>1. d \in Nat /\ local.day = d
    BY LocalParts DEF LocalDay
  <1>2. PICK later \in D : d < later
    <2> HIDE DEF d
    <2> QED  BY <1>1, CandidateDays
  <1>3. D \subseteq Nat
    <2> HIDE DEF d
    <2> QED  BY <1>1, CandidateDays
  <1>4. /\ first \in Nat /\ first > after /\ first # Never
        /\ \E day \in D : first = TimeOn(day, r) /\ LocalDay(first) = day
        /\ \A day \in D : TimeOn(day, r) > after => first <= TimeOn(day, r)
    <2> HIDE DEF D
    <2> QED  BY <1>2, <1>3, FirstOfDays
  <1>5. r.interval \in Nat \ {0} /\ r.frequency \in {"DAILY", "WEEKLY", "MONTHLY"}
    BY DEF IsRoutine
  <1>6. ASSUME r.frequency = "DAILY" PROVE n = first
    <2>1. DailyCandidates(r, local) = C
      <3>1. D = DailyDays(r, d)
        BY <1>6 DEF DaysOf
      <3>2. \A k : addLocalDays(local, k).day = local.day + k
        BY DEF addLocalDays, getLocalParts
      <3> DEFINE K == {0, r.interval}
      <3>3. \A k : localDateTimeToUtc(addLocalDays(local, k).day, r.localHour) = TimeOn(d + k, r)
        BY <1>1, <3>2 DEF TimeOn
      <3> HIDE DEF local, d, D
      <3>4. C = {TimeOn(d + k, r) : k \in K}
        BY <3>1 DEF DailyDays
      <3>5. DailyCandidates(r, local) = {TimeOn(d + k, r) : k \in K}
        BY <3>3 DEF DailyCandidates
      <3> QED  BY <3>4, <3>5
    <2> HIDE DEF C
    <2> QED  BY <1>4, <1>6, <2>1 DEF nextRecurrenceAt
  <1>7. ASSUME r.frequency = "WEEKLY" PROVE n = first
    <2>1. WeeklyCandidates(r, local) = C
      <3>1. D = WeeklyDays(r, d)
        BY <1>7 DEF DaysOf
      <3>2. \A k : addLocalDays(local, k).day = local.day + k
        BY DEF addLocalDays, getLocalParts
      <3>3. \A k \in Nat : addLocalDays(local, k).weekday = (d + k + FirstWeekday) % 7
        <4>1. \A k : addLocalDays(local, k).weekday = (local.weekday + k + 7) % 7
          BY DEF addLocalDays, getLocalParts
        <4>2. local.weekday = (d + FirstWeekday) % 7 /\ FirstWeekday \in Nat
          BY LocalParts, CalendarAssumption
        <4> HIDE DEF local, d
        <4> QED  BY <1>1, <4>1, <4>2
      <3>4. 0..(7 * r.interval) \subseteq Nat
        BY <1>5
      <3> DEFINE K == {j \in 0..(7 * r.interval) :
                                  (d + j + FirstWeekday) % 7 \in r.weekdays}
      <3>5. \A k : localDateTimeToUtc(addLocalDays(local, k).day, r.localHour) = TimeOn(d + k, r)
        BY <1>1, <3>2 DEF TimeOn
      <3> HIDE DEF local, d, D
      <3>6. C = {TimeOn(d + k, r) : k \in K}
        BY <3>1 DEF WeeklyDays
      <3>7. WeeklyCandidates(r, local) = {TimeOn(d + k, r) : k \in K}
        BY <3>5, <3>3, <3>4 DEF WeeklyCandidates
      <3> QED  BY <3>6, <3>7
    <2> HIDE DEF C
    <2> QED  BY <1>4, <1>7, <2>1 DEF nextRecurrenceAt
  <1>8. ASSUME r.frequency = "MONTHLY" PROVE n = first
    <2>1. MonthlyCandidates(r, local) = C
      <3>1. D = MonthlyDays(r, d)
        BY <1>8 DEF DaysOf
      <3>2. DayOfMonth(local) = d - FirstDay(MonthOf(d)) + 1
        BY <1>1 DEF DayOfMonth
      <3> HIDE DEF local, d, D
      <3> QED  BY <1>1, <3>1, <3>2 DEF MonthlyCandidates, MonthlyDays, WantedDay, TimeOn
    <2>2. FirstAfter({}, after) = Never
      BY DEF FirstAfter
    <2>3. n = FirstAfter(MonthlyCandidates(r, local), after)
      BY <1>8, <2>2 DEF nextRecurrenceAt
    <2> QED  BY <2>1, <2>3
  <1>9. n = first
    BY <1>5, <1>6, <1>7, <1>8
  <1> HIDE DEF first, D
  <1> QED  BY <1>1, <1>4, <1>9 DEF D

\* What parseTaskRecurrence makes of a text is a routine.
LEMMA ParsedRoutine ==
    ASSUME NEW text \in Requests, NEW reference \in Nat
    PROVE  IsRoutine(parseTaskRecurrence(text, reference))
  <1> DEFINE local == getLocalParts(reference)
             r == parseTaskRecurrence(text, reference)
  <1>1. /\ text.count \in Nat \cup {Never} /\ text.named \subseteq Weekdays
        /\ text.monthly \in BOOLEAN /\ text.weekly \in BOOLEAN /\ text.weekdays \in BOOLEAN
    BY RoutineAssumption
  <1>2. local.weekday \in Weekdays
    <2>1. local.weekday = (LocalDay(reference) + FirstWeekday) % 7 /\ FirstWeekday \in Int
      BY LocalParts, CalendarAssumption
    <2>2. LocalDay(reference) \in Int
      BY LocalParts DEF LocalDay
    <2> HIDE DEF local
    <2> QED  BY <2>1, <2>2 DEF Weekdays
  <1>3. HourNamed(text) \in RoutineHours
    BY DEF RoutineHours
  <1> HIDE DEF local
  <1>4. /\ r.frequency \in {"DAILY", "WEEKLY", "MONTHLY"}
        /\ r.interval \in Nat \ {0}
        /\ r.localHour \in RoutineHours
    BY <1>1, <1>3 DEF parseTaskRecurrence
  <1>5. r.dayOfMonth \in (1..31) \cup {Never}
    BY DEF parseTaskRecurrence
  <1>6. /\ r.weekdays \subseteq Weekdays
        /\ r.frequency = "WEEKLY" => r.weekdays # {}
    <2>1. 1..5 \subseteq Weekdays /\ 1 \in 1..5
      BY DEF Weekdays
    <2> QED  BY <1>1, <1>2, <2>1 DEF parseTaskRecurrence, local
  <1>7. r = [frequency |-> r.frequency, interval |-> r.interval, weekdays |-> r.weekdays,
             dayOfMonth |-> r.dayOfMonth, localHour |-> r.localHour]
    BY DEF parseTaskRecurrence
  <1> HIDE DEF r
  <1>8. r \in [frequency : {"DAILY", "WEEKLY", "MONTHLY"}, interval : Nat \ {0},
               weekdays : SUBSET Weekdays, dayOfMonth : (1..31) \cup {Never},
               localHour : RoutineHours]
    <2> DEFINE f == r.frequency
               i == r.interval
               w == r.weekdays
               m == r.dayOfMonth
               h == r.localHour
    <2>1. /\ f \in {"DAILY", "WEEKLY", "MONTHLY"} /\ i \in Nat \ {0}
          /\ w \in SUBSET Weekdays /\ m \in (1..31) \cup {Never} /\ h \in RoutineHours
      BY <1>4, <1>5, <1>6
    <2>2. r = [frequency |-> f, interval |-> i, weekdays |-> w,
               dayOfMonth |-> m, localHour |-> h]
      BY <1>7
    <2> HIDE DEF f, i, w, m, h
    <2> QED  BY <2>1, <2>2
  <1>9. IsRoutine(r)
    BY <1>6, <1>8 DEF IsRoutine
  <1> QED  BY <1>9 DEF r

\* The occurrence after one that is made on its day is one interval later.
LEMMA NextTurn ==
    ASSUME TameClocks, NEW r, IsRoutine(r), NEW after \in Nat, after >= 12,
           NEW n, n = nextRecurrenceAt(r, after),
           TimeOn(LocalDay(after), r) <= after,
           r.frequency = "MONTHLY" /\ r.dayOfMonth # Never =>
              LocalDay(after) = DayIn(MonthOf(LocalDay(after)), r.dayOfMonth)
    PROVE  /\ LocalDay(after) \in Nat /\ LocalDay(n) \in Nat
           /\ r.frequency = "DAILY" => LocalDay(n) = LocalDay(after) + r.interval
           /\ r.frequency = "MONTHLY" =>
                 MonthOf(LocalDay(n)) = MonthOf(LocalDay(after)) + r.interval
  <1> DEFINE d == LocalDay(after)
  <1>1. d \in Nat /\ n \in Nat /\ n > after
    BY NextOccurrence
  <1>2. PICK day \in DaysOf(r, d) : n = TimeOn(day, r) /\ LocalDay(n) = day
    BY NextOccurrence
  <1>3. day # d
    BY <1>1, <1>2
  <1>4. r.interval \in Nat \ {0}
    BY DEF IsRoutine
  <1>5. day \in Nat
    <2> HIDE DEF d
    <2> QED  BY <1>1, <1>2, CandidateDays
  <1>6. ASSUME r.frequency = "DAILY" PROVE day = d + r.interval
    <2>1. day \in {d, d + r.interval}
      BY <1>1, <1>2, <1>4, <1>6 DEF DaysOf, DailyDays
    <2> QED  BY <1>3, <2>1
  <1>7. ASSUME r.frequency = "MONTHLY" PROVE MonthOf(day) = MonthOf(d) + r.interval
    <2> DEFINE w == WantedDay(r, d)
               m == MonthOf(d)
    <2>1. m \in Nat /\ w \in Nat \ {0}
      BY <1>1, MonthAhead
    <2>2. DayIn(m, w) = d
      <3>1. CASE r.dayOfMonth = Never
        <4>1. w = d - FirstDay(m) + 1
          BY <3>1 DEF WantedDay
        <4>2. FirstDay(m) \in Nat /\ FirstDay(m + 1) \in Nat /\ d < FirstDay(m + 1)
          BY <1>1, <2>1, MonthOfDay, MonthStep
        <4> HIDE DEF m, w, d
        <4> QED  BY <1>1, <4>1, <4>2 DEF DayIn, MonthLength
      <3>2. CASE r.dayOfMonth # Never
        BY <1>7, <3>2 DEF WantedDay
      <3> QED  BY <3>1, <3>2
    <2>3. day \in {DayIn(m + k, w) : k \in {0, r.interval}}
      BY <1>2, <1>7 DEF DaysOf, MonthlyDays
    <2>4. day = DayIn(m + r.interval, w)
      <3>1. m + 0 = m
        BY <2>1
      <3> HIDE DEF m, w, d
      <3> QED  BY <1>3, <2>2, <2>3, <3>1
    <2> QED  BY <1>1, <1>4, <2>4, MonthAhead
  <1> QED  BY <1>1, <1>2, <1>5, <1>6, <1>7

\* What nextRecurrenceAt returns is a turn of the routine.
LEMMA NextIsTurn ==
    ASSUME TameClocks, NEW r, IsRoutine(r), NEW after \in Nat, after >= 24,
           NEW n, n = nextRecurrenceAt(r, after)
    PROVE  /\ n \in Nat /\ n > after /\ n # Never /\ n = TimeOn(LocalDay(n), r)
           /\ r.frequency = "MONTHLY" /\ r.dayOfMonth # Never =>
                 LocalDay(n) = DayIn(MonthOf(LocalDay(n)), r.dayOfMonth)
  <1> DEFINE d == LocalDay(after)
  <1>1. d \in Nat /\ n \in Nat /\ n > after /\ n # Never
    BY NextOccurrence
  <1>2. PICK day \in DaysOf(r, d) : n = TimeOn(day, r) /\ LocalDay(n) = day
    BY NextOccurrence
  <1>3. ASSUME r.frequency = "MONTHLY", r.dayOfMonth # Never
        PROVE  day = DayIn(MonthOf(day), r.dayOfMonth)
    <2>1. r.interval \in Nat
      BY DEF IsRoutine
    <2>2. PICK k \in {0, r.interval} : day = DayIn(MonthOf(d) + k, r.dayOfMonth)
      BY <1>2, <1>3 DEF DaysOf, MonthlyDays, WantedDay
    <2>3. k \in Nat /\ WantedDay(r, d) = r.dayOfMonth
      BY <1>3, <2>1, <2>2 DEF WantedDay
    <2>4. MonthOf(DayIn(MonthOf(d) + k, WantedDay(r, d))) = MonthOf(d) + k
      <3> HIDE DEF d
      <3> QED  BY <1>1, <2>3, MonthAhead
    <2>5. MonthOf(day) = MonthOf(d) + k
      BY <2>2, <2>3, <2>4
    <2> QED  BY <2>2, <2>5
  <1> QED  BY <1>1, <1>2, <1>3

\* The start of work after a time is at most 13 hours away.
LEMMA WorkStarts ==
    ASSUME TameClocks, NEW t \in Int
    PROVE  /\ moveIntoWorkingHours(t, 8, 20) \in Int
           /\ moveIntoWorkingHours(t, 8, 20) <= t + 13
  <1> DEFINE local == getLocalParts(t)
             target == IF local.hour < 8 THEN local ELSE addLocalDays(local, 1)
             u == localDateTimeToUtc(target.day, 8)
  <1>1. local.day \in Int /\ local.hour \in 0..23
        /\ 24 * local.day + local.hour = t + getTimeZoneOffset(t)
    BY LocalParts DEF Hours
  <1>2. target.day = IF local.hour < 8 THEN local.day ELSE local.day + 1
    BY DEF addLocalDays, getLocalParts
  <1>3. u = (24 * target.day + 8) - getTimeZoneOffset(24 * target.day + 8)
    BY DEF localDateTimeToUtc
  <1>4. \A a, b : getTimeZoneOffset(a) - getTimeZoneOffset(b) \in -1..1
    BY CalendarAssumption DEF getTimeZoneOffset, TameClocks
  <1>5. moveIntoWorkingHours(t, 8, 20) = IF local.hour >= 8 /\ local.hour < 20 THEN t ELSE u
    BY DEF moveIntoWorkingHours
  <1>6. getTimeZoneOffset(t) \in Int /\ getTimeZoneOffset(24 * target.day + 8) \in Int
    BY Offset
  <1>7. getTimeZoneOffset(t) - getTimeZoneOffset(24 * target.day + 8) \in -1..1
    BY <1>4
  <1> HIDE DEF local, target, u
  <1>8. u \in Int /\ (~(local.hour >= 8 /\ local.hour < 20) => u <= t + 13)
    <2>1. CASE local.hour < 8
      <3>1. target.day = local.day
        BY <1>2, <2>1
      <3> QED  BY <1>1, <1>3, <1>6, <1>7, <2>1, <3>1
    <2>2. CASE ~(local.hour < 8)
      <3>1. target.day = local.day + 1
        BY <1>2, <2>2
      <3> QED  BY <1>1, <1>3, <1>6, <1>7, <2>2, <3>1
    <2> QED  BY <2>1, <2>2
  <1> QED  BY <1>5, <1>8

-----------------------------------------------------------------------------
(* The invariant.                                                          *)

\* A time the routine has of its own, on a day it wants.
IsTurn(t) ==
    /\ t \in Nat /\ t >= 24
    /\ t = TimeOn(LocalDay(t), recurrence)
    /\ recurrence.frequency = "MONTHLY" /\ recurrence.dayOfMonth # Never =>
          LocalDay(t) = DayIn(MonthOf(LocalDay(t)), recurrence.dayOfMonth)

TimesOK ==
    /\ IsRoutine(recurrence) /\ runs \in Nat \ {0}
    /\ anchor \in Nat /\ anchor >= 24 /\ publishAt \in Nat /\ asked <= publishAt
    /\ IsTurn(asked) /\ IsTurn(runAt)

\* An inferred deadline of a daily occurrence leaves three hours to the next one.
SoonDue ==
    inferred /\ recurrence.frequency = "DAILY" =>
        /\ offset \in Int /\ offset <= 21
        /\ publishAt = asked => deadlineAt = asked + offset

TurnInv == Started => TimesOK /\ IntervalKept /\ SoonDue /\ DailyEveryDay

\* The turns from the first occurrence to a time, as IntervalKept counts them.
TurnsFrom(r, first, t) ==
    IF r.frequency = "DAILY" THEN LocalDay(t) - LocalDay(first)
    ELSE MonthOf(LocalDay(t)) - MonthOf(LocalDay(first))

\* One turn further is one interval further.
LEMMA OneTurn ==
    ASSUME TameClocks, NEW r, IsRoutine(r), r.frequency # "WEEKLY",
           NEW after \in Nat, after >= 12, NEW n, n = nextRecurrenceAt(r, after),
           TimeOn(LocalDay(after), r) <= after,
           r.frequency = "MONTHLY" /\ r.dayOfMonth # Never =>
              LocalDay(after) = DayIn(MonthOf(LocalDay(after)), r.dayOfMonth),
           NEW first \in Nat, first >= 12
    PROVE  /\ TurnsFrom(r, first, after) \in Int
           /\ TurnsFrom(r, first, n) = TurnsFrom(r, first, after) + r.interval
           /\ TurnsFrom(r, first, first) = 0
  <1>1. r.frequency \in {"DAILY", "MONTHLY"} /\ r.interval \in Nat
    BY DEF IsRoutine
  <1>2. LocalDay(first) \in Nat /\ LocalDay(after) \in Nat /\ LocalDay(n) \in Nat
    BY LocalParts, NextTurn
  <1>3. /\ MonthOf(LocalDay(first)) \in Nat /\ MonthOf(LocalDay(after)) \in Nat
        /\ MonthOf(LocalDay(n)) \in Nat
    BY <1>2, MonthOfDay
  <1>4. /\ r.frequency = "DAILY" => LocalDay(n) = LocalDay(after) + r.interval
        /\ r.frequency = "MONTHLY" =>
              MonthOf(LocalDay(n)) = MonthOf(LocalDay(after)) + r.interval
    BY NextTurn
  <1> QED  BY <1>1, <1>2, <1>3, <1>4 DEF TurnsFrom

\* The next occurrence of a routine for every day is a day later at most.
LEMMA NextIsSoon ==
    ASSUME TameClocks, NEW r, IsRoutine(r), r.frequency = "DAILY", r.interval = 1,
           NEW after \in Nat, after >= 12, NEW n, n = nextRecurrenceAt(r, after)
    PROVE  LocalDay(n) <= LocalDay(after) + 1
  <1> DEFINE d == LocalDay(after)
             e == LocalDay(n)
  <1>1. d \in Nat /\ e \in DaysOf(r, d)
    BY NextOccurrence
  <1>2. DaysOf(r, d) = {d + k : k \in {0, 1}}
    BY DEF DaysOf, DailyDays
  <1> HIDE DEF d, e
  <1>3. PICK k \in {0, 1} : e = d + k
    BY <1>1, <1>2
  <1>4. e <= d + 1
    BY <1>1, <1>3
  <1> QED  BY <1>4 DEF d, e

LEMMA RoutineAsked ==
    ASSUME TameClocks, NEW request \in Requests, NEW reference \in References,
           NEW p \in Priorities, NEW text \in Deadlines, Ask(request, reference, p, text)
    PROVE  TurnInv'
  <1> DEFINE r == parseTaskRecurrence(request, reference)
             first == nextRecurrenceAt(r, reference - 1)
             next == nextRecurrenceAt(r, first)
  <1>1. reference \in Nat /\ reference - 1 \in Nat /\ reference - 1 >= 24
    BY RoutineAssumption
  <1>2. IsRoutine(r)
    BY <1>1, ParsedRoutine
  <1>3. /\ recurrence' = r /\ publishAt' = first /\ anchor' = first /\ asked' = first
        /\ runAt' = next /\ runs' = 1 /\ inferred' = (text = Never)
        /\ deadlineAt' > first /\ offset' = deadlineAt' - first
    BY DEF Ask
  <1>4. text = Never =>
           deadlineAt' = moveIntoWorkingHours(inferDeadlineAt(first, p, r.frequency), 8, 20)
    BY DEF Ask
  <1> HIDE DEF r
  <1>5. /\ first \in Nat /\ first > reference - 1 /\ first = TimeOn(LocalDay(first), r)
        /\ r.frequency = "MONTHLY" /\ r.dayOfMonth # Never =>
              LocalDay(first) = DayIn(MonthOf(LocalDay(first)), r.dayOfMonth)
    BY <1>1, <1>2, NextIsTurn
  <1> HIDE DEF first
  <1>6. first >= 24
    BY <1>1, <1>5
  <1>7. /\ next \in Nat /\ next > first /\ next = TimeOn(LocalDay(next), r)
        /\ r.frequency = "MONTHLY" /\ r.dayOfMonth # Never =>
              LocalDay(next) = DayIn(MonthOf(LocalDay(next)), r.dayOfMonth)
    BY <1>2, <1>5, <1>6, NextIsTurn
  <1>8. TimesOK'
    <2>1. next >= 24
      BY <1>5, <1>6, <1>7
    <2> HIDE DEF next
    <2> QED  BY <1>2, <1>3, <1>5, <1>6, <1>7, <2>1 DEF TimesOK, IsTurn
  <1>9. IntervalKept'
    <2>1. r.interval \in Nat
      BY <1>2 DEF IsRoutine
    <2>2. ASSUME r.frequency # "WEEKLY"
          PROVE  TurnsFrom(r, first, first) = 0 /\ TurnsFrom(r, first, next) = r.interval
      <3>1. TimeOn(LocalDay(first), r) <= first /\ first >= 12
        BY <1>5, <1>6
      <3>2. /\ TurnsFrom(r, first, first) = 0
            /\ TurnsFrom(r, first, next) = TurnsFrom(r, first, first) + r.interval
        BY <1>2, <1>5, <2>2, <3>1, OneTurn
      <3> QED  BY <2>1, <3>2
    <2> HIDE DEF next
    <2>3. (1 - 1) * r.interval = 0 /\ 1 * r.interval = r.interval
      BY <2>1
    <2> QED  BY <1>3, <2>2, <2>3 DEF IntervalKept, TurnsFrom, LocalDay
  <1>10. SoonDue'
    <2> SUFFICES ASSUME text = Never, r.frequency = "DAILY"
                 PROVE  /\ offset' \in Int /\ offset' <= 21
                        /\ deadlineAt' = first + offset'
      BY <1>3 DEF SoonDue
    <2> DEFINE due == inferDeadlineAt(first, p, r.frequency)
               moved == moveIntoWorkingHours(due, 8, 20)
    <2>1. due \in Int /\ due <= first + 8
      BY <1>5 DEF inferDeadlineAt, Priorities
    <2>2. deadlineAt' = moved /\ offset' = moved - first
      BY <1>3, <1>4
    <2> HIDE DEF due
    <2>3. moved \in Int /\ moved <= due + 13
      BY <2>1, WorkStarts
    <2> HIDE DEF moved
    <2>4. moved - first \in Int /\ moved - first <= 21 /\ moved = first + (moved - first)
      BY <1>5, <2>1, <2>3
    <2> QED  BY <2>2, <2>4
  <1>11. DailyEveryDay'
    <2>1. first >= 12
      BY <1>5, <1>6
    <2>2. r.frequency = "DAILY" /\ r.interval = 1 => LocalDay(next) <= LocalDay(first) + 1
      BY <1>2, <1>5, <2>1, NextIsSoon
    <2> HIDE DEF next
    <2> QED  BY <1>3, <2>2 DEF DailyEveryDay, LocalDay
  <1> QED  BY <1>8, <1>9, <1>10, <1>11 DEF TurnInv

LEMMA RoutineContinued ==
    ASSUME TameClocks, TurnInv, NEW late \in Lateness, createRecurringInstance(late)
    PROVE  TurnInv'
  <1> DEFINE r == recurrence
             made == runAt + late
             next == nextRecurrenceAt(r, made)
  <1>1. /\ recurrence' = r /\ publishAt' = made /\ asked' = runAt /\ runAt' = next
        /\ deadlineAt' = made + offset /\ runs' = runs + 1
        /\ offset' = offset /\ inferred' = inferred /\ anchor' = anchor
        /\ punctual' => punctual /\ LocalDay(made) = LocalDay(runAt)
    BY DEF createRecurringInstance, LocalDay
  <1>2. Started /\ late \in Nat
    BY RoutineAssumption DEF createRecurringInstance, Started
  <1>3. TimesOK /\ IntervalKept /\ SoonDue
    BY <1>2 DEF TurnInv
  <1>4. IsRoutine(r) /\ runs \in Nat \ {0} /\ anchor \in Nat /\ anchor >= 24
    BY <1>3 DEF TimesOK
  <1>5. /\ runAt \in Nat /\ runAt >= 24 /\ runAt = TimeOn(LocalDay(runAt), r)
        /\ r.frequency = "MONTHLY" /\ r.dayOfMonth # Never =>
              LocalDay(runAt) = DayIn(MonthOf(LocalDay(runAt)), r.dayOfMonth)
    BY <1>3 DEF TimesOK, IsTurn
  <1>6. made \in Nat /\ made >= 24 /\ made >= runAt
    BY <1>2, <1>5
  <1> HIDE DEF r, made
  <1>7. /\ next \in Nat /\ next > made /\ next = TimeOn(LocalDay(next), r)
        /\ r.frequency = "MONTHLY" /\ r.dayOfMonth # Never =>
              LocalDay(next) = DayIn(MonthOf(LocalDay(next)), r.dayOfMonth)
    BY <1>4, <1>6, NextIsTurn
  <1>8. TimesOK'
    <2>1. next >= 24 /\ runs + 1 \in Nat \ {0}
      BY <1>4, <1>6, <1>7
    <2> HIDE DEF next
    <2> QED  BY <1>1, <1>4, <1>5, <1>6, <1>7, <2>1 DEF TimesOK, IsTurn
  <1>9. IntervalKept'
    <2> SUFFICES ASSUME punctual', recurrence'.frequency # "WEEKLY"
                 PROVE  /\ TurnsFrom(recurrence', anchor', asked')
                               = (runs' - 1) * recurrence'.interval
                        /\ TurnsFrom(recurrence', anchor', runAt')
                               = runs' * recurrence'.interval
      BY DEF IntervalKept, TurnsFrom, LocalDay
    <2>1. r.interval \in Nat
      BY <1>4 DEF IsRoutine
    <2>2. TurnsFrom(r, anchor, runAt) = runs * r.interval /\ r.frequency # "WEEKLY"
      BY <1>1, <1>2, <1>3 DEF IntervalKept, TurnsFrom, LocalDay, r
    <2>3. LocalDay(made) = LocalDay(runAt)
      BY <1>1
    <2>4. TurnsFrom(r, anchor, made) = TurnsFrom(r, anchor, runAt)
      BY <2>3 DEF TurnsFrom
    <2>5. TurnsFrom(r, anchor, next) = TurnsFrom(r, anchor, made) + r.interval
      <3>1. TimeOn(LocalDay(made), r) <= made /\ made >= 12 /\ anchor >= 12
        BY <1>4, <1>5, <1>6, <2>3
      <3> QED  BY <1>4, <1>5, <1>6, <2>2, <2>3, <3>1, OneTurn
    <2>6. (runs + 1) * r.interval = runs * r.interval + r.interval /\ (runs + 1) - 1 = runs
      BY <1>4, <2>1
    <2>7. /\ TurnsFrom(r, anchor, runAt) = ((runs + 1) - 1) * r.interval
          /\ TurnsFrom(r, anchor, next) = (runs + 1) * r.interval
      BY <2>2, <2>4, <2>5, <2>6
    <2> HIDE DEF next
    <2>8. /\ TurnsFrom(recurrence', anchor', asked') = TurnsFrom(r, anchor, runAt)
          /\ TurnsFrom(recurrence', anchor', runAt') = TurnsFrom(r, anchor, next)
      BY <1>1
    <2>9. runs' = runs + 1 /\ recurrence' = r
      BY <1>1
    <2>10. /\ (runs' - 1) * recurrence'.interval = ((runs + 1) - 1) * r.interval
           /\ runs' * recurrence'.interval = (runs + 1) * r.interval
      <3>1. recurrence'.interval = r.interval
        BY <2>9
      <3>2. runs' - 1 = (runs + 1) - 1
        BY <2>9, Zenon
      <3> QED  BY <2>9, <3>1, <3>2, Zenon
    <2> QED  BY <2>7, <2>8, <2>10, Zenon
  <1>10. SoonDue'
    <2> HIDE DEF next
    <2> QED  BY <1>1, <1>3 DEF SoonDue, r
  <1>11. DailyEveryDay'
    <2>1. made >= 12
      BY <1>6
    <2>2. r.frequency = "DAILY" /\ r.interval = 1 => LocalDay(next) <= LocalDay(made) + 1
      BY <1>4, <1>6, <2>1, NextIsSoon
    <2> HIDE DEF next
    <2> QED  BY <1>1, <2>2 DEF DailyEveryDay, LocalDay
  <1> QED  BY <1>8, <1>9, <1>10, <1>11 DEF TurnInv

LEMMA RoutinePostponed ==
    ASSUME TameClocks, TurnInv, NEW late \in Lateness, Postpone(late)
    PROVE  TurnInv'
  <1>1. /\ publishAt' = publishAt + late /\ late > 0 /\ publishAt = asked
        /\ UNCHANGED <<recurrence, deadlineAt, runAt, asked, offset, inferred, runs,
                       anchor, punctual>>
    BY DEF Postpone
  <1>2. Started /\ late \in Nat
    BY RoutineAssumption DEF Postpone, Started
  <1>3. TimesOK /\ IntervalKept /\ SoonDue /\ DailyEveryDay
    BY <1>2 DEF TurnInv
  <1>4. asked \in Nat /\ publishAt' # asked /\ publishAt' \in Nat /\ asked <= publishAt'
    BY <1>1, <1>2, <1>3 DEF TimesOK, IsTurn
  <1>5. TimesOK'
    BY <1>1, <1>3, <1>4 DEF TimesOK, IsTurn
  <1>6. IntervalKept'
    BY <1>1, <1>3 DEF IntervalKept, Started
  <1>7. SoonDue'
    BY <1>1, <1>3, <1>4 DEF SoonDue
  <1>8. DailyEveryDay'
    <2> DEFINE then == publishAt + late
    <2>1. publishAt \in Nat /\ then \in Nat /\ publishAt <= then /\ publishAt >= 24 /\ then >= 12
      BY <1>1, <1>2, <1>3 DEF TimesOK, IsTurn
    <2> HIDE DEF then
    <2>2. LocalDay(publishAt) \in Nat /\ LocalDay(then) \in Nat
          /\ LocalDay(publishAt) <= LocalDay(then)
      BY <2>1, LocalParts, LocalOrder
    <2>3. LocalDay(runAt) \in Nat
      <3>1. runAt \in Nat /\ runAt >= 12
        BY <1>3 DEF TimesOK, IsTurn
      <3> QED  BY <3>1, LocalParts
    <2>4. recurrence.frequency = "DAILY" /\ recurrence.interval = 1 =>
             LocalDay(runAt) <= LocalDay(then) + 1
      <3>1. recurrence.frequency = "DAILY" /\ recurrence.interval = 1 =>
               LocalDay(runAt) <= LocalDay(publishAt) + 1
        BY <1>2, <1>3 DEF DailyEveryDay, LocalDay
      <3> QED  BY <2>2, <2>3, <3>1
    <2>5. publishAt' = then
      BY <1>1 DEF then
    <2> QED  BY <1>1, <2>4, <2>5 DEF DailyEveryDay, LocalDay
  <1> QED  BY <1>5, <1>6, <1>7, <1>8 DEF TurnInv

LEMMA RoutineStays ==
    ASSUME TurnInv, UNCHANGED routineVars
    PROVE  TurnInv'
  BY DEF TurnInv, TimesOK, IsTurn, IntervalKept, SoonDue, DailyEveryDay, Started, routineVars

\* Whatever is asked and however late the workers are, TurnInv holds.
THEOREM RoutineHolds ==
    ASSUME TameClocks
    PROVE  RoutineSpec => []TurnInv
  <1>1. RoutineInit => TurnInv
    BY DEF RoutineInit, TurnInv, Started
  <1>2. TurnInv /\ [RoutineNext]_routineVars => TurnInv'
    <2> SUFFICES ASSUME TurnInv, [RoutineNext]_routineVars PROVE TurnInv'
      OBVIOUS
    <2>1. ASSUME NEW request \in Requests, NEW reference \in References,
                 NEW p \in Priorities, NEW text \in Deadlines, Ask(request, reference, p, text)
          PROVE  TurnInv'
      BY <2>1, RoutineAsked
    <2>2. ASSUME NEW late \in Lateness, createRecurringInstance(late) PROVE TurnInv'
      BY <2>2, RoutineContinued
    <2>3. ASSUME NEW late \in Lateness, Postpone(late) PROVE TurnInv'
      BY <2>3, RoutinePostponed
    <2>4. CASE UNCHANGED routineVars
      BY <2>4, RoutineStays
    <2> QED  BY <2>1, <2>2, <2>3, <2>4 DEF RoutineNext
  <1> QED  BY <1>1, <1>2, PTL DEF RoutineSpec

\* As long as no occurrence is late by a day, the interval is kept.
THEOREM RoutineKeepsInterval ==
    ASSUME TameClocks
    PROVE  RoutineSpec => []IntervalKept
  <1>1. TurnInv => IntervalKept
    BY DEF TurnInv, IntervalKept
  <1> QED  BY RoutineHolds, <1>1, PTL

\* A routine for every day has no day without it.
THEOREM DailyIsEveryDay ==
    ASSUME TameClocks
    PROVE  RoutineSpec => []DailyEveryDay
  <1>1. TurnInv => DailyEveryDay
    BY DEF TurnInv, DailyEveryDay
  <1> QED  BY RoutineHolds, <1>1, PTL

\* Of two days the times of a routine are 23 hours apart or more.
LEMMA DayApart ==
    ASSUME TameClocks, NEW r, IsRoutine(r), NEW d \in Nat, NEW e \in Nat, d < e
    PROVE  /\ TimeOn(d, r) \in Int /\ TimeOn(e, r) \in Int
           /\ TimeOn(d, r) + 23 <= TimeOn(e, r)
  <1> DEFINE h == r.localHour
  <1>1. h \in 0..23
    BY HoursOfRoutines DEF IsRoutine, Hours
  <1>2. /\ TimeOn(d, r) = (24 * d + h) - getTimeZoneOffset(24 * d + h)
        /\ TimeOn(e, r) = (24 * e + h) - getTimeZoneOffset(24 * e + h)
    BY DEF TimeOn, localDateTimeToUtc
  <1>3. \A a, b : getTimeZoneOffset(a) - getTimeZoneOffset(b) \in -1..1
    BY CalendarAssumption DEF getTimeZoneOffset, TameClocks
  <1>4. getTimeZoneOffset(24 * e + h) - getTimeZoneOffset(24 * d + h) \in -1..1
    BY <1>3
  <1>5. getTimeZoneOffset(24 * e + h) \in Int /\ getTimeZoneOffset(24 * d + h) \in Int
    BY Offset
  <1> HIDE DEF h
  <1> QED  BY <1>1, <1>2, <1>4, <1>5

\* A daily occurrence with an inferred deadline is due before the next one.
THEOREM DailyIsDueBeforeNext ==
    ASSUME TameClocks
    PROVE  RoutineSpec => []DueBeforeNext
  <1>1. TurnInv => DueBeforeNext
    <2> SUFFICES ASSUME TurnInv, Started, inferred, recurrence.frequency = "DAILY",
                        publishAt = asked, punctual
                 PROVE  deadlineAt < runAt
      BY DEF DueBeforeNext
    <2> DEFINE r == recurrence
               d == LocalDay(asked)
               e == LocalDay(runAt)
    <2>1. TimesOK /\ IntervalKept /\ SoonDue
      BY DEF TurnInv
    <2>2. IsRoutine(r) /\ runs \in Nat \ {0} /\ asked \in Nat /\ runAt \in Nat
          /\ asked = TimeOn(d, r) /\ runAt = TimeOn(e, r) /\ asked >= 24 /\ runAt >= 24
          /\ anchor \in Nat /\ anchor >= 24
      BY <2>1 DEF TimesOK, IsTurn
    <2>3. d \in Nat /\ e \in Nat /\ LocalDay(anchor) \in Nat
      BY <2>2, LocalParts
    <2>4. d < e
      <3>1. /\ d - LocalDay(anchor) = (runs - 1) * r.interval
            /\ e - LocalDay(anchor) = runs * r.interval
        BY <2>1 DEF IntervalKept, LocalDay
      <3>2. r.interval \in Nat \ {0}
        BY <2>2 DEF IsRoutine
      <3>3. (runs - 1) * r.interval = runs * r.interval - r.interval
            /\ runs * r.interval \in Int
        BY <2>2, <3>2
      <3> HIDE DEF d, e, r
      <3> QED  BY <2>3, <3>1, <3>2, <3>3
    <2>5. asked + 23 <= runAt
      <3> HIDE DEF d, e, r
      <3> QED  BY <2>2, <2>3, <2>4, DayApart
    <2>6. offset \in Int /\ offset <= 21 /\ deadlineAt = asked + offset
      BY <2>1 DEF SoonDue
    <2> QED  BY <2>2, <2>5, <2>6
  <1> QED  BY RoutineHolds, <1>1, PTL

\* What nextRecurrenceAt returns is on the routine.
LEMMA NextIsOnRoutine ==
    ASSUME TameClocks, NEW r, IsRoutine(r), NEW after \in Nat, after >= 24,
           NEW n, n = nextRecurrenceAt(r, after), ~NearChange(n)
    PROVE  OnRoutine(r, n)
  <1> DEFINE d == LocalDay(after)
             e == LocalDay(n)
  <1>1. d \in Nat /\ n \in Nat /\ n > after
    BY NextOccurrence
  <1>2. e \in DaysOf(r, d) /\ n = TimeOn(e, r)
    BY NextOccurrence
  <1>3. e \in Nat
    <2> HIDE DEF d, e
    <2> QED  BY <1>1, <1>2, CandidateDays
  <1>4. getLocalParts(n).hour = r.localHour
    <2>1. r.localHour \in Hours
      BY HoursOfRoutines DEF IsRoutine
    <2> HIDE DEF e
    <2> QED  BY <1>1, <1>2, <1>3, <2>1, HourIsKept DEF TimeOn
  <1>5. r.frequency = "WEEKLY" => getLocalParts(n).weekday \in r.weekdays
    <2> SUFFICES ASSUME r.frequency = "WEEKLY" PROVE getLocalParts(n).weekday \in r.weekdays
      OBVIOUS
    <2>1. PICK k \in 0..(7 * r.interval) :
             e = d + k /\ (d + k + FirstWeekday) % 7 \in r.weekdays
      BY <1>2 DEF DaysOf, WeeklyDays
    <2>2. getLocalParts(n).weekday = (e + FirstWeekday) % 7
      BY <1>1, LocalParts
    <2> HIDE DEF d, e
    <2> QED  BY <2>1, <2>2
  <1>6. ASSUME r.frequency = "MONTHLY", r.dayOfMonth # Never
        PROVE  LET length == MonthLength(MonthOf(e))
               IN e - FirstDay(MonthOf(e)) + 1 =
                     IF r.dayOfMonth > length THEN length ELSE r.dayOfMonth
    <2>1. e = DayIn(MonthOf(e), r.dayOfMonth)
      BY <1>6, NextIsTurn
    <2>2. r.dayOfMonth \in Nat \ {0} /\ MonthOf(e) \in Nat
      <3> HIDE DEF e
      <3> QED  BY <1>3, <1>6, MonthOfDay DEF IsRoutine
    <2> HIDE DEF e
    <2> QED  BY <2>1, <2>2, DayInMonth
  <1> QED  BY <1>4, <1>5, <1>6 DEF OnRoutine, DayOfMonth, LocalDay

\* A day at or after the one it looks from, no later than the one it finds, on which
\* the routine is, is among the days it compares.
LEMMA TurnsAreCompared ==
    ASSUME TameClocks, NEW r, IsRoutine(r), r.interval = 1 \/ r.frequency = "WEEKLY",
           r.frequency = "MONTHLY" => r.dayOfMonth # Never,
           NEW d \in Nat, NEW e \in DaysOf(r, d), NEW between \in Nat, d <= between, between <= e,
           NEW t \in Int, LocalDay(t) = between, OnRoutine(r, t)
    PROVE  between \in DaysOf(r, d)
  <1>1. r.frequency \in {"DAILY", "WEEKLY", "MONTHLY"} /\ r.interval \in Nat \ {0}
    BY DEF IsRoutine
  <1>2. CASE r.frequency = "DAILY"
    <2>1. DaysOf(r, d) = {d, d + 1}
      BY <1>2 DEF DaysOf, DailyDays
    <2> QED  BY <2>1
  <1>3. CASE r.frequency = "WEEKLY"
    <2>1. PICK k \in 0..(7 * r.interval) : e = d + k
      BY <1>3 DEF DaysOf, WeeklyDays
    <2> DEFINE j == between - d
    <2>2. j \in 0..(7 * r.interval) /\ between = d + j
      BY <1>1, <2>1
    <2>3. (between + FirstWeekday) % 7 \in r.weekdays
      BY <1>3, LocalParts DEF OnRoutine
    <2> HIDE DEF j
    <2>4. between \in WeeklyDays(r, d)
      BY <2>2, <2>3 DEF WeeklyDays
    <2> QED  BY <1>3, <2>4 DEF DaysOf
  <1>4. CASE r.frequency = "MONTHLY"
    <2> DEFINE m == MonthOf(d)
               w == r.dayOfMonth
               b == MonthOf(between)
    <2>1. w \in Nat \ {0} /\ w = WantedDay(r, d) /\ m \in Nat /\ b \in Nat
      BY <1>4, MonthOfDay DEF IsRoutine, WantedDay
    <2>2. MonthlyDays(r, d) = {DayIn(m + k, w) : k \in {0, 1}} /\ DaysOf(r, d) = MonthlyDays(r, d)
      BY <1>4, <2>1 DEF MonthlyDays, DaysOf
    <2>3. PICK k \in {0, 1} : e = DayIn(m + k, w)
      BY <2>2
    <2> HIDE DEF m, w, b
    <2>4. e \in Nat /\ MonthOf(e) = m + k
      <3>1. m + k \in Nat
        BY <2>1
      <3> QED  BY <2>1, <2>3, <3>1, DayInMonth
    <2>5. m <= b /\ b <= m + k
      <3>1. MonthOf(d) <= MonthOf(between) /\ MonthOf(between) <= MonthOf(e)
        BY <2>4, MonthsFollow
      <3> QED  BY <2>4, <3>1 DEF m, b
    <2>6. PICK j \in {0, 1} : b = m + j
      BY <2>1, <2>5
    <2>7. between = DayIn(b, w)
      <3>1. between - FirstDay(b) + 1 = IF w > MonthLength(b) THEN MonthLength(b) ELSE w
        BY <1>4 DEF OnRoutine, DayOfMonth, LocalDay, w, b
      <3>2. /\ DayIn(b, w) - FirstDay(b) + 1 =
                   IF w > MonthLength(b) THEN MonthLength(b) ELSE w
            /\ DayIn(b, w) \in Nat /\ FirstDay(b) \in Nat
        BY <2>1, DayInMonth, MonthStep
      <3> QED  BY <3>1, <3>2
    <2> QED  BY <2>2, <2>6, <2>7
  <1> QED  BY <1>1, <1>2, <1>3, <1>4

LEMMA NoTurnBetween ==
    ASSUME TameClocks, NEW r, IsRoutine(r), r.interval = 1 \/ r.frequency = "WEEKLY",
           r.frequency = "MONTHLY" => r.dayOfMonth # Never,
           NEW after \in Nat, after >= 24, NEW n, n = nextRecurrenceAt(r, after),
           NEW t \in (after + 1)..(n - 1), OnRoutine(r, t)
    PROVE  NearChange(t)
  <1> SUFFICES ASSUME ~NearChange(t) PROVE FALSE
    OBVIOUS
  <1> DEFINE d == LocalDay(after)
             e == LocalDay(n)
             between == LocalDay(t)
  <1>1. d \in Nat /\ n \in Nat /\ n > after
    BY NextOccurrence
  <1>2. e \in DaysOf(r, d) /\ \A day \in DaysOf(r, d) : TimeOn(day, r) > after => n <= TimeOn(day, r)
    BY NextOccurrence
  <1>3. t \in Nat /\ after < t /\ t < n /\ t >= 12
    BY <1>1
  <1>4. between \in Nat /\ d <= between /\ between <= e
    BY <1>1, <1>3, LocalParts, LocalOrder
  <1>5. between \in DaysOf(r, d)
    <2> HIDE DEF d, e
    <2> QED  BY <1>1, <1>2, <1>3, <1>4, TurnsAreCompared
  <1>6. TimeOn(between, r) = t
    BY <1>3, TimeAtHour DEF TimeOn, OnRoutine
  <1> QED  BY <1>1, <1>2, <1>3, <1>5, <1>6

\* No turn is skipped.
THEOREM RoutineSkipsNoTurn ==
    ASSUME TameClocks
    PROVE  RoutineSpec => NoTurnSkipped
  <1>1. ASSUME TurnInv', [RoutineNext]_routineVars, runAt' # runAt, recurrence' # Never
        PROVE  /\ IsRoutine(recurrence') /\ publishAt' \in Nat /\ publishAt' >= 24
               /\ runAt' = nextRecurrenceAt(recurrence', publishAt')
    <2>1. runAt' = nextRecurrenceAt(recurrence', publishAt')
      <3>1. ASSUME NEW request \in Requests, NEW reference \in References,
                   NEW p \in Priorities, NEW text \in Deadlines,
                   Ask(request, reference, p, text)
            PROVE  runAt' = nextRecurrenceAt(recurrence', publishAt')
        BY <3>1 DEF Ask
      <3>2. ASSUME NEW late \in Lateness, createRecurringInstance(late)
            PROVE  runAt' = nextRecurrenceAt(recurrence', publishAt')
        BY <3>2 DEF createRecurringInstance
      <3>3. ASSUME NEW late \in Lateness, Postpone(late) PROVE FALSE
        BY <1>1, <3>3 DEF Postpone
      <3>4. ASSUME UNCHANGED routineVars PROVE FALSE
        BY <1>1, <3>4 DEF routineVars
      <3> QED  BY <1>1, <3>1, <3>2, <3>3, <3>4 DEF RoutineNext
    <2>2. TimesOK'
      BY <1>1 DEF TurnInv, Started
    <2>3. /\ IsRoutine(recurrence') /\ publishAt' \in Nat
          /\ asked' \in Nat /\ asked' >= 24 /\ asked' <= publishAt'
      BY <2>2 DEF TimesOK, IsTurn
    <2>4. publishAt' >= 24
      <3>1. \A a, b \in Nat : a >= 24 /\ a <= b => b >= 24
        OBVIOUS
      <3> QED  BY <2>3, <3>1
    <2> QED  BY <2>1, <2>3, <2>4
  <1>2. ASSUME NEW r, NEW after, NEW n, IsRoutine(r), after \in Nat, after >= 24,
               n = nextRecurrenceAt(r, after), ~NearChange(n)
        PROVE  /\ n # Never /\ OnRoutine(r, n)
               /\ (r.interval = 1 \/ r.frequency = "WEEKLY")
                     /\ (r.frequency = "MONTHLY" => r.dayOfMonth # Never) =>
                     \A t \in (after + 1)..(n - 1) : ~OnRoutine(r, t) \/ NearChange(t)
    <2>1. n # Never /\ OnRoutine(r, n)
      BY <1>2, NextIsTurn, NextIsOnRoutine
    <2> QED  BY <1>2, <2>1, NoTurnBetween
  <1>3. TurnInv' /\ [RoutineNext]_routineVars => [TurnFollows]_routineVars
    <2> SUFFICES ASSUME TurnInv', [RoutineNext]_routineVars, runAt' # runAt,
                        recurrence' # Never, ~NearChange(runAt')
                 PROVE  TurnFollows
      BY DEF TurnFollows
    <2>1. /\ IsRoutine(recurrence') /\ publishAt' \in Nat /\ publishAt' >= 24
          /\ runAt' = nextRecurrenceAt(recurrence', publishAt')
      BY <1>1
    <2> QED  BY <1>2, <2>1 DEF TurnFollows
  <1> QED  BY <1>3, RoutineHolds, PTL DEF RoutineSpec, NoTurnSkipped

\* Where the clocks never change, as in Africa/Lagos, the default zone of the program,
\* and for routines between 1 and 22 o'clock where they change by an hour, the
\* hypothesis of these theorems holds.
THEOREM FixedZoneIsTame ==
    ASSUME \/ OffsetBefore = OffsetAfter
           \/ OffsetAfter - OffsetBefore \in -1..1 /\ RoutineHours \subseteq 1..22
    PROVE  TameClocks
  <1>1. OffsetAfter - OffsetBefore \in -1..1
    BY CalendarAssumption
  <1>2. ASSUME NEW day \in Nat, NEW hour \in RoutineHours
        PROVE  KeepsDay(day, hour)
    <2> DEFINE p == 24 * day + hour
               u == p - getTimeZoneOffset(p)
               off == getTimeZoneOffset(u) - getTimeZoneOffset(p)
    <2>1. hour \in 0..23
      BY HoursOfRoutines DEF Hours
    <2>2. off = 0 \/ (off \in -1..1 /\ hour \in 1..22)
      <3>1. CASE OffsetBefore = OffsetAfter
        <4>1. \A a, b : getTimeZoneOffset(a) = getTimeZoneOffset(b)
          BY <3>1 DEF getTimeZoneOffset
        <4>2. getTimeZoneOffset(u) = getTimeZoneOffset(p) /\ getTimeZoneOffset(p) \in Int
          BY <4>1, Offset
        <4> HIDE DEF u, p
        <4> QED  BY <4>2
      <3>2. CASE RoutineHours \subseteq 1..22
        <4>1. \A a, b : getTimeZoneOffset(a) - getTimeZoneOffset(b) \in -1..1
          BY <1>1, CalendarAssumption DEF getTimeZoneOffset
        <4> QED  BY <3>2, <4>1
      <3> QED  BY <3>1, <3>2
    <2>3. getTimeZoneOffset(u) \in Int /\ getTimeZoneOffset(p) \in Int
      BY Offset
    <2>4. u + getTimeZoneOffset(u) = 24 * day + (hour + off) /\ hour + off \in 0..23
      <3>1. 24 * day \in Int /\ p \in Int
        BY <2>1
      <3>2. off \in -1..1 /\ hour + off \in 0..23
        <4> HIDE DEF off
        <4> QED  BY <2>1, <2>2
      <3>3. /\ off = getTimeZoneOffset(u) - getTimeZoneOffset(p)
            /\ u = p - getTimeZoneOffset(p) /\ p = 24 * day + hour
        OBVIOUS
      <3>4. hour \in Int /\ off \in Int
        BY <2>1, <3>2
      <3> HIDE DEF u, off, p
      <3>5. u + getTimeZoneOffset(u) = p + off
        BY <2>3, <3>1, <3>3, <3>4
      <3>6. p + off = 24 * day + (hour + off)
        BY <3>1, <3>3, <3>4
      <3> QED  BY <3>2, <3>5, <3>6
    <2>5. getLocalParts(u).day = (u + getTimeZoneOffset(u)) \div 24
      BY DEF getLocalParts
    <2>6. (24 * day + (hour + off)) \div 24 = day
      <3> HIDE DEF off
      <3> QED  BY <2>1, <2>4
    <2> HIDE DEF off
    <2> QED  BY <2>4, <2>5, <2>6 DEF KeepsDay, localDateTimeToUtc
  <1> QED  BY <1>1, <1>2 DEF TameClocks
=============================================================================
