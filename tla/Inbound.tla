------------------------------ MODULE Inbound ------------------------------
(***************************************************************************)
(* InboundRouter: messages from WhatsApp, each handled by a call of its    *)
(* own, several at a time; who may do what; the reading of an instruction  *)
(* by the AI provider and its fallback; and how an official's reply finds  *)
(* its task.  A text is the set of the words the router looks for, an      *)
(* operation on a task one step (TaskAssignments has its statements).      *)
(***************************************************************************)
EXTENDS Integers, Sequences, FiniteSets, SequencesExt

CONSTANTS Handlers,        \* numbered
          Users, Tasks, None,
          Mails,          \* what can be written: see InboundAssumption
          InitialRoles,   \* [Users -> Roles]
          InitialRows,    \* assignees of the tasks that exist at the start
          Models,         \* GROQ_MODELS: how many
          Limit,          \* requests a minute: [Roles -> Nat], 40 and 12 in the code
          MaxMessages, MaxFaults

Roles == {"none", "COMMUNITY_MEMBER", "OFFICIAL", "SUPER_ADMIN"}
Places == {"direct", "officials", "community"}

ASSUME InboundAssumption ==
    /\ {Models, MaxMessages, MaxFaults} \cup Handlers \subseteq Nat /\ Models > 0
    /\ InitialRoles \in [Users -> Roles] /\ Limit \in [Roles -> Nat]
    /\ DOMAIN InitialRows \subseteq Tasks /\ IsFiniteSet(DOMAIN InitialRows)
    /\ None \notin Users \cup Tasks \cup Nat
    /\ \A mail \in Mails :
          /\ mail.from \in Users /\ mail.place \in Places
          /\ mail.invokes \in BOOLEAN /\ mail.media \in BOOLEAN
          /\ mail.quotes \in Tasks \cup {None} /\ mail.number \in Nat \cup {None}
          /\ mail.names \subseteq Tasks /\ mail.subject \in Users \cup {None}

VARIABLES sent,        \* the messages written, in order
          processed,   \* processed_messages
          role,        \* of the registered users
          status,      \* of each task
          order,       \* the tasks as listTasks orders them: by deadline
          rows,        \* task_assignees, by task and user
          asked,       \* conversation_memory: the chats in which each user was asked
                       \* "Which one are you submitting?"
          recent,      \* inboundRateWindows
          work,        \* of each handler: what its call has read and where it is
          up, faults,
          operations,  \* history: what each message has done
          answered,    \* history: messages answered, or not meant for the bot
          cut,         \* history: messages left without an answer by a crash, a lost
                       \* connection or an apology that could not be sent
          listing      \* history: the list each user was last shown, and the messages
                       \* carried out before it was read

vars == <<sent, processed, role, status, order, rows, asked, recent, work, up, faults,
          operations, answered, cut, listing>>
taskVars == <<status, order, rows>>
worldVars == <<sent, up, faults>>
history == <<operations, answered, cut, listing>>

Ids == 1..MaxMessages
Idle == [pc |-> "idle", id |-> 0, role |-> "none", task |-> None, intent |-> None,
         list |-> <<>>, before |-> {}, shown |-> <<>>, since |-> {}, tried |-> 0]
Intents == {"CREATE_TASK", "UPDATE_TASK", "CANCEL_TASK", "CREATE_ANNOUNCEMENT", "OTHER"}

TypeOK ==
    /\ sent \in Seq(Mails) /\ processed \subseteq DOMAIN sent /\ role \in [Users -> Roles]
    /\ status \in [Tasks -> {"NONE", "ACTIVE", "SUBMITTED", "COMPLETED"}]
    \* The list has every task there is once.
    /\ order \in Seq(Tasks) /\ IsInjective(order)
    /\ Range(order) = {t \in Tasks : status[t] # "NONE"}
    /\ rows \in [Tasks -> [Users -> {"none", "open", "blocked", "handed"}]]
    /\ asked \in [Users -> SUBSET Places] /\ recent \in [Users -> Nat]
    /\ \A h \in Handlers : work[h].pc # "idle" => work[h].id \in DOMAIN sent

-----------------------------------------------------------------------------
Message(h) == sent[work[h].id]
Sender(h) == Message(h).from
At(h, step) == work[h].pc = step
Step(h, step) == work' = [work EXCEPT ![h].pc = step]
Do(h, step, intent) == work' = [work EXCEPT ![h].pc = step, ![h].intent = intent]

IsOpen(t) == status[t] = "ACTIVE"
Among(list, tasks) == SelectSeq(list, LAMBDA t : t \in tasks)
Candidates(u) == Among(order, {t \in Tasks : IsOpen(t) /\ rows[t][u] # "none"})

IsOne(tasks) == \E t \in tasks : tasks = {t}

\* The task with the best matching title among some, or the only one there is.
Named(mail, tasks) ==
    LET named == mail.names \cap tasks
    IN IF IsOne(named) THEN CHOOSE t \in named : TRUE
       ELSE IF IsOne(tasks) THEN CHOOSE t \in tasks : TRUE ELSE None

Init ==
    /\ sent = <<>> /\ processed = {} /\ role = InitialRoles
    /\ status = [t \in Tasks |-> IF t \in DOMAIN InitialRows THEN "ACTIVE" ELSE "NONE"]
    /\ order \in SetToSeqs(DOMAIN InitialRows)
    /\ rows = [t \in Tasks |-> [u \in Users |->
                  IF t \in DOMAIN InitialRows /\ u \in InitialRows[t] THEN "open" ELSE "none"]]
    \* An official with two tasks may have been asked which one it is.
    /\ asked \in [Users -> {{}, {"direct"}}]
    /\ \A u \in Users : asked[u] # {} => Len(Candidates(u)) > 1
    /\ recent = [u \in Users |-> 0]
    /\ work = [h \in Handlers |-> Idle] /\ up = TRUE /\ faults = 0
    /\ operations = [i \in Ids |-> <<>>] /\ answered = {} /\ cut = {}
    /\ listing = [u \in Users |-> [list |-> IF asked[u] # {} THEN Candidates(u) ELSE <<>>,
                                   before |-> {}]]

\* Patterns are tried in the order of the code; the first that matches decides.
FirstRule(rules, words, otherwise) ==
    LET matching == {i \in DOMAIN rules : rules[i][1] \cap words # {}}
    IN IF matching = {} THEN otherwise ELSE rules[Min(matching)][2]

-----------------------------------------------------------------------------
\* Calls of handle are all alike; one that begins is given the first free handler.
Free == {h \in Handlers : At(h, "idle")}
Begin(i) ==
    /\ Free # {}
    /\ work' = [work EXCEPT ![Min(Free)] = [Idle EXCEPT !.pc = "mark", !.id = i]]

\* messages.upsert: nobody waits for the handling of the message before, so one may
\* overtake another, as when its media is downloaded first.
Receive(mail) ==
    /\ Len(sent) < MaxMessages
    /\ sent' = Append(sent, mail)
    /\ Begin(Len(sent) + 1)
    /\ UNCHANGED <<up, faults, processed, role, taskVars, asked, recent, history>>

\* WhatsApp delivers a message again.
ReceiveAgain(i) ==
    /\ i \in DOMAIN sent /\ faults < MaxFaults /\ faults' = faults + 1
    /\ Begin(i)
    /\ UNCHANGED <<sent, up, processed, role, taskVars, asked, recent, history>>

\* Mutant of markMessageProcessed: the answer is not looked at.
markMessageAnyway(h) ==
    /\ At(h, "mark")
    /\ processed' = processed \cup {work[h].id}
    /\ Step(h, "identify")
    /\ UNCHANGED <<worldVars, role, taskVars, asked, recent, history>>

markMessageProcessed(h) ==
    /\ At(h, "mark")
    /\ processed' = processed \cup {work[h].id}
    /\ IF work[h].id \in processed THEN work' = [work EXCEPT ![h] = Idle] ELSE Step(h, "identify")
    /\ UNCHANGED <<worldVars, role, taskVars, asked, recent, history>>

\* Commands of the Super Admin that need no interpretation.
AdminRules ==
    << <<{"hello"}, "respond">>, <<{"confirm"}, "confirm">>, <<{"startOver"}, "respond">>,
       <<{"register"}, "register">>, <<{"remember"}, "knowledge">>, <<{"brief"}, "respond">>,
       <<{"checkins"}, "checkins">>, <<{"complete"}, "complete">> >>

MemberRules ==
    << <<{"hello"}, "respond">>, <<{"command"}, "respond">>, <<{"interests"}, "interests">> >>

OfficialRules ==
    << <<{"hello"}, "respond">>, <<{"done"}, "submission">>,
       <<{"blocked", "started", "gotIt"}, "update">>, <<{"myTasks"}, "respond">> >> \o MemberRules

\* What looks like a command is none when a text is to be written.
Meant(words) == words \ (IF "write" \in words THEN {"command"} ELSE {})

\* Mutant of Handling: an official is taken for an admin in the officials group.
HandlingByGroup(mail, r) ==
    IF r = "SUPER_ADMIN" \/ (r = "OFFICIAL" /\ mail.place = "officials")
    THEN FirstRule(AdminRules, mail.words, "ai")
    ELSE FirstRule(IF r = "OFFICIAL" THEN OfficialRules ELSE MemberRules,
                   Meant(mail.words), "question")

\* handleProcessed, once the sender is known and admitted.
Handling(mail, r) ==
    IF r = "SUPER_ADMIN" THEN FirstRule(AdminRules, mail.words, "ai")
    ELSE IF r = "OFFICIAL" /\ "hello" \notin mail.words /\ mail.quotes # None THEN "reply"
    ELSE IF r = "OFFICIAL" /\ mail.words = {} /\ mail.number # None THEN "choose"
    ELSE FirstRule(IF r = "OFFICIAL" THEN OfficialRules ELSE MemberRules,
                   Meant(mail.words), "question")

AdminOperations == {"confirm", "register", "knowledge", "checkins", "complete"}

\* An unknown sender in the community group is registered; messages in a group that do
\* not call the bot are only remembered.
Identify(h) ==
    /\ At(h, "identify")
    /\ LET mail == Message(h)
           r == IF role[mail.from] = "none" /\ mail.place = "community"
                THEN "COMMUNITY_MEMBER" ELSE role[mail.from]
           invoked == mail.place = "direct" \/ mail.invokes \/ mail.quotes # None
           limited == recent[mail.from] >= Limit[r]
           next == Handling(mail, r)
       IN /\ role' = [role EXCEPT ![mail.from] = r]
          /\ IF ~invoked
             THEN /\ work' = [work EXCEPT ![h] = Idle]
                  /\ answered' = answered \cup {work[h].id} /\ UNCHANGED recent
             ELSE /\ UNCHANGED answered
                  /\ recent' = IF r = "none" THEN recent ELSE [recent EXCEPT ![mail.from] = @ + 1]
                  /\ work' = [work EXCEPT ![h] =
                        [@ EXCEPT !.role = r,
                                  !.task = IF next = "reply" THEN mail.quotes ELSE None,
                                  !.intent = IF next \in AdminOperations THEN next ELSE None,
                                  !.pc = IF r = "none" \/ limited THEN "respond"
                                         ELSE IF next \in AdminOperations THEN "admin" ELSE next]]
    /\ UNCHANGED <<worldVars, processed, taskVars, asked, operations, cut, listing>>

-----------------------------------------------------------------------------
\* RuleBasedAIProvider.extractCommand
RuleBasedIntent(words) ==
    FirstRule(<< <<{"cancelTask"}, "CANCEL_TASK">>, <<{"change"}, "UPDATE_TASK">>,
                 <<{"assign"}, "CREATE_TASK">>, <<{"report", "write"}, "OTHER">>,
                 <<{"publish"}, "CREATE_ANNOUNCEMENT">> >>, words, "OTHER")

\* GroqAIProvider.extractCommand: an answer in the form asked for is any intent; one
\* in another form, a refusal of the key or the last failure leave it to the rules.
Understood(h) == \E intent \in Intents : Do(h, "admin", intent)
FallBack(h) == Do(h, "admin", RuleBasedIntent(Message(h).words))
TryModel(h) ==
    /\ At(h, "ai")
    /\ \/ Understood(h) \/ FallBack(h)
       \/ work[h].tried + 1 < Models /\ work' = [work EXCEPT ![h].tried = @ + 1]
    /\ UNCHANGED <<worldVars, processed, role, taskVars, asked, recent, history>>

-----------------------------------------------------------------------------
\* The messages carried out so far.
CarriedOut == {i \in Ids : operations[i] # <<>>}

ByOfficial == {"submit", "choice", "block", "acknowledge", "progress"}

\* What an operation leaves behind.
Record(h, op, t, chosen) ==
    operations' = [operations EXCEPT ![work[h].id] =
        Append(@, [op |-> op, role |-> work[h].role, task |-> t,
                   assigned |-> op \in ByOfficial /\ rows[t][Sender(h)] # "none",
                   shown |-> IF chosen THEN work[h].shown ELSE <<>>,
                   since |-> IF chosen THEN work[h].since ELSE {}])]

Complete(t) ==
    /\ status' = [status EXCEPT ![t] = "COMPLETED"]
    /\ rows' = [rows EXCEPT ![t] = [u \in Users |-> IF @[u] = "none" THEN "none" ELSE "handed"]]
    /\ UNCHANGED order

\* A new deadline moves the task in the list.
UpdateDeadline(t) ==
    /\ \E i, place \in DOMAIN order :
          order[i] = t /\ order' = InsertAt(RemoveAt(order, i), place, t)
    /\ UNCHANGED <<status, rows>>

\* The assignees are officials found by name.
Create(t) ==
    /\ status[t] = "NONE" /\ status' = [status EXCEPT ![t] = "ACTIVE"]
    /\ \E u \in {x \in Users : role[x] = "OFFICIAL"} : rows' = [rows EXCEPT ![t][u] = "open"]
    /\ \E place \in 1..(Len(order) + 1) : order' = InsertAt(order, place, t)

\* What the admin's instruction does.  Most may end in an answer, a question or a
\* refusal instead; without a task to go with it an instruction can do nothing else.  The
\* request to cancel waits for its confirmation (Confirmations).
Operate(h) ==
    /\ At(h, "admin")
    /\ LET intent == work[h].intent
           t == Named(Message(h), {x \in Tasks : status[x] \in {"ACTIVE", "SUBMITTED"}})
       IN \/ /\ intent # "complete" \/ t = None
             /\ UNCHANGED <<taskVars, role, operations>>
          \/ /\ intent \in {"complete", "UPDATE_TASK"} /\ t # None
             /\ IF intent = "complete" THEN Complete(t) ELSE UpdateDeadline(t)
             /\ Record(h, intent, t, FALSE) /\ UNCHANGED role
          \/ /\ intent = "CREATE_TASK"
             /\ \E new \in Tasks : Create(new) /\ Record(h, intent, new, FALSE)
             /\ UNCHANGED role
          \/ /\ intent = "register"
             /\ role' = [role EXCEPT ![Message(h).subject] = "OFFICIAL"]
             /\ Record(h, intent, None, FALSE) /\ UNCHANGED taskVars
          \/ /\ \/ intent \in {"confirm", "knowledge", "checkins", "CREATE_ANNOUNCEMENT"}
                \/ intent = "CANCEL_TASK" /\ t # None
             /\ Record(h, intent, t, FALSE) /\ UNCHANGED <<taskVars, role>>
    /\ Step(h, "respond")
    /\ UNCHANGED <<worldVars, processed, asked, recent, answered, cut, listing>>

-----------------------------------------------------------------------------
\* handleOfficialUnthreadedSubmission
FindSubmitted(h) ==
    /\ At(h, "submission")
    /\ LET list == Candidates(Sender(h))
       IN work' = [work EXCEPT ![h] =
             IF list = <<>> THEN [@ EXCEPT !.pc = "respond"]
             ELSE IF Len(list) = 1 THEN [@ EXCEPT !.pc = "reply", !.task = list[1]]
             ELSE [@ EXCEPT !.pc = "remember", !.list = list, !.before = CarriedOut]]
    /\ UNCHANGED <<worldVars, processed, role, taskVars, asked, recent, history>>

\* The question is put into the memory of the conversation.
Remember(h) ==
    /\ At(h, "remember")
    /\ asked' = [asked EXCEPT ![Sender(h)] = @ \cup {Message(h).place}]
    /\ listing' = [listing EXCEPT ![Sender(h)] =
                     [list |-> work[h].list, before |-> work[h].before]]
    /\ Step(h, "respond")
    /\ UNCHANGED <<worldVars, processed, role, taskVars, recent, operations, answered, cut>>

\* handleOfficialUnthreadedUpdate: its question is not remembered.
FindUpdated(h) ==
    /\ At(h, "update")
    /\ LET list == Candidates(Sender(h))
           t == Named(Message(h), Range(list))
       IN /\ work' = [work EXCEPT ![h].pc = IF t = None THEN "respond" ELSE "reply", ![h].task = t]
          /\ listing' = IF t = None /\ list # <<>>
                        THEN [listing EXCEPT ![Sender(h)] = [list |-> list, before |-> CarriedOut]]
                        ELSE listing
    /\ UNCHANGED <<worldVars, processed, role, taskVars, asked, recent, operations, answered, cut>>

\* handleOfficialTaskReply: what the reply says of the task; media alone submits.
ReplyRules ==
    << <<{"blocked"}, "block">>, <<{"gotIt", "seen"}, "acknowledge">>,
       <<{"started", "halfway"}, "progress">>, <<{"done"}, "submit">> >>

Reply(h) ==
    /\ At(h, "reply")
    /\ LET op == FirstRule(ReplyRules, Message(h).words,
                           IF Message(h).media THEN "submit" ELSE None)
       IN Do(h, IF op = None THEN "respond" ELSE IF op = "submit" THEN "capture" ELSE "perform", op)
    /\ UNCHANGED <<worldVars, processed, role, taskVars, asked, recent, history>>

\* handleOfficialTaskSelection.  A number without a question before it is a question.
Choose(h) ==
    /\ At(h, "choose")
    /\ Step(h, IF Message(h).place \in asked[Sender(h)] THEN "pick" ELSE "question")
    /\ UNCHANGED <<worldVars, processed, role, taskVars, asked, recent, history>>

Chosen(list, number) == IF number \in DOMAIN list THEN list[number] ELSE None

Pick(h) ==
    /\ At(h, "pick")
    /\ LET u == Sender(h)
           t == Chosen(Candidates(u), Message(h).number)
       IN work' = [work EXCEPT ![h] =
             IF t = None THEN [@ EXCEPT !.pc = "respond"]
             ELSE [@ EXCEPT !.pc = "capture", !.task = t, !.intent = "choice",
                            !.shown = listing[u].list, !.since = CarriedOut \ listing[u].before]]
    /\ UNCHANGED <<worldVars, processed, role, taskVars, asked, recent, history>>

\* captureInboundMedia stores the media first; without it nothing is submitted.
Capture(h) ==
    /\ At(h, "capture")
    /\ Step(h, "perform")
    /\ UNCHANGED <<worldVars, processed, role, taskVars, asked, recent, history>>

\* TaskService.submit, acknowledge, recordProgress and recordBlocked; a sender who is
\* not an assignee is refused.
Perform(h) ==
    /\ At(h, "perform") /\ rows[work[h].task][Sender(h)] # "none"
    /\ LET t == work[h].task
           u == Sender(h)
           op == work[h].intent
           handed == op \in {"submit", "choice"}
       IN /\ rows' = [rows EXCEPT ![t][u] = IF handed THEN "handed"
                                            ELSE IF op = "block" THEN "blocked"
                                            ELSE IF @ = "handed" THEN @ ELSE "open"]
          /\ status' = IF handed /\ \A x \in Users : rows'[t][x] \in {"none", "handed"}
                       THEN [status EXCEPT ![t] = "SUBMITTED"] ELSE status
          /\ Record(h, op, t, op = "choice")
          /\ Step(h, IF op = "choice" THEN "forget" ELSE "respond")
    /\ UNCHANGED <<worldVars, processed, role, order, asked, recent, answered, cut, listing>>

Forget(h) ==
    /\ At(h, "forget")
    /\ asked' = [asked EXCEPT ![Sender(h)] = @ \ {Message(h).place}]
    /\ Step(h, "respond")
    /\ UNCHANGED <<worldVars, processed, role, taskVars, recent, history>>

\* updateMemberInterests saves the user as it was read.
SaveInterests(h) ==
    /\ At(h, "interests")
    /\ role' = [role EXCEPT ![Sender(h)] = work[h].role]
    /\ Step(h, "respond")
    /\ UNCHANGED <<worldVars, processed, taskVars, asked, recent, history>>

\* handleCommunityQuestion: whatever the models say or fail to say, there is a reply.
Answer(h) ==
    /\ At(h, "question")
    /\ Step(h, "respond")
    /\ UNCHANGED <<worldVars, processed, role, taskVars, asked, recent, history>>

-----------------------------------------------------------------------------
Respond(h) ==
    /\ work[h].pc \in {"respond", "apologise"}
    /\ work' = [work EXCEPT ![h] = Idle]
    /\ IF up THEN answered' = answered \cup {work[h].id} /\ UNCHANGED cut
       ELSE cut' = cut \cup {work[h].id} /\ UNCHANGED answered
    /\ UNCHANGED <<worldVars, processed, role, taskVars, asked, recent, operations, listing>>

\* Anything thrown once the message is marked ends in an apology or its reason: a
\* refusal, media that cannot be stored, an error of the store or of the send.  An error
\* before that is only logged, and an apology that cannot be sent is given up.
Refuse(h) ==
    /\ At(h, "perform") /\ rows[work[h].task][Sender(h)] = "none"
    /\ Step(h, "apologise")
    /\ UNCHANGED <<worldVars, processed, role, taskVars, asked, recent, history>>

\* Mutant of Fail: the error is not caught.
FailSilently(h) ==
    /\ faults < MaxFaults /\ work[h].pc \notin {"idle", "apologise"}
    /\ faults' = faults + 1
    /\ work' = [work EXCEPT ![h] = Idle]
    /\ UNCHANGED <<sent, up, processed, role, taskVars, asked, recent, history>>

Fail(h) ==
    /\ faults < MaxFaults /\ ~At(h, "idle") /\ (At(h, "apologise") => up)
    /\ faults' = faults + 1
    /\ IF At(h, "mark") \/ At(h, "apologise")
       THEN work' = [work EXCEPT ![h] = Idle] ELSE Step(h, "apologise")
    /\ cut' = IF At(h, "apologise") THEN cut \cup {work[h].id} ELSE cut
    /\ UNCHANGED <<sent, up, processed, role, taskVars, asked, recent, operations, answered,
                   listing>>

GoDown ==
    /\ up /\ faults < MaxFaults /\ up' = FALSE /\ faults' = faults + 1
    /\ UNCHANGED <<sent, processed, role, taskVars, asked, recent, work, history>>
ComeUp ==
    /\ ~up /\ up' = TRUE
    /\ UNCHANGED <<sent, faults, processed, role, taskVars, asked, recent, work, history>>

Restart ==
    /\ faults < MaxFaults /\ faults' = faults + 1
    /\ work' = [h \in Handlers |-> Idle] /\ recent' = [u \in Users |-> 0]
    /\ cut' = cut \cup ({work[h].id : h \in Handlers} \cap processed)
    /\ UNCHANGED <<sent, up, processed, role, taskVars, asked, operations, answered, listing>>

\* A minute clears the windows of the rate limit; half an hour expires the memory too.
Wait(long) ==
    /\ \A h \in Handlers : work[h] = Idle
    /\ recent' = [u \in Users |-> 0]
    /\ asked' = IF long THEN [u \in Users |-> {}] ELSE asked
    /\ UNCHANGED <<worldVars, processed, role, taskVars, work, history>>

Work(h) == markMessageProcessed(h) \/ Identify(h) \/ TryModel(h) \/ Operate(h) \/ FindSubmitted(h)
           \/ Remember(h) \/ FindUpdated(h) \/ Reply(h) \/ Choose(h) \/ Pick(h) \/ Capture(h)
           \/ Perform(h) \/ Refuse(h) \/ Forget(h) \/ SaveInterests(h) \/ Answer(h) \/ Respond(h)

Next ==
    \/ \E mail \in Mails : Receive(mail)
    \/ \E i \in Ids : ReceiveAgain(i)
    \/ \E h \in Handlers : Work(h) \/ Fail(h)
    \/ \E long \in BOOLEAN : Wait(long)
    \/ GoDown \/ ComeUp \/ Restart

Spec == Init /\ [][Next]_vars

\* A handling that has begun goes on; nothing else is promised.
FairSpec == Spec /\ \A h \in Handlers : WF_vars(Work(h))

-----------------------------------------------------------------------------
Done == UNION {Range(operations[i]) : i \in Ids}

\* A message does at most one thing and does it once, however often it is delivered
\* and wherever its handling breaks off (processed_messages).
HandledOnce == TypeOK /\ \A i \in Ids : Len(operations[i]) <= 1

\* Tasks are created, changed and completed, people registered and announcements made
\* only at the word of the Super Admin, whatever a model or the rules take a text
\* for; an assignment is changed only by an assignee who is an official.
OnlyAuthorised ==
    \A d \in Done : IF d.op \in ByOfficial THEN d.role = "OFFICIAL" /\ d.assigned
                    ELSE d.role = "SUPER_ADMIN"

\* An official's number never submits a task that stood above it in the list last
\* shown to him, and one further down only when a task above that one was submitted or
\* completed since the list was read; handleOfficialTaskSelection reads the list anew.
\* The property says nothing once a task was created or given a new deadline since.
Meanwhile(d, ops, tasks) ==
    \E i \in d.since : \E e \in Range(operations[i]) : e.op \in ops /\ e.task \in tasks


\* Every message marked as processed is answered in the end, whatever is refused or
\* thrown on the way: unless a crash cut its handling short, the connection was down
\* when its answer was due, or sending the apology failed too.
EveryMessageAnswered ==
    \A i \in Ids : i \in processed ~> i \in answered \cup cut
=============================================================================
