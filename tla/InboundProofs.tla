---------------------------- MODULE InboundProofs ----------------------------
(***************************************************************************)
(* HandledOnce and OnlyAuthorised for any number of handlers, users, tasks *)
(* and messages, and whatever a model answers.                             *)
(*                                                                         *)
(* A handling past its mark is the only one of its message (OneCall), and  *)
(* the message has done nothing before (NotYet); who may do what is        *)
(* decided when the sender is identified and carried along (Permitted).    *)
(* The list of the tasks has each of them once, wherever a task is         *)
(* inserted or moved (TaskInv).                                            *)
(***************************************************************************)
EXTENDS Inbound, WellFoundedInduction, FiniteSetTheorems, SequenceTheorems, TLAPS

Fields == {"pc", "id", "role", "task", "intent", "list", "before", "shown", "since", "tried"}

Calls ==
  /\ DOMAIN work = Handlers
  /\ \A h \in Handlers : DOMAIN work[h] = Fields

Past(c) == c.pc \notin {"idle", "mark"}
After == {"respond", "apologise", "forget"}
Before(c) == Past(c) /\ c.pc \notin After

Marked == \A h \in Handlers : Past(work[h]) => work[h].id \in processed

OneCall ==
  \A h, k \in Handlers : Past(work[h]) /\ Past(work[k]) /\ work[h].id = work[k].id => h = k

NotYet == \A h \in Handlers : Before(work[h]) /\ work[h].id \in Ids => operations[work[h].id] = <<>>

Unmarked == \A i \in Ids : i \notin processed => operations[i] = <<>>

Authorised(d) ==
  IF d.op \in ByOfficial THEN d.role = "OFFICIAL" /\ d.assigned ELSE d.role = "SUPER_ADMIN"

OneOperation ==
  /\ DOMAIN operations = Ids
  /\ \A i \in Ids : operations[i] = <<>> \/ \E d : operations[i] = <<d>> /\ Authorised(d)

ByTask == {"submission", "remember", "update", "reply", "choose", "pick", "capture", "perform"}

MayDo(c) ==
  /\ c.pc \in {"ai", "admin"} => c.role = "SUPER_ADMIN"
  /\ c.pc \in ByTask => c.role = "OFFICIAL"
  /\ c.pc = "admin" => c.intent \notin ByOfficial
  /\ c.pc \in {"capture", "perform"} => c.intent \in ByOfficial

Permitted == \A h \in Handlers : MayDo(work[h])

Inv == Calls /\ Marked /\ OneCall /\ NotYet /\ Unmarked /\ OneOperation /\ Permitted

-----------------------------------------------------------------------------
(* Rules.                                                                  *)

LEMMA SmallestNumber ==
  ASSUME NEW S, S \subseteq Nat, S # {}
  PROVE  Min(S) \in S
  <1>1. PICK x \in S : \A y \in S : <<y, x>> \notin OpToRel(<, Nat)
    BY NatLessThanWellFounded, WFMin
  <1>2. ASSUME NEW y \in S PROVE x =< y
    <2>1. <<y, x>> \in Nat \X Nat /\ ~ <<y, x>>[1] < <<y, x>>[2]
      BY <1>1 DEF OpToRel
    <2> QED  BY <2>1
  <1> QED  BY <1>2 DEF Min

\* The outcome is one of the rules' or the one without a rule.
LEMMA RuleOutcome ==
  ASSUME NEW rules, NEW n \in Nat, DOMAIN rules = 1..n, NEW words, NEW otherwise,
         NEW Outcomes, otherwise \in Outcomes, \A i \in 1..n : rules[i][2] \in Outcomes
  PROVE  FirstRule(rules, words, otherwise) \in Outcomes
  <1> DEFINE S == {i \in DOMAIN rules : rules[i][1] \cap words # {}}
  <1>1. CASE S = {}
    BY <1>1 DEF FirstRule
  <1>2. CASE S # {}
    <2>1. Min(S) \in S
      <3>1. S \subseteq Nat
        OBVIOUS
      <3> HIDE DEF S
      <3> QED  BY <1>2, <3>1, SmallestNumber
    <2>2. FirstRule(rules, words, otherwise) = rules[Min(S)][2]
      BY <1>2 DEF FirstRule
    <2> QED  BY <2>1, <2>2
  <1> QED  BY <1>1, <1>2

MemberSteps == {"respond", "interests", "question"}
OfficialSteps == MemberSteps \cup {"submission", "update", "reply", "choose"}
AdminSteps == AdminOperations \cup {"respond", "ai"}

LEMMA AdminOutcome ==
  ASSUME NEW words PROVE FirstRule(AdminRules, words, "ai") \in AdminSteps
  <1>1. DOMAIN AdminRules = 1..8 /\ \A i \in 1..8 : AdminRules[i][2] \in AdminSteps
    BY DEF AdminRules, AdminSteps, AdminOperations
  <1> HIDE DEF AdminRules
  <1>2. "ai" \in AdminSteps
    BY DEF AdminSteps
  <1> QED  BY <1>1, <1>2, RuleOutcome

LEMMA MemberOutcome ==
  ASSUME NEW words PROVE FirstRule(MemberRules, words, "question") \in MemberSteps
  <1>1. DOMAIN MemberRules = 1..3 /\ \A i \in 1..3 : MemberRules[i][2] \in MemberSteps
    BY DEF MemberRules, MemberSteps
  <1>2. "question" \in MemberSteps
    BY DEF MemberSteps
  <1> QED  BY <1>1, <1>2, RuleOutcome

LEMMA OfficialOutcome ==
  ASSUME NEW words PROVE FirstRule(OfficialRules, words, "question") \in OfficialSteps
  <1>1. DOMAIN OfficialRules = 1..7 /\ \A i \in 1..7 : OfficialRules[i][2] \in OfficialSteps
    BY DEF OfficialRules, MemberRules, OfficialSteps, MemberSteps
  <1>2. "question" \in OfficialSteps
    BY DEF OfficialSteps, MemberSteps
  <1> QED  BY <1>1, <1>2, RuleOutcome

ByReply == ByOfficial \ {"choice"}

LEMMA ReplyOutcome ==
  ASSUME NEW words, NEW otherwise
  PROVE  FirstRule(ReplyRules, words, otherwise) \in ByReply \cup {otherwise}
  <1> DEFINE Outcomes == ByReply \cup {otherwise}
  <1>1. DOMAIN ReplyRules = 1..4 /\ \A i \in 1..4 : ReplyRules[i][2] \in Outcomes
    BY DEF ReplyRules, ByReply, ByOfficial
  <1>2. otherwise \in Outcomes
    OBVIOUS
  <1> HIDE DEF Outcomes
  <1>3. FirstRule(ReplyRules, words, otherwise) \in Outcomes
    BY <1>1, <1>2, RuleOutcome
  <1> QED  BY <1>3 DEF Outcomes

LEMMA FallBackOutcome ==
  ASSUME NEW words PROVE RuleBasedIntent(words) \in Intents
  <1> DEFINE rules == << <<{"cancelTask"}, "CANCEL_TASK">>, <<{"change"}, "UPDATE_TASK">>,
                 <<{"assign"}, "CREATE_TASK">>, <<{"report", "write"}, "OTHER">>,
                 <<{"publish"}, "CREATE_ANNOUNCEMENT">> >>
  <1>1. DOMAIN rules = 1..5 /\ \A i \in 1..5 : rules[i][2] \in Intents
    BY DEF Intents
  <1>2. "OTHER" \in Intents
    BY DEF Intents
  <1>3. RuleBasedIntent(words) = FirstRule(rules, words, "OTHER")
    BY DEF RuleBasedIntent
  <1> HIDE DEF rules
  <1>4. FirstRule(rules, words, "OTHER") \in Intents
    BY <1>1, <1>2, RuleOutcome
  <1> QED  BY <1>3, <1>4

\* What handleProcessed makes of a message depends on the role of its sender.
LEMMA HandlingByRole ==
  ASSUME NEW mail, NEW r
  PROVE  /\ r = "SUPER_ADMIN" => Handling(mail, r) \in AdminSteps
         /\ r = "OFFICIAL" => Handling(mail, r) \in OfficialSteps
         /\ r \notin {"SUPER_ADMIN", "OFFICIAL"} => Handling(mail, r) \in MemberSteps
  <1>1. CASE r = "SUPER_ADMIN"
    BY <1>1, AdminOutcome DEF Handling
  <1>2. CASE r = "OFFICIAL"
    BY <1>2, OfficialOutcome DEF Handling, OfficialSteps
  <1>3. CASE r \notin {"SUPER_ADMIN", "OFFICIAL"}
    BY <1>3, MemberOutcome DEF Handling
  <1> QED  BY <1>1, <1>2, <1>3

-----------------------------------------------------------------------------
(* The kinds of steps.                                                     *)

\* A handling goes on, to a step that it may take, and has done nothing yet if it is to
\* do something.
GoesOn(h) ==
  /\ Past(work[h]) /\ (Before(work'[h]) => Before(work[h]))
  /\ DOMAIN work'[h] = Fields /\ work'[h].id = work[h].id /\ MayDo(work'[h])

OnlyCall(h) ==
  DOMAIN work' = Handlers /\ \A k \in Handlers \ {h} : work'[k] = work[k]

LEMMA GoingOn ==
  ASSUME Inv, NEW h \in Handlers, OnlyCall(h), GoesOn(h), UNCHANGED <<processed, operations>>
  PROVE  Inv'
  <1> USE DEF Inv, OnlyCall, GoesOn
  <1>1. Calls'
    BY DEF Calls
  <1>2. Marked' /\ OneCall'
    BY DEF Marked, OneCall, Past
  <1>3. NotYet'
    BY DEF NotYet, Before, Past, After
  <1>4. Unmarked' /\ OneOperation'
    BY DEF Unmarked, OneOperation
  <1>5. Permitted'
    BY DEF Permitted, MayDo
  <1> QED  BY <1>1, <1>2, <1>3, <1>4, <1>5

\* A handling ends, or its message waits for its mark.
LEMMA NotPast ==
  ASSUME Inv, NEW h \in Handlers, OnlyCall(h), DOMAIN work'[h] = Fields,
         work'[h].pc \in {"idle", "mark"}, processed \subseteq processed',
         UNCHANGED operations
  PROVE  Inv'
  <1> USE DEF Inv, OnlyCall
  <1>1. Calls'
    BY DEF Calls
  <1>2. Marked' /\ OneCall'
    BY DEF Marked, OneCall, Past
  <1>3. NotYet'
    BY DEF NotYet, Before, Past
  <1>4. Unmarked' /\ OneOperation'
    BY DEF Unmarked, OneOperation
  <1>5. Permitted'
    BY DEF Permitted, MayDo, ByTask
  <1> QED  BY <1>1, <1>2, <1>3, <1>4, <1>5

\* A handling does something, for the first time, and will do nothing else.
LEMMA Operating ==
  ASSUME Inv, NEW h \in Handlers, OnlyCall(h), GoesOn(h), Before(work[h]), ~Before(work'[h]),
         UNCHANGED processed, NEW d, Authorised(d),
         operations' = [operations EXCEPT ![work[h].id] = Append(@, d)]
  PROVE  Inv'
  <1> USE DEF Inv, OnlyCall, GoesOn
  <1>1. Calls'
    BY DEF Calls
  <1>2. Marked' /\ OneCall'
    BY DEF Marked, OneCall, Past
  <1>3. DOMAIN operations' = Ids /\ \A i \in Ids \ {work[h].id} : operations'[i] = operations[i]
    BY DEF OneOperation
  <1>4. work[h].id \in Ids => operations'[work[h].id] = <<d>>
    <2>1. Append(<<>>, d) = <<d>>
      OBVIOUS
    <2> QED  BY <2>1 DEF OneOperation, NotYet
  <1>5. NotYet'
    <2> SUFFICES ASSUME NEW k \in Handlers, Before(work'[k]), work'[k].id \in Ids
                 PROVE  operations'[work'[k].id] = <<>>
      BY DEF NotYet, Ids, Before, Past
    <2>1. k # h /\ work'[k] = work[k] /\ Before(work[k])
      BY DEF Before, Past
    <2>2. work[k].id # work[h].id
      BY <2>1 DEF OneCall, Before
    <2> QED  BY <1>3, <2>1, <2>2 DEF NotYet
  <1>6. Unmarked'
    BY <1>3 DEF Unmarked, Marked, Ids
  <1>7. OneOperation'
    BY <1>3, <1>4 DEF OneOperation, Ids, Authorised
  <1>8. Permitted'
    BY DEF Permitted, MayDo
  <1> QED  BY <1>1, <1>2, <1>5, <1>6, <1>7, <1>8

\* How the steps of a call are written.
LEMMA SetPc ==
  ASSUME Calls, NEW h \in Handlers, NEW pc, Step(h, pc)
  PROVE  /\ OnlyCall(h) /\ DOMAIN work'[h] = Fields /\ work'[h].pc = pc
         /\ work'[h].id = work[h].id /\ work'[h].role = work[h].role
         /\ work'[h].intent = work[h].intent
  BY DEF Step, Calls, Fields, OnlyCall

LEMMA SetIntent ==
  ASSUME Calls, NEW h \in Handlers, NEW pc, NEW intent, Do(h, pc, intent)
  PROVE  /\ OnlyCall(h) /\ DOMAIN work'[h] = Fields /\ work'[h].pc = pc
         /\ work'[h].id = work[h].id /\ work'[h].role = work[h].role
         /\ work'[h].intent = intent
  BY DEF Do, Calls, Fields, OnlyCall

LEMMA SetIdle ==
  ASSUME Calls, NEW h \in Handlers, work' = [work EXCEPT ![h] = Idle]
  PROVE  OnlyCall(h) /\ DOMAIN work'[h] = Fields /\ work'[h].pc = "idle"
  BY DEF Idle, Calls, Fields, OnlyCall

-----------------------------------------------------------------------------
(* One lemma for each kind of action.                                      *)

LEMMA BeginStep ==
  ASSUME Inv, NEW i, Begin(i), UNCHANGED <<processed, operations>> PROVE Inv'
  <1>1. Min(Free) \in Free
    BY InboundAssumption, SmallestNumber DEF Begin, Free
  <1> DEFINE h == Min(Free)
  <1>2. h \in Handlers
    BY <1>1 DEF Free
  <1> HIDE DEF h
  <1>3. work' = [work EXCEPT ![h] = [Idle EXCEPT !.pc = "mark", !.id = i]]
    BY DEF Begin, h
  <1>4. OnlyCall(h) /\ DOMAIN work'[h] = Fields /\ work'[h].pc = "mark"
    BY <1>2, <1>3 DEF Inv, Calls, OnlyCall, Idle, Fields
  <1> QED  BY <1>2, <1>4, NotPast

\* The first delivery of a message finds that it has done nothing, and no other
\* handling of it is past its mark.
LEMMA MarkStep ==
  ASSUME Inv, NEW h \in Handlers, markMessageProcessed(h) PROVE Inv'
  <1> USE DEF markMessageProcessed
  <1>1. UNCHANGED operations /\ processed' = processed \cup {work[h].id}
    BY DEF history
  <1>2. CASE work[h].id \in processed
    BY <1>1, <1>2, SetIdle, NotPast DEF Inv
  <1>3. CASE work[h].id \notin processed
    <2>1. /\ OnlyCall(h) /\ DOMAIN work'[h] = Fields /\ work'[h].pc = "identify"
          /\ work'[h].id = work[h].id
      BY <1>3, SetPc DEF Inv
    <2> HIDE DEF markMessageProcessed
    <2> USE DEF Inv, OnlyCall
    <2>2. Calls'
      BY <2>1 DEF Calls
    <2>3. Marked'
      BY <1>1, <2>1 DEF Marked
    <2>4. OneCall'
      BY <1>3, <2>1 DEF OneCall, Marked
    <2>5. NotYet'
      BY <1>1, <1>3, <2>1 DEF NotYet, Unmarked, Before, Past, After, Ids
    <2>6. Unmarked' /\ OneOperation'
      BY <1>1 DEF Unmarked, OneOperation
    <2>7. Permitted'
      BY <2>1 DEF Permitted, MayDo, ByTask
    <2> QED  BY <2>2, <2>3, <2>4, <2>5, <2>6, <2>7
  <1> QED  BY <1>2, <1>3

\* The role decides what becomes of the message.
LEMMA IdentifyStep ==
  ASSUME Inv, NEW h \in Handlers, Identify(h) PROVE Inv'
  <1>1. UNCHANGED <<processed, operations>> /\ work[h].pc = "identify"
    BY DEF Identify, worldVars, At
  <1>2. CASE work' = [work EXCEPT ![h] = Idle]
    BY <1>1, <1>2, SetIdle, NotPast DEF Inv
  <1> DEFINE mail == Message(h)
             r == IF role[mail.from] = "none" /\ mail.place = "community"
                  THEN "COMMUNITY_MEMBER" ELSE role[mail.from]
             refused == r = "none" \/ recent[mail.from] >= Limit[r]
             next == Handling(mail, r)
             pc == IF refused THEN "respond"
                   ELSE IF next \in AdminOperations THEN "admin" ELSE next
             task == IF next = "reply" THEN mail.quotes ELSE None
             intent == IF next \in AdminOperations THEN next ELSE None
             call == [work[h] EXCEPT !.role = r, !.task = task, !.intent = intent, !.pc = pc]
  <1>3. work' = [work EXCEPT ![h] = Idle] \/ work' = [work EXCEPT ![h] = call]
    BY DEF Identify
  <1>4. CASE work' = [work EXCEPT ![h] = call]
    <2>1. next = Handling(mail, r)
      OBVIOUS
    <2> HIDE DEF mail, r, refused, next, task
    <2>2. /\ OnlyCall(h) /\ DOMAIN work'[h] = Fields /\ work'[h].pc = pc
          /\ work'[h].id = work[h].id /\ work'[h].role = r /\ work'[h].intent = intent
      <3> HIDE DEF pc, intent
      <3> QED  BY <1>4 DEF Inv, Calls, OnlyCall, Fields
    <2>3. MayDo(work'[h])
      <3>1. CASE refused
        BY <2>2, <3>1 DEF MayDo, ByTask
      <3>2. CASE ~refused /\ next \in AdminOperations
        <4>1. r = "SUPER_ADMIN"
          BY <2>1, <3>2, HandlingByRole DEF AdminOperations, OfficialSteps, MemberSteps
        <4> QED  BY <2>2, <3>2, <4>1 DEF MayDo, ByTask, AdminOperations, ByOfficial
      <3>3. CASE ~refused /\ next \notin AdminOperations
        <4>0. pc = next
          BY <3>3
        <4>1. CASE r = "SUPER_ADMIN"
          BY <2>1, <2>2, <3>3, <4>0, <4>1, HandlingByRole DEF MayDo, ByTask, AdminSteps
        <4>2. CASE r = "OFFICIAL"
          BY <2>1, <2>2, <4>0, <4>2, HandlingByRole DEF MayDo, ByTask, OfficialSteps, MemberSteps
        <4>3. CASE r \notin {"SUPER_ADMIN", "OFFICIAL"}
          BY <2>1, <2>2, <4>0, <4>3, HandlingByRole DEF MayDo, ByTask, MemberSteps
        <4> QED  BY <4>1, <4>2, <4>3
      <3> QED  BY <3>1, <3>2, <3>3
    <2> HIDE DEF pc, intent
    <2> QED  BY <1>1, <2>2, <2>3, GoingOn DEF GoesOn, Before, Past, After
  <1> HIDE DEF call
  <1> QED  BY <1>2, <1>3, <1>4

LEMMA TryModelStep ==
  ASSUME Inv, NEW h \in Handlers, TryModel(h) PROVE Inv'
  <1>1. UNCHANGED <<processed, operations>> /\ work[h].pc = "ai" /\ MayDo(work[h])
    BY DEF TryModel, worldVars, history, At, Inv, Permitted
  <1>2. ASSUME NEW intent \in Intents, Do(h, "admin", intent) PROVE Inv'
    <2>1. MayDo(work'[h])
      BY <1>1, <1>2, SetIntent DEF Inv, MayDo, Intents, ByOfficial, ByTask
    <2> QED  BY <1>1, <1>2, <2>1, SetIntent, GoingOn DEF Inv, GoesOn, Before, Past, After
  <1>3. CASE work' = [work EXCEPT ![h].tried = @ + 1]
    <2>1. /\ OnlyCall(h) /\ DOMAIN work'[h] = Fields /\ work'[h].pc = "ai"
          /\ work'[h].id = work[h].id /\ work'[h].role = work[h].role
          /\ work'[h].intent = work[h].intent
      BY <1>1, <1>3 DEF Inv, Calls, OnlyCall, Fields
    <2>2. MayDo(work'[h])
      BY <1>1, <2>1 DEF MayDo, ByTask
    <2> QED  BY <1>1, <2>1, <2>2, GoingOn DEF GoesOn, Before, Past, After
  <1> QED
    BY <1>2, <1>3, FallBackOutcome DEF TryModel, Understood, FallBack

\* The record of an operation.
LEMMA Recording ==
  ASSUME Inv, NEW h \in Handlers, OnlyCall(h), GoesOn(h), Before(work[h]), ~Before(work'[h]),
         UNCHANGED processed, NEW op, NEW t, NEW chosen, Record(h, op, t, chosen),
         IF op \in ByOfficial THEN work[h].role = "OFFICIAL" /\ rows[t][Sender(h)] # "none"
                              ELSE work[h].role = "SUPER_ADMIN"
  PROVE  Inv'
  <1> DEFINE d == [op |-> op, role |-> work[h].role, task |-> t,
                   assigned |-> op \in ByOfficial /\ rows[t][Sender(h)] # "none",
                   shown |-> IF chosen THEN work[h].shown ELSE <<>>,
                   since |-> IF chosen THEN work[h].since ELSE {}]
  <1>1. d.op = op /\ d.role = work[h].role
        /\ d.assigned = (op \in ByOfficial /\ rows[t][Sender(h)] # "none")
    OBVIOUS
  <1>2. operations' = [operations EXCEPT ![work[h].id] = Append(@, d)]
    BY DEF Record
  <1> HIDE DEF d
  <1>3. Authorised(d)
    BY <1>1 DEF Authorised
  <1> QED  BY <1>2, <1>3, Operating

LEMMA OperateStep ==
  ASSUME Inv, NEW h \in Handlers, Operate(h) PROVE Inv'
  <1>1. /\ UNCHANGED processed /\ work[h].pc = "admin" /\ work[h].role = "SUPER_ADMIN"
        /\ work[h].intent \notin ByOfficial
    BY DEF Operate, At, Inv, Permitted, MayDo
  <1>2. OnlyCall(h) /\ GoesOn(h) /\ Before(work[h]) /\ ~Before(work'[h])
    <2>1. Step(h, "respond")
      BY DEF Operate
    <2>2. /\ OnlyCall(h) /\ DOMAIN work'[h] = Fields /\ work'[h].pc = "respond"
          /\ work'[h].id = work[h].id
      BY <2>1, SetPc DEF Inv
    <2> QED  BY <1>1, <2>2 DEF GoesOn, Before, Past, After, MayDo, ByTask
  <1>3. UNCHANGED operations \/ \E t : Record(h, work[h].intent, t, FALSE)
    BY DEF Operate
  <1>4. CASE UNCHANGED operations
    BY <1>1, <1>2, <1>4, GoingOn
  <1>5. ASSUME NEW t, Record(h, work[h].intent, t, FALSE) PROVE Inv'
    BY <1>1, <1>2, <1>5, Recording
  <1> QED  BY <1>3, <1>4, <1>5

LEMMA PerformStep ==
  ASSUME Inv, NEW h \in Handlers, Perform(h) PROVE Inv'
  <1>1. /\ UNCHANGED processed /\ work[h].pc = "perform" /\ work[h].role = "OFFICIAL"
        /\ work[h].intent \in ByOfficial /\ rows[work[h].task][Sender(h)] # "none"
    BY DEF Perform, At, Inv, Permitted, MayDo, ByTask
  <1>2. PICK pc \in {"forget", "respond"} : Step(h, pc)
    BY DEF Perform
  <1>3. /\ OnlyCall(h) /\ DOMAIN work'[h] = Fields /\ work'[h].pc = pc
        /\ work'[h].id = work[h].id
    BY <1>2, SetPc DEF Inv
  <1>4. GoesOn(h) /\ Before(work[h]) /\ ~Before(work'[h])
    BY <1>1, <1>3 DEF GoesOn, Before, Past, After, MayDo, ByTask
  <1>5. Record(h, work[h].intent, work[h].task, work[h].intent = "choice")
    BY DEF Perform
  <1> QED  BY <1>1, <1>3, <1>4, <1>5, Recording

\* A step that only reads, looks something up or writes what others read.
LEMMA OtherStep ==
  ASSUME Inv, NEW h \in Handlers,
         \/ FindSubmitted(h) \/ Remember(h) \/ FindUpdated(h) \/ Reply(h) \/ Choose(h) \/ Pick(h)
         \/ Capture(h) \/ Refuse(h) \/ Forget(h) \/ SaveInterests(h) \/ Answer(h)
  PROVE  Inv'
  <1>1. UNCHANGED <<processed, operations>>
    BY DEF FindSubmitted, Remember, FindUpdated, Reply, Choose, Pick, Capture, Refuse, Forget,
           SaveInterests, Answer, worldVars, history
  <1>2. MayDo(work[h])
    BY DEF Inv, Permitted
  <1>3. ASSUME NEW pc, Step(h, pc), Past(work[h]), pc \notin After => Before(work[h]),
               \/ pc \in {"respond", "apologise", "question"}
               \/ pc \in ByTask \ {"capture", "perform"} /\ work[h].role = "OFFICIAL"
               \/ pc = "perform" /\ work[h].pc = "capture"
        PROVE  Inv'
    <2>1. /\ OnlyCall(h) /\ DOMAIN work'[h] = Fields /\ work'[h].pc = pc
          /\ work'[h].id = work[h].id /\ work'[h].role = work[h].role
          /\ work'[h].intent = work[h].intent
      BY <1>3, SetPc DEF Inv
    <2>2. MayDo(work'[h])
      BY <1>2, <1>3, <2>1 DEF MayDo, ByTask
    <2> QED  BY <1>1, <1>3, <2>1, <2>2, GoingOn DEF GoesOn, Before
  <1>4. CASE Remember(h) \/ Refuse(h) \/ Forget(h) \/ SaveInterests(h) \/ Answer(h)
    <2>1. Step(h, "respond") \/ Step(h, "apologise")
      BY <1>4 DEF Remember, Refuse, Forget, SaveInterests, Answer
    <2>2. Past(work[h])
      BY <1>4 DEF Remember, Refuse, Forget, SaveInterests, Answer, At, Past
    <2>3. "respond" \in After /\ "apologise" \in After
      BY DEF After
    <2>4. CASE Step(h, "respond")
      BY <1>3, <2>2, <2>3, <2>4
    <2>5. CASE Step(h, "apologise")
      BY <1>3, <2>2, <2>3, <2>5
    <2> QED  BY <2>1, <2>4, <2>5
  <1>5. CASE Choose(h) \/ Capture(h)
    <2>1. work[h].role = "OFFICIAL" /\ Before(work[h])
      BY <1>2, <1>5 DEF Choose, Capture, At, MayDo, ByTask, Past, Before, After
    <2>2. CASE Choose(h)
      <3>1. Step(h, "pick") \/ Step(h, "question")
        <4>1. CASE Message(h).place \in asked[Sender(h)]
          BY <2>2, <4>1 DEF Choose
        <4>2. CASE Message(h).place \notin asked[Sender(h)]
          BY <2>2, <4>2 DEF Choose
        <4> QED  BY <4>1, <4>2
      <3>2. "pick" \in ByTask \ {"capture", "perform"}
        BY DEF ByTask
      <3>3. CASE Step(h, "pick")
        BY <1>3, <2>1, <3>2, <3>3 DEF Before
      <3>4. CASE Step(h, "question")
        BY <1>3, <2>1, <3>4 DEF Before
      <3> QED  BY <3>1, <3>3, <3>4
    <2>3. CASE Capture(h)
      BY <1>3, <2>1, <2>3 DEF Before, Capture, At
    <2> QED  BY <1>5, <2>2, <2>3
  <1>6. CASE Reply(h)
    <2>1. PICK op \in ByOfficial \cup {None}, pc \in {"respond", "capture", "perform"} :
             Do(h, pc, op) /\ (pc = "respond" \/ op \in ByOfficial)
      <3> DEFINE last == IF Message(h).media THEN "submit" ELSE None
                 op == FirstRule(ReplyRules, Message(h).words, last)
                 pc == IF op = None THEN "respond" ELSE IF op = "submit" THEN "capture"
                       ELSE "perform"
      <3>1. Do(h, pc, op)
        BY <1>6 DEF Reply
      <3>2. op \in ByOfficial \cup {last} /\ last \in ByOfficial \cup {None}
        BY ReplyOutcome DEF ByReply, ByOfficial
      <3>3. \/ pc = "respond" /\ op = None
            \/ pc \in {"capture", "perform"} /\ op # None
        <4> HIDE DEF op
        <4>1. CASE op = None
          <5>1. pc = "respond"
            BY <4>1
          <5> QED  BY <4>1, <5>1
        <4>2. CASE op # None /\ op = "submit"
          BY <4>2
        <4>3. CASE op # None /\ op # "submit"
          BY <4>3
        <4> QED  BY <4>1, <4>2, <4>3
      <3> HIDE DEF last, op, pc
      <3> QED  BY <3>1, <3>2, <3>3
    <2>2. /\ OnlyCall(h) /\ DOMAIN work'[h] = Fields /\ work'[h].pc = pc
          /\ work'[h].id = work[h].id /\ work'[h].role = work[h].role /\ work'[h].intent = op
      BY <2>1, SetIntent DEF Inv
    <2>3. work[h].pc = "reply" /\ work[h].role = "OFFICIAL"
      BY <1>2, <1>6 DEF Reply, At, MayDo, ByTask
    <2>4. MayDo(work'[h])
      BY <2>1, <2>2, <2>3 DEF MayDo
    <2> QED  BY <1>1, <2>2, <2>3, <2>4, GoingOn DEF GoesOn, Before, Past, After
  <1>7. CASE FindSubmitted(h) \/ FindUpdated(h) \/ Pick(h)
    <2>1. work[h].role = "OFFICIAL" /\ Before(work[h])
      BY <1>2, <1>7 DEF FindSubmitted, FindUpdated, Pick, At, MayDo, ByTask, Past, Before, After
    <2>2. OnlyCall(h) /\ GoesOn(h)
      <3>1. CASE FindSubmitted(h)
        BY <2>1, <3>1 DEF FindSubmitted, Inv, Calls, OnlyCall, GoesOn, Fields, MayDo, ByTask, Before
      <3>2. CASE FindUpdated(h)
        BY <2>1, <3>2 DEF FindUpdated, Inv, Calls, OnlyCall, GoesOn, Fields, MayDo, ByTask, Before
      <3>3. CASE Pick(h)
        BY <2>1, <3>3
        DEF Pick, Inv, Calls, OnlyCall, GoesOn, Fields, MayDo, ByTask, Before, ByOfficial
      <3> QED  BY <1>7, <3>1, <3>2, <3>3
    <2> QED  BY <1>1, <2>2, GoingOn
  <1> QED  BY <1>4, <1>5, <1>6, <1>7

-----------------------------------------------------------------------------
(* One handling, one operation, and by whom.                               *)

LEMMA WorkStep ==
  ASSUME Inv, NEW h \in Handlers, Work(h) \/ Fail(h) PROVE Inv'
  <1>1. CASE Respond(h)
    BY <1>1, SetIdle, NotPast DEF Respond, worldVars, Inv
  <1>2. CASE Fail(h)
    <2>1. UNCHANGED <<processed, operations>>
      BY <1>2 DEF Fail, history
    <2>2. CASE At(h, "mark") \/ At(h, "apologise")
      BY <1>2, <2>1, <2>2, SetIdle, NotPast DEF Fail, Inv
    <2>3. CASE ~At(h, "mark") /\ ~At(h, "apologise")
      <3>1. Step(h, "apologise") /\ Past(work[h])
        BY <1>2, <2>3 DEF Fail, At, Past
      <3>2. OnlyCall(h) /\ GoesOn(h)
        BY <3>1, SetPc DEF Inv, GoesOn, Before, After, MayDo, ByTask
      <3> QED  BY <2>1, <3>2, GoingOn
    <2> QED  BY <2>2, <2>3
  <1> QED
    BY <1>1, <1>2, MarkStep, IdentifyStep, TryModelStep, OperateStep, PerformStep, OtherStep
    DEF Work

LEMMA StepInv == Inv /\ [Next]_vars => Inv'
  <1> SUFFICES ASSUME Inv, [Next]_vars PROVE Inv'
    OBVIOUS
  <1>1. ASSUME NEW mail \in Mails, Receive(mail) PROVE Inv'
    BY <1>1, BeginStep DEF Receive, history
  <1>2. ASSUME NEW i \in Ids, ReceiveAgain(i) PROVE Inv'
    BY <1>2, BeginStep DEF ReceiveAgain, history
  <1>3. ASSUME NEW h \in Handlers, Work(h) \/ Fail(h) PROVE Inv'
    BY <1>3, WorkStep
  <1>4. ASSUME UNCHANGED <<work, processed, operations>> PROVE Inv'
    BY <1>4 DEF Inv, Calls, Marked, OneCall, NotYet, Unmarked, OneOperation, Permitted, Past,
                Before, MayDo, Ids, Authorised
  <1>5. CASE Restart
    <2>1. work' = [h \in Handlers |-> Idle] /\ UNCHANGED <<processed, operations>>
      BY <1>5 DEF Restart
    <2>2. Calls' /\ \A h \in Handlers : work'[h].pc = "idle"
      BY <2>1 DEF Calls, Idle, Fields
    <2>3. Marked' /\ OneCall' /\ NotYet' /\ Permitted'
      BY <2>2 DEF Marked, OneCall, NotYet, Permitted, Past, Before, MayDo, ByTask
    <2> QED  BY <2>1, <2>2, <2>3 DEF Inv, Unmarked, OneOperation, Ids, Authorised
  <1>6. ASSUME NEW long \in BOOLEAN, Wait(long) PROVE Inv'
    BY <1>4, <1>6 DEF Wait, history
  <1>7. CASE GoDown \/ ComeUp \/ UNCHANGED vars
    BY <1>4, <1>7 DEF GoDown, ComeUp, vars, history
  <1> QED  BY <1>1, <1>2, <1>3, <1>5, <1>6, <1>7 DEF Next

LEMMA InitInv == Init => Inv
  <1> SUFFICES ASSUME Init PROVE Inv
    OBVIOUS
  <1>1. Calls /\ \A h \in Handlers : work[h].pc = "idle"
    BY DEF Init, Calls, Idle, Fields
  <1>2. Marked /\ OneCall /\ NotYet /\ Permitted
    BY <1>1 DEF Marked, OneCall, NotYet, Permitted, Past, Before, MayDo, ByTask
  <1>3. Unmarked /\ OneOperation
    BY DEF Init, Unmarked, OneOperation
  <1> QED  BY <1>1, <1>2, <1>3 DEF Inv

\* A handling past its mark is the only one of its message, which has done nothing
\* before, and goes only where the role of its sender lets it (handle, handleProcessed).
THEOREM HandlingsAreExclusive == Spec => []Inv
  BY InitInv, StepInv, PTL DEF Spec

\* Only the Super Admin's messages create, change and complete tasks, register people
\* and announce; only assignees who are officials change an assignment (handleProcessed).
THEOREM OperationsAreAuthorised == Spec => []OnlyAuthorised
  <1>1. Inv => OnlyAuthorised
    <2> SUFFICES ASSUME Inv, NEW i \in Ids, NEW d \in Range(operations[i]) PROVE Authorised(d)
      BY DEF OnlyAuthorised, Done, Authorised
    <2>1. operations[i] # <<>>
      BY DEF Range
    <2>2. PICK e : operations[i] = <<e>> /\ Authorised(e)
      BY <2>1 DEF Inv, OneOperation
    <2> QED  BY <2>2 DEF Range
  <1> QED  BY <1>1, HandlingsAreExclusive, PTL

-----------------------------------------------------------------------------
(* Messages.                                                               *)

\* A message in hand has been sent, and what is not sent yet has no mark.
SentInv ==
  /\ sent \in Seq(Mails) /\ DOMAIN sent \subseteq Ids /\ processed \subseteq DOMAIN sent
  /\ \A h \in Handlers : work[h].pc # "idle" => work[h].id \in DOMAIN sent

LEMMA SequenceDomain == \A S : \A s \in Seq(S) : DOMAIN s = 1..Len(s) /\ Len(s) \in Nat
  OBVIOUS

LEMMA SentBegin ==
  ASSUME SentInv, NEW i \in DOMAIN sent', Begin(i), UNCHANGED processed, Calls,
         sent' = sent \/ (Len(sent) < MaxMessages /\ \E mail \in Mails : sent' = Append(sent, mail))
  PROVE  SentInv'
  <1>1. Min(Free) \in Free
    BY InboundAssumption, SmallestNumber DEF Begin, Free
  <1>2. Min(Free) \in Handlers
    BY <1>1 DEF Free
  <1>3. PICK h \in Handlers : work' = [work EXCEPT ![h] = [Idle EXCEPT !.pc = "mark", !.id = i]]
    BY <1>2 DEF Begin
  <1>4. OnlyCall(h) /\ work'[h].pc = "mark" /\ work'[h].id = i
    BY <1>3 DEF Calls, OnlyCall, Idle, Fields
  <1>5. /\ sent' \in Seq(Mails) /\ DOMAIN sent' \subseteq Ids /\ DOMAIN sent \subseteq DOMAIN sent'
        /\ \A j \in DOMAIN sent : sent'[j] = sent[j]
    <2>1. CASE sent' = sent
      BY <2>1 DEF SentInv
    <2>2. ASSUME Len(sent) < MaxMessages, NEW mail \in Mails, sent' = Append(sent, mail)
          PROVE  /\ sent' \in Seq(Mails) /\ DOMAIN sent' \subseteq Ids
                 /\ DOMAIN sent \subseteq DOMAIN sent' /\ \A j \in DOMAIN sent : sent'[j] = sent[j]
      <3>1. sent \in Seq(Mails) /\ MaxMessages \in Nat
        BY InboundAssumption DEF SentInv
      <3>2. /\ sent' \in Seq(Mails) /\ Len(sent') = Len(sent) + 1
            /\ \A j \in 1..Len(sent) : sent'[j] = sent[j]
        BY <2>2, <3>1
      <3>3. DOMAIN sent = 1..Len(sent) /\ Len(sent) \in Nat
        BY <3>1
      <3>4. DOMAIN sent' = 1..Len(sent')
        BY <3>2, SequenceDomain
      <3>5. DOMAIN sent' \subseteq Ids
        <4>1. Len(sent) + 1 <= MaxMessages
          <5>1. Len(sent) < MaxMessages
            BY <2>2
          <5>2. Len(sent) \in Nat /\ MaxMessages \in Nat
            BY <3>1, <3>3
          <5> QED  BY <5>1, <5>2
        <4>2. DOMAIN sent' = 1..(Len(sent) + 1)
          BY <3>2, <3>4
        <4>3. \A j \in 1..(Len(sent) + 1) : j \in 1..MaxMessages
          BY <3>1, <3>3, <4>1
        <4> QED  BY <4>2, <4>3 DEF Ids
      <3>6. DOMAIN sent \subseteq DOMAIN sent'
        BY <3>2, <3>3, <3>4
      <3> QED  BY <3>2, <3>3, <3>5, <3>6
    <2> QED  BY <2>1, <2>2
  <1> QED
    BY <1>4, <1>5 DEF SentInv, OnlyCall, Ids

\* A call stays with its message, and the role it carries is the one it read.
LEMMA CallCarried ==
  ASSUME Inv, NEW h \in Handlers, Work(h) \/ Fail(h), ~Identify(h)
  PROVE  /\ OnlyCall(h) /\ work'[h].role \in {work[h].role, "none"}
         /\ work'[h].pc = "idle" \/ work'[h].id = work[h].id
  <1> DEFINE Carried == /\ OnlyCall(h) /\ work'[h].role = work[h].role
                        /\ work'[h].id = work[h].id
  <1>1. Calls
    BY DEF Inv
  <1>2. ASSUME NEW pc, Step(h, pc) PROVE Carried
    BY <1>1, <1>2, SetPc
  <1>3. ASSUME NEW pc, NEW intent, Do(h, pc, intent)
        PROVE  Carried
    BY <1>1, <1>3, SetIntent
  <1>4. CASE work' = [work EXCEPT ![h] = Idle]
    BY <1>1, <1>4 DEF Calls, OnlyCall, Idle
  <1>5. CASE markMessageProcessed(h) \/ Fail(h) \/ Respond(h)
    BY <1>2, <1>4, <1>5 DEF markMessageProcessed, Fail, Respond
  <1>6. CASE \/ Operate(h) \/ Remember(h) \/ Choose(h) \/ Capture(h) \/ Perform(h) \/ Refuse(h)
             \/ Forget(h) \/ SaveInterests(h) \/ Answer(h)
    <2>1. \E pc : Step(h, pc)
      BY <1>6
      DEF Operate, Remember, Choose, Capture, Perform, Refuse, Forget, SaveInterests, Answer
    <2> QED  BY <1>2, <2>1
  <1>7. CASE Reply(h)
    <2>1. \E pc, intent : Do(h, pc, intent)
      BY <1>7 DEF Reply
    <2> QED  BY <1>3, <2>1
  <1>8. CASE TryModel(h)
    BY <1>1, <1>3, <1>8 DEF TryModel, Understood, FallBack, Calls, OnlyCall, Fields
  <1>9. CASE FindSubmitted(h)
    BY <1>1, <1>9 DEF FindSubmitted, Calls, OnlyCall, Fields
  <1>10. CASE FindUpdated(h)
    BY <1>1, <1>10 DEF FindUpdated, Calls, OnlyCall, Fields
  <1>11. CASE Pick(h)
    BY <1>1, <1>11 DEF Pick, Calls, OnlyCall, Fields
  <1> QED  BY <1>5, <1>6, <1>7, <1>8, <1>9, <1>10, <1>11 DEF Work

LEMMA IdentifyCarries ==
  ASSUME Inv, NEW h \in Handlers, Identify(h)
  PROVE  OnlyCall(h) /\ (work'[h].pc = "idle" \/ work'[h].id = work[h].id)
  <1> DEFINE mail == Message(h)
             r == IF role[mail.from] = "none" /\ mail.place = "community"
                  THEN "COMMUNITY_MEMBER" ELSE role[mail.from]
             refused == r = "none" \/ recent[mail.from] >= Limit[r]
             next == Handling(mail, r)
             pc == IF refused THEN "respond"
                   ELSE IF next \in AdminOperations THEN "admin" ELSE next
             task == IF next = "reply" THEN mail.quotes ELSE None
             intent == IF next \in AdminOperations THEN next ELSE None
             call == [work[h] EXCEPT !.role = r, !.task = task, !.intent = intent, !.pc = pc]
  <1>1. work' = [work EXCEPT ![h] = Idle] \/ work' = [work EXCEPT ![h] = call]
    BY DEF Identify
  <1> HIDE DEF mail, r, refused, next, pc, task, intent
  <1>2. CASE work' = [work EXCEPT ![h] = Idle]
    BY <1>2 DEF Inv, Calls, OnlyCall, Idle
  <1>3. CASE work' = [work EXCEPT ![h] = call]
    BY <1>3 DEF Inv, Calls, OnlyCall, Fields
  <1> QED  BY <1>1, <1>2, <1>3

LEMMA SentWork ==
  ASSUME Inv, SentInv, NEW h \in Handlers, Work(h) \/ Fail(h)
  PROVE  SentInv'
  <1>1. OnlyCall(h) /\ (work'[h].pc = "idle" \/ work'[h].id = work[h].id)
    <2>1. CASE Identify(h)
      BY <2>1, IdentifyCarries
    <2> QED  BY <2>1, CallCarried
  <1>2. work[h].pc # "idle" /\ UNCHANGED sent
    BY DEF Work, markMessageProcessed, Identify, TryModel, Operate, FindSubmitted, Remember,
           FindUpdated, Reply, Choose, Pick, Capture, Perform, Refuse, Forget, SaveInterests,
           Answer, Respond, Fail, worldVars, At
  <1>3. processed' \subseteq processed \cup {work[h].id}
    BY DEF Work, markMessageProcessed, Identify, TryModel, Operate, FindSubmitted, Remember,
           FindUpdated, Reply, Choose, Pick, Capture, Perform, Refuse, Forget, SaveInterests,
           Answer, Respond, Fail
  <1> QED  BY <1>1, <1>2, <1>3 DEF SentInv, OnlyCall, Ids

LEMMA SentStep == Inv /\ SentInv /\ [Next]_vars => SentInv'
  <1> SUFFICES ASSUME Inv, SentInv, [Next]_vars PROVE SentInv'
    OBVIOUS
  <1>1. ASSUME NEW mail \in Mails, Receive(mail) PROVE SentInv'
    <2>1. /\ Len(sent) < MaxMessages /\ sent' = Append(sent, mail) /\ Begin(Len(sent) + 1)
          /\ UNCHANGED processed
      BY <1>1 DEF Receive
    <2>2. Len(sent) + 1 \in DOMAIN sent'
      <3>1. sent \in Seq(Mails)
        BY DEF SentInv
      <3> QED  BY <2>1, <3>1
    <2> QED  BY <2>1, <2>2, SentBegin DEF Inv
  <1>2. ASSUME NEW i \in Ids, ReceiveAgain(i) PROVE SentInv'
    <2>1. i \in DOMAIN sent' /\ sent' = sent /\ Begin(i) /\ UNCHANGED processed
      BY <1>2 DEF ReceiveAgain
    <2> QED  BY <2>1, SentBegin DEF Inv
  <1>3. ASSUME NEW h \in Handlers, Work(h) \/ Fail(h) PROVE SentInv'
    BY <1>3, SentWork
  <1>4. ASSUME UNCHANGED <<work, sent, processed>> PROVE SentInv'
    BY <1>4 DEF SentInv, Ids
  <1>5. CASE Restart
    <2>1. UNCHANGED <<sent, processed>> /\ \A h \in Handlers : work'[h].pc = "idle"
      BY <1>5 DEF Restart, Idle
    <2> QED  BY <2>1 DEF SentInv, Ids
  <1>6. ASSUME NEW long \in BOOLEAN, Wait(long) PROVE SentInv'
    BY <1>4, <1>6 DEF Wait, worldVars
  <1>7. CASE GoDown \/ ComeUp \/ UNCHANGED vars
    BY <1>4, <1>7 DEF GoDown, ComeUp, vars
  <1> QED  BY <1>1, <1>2, <1>3, <1>5, <1>6, <1>7 DEF Next

LEMMA SentInit == Init => SentInv
  <1> SUFFICES ASSUME Init PROVE SentInv
    OBVIOUS
  <1>1. sent = <<>> /\ processed = {} /\ \A h \in Handlers : work[h].pc = "idle"
    BY DEF Init, Idle
  <1> QED  BY <1>1 DEF SentInv

-----------------------------------------------------------------------------
(* Types.                                                                  *)

\* A list that has no element twice, with one more.
LEMMA InsertedElements ==
  ASSUME NEW s \in Seq(Tasks), NEW t \in Tasks, NEW p \in 1..(Len(s) + 1)
  PROVE  /\ InsertAt(s, p, t) \in Seq(Tasks) /\ Len(InsertAt(s, p, t)) = Len(s) + 1
         /\ \A i \in 1..(Len(s) + 1) :
              InsertAt(s, p, t)[i] = IF i < p THEN s[i] ELSE IF i = p THEN t ELSE s[i - 1]
  <1> DEFINE a == SubSeq(s, 1, p - 1)
             b == <<t>>
             c == SubSeq(s, p, Len(s))
             n == Len(s)
  <1>1. n \in Nat /\ p \in Nat /\ 1 <= p /\ p <= n + 1 /\ \A i \in 1..n : s[i] \in Tasks
    OBVIOUS
  <1>2. a \in Seq(Tasks) /\ Len(a) = p - 1 /\ \A i \in 1..(p - 1) : a[i] = s[i]
    <2>1. \A i \in 1..(p - 1) : s[i] \in Tasks
      BY <1>1
    <2>2. /\ a \in Seq(Tasks) /\ Len(a) = IF 1 <= p - 1 THEN p - 1 - 1 + 1 ELSE 0
          /\ \A i \in 1..(p - 1 - 1 + 1) : a[i] = s[1 + i - 1]
      BY <1>1, <2>1, SubSeqProperties
    <2> HIDE DEF a, n
    <2> QED  BY <1>1, <2>2
  <1>3. c \in Seq(Tasks) /\ Len(c) = n - p + 1 /\ \A i \in 1..(n - p + 1) : c[i] = s[p + i - 1]
    <2>1. \A i \in p..n : s[i] \in Tasks
      BY <1>1
    <2>2. /\ c \in Seq(Tasks) /\ Len(c) = IF p <= n THEN n - p + 1 ELSE 0
          /\ \A i \in 1..(n - p + 1) : c[i] = s[p + i - 1]
      BY <1>1, <2>1, SubSeqProperties
    <2> HIDE DEF c, n
    <2> QED  BY <1>1, <2>2
  <1>4. b \in Seq(Tasks) /\ Len(b) = 1 /\ b[1] = t
    OBVIOUS
  <1>5. InsertAt(s, p, t) = (a \o b) \o c
    BY DEF InsertAt
  <1> HIDE DEF a, b, c, n
  <1>6. /\ a \o b \in Seq(Tasks) /\ Len(a \o b) = Len(a) + Len(b)
        /\ \A i \in 1..(Len(a) + Len(b)) : (a \o b)[i] = IF i <= Len(a) THEN a[i] ELSE b[i - Len(a)]
    BY <1>2, <1>4, ConcatProperties
  <1> DEFINE ab == a \o b
  <1>7. ab \in Seq(Tasks) /\ Len(ab) = p /\ \A i \in 1..p : ab[i] = IF i < p THEN s[i] ELSE t
    BY <1>1, <1>2, <1>4, <1>6
  <1> HIDE DEF ab
  <1>8. /\ ab \o c \in Seq(Tasks) /\ Len(ab \o c) = Len(ab) + Len(c)
        /\ \A i \in 1..(Len(ab) + Len(c)) :
             (ab \o c)[i] = IF i <= Len(ab) THEN ab[i] ELSE c[i - Len(ab)]
    BY <1>3, <1>7, ConcatProperties
  <1>9. Len(ab) + Len(c) = n + 1
    BY <1>1, <1>3, <1>7
  <1> DEFINE whole == ab \o c
  <1>10. whole \in Seq(Tasks) /\ Len(whole) = n + 1
    BY <1>8, <1>9
  <1>11. \A i \in 1..(n + 1) : whole[i] = IF i <= p THEN ab[i] ELSE c[i - p]
    BY <1>7, <1>8, <1>9
  <1> HIDE DEF whole
  <1>12. ASSUME NEW i \in 1..(n + 1)
         PROVE  whole[i] = IF i < p THEN s[i] ELSE IF i = p THEN t ELSE s[i - 1]
    <2>1. CASE i <= p
      BY <1>1, <1>7, <1>11, <2>1
    <2>2. CASE i > p
      <3>1. i - p \in 1..(n - p + 1) /\ p + (i - p) - 1 = i - 1
        BY <1>1, <2>2
      <3> QED  BY <1>1, <1>3, <1>11, <2>2, <3>1
    <2> QED  BY <1>1, <2>1, <2>2
  <1> QED  BY <1>5, <1>10, <1>12 DEF ab, n, whole

LEMMA RemovedElements ==
  ASSUME NEW s \in Seq(Tasks), NEW p \in 1..Len(s)
  PROVE  /\ RemoveAt(s, p) \in Seq(Tasks) /\ Len(RemoveAt(s, p)) = Len(s) - 1
         /\ \A i \in 1..(Len(s) - 1) : RemoveAt(s, p)[i] = IF i < p THEN s[i] ELSE s[i + 1]
  <1> DEFINE a == SubSeq(s, 1, p - 1)
             c == SubSeq(s, p + 1, Len(s))
             n == Len(s)
  <1>1. n \in Nat /\ p \in Nat /\ 1 <= p /\ p <= n /\ \A i \in 1..n : s[i] \in Tasks
    OBVIOUS
  <1>2. a \in Seq(Tasks) /\ Len(a) = p - 1 /\ \A i \in 1..(p - 1) : a[i] = s[i]
    <2>1. \A i \in 1..(p - 1) : s[i] \in Tasks
      BY <1>1
    <2>2. /\ a \in Seq(Tasks) /\ Len(a) = IF 1 <= p - 1 THEN p - 1 - 1 + 1 ELSE 0
          /\ \A i \in 1..(p - 1 - 1 + 1) : a[i] = s[1 + i - 1]
      BY <1>1, <2>1, SubSeqProperties
    <2> HIDE DEF a, n
    <2> QED  BY <1>1, <2>2
  <1>3. c \in Seq(Tasks) /\ Len(c) = n - p /\ \A i \in 1..(n - p) : c[i] = s[p + i]
    <2>1. \A i \in (p + 1)..n : s[i] \in Tasks
      BY <1>1
    <2>2. /\ c \in Seq(Tasks) /\ Len(c) = IF p + 1 <= n THEN n - (p + 1) + 1 ELSE 0
          /\ \A i \in 1..(n - (p + 1) + 1) : c[i] = s[(p + 1) + i - 1]
      BY <1>1, <2>1, SubSeqProperties
    <2> HIDE DEF c, n
    <2> QED  BY <1>1, <2>2
  <1>4. RemoveAt(s, p) = a \o c
    BY DEF RemoveAt
  <1> HIDE DEF a, c, n
  <1> DEFINE whole == a \o c
  <1>5. /\ whole \in Seq(Tasks) /\ Len(whole) = Len(a) + Len(c)
        /\ \A i \in 1..(Len(a) + Len(c)) : whole[i] = IF i <= Len(a) THEN a[i] ELSE c[i - Len(a)]
    BY <1>2, <1>3, ConcatProperties
  <1> HIDE DEF whole
  <1>6. Len(whole) = n - 1
    BY <1>1, <1>2, <1>3, <1>5
  <1>7. ASSUME NEW i \in 1..(n - 1)
        PROVE  whole[i] = IF i < p THEN s[i] ELSE s[i + 1]
    <2>1. CASE i < p
      BY <1>1, <1>2, <1>3, <1>5, <2>1
    <2>2. CASE i >= p
      <3>1. i - (p - 1) \in 1..(n - p) /\ p + (i - (p - 1)) = i + 1
        BY <1>1, <2>2
      <3> QED  BY <1>1, <1>2, <1>3, <1>5, <2>2, <3>1
    <2> QED  BY <1>1, <2>1, <2>2
  <1> QED  BY <1>4, <1>5, <1>6, <1>7 DEF n, whole

LEMMA Inserted ==
  ASSUME NEW s \in Seq(Tasks), IsInjective(s), NEW t \in Tasks, t \notin Range(s),
         NEW p \in 1..(Len(s) + 1)
  PROVE  /\ InsertAt(s, p, t) \in Seq(Tasks) /\ IsInjective(InsertAt(s, p, t))
         /\ Range(InsertAt(s, p, t)) = Range(s) \cup {t}
  <1> DEFINE n == Len(s)
             w == InsertAt(s, p, t)
  <1>1. n \in Nat /\ p \in 1..(n + 1) /\ DOMAIN s = 1..n /\ \A i \in 1..n : s[i] # t
    BY DEF Range
  <1>2. /\ w \in Seq(Tasks) /\ DOMAIN w = 1..(n + 1)
        /\ \A i \in 1..(n + 1) : w[i] = IF i < p THEN s[i] ELSE IF i = p THEN t ELSE s[i - 1]
    <2>1. /\ w \in Seq(Tasks) /\ Len(w) = n + 1
          /\ \A i \in 1..(n + 1) : w[i] = IF i < p THEN s[i] ELSE IF i = p THEN t ELSE s[i - 1]
      BY InsertedElements
    <2> HIDE DEF w
    <2>2. DOMAIN w = 1..Len(w)
      BY <2>1, LenProperties
    <2> QED  BY <2>1, <2>2
  <1>3. \A i, j \in 1..n : s[i] = s[j] => i = j
    BY <1>1 DEF IsInjective
  <1> HIDE DEF n, w
  <1>4. ASSUME NEW i \in 1..(n + 1), NEW j \in 1..(n + 1), w[i] = w[j] PROVE i = j
    <2>1. ASSUME NEW k \in 1..(n + 1)
          PROVE  \/ k < p /\ k \in 1..n /\ w[k] = s[k]
                 \/ k = p /\ w[k] = t
                 \/ k > p /\ k - 1 \in 1..n /\ w[k] = s[k - 1]
      BY <1>1, <1>2
    <2>2. CASE i < p
      BY <1>1, <1>3, <1>4, <2>1, <2>2
    <2>3. CASE i = p
      BY <1>1, <1>3, <1>4, <2>1, <2>3
    <2>4. CASE i > p
      BY <1>1, <1>3, <1>4, <2>1, <2>4
    <2> QED  BY <1>1, <2>2, <2>3, <2>4
  <1>5. IsInjective(w)
    BY <1>2, <1>4 DEF IsInjective
  <1>6. Range(w) \subseteq Range(s) \cup {t}
    <2>1. ASSUME NEW i \in 1..(n + 1) PROVE w[i] = t \/ \E j \in 1..n : w[i] = s[j]
      <3>1. CASE i < p
        BY <1>1, <1>2, <3>1
      <3>2. CASE i > p
        <4>1. i - 1 \in 1..n /\ w[i] = s[i - 1]
          BY <1>1, <1>2, <3>2
        <4> QED  BY <4>1
      <3> QED  BY <1>1, <1>2, <3>1, <3>2
    <2> QED  BY <1>1, <1>2, <2>1 DEF Range
  <1>7. Range(s) \cup {t} \subseteq Range(w)
    <2>1. ASSUME NEW j \in 1..n PROVE \E i \in 1..(n + 1) : w[i] = s[j]
      <3>1. CASE j < p
        BY <1>1, <1>2, <3>1
      <3>2. CASE j >= p
        <4>1. j + 1 \in 1..(n + 1) /\ w[j + 1] = s[j]
          BY <1>1, <1>2, <3>2
        <4> QED  BY <4>1
      <3> QED  BY <1>1, <3>1, <3>2
    <2>2. w[p] = t
      BY <1>1, <1>2
    <2> QED  BY <1>1, <1>2, <2>1, <2>2 DEF Range
  <1> QED  BY <1>2, <1>5, <1>6, <1>7 DEF w

LEMMA Removed ==
  ASSUME NEW s \in Seq(Tasks), IsInjective(s), NEW p \in DOMAIN s
  PROVE  /\ RemoveAt(s, p) \in Seq(Tasks) /\ IsInjective(RemoveAt(s, p))
         /\ Range(RemoveAt(s, p)) = Range(s) \ {s[p]}
         /\ Len(RemoveAt(s, p)) + 1 = Len(s)
  <1> DEFINE n == Len(s)
             w == RemoveAt(s, p)
  <1>1. n \in Nat /\ p \in 1..n /\ DOMAIN s = 1..n
    OBVIOUS
  <1>2. /\ w \in Seq(Tasks) /\ DOMAIN w = 1..(n - 1) /\ Len(w) = n - 1
        /\ \A i \in 1..(n - 1) : w[i] = IF i < p THEN s[i] ELSE s[i + 1]
    BY <1>1, RemovedElements, LenProperties
  <1>3. \A i, j \in 1..n : s[i] = s[j] => i = j
    BY <1>1 DEF IsInjective
  <1> HIDE DEF n, w
  <1>4. ASSUME NEW i \in 1..(n - 1)
        PROVE  \/ i < p /\ i \in 1..n /\ w[i] = s[i]
               \/ i >= p /\ i + 1 \in 1..n /\ w[i] = s[i + 1]
    BY <1>1, <1>2
  <1>5. ASSUME NEW i \in 1..(n - 1), NEW j \in 1..(n - 1), w[i] = w[j] PROVE i = j
    BY <1>1, <1>3, <1>4, <1>5
  <1>6. IsInjective(w)
    BY <1>2, <1>5 DEF IsInjective
  <1>7. Range(w) \subseteq Range(s) \ {s[p]}
    <2>1. ASSUME NEW i \in 1..(n - 1) PROVE \E j \in 1..n : j # p /\ w[i] = s[j]
      <3>1. CASE i < p
        BY <1>1, <1>4, <3>1
      <3>2. CASE i >= p
        BY <1>1, <1>4, <3>2
      <3> QED  BY <1>1, <3>1, <3>2
    <2>2. ASSUME NEW i \in DOMAIN w PROVE w[i] \in Range(s) /\ w[i] # s[p]
      <3>1. PICK j \in 1..n : j # p /\ w[i] = s[j]
        BY <1>2, <2>1
      <3> QED  BY <1>1, <1>3, <3>1 DEF Range
    <2> QED  BY <2>2 DEF Range
  <1>8. Range(s) \ {s[p]} \subseteq Range(w)
    <2>1. ASSUME NEW j \in 1..n, j # p PROVE \E i \in 1..(n - 1) : w[i] = s[j]
      <3>1. CASE j < p
        BY <1>1, <1>2, <3>1
      <3>2. CASE j > p
        <4>1. j - 1 \in 1..(n - 1) /\ w[j - 1] = s[j]
          BY <1>1, <1>2, <3>2
        <4> QED  BY <4>1
      <3> QED  BY <1>1, <2>1, <3>1, <3>2
    <2>2. ASSUME NEW j \in DOMAIN s, s[j] # s[p] PROVE s[j] \in Range(w)
      <3>1. j \in 1..n /\ j # p
        BY <1>1, <2>2
      <3>2. PICK i \in 1..(n - 1) : w[i] = s[j]
        BY <2>1, <3>1
      <3>3. i \in DOMAIN w
        BY <1>2
      <3> QED  BY <3>2, <3>3 DEF Range
    <2> QED  BY <2>2 DEF Range
  <1>9. Len(w) + 1 = n
    BY <1>1, <1>2
  <1> QED  BY <1>2, <1>6, <1>7, <1>8, <1>9 DEF n, w

\* The tasks, their list and their assignees: who is assigned is assigned to a task there is.
TaskInv ==
  /\ status \in [Tasks -> {"NONE", "ACTIVE", "SUBMITTED", "COMPLETED"}]
  /\ rows \in [Tasks -> [Users -> {"none", "open", "blocked", "handed"}]]
  /\ order \in Seq(Tasks) /\ IsInjective(order)
  /\ Range(order) = {t \in Tasks : status[t] # "NONE"}
  /\ \A t \in Tasks : \A u \in Users : rows[t][u] # "none" => status[t] # "NONE"

PeopleInv ==
  /\ role \in [Users -> Roles] /\ asked \in [Users -> SUBSET Places] /\ recent \in [Users -> Nat]
  /\ \A h \in Handlers : work[h].role \in Roles

LEMMA NamedTask ==
  ASSUME NEW mail, NEW tasks, Named(mail, tasks) # None
  PROVE  Named(mail, tasks) \in tasks
  <1> DEFINE named == mail.names \cap tasks
  <1>1. CASE IsOne(named)
    <2>1. Named(mail, tasks) = CHOOSE t \in named : TRUE
      BY <1>1 DEF Named
    <2>2. \E t \in named : TRUE
      BY <1>1 DEF IsOne
    <2> QED  BY <2>1, <2>2
  <1>2. CASE ~IsOne(named) /\ IsOne(tasks)
    <2>1. Named(mail, tasks) = CHOOSE t \in tasks : TRUE
      BY <1>2 DEF Named
    <2>2. \E t \in tasks : TRUE
      BY <1>2 DEF IsOne
    <2> QED  BY <2>1, <2>2
  <1>3. CASE ~IsOne(named) /\ ~IsOne(tasks)
    BY <1>3 DEF Named
  <1> QED  BY <1>1, <1>2, <1>3

LEMMA OrderKept ==
  ASSUME TaskInv, UNCHANGED order,
         status' \in [Tasks -> {"NONE", "ACTIVE", "SUBMITTED", "COMPLETED"}],
         rows' \in [Tasks -> [Users -> {"none", "open", "blocked", "handed"}]],
         \A t \in Tasks : status'[t] = "NONE" <=> status[t] = "NONE",
         \A t \in Tasks : \A u \in Users : rows'[t][u] # "none" => rows[t][u] # "none"
  PROVE  TaskInv'
  BY DEF TaskInv, IsInjective, Range

\* A task that is completed was there.
LEMMA TaskCompleted ==
  ASSUME TaskInv, NEW t \in Tasks, status[t] # "NONE", Complete(t)
  PROVE  TaskInv'
  <1> USE DEF TaskInv
  <1>1. /\ status' = [status EXCEPT ![t] = "COMPLETED"] /\ UNCHANGED order
        /\ rows' = [rows EXCEPT ![t] = [u \in Users |-> IF rows[t][u] = "none" THEN "none"
                                                        ELSE "handed"]]
    BY DEF Complete
  <1>2. status' \in [Tasks -> {"NONE", "ACTIVE", "SUBMITTED", "COMPLETED"}]
        /\ \A x \in Tasks : status'[x] = "NONE" <=> status[x] = "NONE"
    BY <1>1
  <1>3. rows' \in [Tasks -> [Users -> {"none", "open", "blocked", "handed"}]]
    <2>1. [u \in Users |-> IF rows[t][u] = "none" THEN "none" ELSE "handed"]
             \in [Users -> {"none", "open", "blocked", "handed"}]
      OBVIOUS
    <2> QED  BY <1>1, <2>1
  <1>4. ASSUME NEW x \in Tasks, NEW u \in Users, rows'[x][u] # "none" PROVE rows[x][u] # "none"
    BY <1>1, <1>4
  <1> QED  BY <1>1, <1>2, <1>3, <1>4, OrderKept

\* A task that is there moves in the list.
LEMMA TaskMoved ==
  ASSUME TaskInv, NEW t \in Tasks, UpdateDeadline(t)
  PROVE  TaskInv'
  <1>1. PICK i \in DOMAIN order, place \in DOMAIN order :
           order[i] = t /\ order' = InsertAt(RemoveAt(order, i), place, t)
    BY DEF UpdateDeadline
  <1>2. order \in Seq(Tasks) /\ IsInjective(order)
    BY DEF TaskInv
  <1> DEFINE rest == RemoveAt(order, i)
  <1>3. /\ rest \in Seq(Tasks) /\ IsInjective(rest) /\ Len(rest) + 1 = Len(order)
        /\ Range(rest) = Range(order) \ {t}
    BY <1>1, <1>2, Removed
  <1>4. place \in 1..(Len(rest) + 1)
    <2>1. DOMAIN order = 1..Len(order)
      BY <1>2, LenProperties
    <2> HIDE DEF rest
    <2> QED  BY <1>3, <2>1
  <1> HIDE DEF rest
  <1>5. /\ InsertAt(rest, place, t) \in Seq(Tasks) /\ IsInjective(InsertAt(rest, place, t))
        /\ Range(InsertAt(rest, place, t)) = Range(rest) \cup {t}
    BY <1>3, <1>4, Inserted
  <1>6. t \in Range(order)
    BY <1>1 DEF Range
  <1>7. order' \in Seq(Tasks) /\ IsInjective(order') /\ Range(order') = Range(order)
    BY <1>1, <1>3, <1>5, <1>6 DEF rest
  <1>8. UNCHANGED <<status, rows>>
    BY DEF UpdateDeadline
  <1> QED  BY <1>7, <1>8 DEF TaskInv, IsInjective, Range

\* A task that is made was not there.
LEMMA TaskCreated ==
  ASSUME TaskInv, NEW t \in Tasks, Create(t)
  PROVE  TaskInv'
  <1>1. /\ status[t] = "NONE" /\ status' = [status EXCEPT ![t] = "ACTIVE"]
        /\ order \in Seq(Tasks) /\ IsInjective(order) /\ t \notin Range(order)
    BY DEF Create, TaskInv
  <1>2. PICK place \in 1..(Len(order) + 1) : order' = InsertAt(order, place, t)
    BY DEF Create
  <1>3. order' \in Seq(Tasks) /\ IsInjective(order') /\ Range(order') = Range(order) \cup {t}
    BY <1>1, <1>2, Inserted
  <1>4. PICK u \in Users : rows' = [rows EXCEPT ![t][u] = "open"]
    BY DEF Create
  <1>5. /\ rows' \in [Tasks -> [Users -> {"none", "open", "blocked", "handed"}]]
        /\ \A x \in Tasks \ {t} : rows'[x] = rows[x]
    BY <1>4 DEF TaskInv
  <1>6. /\ status' \in [Tasks -> {"NONE", "ACTIVE", "SUBMITTED", "COMPLETED"}]
        /\ status'[t] = "ACTIVE" /\ \A x \in Tasks \ {t} : status'[x] = status[x]
    BY <1>1 DEF TaskInv
  <1>7. Range(order') = {x \in Tasks : status'[x] # "NONE"}
    BY <1>3, <1>6 DEF TaskInv
  <1>8. \A x \in Tasks : \A v \in Users : rows'[x][v] # "none" => status'[x] # "NONE"
    BY <1>5, <1>6 DEF TaskInv
  <1> QED  BY <1>3, <1>5, <1>6, <1>7, <1>8 DEF TaskInv, IsInjective, Range

LEMMA TaskOperate ==
  ASSUME TaskInv, NEW h \in Handlers, Operate(h)
  PROVE  TaskInv'
  <1> DEFINE tasks == {x \in Tasks : status[x] \in {"ACTIVE", "SUBMITTED"}}
             t == Named(Message(h), tasks)
  <1>1. t # None => t \in Tasks /\ status[t] # "NONE"
    BY NamedTask
  <1>2. \/ UNCHANGED taskVars
        \/ t # None /\ (Complete(t) \/ UpdateDeadline(t))
        \/ \E new \in Tasks : Create(new)
    BY DEF Operate
  <1> HIDE DEF t
  <1>3. CASE UNCHANGED taskVars
    BY <1>3 DEF taskVars, TaskInv, IsInjective, Range
  <1>4. CASE t # None /\ (Complete(t) \/ UpdateDeadline(t))
    BY <1>1, <1>4, TaskCompleted, TaskMoved
  <1>5. ASSUME NEW new \in Tasks, Create(new) PROVE TaskInv'
    BY <1>5, TaskCreated
  <1> QED  BY <1>2, <1>3, <1>4, <1>5

LEMMA SenderIsUser ==
  ASSUME SentInv, NEW h \in Handlers, work[h].pc # "idle"
  PROVE  Message(h) \in Mails /\ Sender(h) \in Users /\ Message(h).place \in Places
  <1>1. work[h].id \in DOMAIN sent /\ sent \in Seq(Mails)
    BY DEF SentInv
  <1>2. sent[work[h].id] \in Mails
    BY <1>1
  <1> QED  BY <1>2, InboundAssumption DEF Sender, Message

\* A reply changes the row of an assignee, so of a task that is there.
LEMMA TaskPerform ==
  ASSUME SentInv, TaskInv, NEW h \in Handlers, Perform(h)
  PROVE  TaskInv'
  <1> DEFINE t == work[h].task
             u == Sender(h)
  <1>1. u \in Users
    BY SenderIsUser DEF Perform, At
  <1>2. PICK new \in {"open", "blocked", "handed"} \cup {rows[t][u]} :
           rows' = [rows EXCEPT ![t][u] = new]
    BY DEF Perform
  <1>3. /\ UNCHANGED order /\ rows[t][u] # "none"
        /\ UNCHANGED status \/ status' = [status EXCEPT ![t] = "SUBMITTED"]
    BY DEF Perform
  <1> HIDE DEF t, u
  <1>4. CASE t \notin Tasks
    <2>1. UNCHANGED <<order, rows, status>>
      BY <1>2, <1>3, <1>4 DEF TaskInv
    <2> QED  BY <2>1 DEF TaskInv, IsInjective, Range
  <1>5. CASE t \in Tasks
    <2>1. rows[t][u] \in {"open", "blocked", "handed"} /\ status[t] # "NONE"
      BY <1>1, <1>3, <1>5 DEF TaskInv
    <2>2. rows' \in [Tasks -> [Users -> {"none", "open", "blocked", "handed"}]]
      BY <1>2, <2>1 DEF TaskInv
    <2>3. ASSUME NEW x \in Tasks, NEW v \in Users, rows'[x][v] # "none" PROVE rows[x][v] # "none"
      BY <1>1, <1>2, <1>3, <2>3 DEF TaskInv
    <2>4. /\ status' \in [Tasks -> {"NONE", "ACTIVE", "SUBMITTED", "COMPLETED"}]
          /\ \A x \in Tasks : status'[x] = "NONE" <=> status[x] = "NONE"
      BY <1>3, <1>5, <2>1 DEF TaskInv
    <2> QED  BY <1>3, <2>2, <2>3, <2>4, OrderKept
  <1> QED  BY <1>4, <1>5

LEMMA TaskStep == SentInv /\ TaskInv /\ [Next]_vars => TaskInv'
  <1> SUFFICES ASSUME SentInv, TaskInv, [Next]_vars PROVE TaskInv'
    OBVIOUS
  <1>1. CASE UNCHANGED taskVars
    BY <1>1 DEF taskVars, TaskInv, IsInjective, Range
  <1>2. ASSUME NEW h \in Handlers, Work(h) \/ Fail(h) PROVE TaskInv'
    <2>1. CASE Operate(h)
      BY <2>1, TaskOperate
    <2>2. CASE Perform(h)
      BY <2>2, TaskPerform
    <2>3. CASE ~Operate(h) /\ ~Perform(h)
      BY <1>1, <1>2, <2>3
      DEF Work, markMessageProcessed, Identify, TryModel, FindSubmitted, Remember, FindUpdated,
          Reply, Choose, Pick, Capture, Refuse, Forget, SaveInterests, Answer, Respond, Fail
    <2> QED  BY <2>1, <2>2, <2>3
  <1>3. CASE UNCHANGED vars
    BY <1>1, <1>3 DEF vars, taskVars
  <1> QED
    BY <1>1, <1>2, <1>3 DEF Next, Receive, ReceiveAgain, Wait, GoDown, ComeUp, Restart

LEMMA PeopleIdentify ==
  ASSUME Inv, SentInv, PeopleInv, NEW h \in Handlers, Identify(h)
  PROVE  PeopleInv'
  <1> DEFINE u == Message(h).from
             r == IF role[u] = "none" /\ Message(h).place = "community"
                  THEN "COMMUNITY_MEMBER" ELSE role[u]
  <1>1. u \in Users
    BY SenderIsUser DEF Identify, At, Sender
  <1>2. r \in Roles
    BY <1>1 DEF PeopleInv, Roles
  <1>3. role' = [role EXCEPT ![u] = r] /\ UNCHANGED asked
    BY DEF Identify
  <1>4. UNCHANGED recent \/ recent' = [recent EXCEPT ![u] = @ + 1]
    BY DEF Identify
  <1>5. OnlyCall(h) /\ work'[h].role \in {"none", r}
    <2> DEFINE next == Handling(Message(h), r)
               refused == r = "none" \/ recent[u] >= Limit[r]
               pc == IF refused THEN "respond"
                     ELSE IF next \in AdminOperations THEN "admin" ELSE next
               task == IF next = "reply" THEN Message(h).quotes ELSE None
               intent == IF next \in AdminOperations THEN next ELSE None
               call == [work[h] EXCEPT !.role = r, !.task = task, !.intent = intent, !.pc = pc]
    <2>1. work' = [work EXCEPT ![h] = Idle] \/ work' = [work EXCEPT ![h] = call]
      BY DEF Identify
    <2> HIDE DEF next, refused, pc, task, intent
    <2>2. CASE work' = [work EXCEPT ![h] = Idle]
      BY <2>2 DEF Inv, Calls, OnlyCall, Idle
    <2>3. CASE work' = [work EXCEPT ![h] = call]
      <3> HIDE DEF r
      <3> QED  BY <2>3 DEF Inv, Calls, OnlyCall, Fields
    <2> QED  BY <2>1, <2>2, <2>3
  <1> HIDE DEF u, r
  <1>6. role' \in [Users -> Roles] /\ recent' \in [Users -> Nat]
    BY <1>1, <1>2, <1>3, <1>4 DEF PeopleInv
  <1>7. \A k \in Handlers : work'[k].role \in Roles
    BY <1>2, <1>5 DEF PeopleInv, OnlyCall, Roles
  <1> QED  BY <1>3, <1>6, <1>7 DEF PeopleInv

LEMMA PeopleWork ==
  ASSUME Inv, SentInv, PeopleInv, NEW h \in Handlers, Work(h) \/ Fail(h)
  PROVE  PeopleInv'
  <1>1. CASE Identify(h)
    BY <1>1, PeopleIdentify
  <1>2. CASE ~Identify(h)
    <2>1. \A k \in Handlers : work'[k].role \in Roles
      BY <1>2, CallCarried DEF PeopleInv, OnlyCall, Roles
    <2>2. UNCHANGED recent
      BY <1>2
      DEF Work, markMessageProcessed, TryModel, Operate, FindSubmitted, Remember, FindUpdated,
          Reply, Choose, Pick, Capture, Perform, Refuse, Forget, SaveInterests, Answer, Respond,
          Fail
    <2>3. role' \in [Users -> Roles]
      <3>1. CASE Operate(h)
        <4>1. UNCHANGED role \/ role' = [role EXCEPT ![Message(h).subject] = "OFFICIAL"]
          BY <3>1 DEF Operate
        <4> QED  BY <4>1 DEF PeopleInv, Roles
      <3>2. CASE SaveInterests(h)
        BY <3>2 DEF SaveInterests, PeopleInv
      <3>3. CASE ~Operate(h) /\ ~SaveInterests(h)
        BY <1>2, <3>3
        DEF PeopleInv, Work, markMessageProcessed, TryModel, FindSubmitted, Remember, FindUpdated,
            Reply, Choose, Pick, Capture, Perform, Refuse, Forget, Answer, Respond, Fail
      <3> QED  BY <3>1, <3>2, <3>3
    <2>4. asked' \in [Users -> SUBSET Places]
      <3>1. CASE Remember(h)
        <4>1. Sender(h) \in Users /\ Message(h).place \in Places
          BY <3>1, SenderIsUser DEF Remember, At
        <4> QED  BY <3>1, <4>1 DEF Remember, PeopleInv
      <3>2. CASE Forget(h)
        BY <3>2, SenderIsUser DEF Forget, At, PeopleInv
      <3>3. CASE ~Remember(h) /\ ~Forget(h)
        BY <1>2, <3>3
        DEF PeopleInv, Work, markMessageProcessed, TryModel, Operate, FindSubmitted, FindUpdated,
            Reply, Choose, Pick, Capture, Perform, Refuse, SaveInterests, Answer, Respond, Fail
      <3> QED  BY <3>1, <3>2, <3>3
    <2> QED  BY <2>1, <2>2, <2>3, <2>4 DEF PeopleInv
  <1> QED  BY <1>1, <1>2

LEMMA PeopleStep == Inv /\ SentInv /\ PeopleInv /\ [Next]_vars => PeopleInv'
  <1> SUFFICES ASSUME Inv, SentInv, PeopleInv, [Next]_vars PROVE PeopleInv'
    OBVIOUS
  <1>1. ASSUME NEW h \in Handlers, Work(h) \/ Fail(h) PROVE PeopleInv'
    BY <1>1, PeopleWork
  <1>2. ASSUME NEW i, Begin(i), UNCHANGED <<role, asked, recent>> PROVE PeopleInv'
    <2>1. Min(Free) \in Free
      BY <1>2, InboundAssumption, SmallestNumber DEF Begin, Free
    <2>2. PICK h \in Handlers : work' = [work EXCEPT ![h] = [Idle EXCEPT !.pc = "mark", !.id = i]]
      BY <1>2, <2>1 DEF Begin, Free
    <2>3. \A k \in Handlers : work'[k].role \in Roles
      BY <2>2 DEF Inv, Calls, PeopleInv, Idle, Roles
    <2> QED  BY <1>2, <2>3 DEF PeopleInv
  <1>3. CASE (\E mail \in Mails : Receive(mail)) \/ \E i \in Ids : ReceiveAgain(i)
    BY <1>2, <1>3 DEF Receive, ReceiveAgain
  <1>4. CASE Restart
    BY <1>4 DEF Restart, PeopleInv, Idle, Roles
  <1>5. ASSUME NEW long \in BOOLEAN, Wait(long) PROVE PeopleInv'
    <2>1. asked' = [u \in Users |-> {}] \/ UNCHANGED asked
      BY <1>5 DEF Wait
    <2>2. asked' \in [Users -> SUBSET Places]
      BY <2>1 DEF PeopleInv
    <2> QED  BY <1>5, <2>2 DEF Wait, PeopleInv
  <1>6. CASE GoDown \/ ComeUp \/ UNCHANGED vars
    BY <1>6 DEF GoDown, ComeUp, vars, PeopleInv
  <1> QED  BY <1>1, <1>3, <1>4, <1>5, <1>6 DEF Next

LEMMA TaskInit == Init => TaskInv
  <1> SUFFICES ASSUME Init PROVE TaskInv
    OBVIOUS
  <1> DEFINE D == DOMAIN InitialRows
             n == Cardinality(D)
  <1>1. IsFiniteSet(D) /\ D \subseteq Tasks /\ n \in Nat
    BY InboundAssumption, FS_CardinalityType
  <1>2. order \in [1..n -> D] /\ \A i, j \in 1..n : i # j => order[i] # order[j]
    BY DEF Init, SetToSeqs
  <1>3. /\ status = [t \in Tasks |-> IF t \in D THEN "ACTIVE" ELSE "NONE"]
        /\ rows = [t \in Tasks |-> [u \in Users |->
                     IF t \in D /\ u \in InitialRows[t] THEN "open" ELSE "none"]]
    BY DEF Init
  <1> HIDE DEF D, n
  <1>4. order \in Seq(Tasks) /\ IsInjective(order)
    <2>1. order \in [1..n -> Tasks]
      BY <1>1, <1>2
    <2>2. order \in Seq(Tasks)
      BY <1>1, <2>1
    <2> QED  BY <1>2, <2>2 DEF IsInjective
  <1>5. Range(order) = D
    <2>1. order \in Injection(1..n, D)
      BY <1>2, <1>4 DEF Injection
    <2>2. Cardinality(1..n) = n
      <3>1. Cardinality(1..n) = IF 1 > n THEN 0 ELSE n - 1 + 1
        BY <1>1, FS_Interval
      <3> QED  BY <1>1, <3>1
    <2>3. order \in Surjection(1..n, D)
      BY <1>1, <2>1, <2>2, FS_Injection DEF n
    <2> QED  BY <1>2, <2>3 DEF Surjection, Range
  <1>6. Range(order) = {t \in Tasks : status[t] # "NONE"}
    BY <1>1, <1>3, <1>5
  <1>7. \A t \in Tasks : \A u \in Users : rows[t][u] # "none" => status[t] # "NONE"
    BY <1>3
  <1> QED  BY <1>3, <1>4, <1>6, <1>7 DEF TaskInv

LEMMA PeopleInit == Init => PeopleInv
  <1> SUFFICES ASSUME Init PROVE PeopleInv
    OBVIOUS
  <1>1. role \in [Users -> Roles] /\ recent \in [Users -> Nat]
    BY InboundAssumption DEF Init
  <1>2. asked \in [Users -> SUBSET Places]
    BY DEF Init, Places
  <1>3. \A h \in Handlers : work[h].role \in Roles
    BY DEF Init, Idle, Roles
  <1> QED  BY <1>1, <1>2, <1>3 DEF PeopleInv

\* Whatever arrives and fails, the list of the tasks has each of them once, wherever a new
\* deadline moves it (listTasks), and a call that is at work has a message that was written.
THEOREM TypeCorrect == Spec => []TypeOK
  <1>1. SentInv /\ TaskInv /\ PeopleInv => TypeOK
    BY DEF SentInv, TaskInv, PeopleInv, TypeOK
  <1> QED
    BY <1>1, SentInit, SentStep, TaskInit, TaskStep, PeopleInit, PeopleStep,
       HandlingsAreExclusive, PTL DEF Spec

\* A message does at most one thing and does it once, however often it is delivered and
\* wherever its handling breaks off (markMessageProcessed).
THEOREM MessagesAreHandledOnce == Spec => []HandledOnce
  <1>1. Inv /\ TypeOK => HandledOnce
    <2> SUFFICES ASSUME Inv, TypeOK, NEW i \in Ids PROVE Len(operations[i]) <= 1
      BY DEF HandledOnce
    <2>1. CASE operations[i] = <<>>
      BY <2>1
    <2>2. ASSUME NEW d, operations[i] = <<d>> PROVE Len(operations[i]) <= 1
      BY <2>2
    <2> QED  BY <2>1, <2>2 DEF Inv, OneOperation
  <1> QED  BY <1>1, HandlingsAreExclusive, TypeCorrect, PTL
=============================================================================
