----------------------------- MODULE Membership -----------------------------
(***************************************************************************)
(* The member list of one community group: participant events, messages of *)
(* people not yet known, and the synchronisation at start-up and every 15  *)
(* minutes (InboundRouter.handleGroupParticipants, registerCommunityMember *)
(* and syncConfiguredGroupMembership).  Each of them reads the list, works *)
(* on its copy and then replaces the whole list, and nothing keeps two of  *)
(* them apart.                                                             *)
(***************************************************************************)
EXTENDS Naturals, FiniteSets, Functions

CONSTANTS Jids,          \* people other than the bot
          MaxHandlers,   \* handlings that can be under way at a time
          Drivers,       \* subset of {"postgres", "memory"}
          MaxChanges,    \* joins, leaves and messages of strangers
          MaxFaults      \* disconnections, restarts and errors of the store

ASSUME MembershipAssumption ==
    /\ Drivers \subseteq {"postgres", "memory"} /\ Drivers # {}
    /\ {MaxHandlers, MaxChanges, MaxFaults} \subseteq Nat

VARIABLES driver,      \* the store in use
          live,        \* the participants WhatsApp knows
          up,          \* isConnected
          users,       \* people with a row in users
          rows,        \* group_members: "none", "active" or "left"
          at, kind,    \* of each handling: its next step, and what it does
          who,         \* the people it is about; for a synchronisation those fetched
          list,        \* the rows it read
          ahead,       \* the open transactions whose DELETE came before its own
          holds,       \* the rows its DELETE found
          changes, faults,
          disturbed    \* history: since the last lone synchronisation something
                       \* was missed or handled beside something else

groupVars == <<driver, live, up, users, rows, at, kind, who, list, ahead, holds,
          changes, faults, disturbed>>
handlingVars == <<at, kind, who, list>>
ledgerVars == <<rows, ahead, holds>>
worldVars == <<driver, live, up, changes, faults>>

Handlers == 1..MaxHandlers
Steps == {"idle", "find", "list", "fetch", "resolve", "delete", "commit"}
Kinds == {"register", "leave", "sync"}
Statuses == {"none", "active", "left"}
Listed(r) == {j \in Jids : r[j] # "none"}
Active == {j \in Jids : rows[j] = "active"}
Idle == {h \in Handlers : at[h] = "idle"}
Quiet == Idle = Handlers

\* New handlings take the first free places; which ones makes no difference.
Free(hs) == hs \subseteq Idle /\ \A h \in hs, x \in Idle \ hs : h < x

GroupTypeOK ==
    /\ driver \in Drivers /\ live \subseteq Jids /\ up \in BOOLEAN
    /\ users \subseteq Jids /\ rows \in [Jids -> Statuses] /\ Listed(rows) \subseteq users
    /\ at \in [Handlers -> Steps] /\ kind \in [Handlers -> Kinds]
    /\ who \in [Handlers -> SUBSET Jids] /\ list \in [Handlers -> [Jids -> Statuses]]
    /\ ahead \in [Handlers -> SUBSET {h \in Handlers : at[h] = "commit"}]
    /\ holds \in [Handlers -> SUBSET Jids]

NoRows == [j \in Jids |-> "none"]

\* A group that was synchronised before; the process has just connected.
GroupInit ==
    /\ driver \in Drivers /\ live \in SUBSET Jids /\ up = TRUE
    /\ users = live /\ rows = [j \in Jids |-> IF j \in live THEN "active" ELSE "none"]
    /\ at = [h \in Handlers |-> "idle"] /\ kind = [h \in Handlers |-> "sync"]
    /\ who = [h \in Handlers |-> {}] /\ list = [h \in Handlers |-> NoRows]
    /\ ahead = [h \in Handlers |-> {}] /\ holds = [h \in Handlers |-> {}]
    /\ changes = 0 /\ faults = 0 /\ disturbed = FALSE

GoTo(h, step) == at' = [at EXCEPT ![h] = step]

\* A handling that is over keeps nothing.
Forget(h) ==
    /\ GoTo(h, "idle")
    /\ kind' = [kind EXCEPT ![h] = "sync"]
    /\ who' = [who EXCEPT ![h] = {}]
    /\ list' = [list EXCEPT ![h] = NoRows]

Start(hs, k, step, about) ==
    /\ at' = [h \in Handlers |-> IF h \in hs THEN step ELSE at[h]]
    /\ kind' = [h \in Handlers |-> IF h \in hs THEN k ELSE kind[h]]
    /\ who' = [h \in Handlers |-> IF h \in hs THEN about[h] ELSE who[h]]
    /\ UNCHANGED list

Alone(hs) == Quiet /\ Cardinality(hs) = 1

-----------------------------------------------------------------------------
\* People join or are added together; each is registered at the same time
\* (Promise.all).  Nobody hears of it while WhatsApp is disconnected.
Join(S) ==
    /\ changes < MaxChanges /\ S # {} /\ S \cap live = {}
    /\ live' = live \cup S /\ changes' = changes + 1
    /\ IF up
       THEN \E hs \in SUBSET Idle : \E f \in Bijection(hs, S) :
               /\ Free(hs)
               /\ Start(hs, "register", "find", [h \in hs |-> {f[h]}])
               /\ disturbed' = (disturbed \/ ~Alone(hs))
       ELSE disturbed' = TRUE /\ UNCHANGED handlingVars
    /\ UNCHANGED <<driver, up, users, ledgerVars, faults>>

Depart(S) ==
    /\ changes < MaxChanges /\ S # {} /\ S \subseteq live
    /\ live' = live \ S /\ changes' = changes + 1
    /\ IF up
       THEN \E h \in Idle :
               /\ Free({h})
               /\ Start({h}, "leave", "list", [x \in {h} |-> S])
               /\ disturbed' = (disturbed \/ ~Alone({h}))
       ELSE disturbed' = TRUE /\ UNCHANGED handlingVars
    /\ UNCHANGED <<driver, up, users, ledgerVars, faults>>

\* A message of a participant without a user row.
Speak(j) ==
    /\ changes < MaxChanges /\ up /\ j \in live \ users
    /\ changes' = changes + 1
    /\ \E h \in Idle : /\ Free({h}) /\ Start({h}, "register", "find", [x \in {h} |-> {j}])
                       /\ disturbed' = (disturbed \/ ~Alone({h}))
    /\ UNCHANGED <<driver, live, up, users, ledgerVars, faults>>

\* A lone synchronisation makes up for what was missed before it.  It is taken to be
\* over before the next one, 15 minutes later.
Sync(h) ==
    /\ Free({h}) /\ up
    /\ \A x \in Handlers \ Idle : kind[x] # "sync"
    /\ Start({h}, "sync", "fetch", [x \in {h} |-> {}])
    /\ disturbed' = ~Quiet
    /\ UNCHANGED <<worldVars, users, ledgerVars>>

\* groupMetadata answers, or throws when the connection is gone; the
\* synchronisation is then over and has made up for nothing.
Fetch(h) ==
    /\ at[h] = "fetch"
    /\ IF up THEN /\ who' = [who EXCEPT ![h] = live] /\ GoTo(h, "resolve")
                  /\ UNCHANGED <<kind, list, disturbed>>
       ELSE Forget(h) /\ disturbed' = TRUE
    /\ UNCHANGED <<worldVars, users, ledgerVars>>

\* Unknown participants become users, without touching the list.
Resolve(h) ==
    /\ at[h] = "resolve"
    /\ users' = users \cup who[h]
    /\ list' = [list EXCEPT ![h] = NoRows]
    /\ GoTo(h, "delete")
    /\ UNCHANGED <<worldVars, kind, who, ledgerVars, disturbed>>

-----------------------------------------------------------------------------
\* findUserByJid and createUser.  When somebody else creates the user in between,
\* the insertion collides and that user is taken.
FindOrCreate(h) ==
    /\ at[h] = "find"
    /\ users' = users \cup who[h]
    /\ GoTo(h, "list")
    /\ UNCHANGED <<worldVars, kind, who, list, ledgerVars, disturbed>>

ListMembers(h) ==
    /\ at[h] = "list"
    /\ list' = [list EXCEPT ![h] = rows]
    /\ GoTo(h, "delete")
    /\ UNCHANGED <<worldVars, users, kind, who, ledgerVars, disturbed>>

\* Mutants of NewList: a registration that drops the other members, and a
\* synchronisation that only adds.
NewListAlone(h) ==
    [j \in Jids |-> IF j \in who[h] THEN IF kind[h] = "leave" THEN "left" ELSE "active"
                    ELSE IF kind[h] = "leave" THEN list[h][j] ELSE "none"]
NewListAdds(h) ==
    [j \in Jids |-> IF kind[h] = "leave" /\ j \in who[h] /\ list[h][j] # "none" THEN "left"
                    ELSE IF kind[h] # "leave" /\ j \in who[h] THEN "active"
                    ELSE IF kind[h] = "sync" THEN rows[j] ELSE list[h][j]]

\* The list each kind of handling makes of the rows it read.
NewList(h) ==
    CASE kind[h] = "register" -> [j \in Jids |-> IF j \in who[h] THEN "active" ELSE list[h][j]]
      [] kind[h] = "leave" -> [j \in Jids |-> IF j \in who[h] /\ list[h][j] # "none"
                                              THEN "left" ELSE list[h][j]]
      [] kind[h] = "sync" -> [j \in Jids |-> IF j \in who[h] THEN "active" ELSE "none"]

\* PostgreSQL: BEGIN and DELETE.  The statement sees the rows of this moment and
\* waits for the transactions that have deleted the same ones.
Delete(h) ==
    /\ at[h] = "delete" /\ driver = "postgres"
    /\ ahead' = [ahead EXCEPT ![h] = {x \in Handlers : at[x] = "commit"}]
    /\ holds' = [holds EXCEPT ![h] = Listed(rows)]
    /\ GoTo(h, "commit")
    /\ UNCHANGED <<worldVars, users, rows, kind, who, list, disturbed>>

IsBlocked(h) == \E x \in ahead[h] : holds[x] \cap holds[h] # {}

\* The transaction is over, and nobody waits for it any more.
Closed(h) == ahead' = [x \in Handlers |-> IF x = h THEN {} ELSE ahead[x] \ {h}]

\* INSERT and COMMIT.  A row inserted by a transaction that was committed after the
\* DELETE began is still there; inserting it again fails and rolls back.
Commit(h) ==
    /\ at[h] = "commit" /\ driver = "postgres" /\ ~IsBlocked(h)
    /\ LET remaining == Listed(rows) \ holds[h]
           new == NewList(h)
           fails == remaining \cap Listed(new) # {}
       IN /\ rows' = IF fails THEN rows
                     ELSE [j \in Jids |-> IF j \in remaining THEN rows[j] ELSE new[j]]
          \* The versions that others were about to delete are gone.
          /\ holds' = [x \in Handlers |-> IF x = h THEN {}
                                          ELSE IF fails THEN holds[x] ELSE holds[x] \ holds[h]]
    /\ Closed(h)
    /\ Forget(h)
    /\ UNCHANGED <<worldVars, users, disturbed>>

\* The store in memory replaces the map at once.
ReplaceInMemory(h) ==
    /\ at[h] = "delete" /\ driver = "memory"
    /\ rows' = NewList(h)
    /\ Forget(h)
    /\ UNCHANGED <<worldVars, users, ahead, holds, disturbed>>

-----------------------------------------------------------------------------
\* Any statement may fail; the handling is over and its transaction rolled back.
StoreError(h) ==
    /\ faults < MaxFaults /\ at[h] # "idle"
    /\ Forget(h)
    /\ Closed(h) /\ holds' = [holds EXCEPT ![h] = {}]
    /\ faults' = faults + 1 /\ disturbed' = TRUE
    /\ UNCHANGED <<driver, live, up, users, rows, changes>>

GoesDown ==
    /\ faults < MaxFaults /\ up
    /\ up' = FALSE /\ faults' = faults + 1
    /\ UNCHANGED <<driver, live, users, ledgerVars, handlingVars, changes, disturbed>>

ComesUp ==
    /\ ~up /\ up' = TRUE
    /\ UNCHANGED <<driver, live, users, ledgerVars, handlingVars, changes, faults, disturbed>>

\* The process dies and starts again; the store in memory forgets everything.
Restart ==
    /\ faults < MaxFaults
    /\ up' = FALSE /\ faults' = faults + 1 /\ disturbed' = TRUE
    /\ at' = [h \in Handlers |-> "idle"] /\ kind' = [h \in Handlers |-> "sync"]
    /\ who' = [h \in Handlers |-> {}] /\ list' = [h \in Handlers |-> NoRows]
    /\ ahead' = [h \in Handlers |-> {}] /\ holds' = [h \in Handlers |-> {}]
    /\ users' = IF driver = "memory" THEN {} ELSE users
    /\ rows' = IF driver = "memory" THEN NoRows ELSE rows
    /\ UNCHANGED <<driver, live, changes>>

Work(h) == Fetch(h) \/ Resolve(h) \/ FindOrCreate(h) \/ ListMembers(h)
           \/ Delete(h) \/ Commit(h) \/ ReplaceInMemory(h)

GroupNext ==
    \/ \E S \in SUBSET Jids : Join(S) \/ Depart(S)
    \/ \E j \in Jids : Speak(j)
    \/ \E h \in Handlers : Sync(h) \/ Work(h) \/ StoreError(h)
    \/ GoesDown \/ ComesUp \/ Restart

GroupSpec == GroupInit /\ [][GroupNext]_groupVars

\* Handlings go on, the connection comes back, and the timer synchronises again.
GroupFairness ==
    /\ WF_groupVars(ComesUp)
    /\ \A h \in Handlers : WF_groupVars(Work(h))
    /\ SF_groupVars(\E h \in Handlers : Sync(h))

GroupFairSpec == GroupSpec /\ GroupFairness

-----------------------------------------------------------------------------
\* When nothing was missed and no two handlings overlapped since the last lone
\* synchronisation, the active members are the participants of the group: an event
\* never takes somebody else off the list or puts him on it.
UndisturbedIsExact ==
    GroupTypeOK /\ (Quiet /\ ~disturbed => Active = live)

\* Whatever was missed, overlapped or overwritten, the synchronisation repairs it
\* once the group is left alone.
MembershipConverges == <>[](Active = live)
=============================================================================
