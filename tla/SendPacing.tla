----------------------------- MODULE SendPacing -----------------------------
(***************************************************************************)
(* ControlledWhatsAppGateway.sendText: the calls of a chat form a chain of *)
(* promises, each waits for the one before it, keeps a minimum interval to *)
(* the last message of the chat, sends, and releases the next one whether  *)
(* the send succeeded or threw.                                            *)
(*                                                                         *)
(*   idle -> waiting -> pacing -> sending -> idle                          *)
(*                                                                         *)
(* Time advances in units of which Interval make the minimum interval; a   *)
(* timer never fires early and may fire late.  A gateway whose sending is  *)
(* switched off refuses every call at once and is not modelled.            *)
(***************************************************************************)
EXTENDS Naturals, Sequences

CONSTANTS
  Calls,    \* sendText calls that can be outstanding together
  NoCall,
  Chats,
  ChatOf,   \* the chat a call sends to
  Interval  \* minimumIntervalMs, in units of time

ASSUME NoCallAssumption == NoCall \notin Calls
ASSUME ChatAssumption == ChatOf \in [Calls -> Chats]
ASSUME IntervalAssumption == Interval \in Nat

VARIABLES
  pc,       \* where each call is
  previous, \* the call whose release it still awaits, or NoCall
  last,     \* sendChains: the newest call of a chat, or NoCall (no entry)
  wait,     \* the time its timer has still to run
  since,    \* time since lastSentAt of a chat, counted up to Interval
  line      \* history: the outstanding calls of a chat in the order of their arrival

vars == <<pc, previous, last, wait, since, line>>

States == {"idle", "waiting", "pacing", "sending"}

TypeOK ==
  /\ pc \in [Calls -> States]
  /\ previous \in [Calls -> Calls \cup {NoCall}]
  /\ last \in [Chats -> Calls \cup {NoCall}]
  /\ wait \in [Calls -> 0..Interval]
  /\ since \in [Chats -> 0..Interval]
  /\ line \in [Chats -> Seq(Calls)]
  /\ \A c \in Calls :
       /\ wait[c] > 0 => pc[c] = "pacing"
       /\ previous[c] # NoCall => pc[c] = "waiting" /\ ChatOf[previous[c]] = ChatOf[c]

\* Nothing has been sent yet: lastSentAt is 0, long ago.
Init ==
  /\ pc = [c \in Calls |-> "idle"]
  /\ previous = [c \in Calls |-> NoCall]
  /\ last = [k \in Chats |-> NoCall]
  /\ wait = [c \in Calls |-> 0]
  /\ since = [k \in Chats |-> Interval]
  /\ line = [k \in Chats |-> <<>>]

-----------------------------------------------------------------------------
Goto(c, s) == pc' = [pc EXCEPT ![c] = s]

\* The call enters the chain of its chat.
Enter(c) ==
  /\ pc[c] = "idle"
  /\ previous' = [previous EXCEPT ![c] = last[ChatOf[c]]]
  /\ last' = [last EXCEPT ![ChatOf[c]] = c]
  /\ line' = [line EXCEPT ![ChatOf[c]] = Append(@, c)]
  /\ Goto(c, "waiting")
  /\ UNCHANGED <<wait, since>>

\* The wait computed from the moment the call was made, not from the last message.
ResumeUnpaced(c) ==
  /\ pc[c] = "waiting" /\ previous[c] = NoCall
  /\ Goto(c, "pacing")
  /\ UNCHANGED <<previous, last, wait, since, line>>

\* "await previous" returns; the time to wait is computed from lastSentAt.
Resume(c) ==
  /\ pc[c] = "waiting" /\ previous[c] = NoCall
  /\ wait' = [wait EXCEPT ![c] = Interval - since[ChatOf[c]]]
  /\ Goto(c, "pacing")
  /\ UNCHANGED <<previous, last, since, line>>

\* The timer has fired; the message is handed to the gateway below.
Post(c) ==
  /\ pc[c] = "pacing" /\ wait[c] = 0
  /\ Goto(c, "sending")
  /\ UNCHANGED <<previous, last, wait, since, line>>

\* finally { ... } that deletes the entry of the chat without looking whose it is.
LeaveAlwaysDeletes(c) ==
  /\ previous' = [d \in Calls |-> IF previous[d] = c THEN NoCall ELSE previous[d]]
  /\ last' = [last EXCEPT ![ChatOf[c]] = NoCall]
  /\ line' = [line EXCEPT ![ChatOf[c]] = Tail(@)]
  /\ Goto(c, "idle")
  /\ UNCHANGED wait

\* finally { release(); delete the chain if nobody has joined it }
Leave(c) ==
  /\ previous' = [d \in Calls |-> IF previous[d] = c THEN NoCall ELSE previous[d]]
  /\ last' = [last EXCEPT ![ChatOf[c]] = IF @ = c THEN NoCall ELSE @]
  /\ line' = [line EXCEPT ![ChatOf[c]] = Tail(@)]
  /\ Goto(c, "idle")
  /\ UNCHANGED wait

Sent(c) ==
  /\ pc[c] = "sending"
  /\ since' = [since EXCEPT ![ChatOf[c]] = 0]
  /\ Leave(c)

\* A failed send that never reaches release().
FailedKeepsChain(c) ==
  /\ pc[c] = "sending"
  /\ Goto(c, "idle")
  /\ line' = [line EXCEPT ![ChatOf[c]] = Tail(@)]
  /\ UNCHANGED <<previous, last, wait, since>>

Failed(c) ==
  /\ pc[c] = "sending"
  /\ UNCHANGED since
  /\ Leave(c)

\* One unit of time.
Tick ==
  /\ \/ \E k \in Chats : since[k] < Interval
     \/ \E c \in Calls : wait[c] > 0
  /\ since' = [k \in Chats |-> IF since[k] < Interval THEN since[k] + 1 ELSE Interval]
  /\ wait' = [c \in Calls |-> IF wait[c] > 0 THEN wait[c] - 1 ELSE 0]
  /\ UNCHANGED <<pc, previous, last, line>>

-----------------------------------------------------------------------------
Next ==
  \/ \E c \in Calls : Enter(c) \/ Resume(c) \/ Post(c) \/ Sent(c) \/ Failed(c)
  \/ Tick

Spec == Init /\ [][Next]_vars

\* A call that is not blocked goes on, WhatsApp answers or throws in the end (its own
\* timeouts see to that), and time passes.
Fairness ==
  /\ \A c \in Calls :
       WF_vars(Resume(c)) /\ WF_vars(Post(c)) /\ WF_vars(Sent(c) \/ Failed(c))
  /\ WF_vars(Tick)

FairSpec == Spec /\ Fairness

-----------------------------------------------------------------------------
(* Properties.                                                             *)

\* The gateway is an outbox per chat: one message at a time, first come first served,
\* failures included.
Outbox == INSTANCE ChatOutbox
  WITH queue <- line, busy <- {c \in Calls : pc[c] = "sending"}

OutboxSpec == Outbox!Spec

\* Two messages of a chat are never closer together than the minimum interval, however
\* many calls were waiting and however late the timers fired.
Paced ==
  [][\A c \in Calls : pc[c] # "sending" /\ pc'[c] = "sending"
                        => since[ChatOf[c]] = Interval]_vars

\* The chain a new call will join is the one of the calls still outstanding: an entry
\* of sendChains is kept exactly as long as somebody is in line, and names the last.
ChainMatchesLine ==
  \A k \in Chats :
    last[k] = IF line[k] = <<>> THEN NoCall ELSE line[k][Len(line[k])]

\* Every call returns or throws, whatever happens to the calls before it.
CallsReturn == \A c \in Calls : pc[c] # "idle" ~> pc[c] = "idle"
=============================================================================
