----------------------------- MODULE ChatOutbox -----------------------------
(***************************************************************************)
(* What the gateway promises the services that send through it: the        *)
(* messages of a chat go out one at a time, in the order in which sendText *)
(* was called, and a message that cannot be sent does not hold up the ones *)
(* behind it.  Chats do not wait for each other.                           *)
(***************************************************************************)
EXTENDS Naturals, Sequences

CONSTANTS
  Calls,   \* sendText calls that can be outstanding together
  Chats,
  ChatOf   \* [Calls -> Chats]: the chat a call sends to

VARIABLES
  queue, \* the calls of a chat that have not returned, first come first
  busy   \* the calls whose message is being handed to WhatsApp

vars == <<queue, busy>>

Init == queue = [c \in Chats |-> <<>>] /\ busy = {}

Queued(c) == \E i \in 1..Len(queue[ChatOf[c]]) : queue[ChatOf[c]][i] = c

First(c) == queue[ChatOf[c]] # <<>> /\ Head(queue[ChatOf[c]]) = c

Request(c) ==
  /\ ~Queued(c)
  /\ queue' = [queue EXCEPT ![ChatOf[c]] = Append(@, c)]
  /\ UNCHANGED busy

Start(c) ==
  /\ First(c) /\ c \notin busy
  /\ busy' = busy \cup {c}
  /\ UNCHANGED queue

\* Sent or failed: the next one may start.
Finish(c) ==
  /\ First(c) /\ c \in busy
  /\ queue' = [queue EXCEPT ![ChatOf[c]] = Tail(@)]
  /\ busy' = busy \ {c}

Next == \E c \in Calls : Request(c) \/ Start(c) \/ Finish(c)

Spec == Init /\ [][Next]_vars
=============================================================================
