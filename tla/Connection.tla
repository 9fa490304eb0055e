----------------------------- MODULE Connection -----------------------------
(***************************************************************************)
(* BaileysWhatsAppGateway: opening, pairing, losing and reopening the      *)
(* socket, and the refresh of the known identities when it opens.  Baileys *)
(* itself is external: it opens and closes sockets, and answers or fails.  *)
(***************************************************************************)
EXTENDS Naturals, FiniteSets

CONSTANTS MaxSockets,     \* sockets opened in the life of the process
          MaxFailures,    \* openings that fail
          None

ASSUME ConnectionAssumption ==
    /\ {MaxSockets, MaxFailures} \subseteq Nat /\ None \notin Nat

Sockets == 1..MaxSockets

VARIABLES phase,       \* of the process: "starting", "up", "stopping" or "exited"
          creds,       \* in the session directory: "new", "provisional" or "registered"
          state,       \* of each socket: "unused", "connecting", "open" or "closed"
          socket, connected, stopping,
          connecting,  \* openSocket: "no", "preparing" or "pairing"
          caller,      \* who awaits it: "start" or "timer"
          timers,      \* reconnections that wait for their 2 seconds
          refreshing,  \* sockets whose refresh of aliases is under way
          loggedOut, failures,
          late         \* history: connected was set for a socket already closed

connVars == <<phase, creds, state, socket, connected, stopping, connecting, caller, timers,
          refreshing, loggedOut, failures, late>>
socketVars == <<state, socket, connected, refreshing, loggedOut, late>>
openVars == <<stopping, connecting, caller, timers, creds, failures>>

ConnTypeOK ==
    /\ phase \in {"starting", "up", "stopping", "exited"}
    /\ creds \in {"new", "provisional", "registered"}
    /\ state \in [Sockets -> {"unused", "connecting", "open", "closed"}]
    /\ socket \in Sockets \cup {None}
    /\ connected \in BOOLEAN /\ stopping \in BOOLEAN
    /\ loggedOut \in BOOLEAN /\ late \in BOOLEAN
    /\ connecting \in {"no", "preparing", "pairing"} /\ caller \in {"start", "timer"}
    /\ timers \in Nat /\ refreshing \subseteq Sockets /\ failures \in 0..MaxFailures

ConnInit ==
    /\ phase = "starting" /\ creds \in {"new", "provisional", "registered"}
    /\ state = [s \in Sockets |-> "unused"] /\ socket = None
    /\ connected = FALSE /\ stopping = FALSE
    /\ connecting = "preparing" /\ caller = "start"     \* main awaits connect()
    /\ timers = 0 /\ refreshing = {}
    /\ loggedOut = FALSE /\ failures = 0
    /\ late = FALSE

Running == phase # "exited"
Unused == {s \in Sockets : state[s] = "unused"}
Live == {s \in Sockets : state[s] \in {"connecting", "open"}}

-----------------------------------------------------------------------------
\* A failure of connect() ends the process while it starts, and is logged later.
Opened == phase' = IF phase = "starting" THEN "up" ELSE phase
OpeningFails ==
    /\ failures < MaxFailures /\ failures' = failures + 1
    /\ connecting' = "no"
    /\ phase' = IF caller = "start" /\ phase = "starting" THEN "exited" ELSE phase

\* openSocket as far as the socket: a provisional identity is given up first, so
\* that the new socket registers instead of logging in.
OpenSocket ==
    /\ Running /\ connecting = "preparing"
    /\ \E s \in Unused :
          /\ \A other \in Unused : s <= other
          /\ state' = [state EXCEPT ![s] = "connecting"] /\ socket' = s
    /\ creds' = IF creds = "provisional" THEN "new" ELSE creds
    /\ IF creds' = "registered"
       THEN connecting' = "no" /\ Opened
       ELSE connecting' = "pairing" /\ UNCHANGED phase
    /\ UNCHANGED <<connected, stopping, caller, timers, refreshing,
                   loggedOut, failures, late>>

\* The session directory cannot be read.
OpenSocketThrows ==
    /\ Running /\ connecting = "preparing"
    /\ OpeningFails
    /\ UNCHANGED <<socketVars, creds, stopping, caller, timers>>

\* WhatsApp sends its challenge and the pairing code is asked for and shown.
RequestPairingCode ==
    /\ Running /\ connecting = "pairing" /\ socket # None /\ state[socket] = "connecting"
    /\ creds' = "provisional" /\ connecting' = "no" /\ Opened
    /\ UNCHANGED <<socketVars, stopping, caller, timers, failures>>

\* The wait for the challenge ends at once when the socket closes.
PairingThrows ==
    /\ Running /\ connecting = "pairing" /\ socket = None
    /\ connecting' = "no"
    /\ phase' = IF caller = "start" /\ phase = "starting" THEN "exited" ELSE phase
    /\ UNCHANGED <<socketVars, stopping, caller, timers, creds, failures>>

\* The wait times out or the request fails while the socket is still there, which is
\* left as it is; the identity may have been written already.
PairingFails ==
    /\ Running /\ connecting = "pairing" /\ socket # None
    /\ creds' \in {creds, "provisional"}
    /\ OpeningFails
    /\ UNCHANGED <<socketVars, stopping, caller, timers>>

\* Two seconds after the close, when an ended wait for the challenge is long over, the
\* timer calls connect(), which joins an opening under way and does nothing when
\* there is a socket.
TimerFires ==
    /\ Running /\ timers > 0 /\ ~(connecting = "pairing" /\ socket = None)
    /\ timers' = timers - 1
    /\ IF socket # None \/ connecting # "no"
       THEN UNCHANGED <<stopping, connecting, caller>>
       ELSE stopping' = FALSE /\ connecting' = "preparing" /\ caller' = "timer"
    /\ UNCHANGED <<phase, socketVars, creds, failures>>

\* disconnect("shutdown"): the socket is ended; its event of closing finds stopping set.
Disconnect ==
    /\ phase = "up"
    /\ phase' = "stopping" /\ stopping' = TRUE /\ connected' = FALSE /\ socket' = None
    /\ state' = [s \in Sockets |-> IF s = socket THEN "closed" ELSE state[s]]
    /\ late' = FALSE
    /\ UNCHANGED <<refreshing, loggedOut, connecting, caller, timers, creds,
                   failures>>

Exit ==
    /\ phase = "stopping" /\ phase' = "exited"
    /\ UNCHANGED <<socketVars, openVars>>

-----------------------------------------------------------------------------
\* connection.update, open: the gateway counts as connected when the refresh is over,
\* whether it succeeds or not.
Open(s) ==
    /\ Running /\ state[s] = "connecting" /\ creds = "registered"
    /\ state' = [state EXCEPT ![s] = "open"]
    /\ refreshing' = refreshing \cup {s}
    /\ UNCHANGED <<phase, socket, connected, loggedOut, openVars, late>>

RefreshEnds(s) ==
    /\ Running /\ s \in refreshing
    /\ refreshing' = refreshing \ {s}
    /\ connected' = TRUE
    /\ late' = (s # socket)
    /\ UNCHANGED <<phase, state, socket, loggedOut, openVars>>

\* Mutants of Close: one that leaves connected set, and one that reconnects only
\* when the connection had been up.
CloseStillConnected(s, out) ==
    /\ Running /\ s \in Live
    /\ state' = [state EXCEPT ![s] = "closed"]
    /\ socket' = None /\ loggedOut' = (loggedOut \/ out)
    /\ timers' = IF ~out /\ ~stopping THEN timers + 1 ELSE timers
    /\ late' = FALSE
    /\ UNCHANGED <<connected, phase, refreshing, stopping, connecting, caller, failures>>
CloseOnceConnected(s, out) ==
    /\ Running /\ s \in Live
    /\ state' = [state EXCEPT ![s] = "closed"]
    /\ connected' = FALSE /\ socket' = None
    /\ loggedOut' = (loggedOut \/ out)
    /\ timers' = IF ~out /\ ~stopping /\ connected THEN timers + 1 ELSE timers
    /\ late' = FALSE
    /\ UNCHANGED <<phase, refreshing, stopping, connecting, caller, failures>>

\* connection.update, close.
Close(s, out) ==
    /\ Running /\ s \in Live
    /\ state' = [state EXCEPT ![s] = "closed"]
    /\ connected' = FALSE /\ socket' = None
    /\ loggedOut' = (loggedOut \/ out)
    /\ timers' = IF ~out /\ ~stopping THEN timers + 1 ELSE timers
    /\ late' = FALSE
    /\ UNCHANGED <<phase, refreshing, stopping, connecting, caller, failures>>

\* WhatsApp may close a socket at any time; without any left, the model ends there.
Lose(s) == \E out \in BOOLEAN : Close(s, out) /\ UNCHANGED creds

\* The operator enters the code; WhatsApp closes the socket to have it opened anew.
Pair(s) ==
    /\ creds = "provisional" /\ state[s] = "connecting"
    /\ Close(s, FALSE) /\ creds' = "registered"

ConnNext ==
    \/ OpenSocket \/ OpenSocketThrows \/ RequestPairingCode \/ PairingThrows
    \/ PairingFails \/ TimerFires \/ Disconnect \/ Exit
    \/ \E s \in Sockets : Open(s) \/ RefreshEnds(s) \/ Lose(s) \/ Pair(s)

ConnSpec == ConnInit /\ [][ConnNext]_connVars

\* What the process has begun goes on, and WhatsApp opens a socket in the end.
ConnFairness ==
    /\ WF_connVars(OpenSocket) /\ WF_connVars(PairingThrows) /\ WF_connVars(TimerFires)
    /\ WF_connVars(RequestPairingCode)
    /\ \A s \in Sockets :
         WF_connVars(Open(s)) /\ WF_connVars(RefreshEnds(s)) /\ WF_connVars(Pair(s))

ConnFairSpec == ConnSpec /\ ConnFairness

-----------------------------------------------------------------------------
\* connected means an open socket that is the gateway's own, and there is never a
\* second socket alive beside it; only a refresh that ends after its socket was
\* closed sets connected without one.
ConnectedIsBacked ==
    /\ ConnTypeOK
    /\ connected /\ ~late => socket # None /\ state[socket] = "open"
    /\ Cardinality(Live) <= 1

\* Unless it is shut down, logged out or fails to open, the gateway always gets
\* connected again, as long as there are sockets to open.
Reconnects ==
    []<>(\/ connected /\ socket # None /\ state[socket] = "open"
         \/ stopping \/ phase # "up" \/ loggedOut \/ failures > 0
         \/ Unused = {})
=============================================================================
