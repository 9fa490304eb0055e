---------------------------- MODULE MCSendPacing ----------------------------
(* Values for the constants of SendPacing.                                 *)
EXTENDS SendPacing

CONSTANTS c1, c2, c3, c4, group, admin

\* Three calls compete for one chat, one sends to another.
MCChatOf == [c \in Calls |-> IF c = c4 THEN admin ELSE group]
=============================================================================
