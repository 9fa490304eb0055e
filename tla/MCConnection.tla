---------------------------- MODULE MCConnection ----------------------------
(* Four sockets in the life of one process, of which one opening fails.    *)
EXTENDS Connection
=============================================================================
