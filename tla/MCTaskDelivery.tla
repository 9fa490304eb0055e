--------------------------- MODULE MCTaskDelivery ---------------------------
(* Workers are interchangeable, and so are the handlers of requests.         *)
EXTENDS TaskDelivery, TLC

MCSymmetry == Permutations(Workers) \cup Permutations(Handlers)
=============================================================================
