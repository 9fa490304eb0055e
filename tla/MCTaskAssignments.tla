------------------------- MODULE MCTaskAssignments -------------------------
(* Officials are interchangeable, and so are handlers.                     *)
EXTENDS TaskAssignments, TLC

MCSymmetry == Permutations(Officials) \cup Permutations(Handlers)
=============================================================================
