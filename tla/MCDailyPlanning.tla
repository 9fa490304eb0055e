-------------------------- MODULE MCDailyPlanning --------------------------
(* Two runs and two approvals at a time, for one member, over the mornings *)
(* of two days.  A member is quiet after a day and may be written to again *)
(* after more than half a day: both can expire within the run.             *)
EXTENDS DailyPlanning, TLC

Symmetry == Permutations(Workers) \cup Permutations(Approvals) \cup Permutations(Members)
=============================================================================
