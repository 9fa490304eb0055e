---------------------------- MODULE MCAutomation ----------------------------
(* Values for the constants of Automation.                                 *)
EXTENDS Automation

CONSTANTS j1, j2

\* j1 like a task job (it can be retried), j2 with its last attempt at hand.
MCMaxAttempts == [j \in Jobs |-> IF j = j1 THEN 2 ELSE 1]
MCCancelSets == {{j1}}
=============================================================================
