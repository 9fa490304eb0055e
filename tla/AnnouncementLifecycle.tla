------------------------ MODULE AnnouncementLifecycle ------------------------
(***************************************************************************)
(* What the Super Admin is told about an announcement (PRD 6.2): it is     *)
(* scheduled, then published, failed or cancelled.  PUBLISHED needs a      *)
(* message that really went out, and neither PUBLISHED nor CANCELLED is    *)
(* ever left.  A failed one may still be published, by an edit that gives  *)
(* it a new time or by an attempt that was still under way.                *)
(***************************************************************************)
VARIABLES
  status,   \* the status of the announcement
  receipt,  \* its published_message_id is stored
  posted    \* it has gone out to the group

lifecycle == <<status, receipt, posted>>

Init == status = "NONE" /\ receipt = FALSE /\ posted = FALSE

Schedule == status = "NONE" /\ status' = "SCHEDULED" /\ UNCHANGED <<receipt, posted>>

\* The message goes out; nothing is said of it yet, and nothing may ever be, if the
\* announcement is cancelled meanwhile.
Post == status # "NONE" /\ posted' = TRUE /\ UNCHANGED <<status, receipt>>

Publish ==
  /\ status \in {"SCHEDULED", "FAILED"} /\ posted
  /\ status' = "PUBLISHED" /\ receipt' = TRUE
  /\ UNCHANGED posted

Fail == status = "SCHEDULED" /\ status' = "FAILED" /\ UNCHANGED <<receipt, posted>>

Cancel ==
  /\ status \in {"SCHEDULED", "FAILED"}
  /\ status' = "CANCELLED"
  /\ UNCHANGED <<receipt, posted>>

Next == Schedule \/ Post \/ Publish \/ Fail \/ Cancel

Spec == Init /\ [][Next]_lifecycle
=============================================================================
