--------------------------- MODULE MCAnnouncements ---------------------------
(* The constants are given in the configurations; no symmetry, as the run     *)
(* checks liveness.                                                           *)
EXTENDS Announcements
=============================================================================
