--------------------------- MODULE MCConfirmations ---------------------------
(* Values for the constants of Confirmations.                                *)
EXTENDS Confirmations, TLC

MCSymmetry == Permutations(Slots)
=============================================================================
