---------------------------- MODULE MCMembership ----------------------------
(* Two people and the bot's own handlings, small enough for liveness.      *)
EXTENDS Membership, TLC
=============================================================================
