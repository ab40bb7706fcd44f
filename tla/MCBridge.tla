------------------------------ MODULE MCBridge ------------------------------
(***************************************************************************)
(* Model-checking instance of Bridge: one decision and one state that is   *)
(* the enemy's, two publications in a run of the daemon.                   *)
(***************************************************************************)
EXTENDS Bridge

CONSTANTS d1, foe

MCViews     == {d1, foe}
MCDecisions == {d1}
=============================================================================
