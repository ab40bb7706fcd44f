---------------------------- MODULE MCSidePanel ----------------------------
(***************************************************************************)
(* Model-checking instances of SidePanel: two decisions, or one decision   *)
(* and one state that is the enemy's, and one call of the panel at a time. *)
(***************************************************************************)
EXTENDS SidePanel

CONSTANTS d1, d2, foe, ask1

MCViews     == {d1, foe}
MCDecisions == {d1}
TwoMoves    == {d1, d2}
MCAsks      == {ask1}
=============================================================================
