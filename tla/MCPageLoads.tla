---------------------------- MODULE MCPageLoads ----------------------------
(***************************************************************************)
(* Model-checking instance of PageLoads: three half-turns, three loads,    *)
(* restarts and losses in between.                                         *)
(***************************************************************************)
EXTENDS PageLoads

CONSTANT b1

MCBattles == {b1}
MCTurns   == 1..3
MCNone    == {}
MCTimes   == {1}
MCBodies  == {StaticBody} \cup {Stream(n) : n \in MCTurns}
             \cup {Poll(n) : n \in MCTurns}
=============================================================================
