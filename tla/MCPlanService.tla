--------------------------- MODULE MCPlanService ---------------------------
(***************************************************************************)
(* Model-checking instance of PlanService: two requests beside captures of *)
(* two battles, one of which is the demo battle of the debug route.        *)
(***************************************************************************)
EXTENDS PlanService

CONSTANTS b1, b2, t1, t2

MCBattles == {b1, b2}
MCThreads == {t1, t2}
MCTurns   == 1..2
MCDirty   == {}
MCRough   == {2}            \* 1 of 2 is over the limit
MCCorrupt == {}
MCTimes   == {0}
MCOver    == {}
MCOurs    == {<<>>, <<1>>, <<1, 2>>}
MCNoMoves == {<<>>}

MCBodies == [kind : {"turns"}, turns : {<<1>>, <<1, 2>>}]
            \cup {[kind |-> "static", turns |-> <<>>]}
=============================================================================
