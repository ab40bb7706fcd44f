--------------------------- MODULE MCSessionStore ---------------------------
(***************************************************************************)
(* Model-checking instance of SessionStore: two battles, five half-turns,  *)
(* bodies chosen so that gaps, replays, unknown commands, a transiently    *)
(* inconsistent state and the 30% risk threshold all occur.                *)
(***************************************************************************)
EXTENDS SessionStore

CONSTANTS b1, b2

MCBattles == {b1, b2}
MCTurns   == 1..5
MCDirty   == {5}        \* half-turn 5 has an unknown command
MCRough   == {2}        \* 1 unresolved of 3 is over the limit, 1 of 4 is not
MCCorrupt == {<<1, 2>>} \* an overlap that half-turn 3 resolves
MCTimes   == {0, 1, 3}

Streams == {<<1>>, <<1, 2>>, <<1, 2, 3, 4>>, <<2, 3>>, <<4>>, <<5>>}

MCBodies == [kind : {"turns"}, turns : Streams]
            \cup {[kind |-> "static", turns |-> <<4>>],
                  [kind |-> "broken", turns |-> <<2>>],
                  [kind |-> "heartbeat", turns |-> <<>>],
                  [kind |-> "empty", turns |-> <<>>]}
=============================================================================
