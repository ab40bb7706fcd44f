----------------------------- MODULE TrustedLog -----------------------------
(***************************************************************************)
(* What the session store promises its readers: at any time it either has  *)
(* no copy of the battle it can vouch for, or a copy of the half-turns     *)
(* 1..n of the current battle.  A copy it vouches for only grows; it never *)
(* rolls back to an earlier half-turn without first being withdrawn, and   *)
(* a copy of one battle is never carried over to another.                  *)
(***************************************************************************)
EXTENDS Integers, Sequences

CONSTANTS Battles, NoBattle, NoCopy

VARIABLES battle, copy

\* The history of the half-turns 1..Len(log), without a hole.
Prefix(log) == \A i \in 1..Len(log) : log[i] = i

Init == battle = NoBattle /\ copy = NoCopy

\* The user enters another battle.
Open == /\ battle' \in Battles \ {battle}
        /\ copy' = NoCopy

Withdraw == /\ copy # NoCopy /\ copy' = NoCopy
            /\ battle' = battle

\* A first copy, or a longer one than before.
Vouch == /\ battle \in Battles /\ battle' = battle
         /\ copy' # NoCopy /\ Prefix(copy')
         /\ copy # NoCopy => Len(copy') > Len(copy)

Next == Open \/ Withdraw \/ Vouch

Spec == Init /\ [][Next]_<<battle, copy>>
=============================================================================
