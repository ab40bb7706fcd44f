---------------------------- MODULE StackHealth ----------------------------
(***************************************************************************)
(* Hit points of a stack of creatures, from the class RawEntity of the     *)
(* replay parser (python/hwm_solver/protocol/replay.py).  A stack is any   *)
(* record with the fields maxhp, top, maxcount, count, alive and phantom:  *)
(* "count" creatures, of which the first has "top" hit points left and the *)
(* others have "maxhp".                                                    *)
(***************************************************************************)
EXTENDS Integers

AtLeastOne(n) == IF n > 1 THEN n ELSE 1

\* How many creatures of m hit points have n hit points together.
Creatures(n, m) == (n + m - 1) \div m

TotalHp(s) ==
    IF ~s.alive \/ s.count <= 0 THEN 0
    ELSE (s.count - 1) * AtLeastOne(s.maxhp)
         + (IF s.top > 0 THEN s.top ELSE AtLeastOne(s.maxhp))

\* The stack s with n > 0 hit points.
WithHp(s, n) ==
    LET k == Creatures(n, AtLeastOne(s.maxhp))
    IN  [s EXCEPT !.count = k, !.top = n - (k - 1) * AtLeastOne(s.maxhp), !.alive = TRUE]

Removed(s) == [s EXCEPT !.count = 0, !.top = 0, !.alive = FALSE]

\* Faulty: more creatures may rise than the stack ever had.
ApplyHealUncapped(s, amount) ==
    IF amount <= 0 \/ s.maxhp <= 0 \/ s.maxcount <= 0 THEN s
    ELSE WithHp(s, TotalHp(s) + amount)

ApplyHeal(s, amount) ==
    LET cap      == s.maxcount * s.maxhp
        healed   == TotalHp(s) + amount
        restored == IF cap < healed THEN cap ELSE healed
    IN  IF amount <= 0 \/ s.maxhp <= 0 \/ s.maxcount <= 0 THEN s ELSE WithHp(s, restored)

\* Faulty: damage that kills no creature is forgotten.
ApplyDamageByCreature(s, amount) ==
    LET left == s.count - amount \div AtLeastOne(s.maxhp)
    IN  IF amount <= 0 \/ s.count <= 0 \/ s.maxhp <= 0 THEN s
        ELSE IF s.phantom \/ left <= 0 THEN Removed(s)
        ELSE [s EXCEPT !.count = left]

\* Positive damage dissipates a phantom, however strong.
ApplyDamage(s, amount) ==
    LET remaining == TotalHp(s) - amount
    IN  IF amount <= 0 \/ s.count <= 0 \/ s.maxhp <= 0 THEN s
        ELSE IF s.phantom \/ remaining <= 0 THEN Removed(s)
        ELSE WithHp(s, remaining)

\* A stack that is standing has as many creatures as its hit points need.
Whole(s) == s.alive => /\ 0 < s.count /\ s.count <= s.maxcount
                       /\ 0 < s.top /\ s.top <= s.maxhp
=============================================================================
