--------------------------- MODULE MCDamageChain ---------------------------
(***************************************************************************)
(* A recording of three decisions between three stacks, of which one is a  *)
(* phantom, and two fitted profiles: one too weak, one too strong.         *)
(***************************************************************************)
EXTENDS DamageChain, TLC

StackOf(n, each, phantom) ==
    [maxhp |-> each, top |-> each, maxcount |-> n, count |-> n, alive |-> TRUE, phantom |-> phantom]

TheStacks == (1 :> StackOf(2, 3, FALSE)) @@ (2 :> StackOf(3, 2, FALSE)) @@ (3 :> StackOf(2, 2, TRUE))

Hit(by, on, amount) == [by |-> by, on |-> on, amount |-> amount]
Heal(on, amount) == [on |-> on, amount |-> amount]
DeedOf(type, actor, target, hits, heals) ==
    [type |-> type, actor |-> actor, target |-> target, hits |-> hits, heals |-> heals]

TheDeeds ==
    {DeedOf("MELEE_ATTACK", 1, 2, <<Hit(1, 2, 2), Hit(2, 1, 4)>>, << >>),
     DeedOf("MELEE_ATTACK", 1, 2, <<Hit(1, 2, 4)>>, <<Heal(2, 2)>>),
     DeedOf("RANGED_ATTACK", 2, 1, <<Hit(2, 1, 3)>>, << >>),
     DeedOf("MELEE_ATTACK", 2, 1, <<Hit(2, 1, 8)>>, << >>),
     DeedOf("MELEE_ATTACK", 1, 3, <<Hit(1, 3, 2)>>, << >>),
     DeedOf("MELEE_ATTACK", 1, 2, << >>, << >>),
     DeedOf("ABILITY", 2, 1, <<Hit(2, 1, 1), Hit(2, 3, 1)>>, <<Heal(2, 3)>>),
     DeedOf("DEFEND", 2, 0, << >>, <<Heal(1, 2)>>)}

TheRates == ("generic" :> 2) @@ ("weak" :> 1) @@ ("strong" :> 5)
=============================================================================
