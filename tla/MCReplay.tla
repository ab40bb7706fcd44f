------------------------------ MODULE MCReplay ------------------------------
(***************************************************************************)
(* Four small battles for the replay parser: a melee, a magic and a board  *)
(* one, and one of the abilities that the scripts audit.  Records are      *)
(* those that occur together in recorded battles.                          *)
(***************************************************************************)
EXTENDS EvidenceAudit, TLC

NoTurns == [k \in Timed |-> 0]

Creature(owner, traits, p, n, hp) ==
    [owner |-> owner, creature |-> "c", traits |-> traits, spells |-> {}, maxhp |-> hp, top |-> hp,
     maxcount |-> n, count |-> n, mana |-> 0, pos |-> p, shots |-> 0, speed |-> 2, attack |-> 6,
     defense |-> 3, atb |-> 1, morale |-> 0, alive |-> TRUE, phantom |-> FALSE, defending |-> FALSE, rune |-> {},
     effects |-> {}, turns |-> NoTurns]

Spell(name, cost, school) == [name |-> name, cost |-> cost, school |-> school]

Hero(owner, mana) ==
    [Creature(owner, {"hero"}, <<1, 4>>, 1, 9999) EXCEPT
        !.mana = mana,
        !.spells = {Spell("raisedead", 3, "dark"), Spell("phantom_forces", 2, "air"),
                    Spell("fast", 2, "light"), Spell("mfast", 4, "light")}]

M(a, x, y) == Wire("m", "", <<a, x, y>>)
D(a, t, n) == Wire("d", "", <<a, t, n>>)
S(code, nums) == Wire("S", code, nums)
Rec(tag, nums) == Wire(tag, "", nums)
Proc2(code, a, t) == S(code, <<a, t>>)

MeleeStacks ==
    (1 :> Creature(1, {"shieldbash", "pawstrike", "stoning", "entrenchment"}, <<2, 2>>, 2, 3))
    @@ (2 :> Creature(2, {"cripplingwound", "stoning", "weakeningstrike", "armoured"}, <<4, 2>>, 3, 2))
    @@ (3 :> [Creature(1, {"shooter", "doubleshoot", "cripplingwound", "endurance"}, <<3, 1>>, 2, 2)
                EXCEPT !.shots = 3])

MeleeActions ==
    (1 :> {<<M(1, 3, 2), D(1, 2, 2), D(2, 1, 1)>>,
           <<M(1, 3, 2), D(1, 2, 1), Wire("o", "o", <<1>>), D(2, 1, 2), Proc2("sta", 2, 1)>>,
           <<M(1, 3, 2), D(1, 2, 1), Proc2("sta", 1, 2), Rec("b", <<2, 5, 3>>), Rec("I", <<2, 1>>)>>,
           <<M(1, 3, 2), D(1, 2, 1), M(1, 2, 2)>>,
           <<M(1, 2, 3)>>, <<M(1, 2, 2)>>, <<S("def", <<1>>)>>, <<Rec("w", <<1>>)>>})
    @@ (2 :> {<<M(2, 3, 2), D(2, 1, 3), Proc2("wnd", 2, 1), D(1, 2, 1), Proc2("sta", 1, 2)>>,
              <<M(2, 3, 1), D(2, 3, 2), Rec("W", <<2, 3>>)>>,
              <<M(2, 3, 2), D(2, 1, 2), D(2, 3, 1)>>,
              <<M(2, 4, 3), Wire("l", "badmorale", <<2>>)>>})
    @@ (3 :> {<<M(3, 2, 2), D(3, 2, 1), Proc2("wnd", 3, 2)>>,
              <<M(3, 4, 2), D(3, 2, 4)>>,
              <<D(3, 2, 5), Rec("h", <<2>>)>>,
              <<Rec("u", <<3>>), Rec("w", <<3>>)>>})

MagicStacks ==
    (1 :> Hero(1, 6))
    @@ (2 :> [Creature(1, {"undead", "manafeed", "gribbomb"}, <<2, 2>>, 3, 3) EXCEPT !.mana = 2, !.top = 2, !.count = 2])
    @@ (3 :> [Creature(2, {"manadrain", "mightyslam", "bloodlust", "wardingarrows"}, <<4, 2>>, 3, 2)
                EXCEPT !.count = 2])
    @@ (4 :> [Creature(1, {"caster"}, <<2, 3>>, 2, 2) EXCEPT !.mana = 3, !.spells = {Spell("slow", 2, "dark")}])

Clone == [Creature(1, {"caster"}, <<0, 0>>, 1, 2) EXCEPT !.phantom = TRUE, !.count = 0, !.top = 0, !.maxcount = 0,
                                                          !.alive = FALSE, !.mana = 3]

Recruit == [Creature(1, {"undead"}, <<0, 0>>, 1, 2) EXCEPT !.count = 0, !.top = 0, !.maxcount = 0, !.alive = FALSE]

MagicActions ==
    (1 :> {<<S("rsd", <<1, 2, 3, 4>>)>>,
           <<Rec("P", <<5>>), Rec("M", <<5, 1>>), Rec("s", <<5, 3, 3, 2>>), S("phm", <<1, 5, 2, 4, 0>>)>>,
           <<Rec("P", <<5>>), Rec("M", <<5, 1>>), Rec("s", <<5, 3, 3, 2>>), S("phm", <<1, 5, 3, 4, 0>>)>>,
           <<S("fst", <<1, 2, 4, 2, 3>>), S("fst", <<1, 4, 0, 2, 3>>)>>,
           <<S("mar", <<1, 3, 2, 2>>)>>,
           <<S("psc", <<1, 3, 1, 62>>)>>,
           <<Rec("M", <<6, 2>>)>>,
           <<Wire("i", "0100", <<1>>)>>})
    @@ (2 :> {<<S("mfd", <<2, 1, 2>>)>>, <<S("mfd", <<2, 1, 1>>)>>,
              <<S("bom", <<2>>), D(2, 3, 1)>>,
              <<M(2, 3, 2), D(2, 3, 2), S("agl", <<2>>)>>})
    @@ (3 :> {<<M(3, 3, 2), D(3, 2, 2), Rec("z", <<3, 4, 2>>), S("rgl", <<0, 3, 2>>)>>,
              <<M(3, 3, 3), D(3, 4, 1), S("msl", <<3>>), Rec("s", <<6, 5, 4, 2>>)>>,
              <<M(3, 4, 2), D(3, 5, 1), S("blt", <<3, 1>>), Rec("T", <<3, 5>>)>>,
              <<Rec("Y", <<3>>)>>})
    @@ (4 :> {<<S("slw", <<4, 3, 2, 2, 1>>)>>, <<S("tel", <<4, 2, 1, 2, 1>>)>>})

BoardStacks ==
    (1 :> [Creature(1, {"big"}, <<1, 1>>, 2, 2) EXCEPT !.rune = {"available"}])
    @@ (2 :> Creature(1, {"carrier", "flyer"}, <<4, 1>>, 2, 2))
    @@ (3 :> Creature(2, {"big"}, <<4, 3>>, 2, 2))
    @@ (4 :> Creature(1, {}, <<3, 3>>, 2, 2))

BoardActions ==
    (1 :> {<<S("rn2", <<1, 1>>), M(1, 2, 2), D(1, 3, 1), S("rn2", <<1, 0>>)>>,
           <<M(1, 3, 2), D(1, 3, 1)>>, <<M(1, 3, 3), D(1, 3, 1)>>, <<M(1, 2, 1)>>, <<S("rn2", <<1, 1>>)>>})
    @@ (2 :> {<<S("car", <<2, 4, 4, 1, 2, 4, 0>>)>>, <<M(2, 5, 2), D(2, 3, 1)>>, <<M(2, 3, 1)>>})
    @@ (3 :> {<<M(3, 3, 2), D(3, 1, 1)>>, <<M(3, 4, 3), D(3, 4, 1)>>, <<M(3, 3, 3), D(3, 4, 1), D(3, 1, 1)>>,
              <<M(3, 4, 2), D(3, 2, 1)>>})

AbilityStacks ==
    (1 :> Creature(1, {"six_heads", "powerstrike", "cripplingwound", "packhunter", "venom", "torpor"}, <<2, 2>>, 2, 3))
    @@ (2 :> Creature(2, {"powerstrike", "cripplingwound", "childofthelight", "taunt", "gribbomb", "auraoffirevul"},
                      <<4, 2>>, 3, 2))
    @@ (3 :> Creature(1, {"packhunter", "cripplingwound", "stonegarden", "stoning", "deathwail"}, <<3, 3>>, 2, 2))
    @@ (5 :> Creature(2, {"shieldguard"}, <<5, 3>>, 1, 2))
    @@ (4 :> [Hero(2, 5) EXCEPT !.spells = {Spell("fast", 2, "light"), Spell("fireball", 3, "fire")}])

AbilityActions ==
    (1 :> {<<M(1, 3, 2), D(1, 2, 1), Proc2("wnd", 1, 2), D(2, 1, 1), D(1, 2, 1)>>,
           <<M(1, 3, 2), D(1, 2, 1), Rec("b", <<2, 5, 2>>), Rec("I", <<2, 1>>), Wire("i", "0000", <<2>>)>>,
           <<M(1, 3, 2), D(1, 2, 2), S("tor", <<1, 2, 0, 0>>), D(3, 2, 1), D(1, 5, 1)>>,
           <<M(1, 2, 3), D(1, 3, 1), Proc2("wnd", 1, 3)>>})
    @@ (2 :> {<<M(2, 3, 2), D(2, 1, 2), Proc2("wnd", 2, 1), D(1, 2, 1), Rec("b", <<2, 4, 2>>), Rec("I", <<2, 1>>),
                Proc2("wnd", 1, 2)>>,
              <<S("bom", <<2>>), D(2, 3, 1)>>,
              <<M(2, 4, 3), D(2, 3, 1), Rec("r", <<3, 2, 3>>), Rec("b", <<3, 1, 3>>), Rec("I", <<3, 2>>), D(3, 2, 1)>>})
    @@ (3 :> {<<D(3, 2, 1), Proc2("sta", 3, 2), D(2, 3, 1), Proc2("wnd", 2, 3)>>,
              <<M(3, 3, 2), D(3, 2, 1), Proc2("wnd", 3, 2), D(3, 2, 1), Proc2("wnd", 3, 2)>>,
              <<M(3, 4, 3), D(3, 5, 1), Proc2("wnd", 3, 2), D(3, 2, 1)>>})
    @@ (4 :> {<<S("fst", <<4, 2, 2, 2, 3>>)>>, <<S("fst", <<4, 2, 2, 2, 3>>), S("fst", <<4, 4, 2, 2, 3>>)>>,
              <<S("fbl", <<4, 1, 3, 2>>), D(4, 1, 2)>>, <<S("ltn", <<4, 3, 1, 1>>)>>})

TheBattles ==
    {[stacks |-> MeleeStacks, opening |-> {<< >>}, actions |-> MeleeActions],
     [stacks |-> MagicStacks, opening |-> {<< >>, <<S("agl", <<3>>)>>}, actions |-> MagicActions],
     [stacks |-> BoardStacks, opening |-> {<< >>}, actions |-> BoardActions],
     [stacks |-> AbilityStacks, opening |-> {<< >>}, actions |-> AbilityActions]}

TheSummons == (1 :> Clone) @@ (2 :> Recruit)
=============================================================================
