---------------------------- MODULE AreaEvidence ----------------------------
(***************************************************************************)
(* The scripts that compare who was hit with who stood where:              *)
(* python/hwm_solver/ability/{six_heads, packhunter, shieldguard, taunt,   *)
(* deathwail, gribbomb, gribbomb_selfdestruct, teleport, portal}_evidence. *)
(***************************************************************************)
EXTENDS Evidence

Beside(ents, u, v) == Adjacent(ents[u], ents[u].pos, ents[v])

\* Whom stack a hits in a decision.
HitBy(cmds, a) == {cmds[i].target : i \in {j \in 1..Len(cmds) : cmds[j].op = "DAMAGE" /\ cmds[j].actor = a}}

Melee(d, carriers) ==
    d.actor \in carriers /\ d.type = "MELEE_ATTACK" /\ {d.actor, d.target} \subseteq DOMAIN d.before

\* How an observed set differs from the expected one.
Compared(expected, observed) ==
    [exact |-> expected = observed, missing |-> expected \ observed, extra |-> observed \ expected]

-----------------------------------------------------------------------------
SixHeadsPass(dir) == FirstPass(dir, "six_heads")

\* Where the attacker is taken to stand when it first hits its target: the scan asks
\* for records of a name that the decoder does not give, so none is ever found.
AttackAnchor(d) ==
    LET hits  == Hits(d.cmds, d.actor, d.target)
        moves == {i \in 1..Len(d.cmds) : /\ d.cmds[i].op = "MOVEMENT" /\ d.cmds[i].actor = d.actor
                                         /\ \A h \in hits : i < h}
    IN  IF moves = {} THEN d.before[d.actor].pos ELSE Cell(d.cmds, Greatest(moves))

SixHeadsRows(d) ==
    LET anchor  == AttackAnchor(d)
        near    == {u \in Visible(d.before) \ {d.actor} : Adjacent(d.before[d.actor], anchor, d.before[u])}
        foes    == {u \in near : Enemies(d.before[u], d.before[d.actor])}
        victims == HitBy(d.cmds, d.actor)
    IN  When(Melee(d, SixHeadsPass(d.dir).carriers),
             [anchor    |-> anchor,
              targets   |-> Compared(foes, victims),
              primary   |-> d.target \in foes,
              friends   |-> near \ foes,
              friendly  |-> {u \in victims : Relation(d.before, d.actor, u) = "same_owner"},
              repeated  |-> Len(Dealt(d.cmds, d.actor)) > Cardinality(victims)])

-----------------------------------------------------------------------------
PackhunterPass(dir) == FirstPass(dir, "packhunter")

SameCreatureAllies(ents, a) ==
    {u \in Visible(ents) \ {a} : ents[u].owner = ents[a].owner /\ ents[u].creature = ents[a].creature}

CandidateHelpers(ents, a, t) ==
    {u \in SameCreatureAllies(ents, a) : "packhunter" \in ents[u].traits /\ Beside(ents, u, t)}

\* Attacks in which an ally could have helped, and which allies did, and when.
PackhunterRows(d) ==
    LET helpers == CandidateHelpers(d.before, d.actor, d.target)
        helping == UNION {Hits(d.cmds, u, d.target) : u \in SameCreatureAllies(d.before, d.actor)}
        primary == Hits(d.cmds, d.actor, d.target)
        counter == Hits(d.cmds, d.target, d.actor)
    IN  When(Melee(d, PackhunterPass(d.dir).carriers) /\ helpers # {},
             [hunters  |-> Compared(helpers, {d.cmds[i].actor : i \in helping}),
              early    |-> \E i \in helping : primary # {} /\ i < Least(primary),
              answered |-> \E i \in helping : counter # {} /\ i > Least(counter)])

-----------------------------------------------------------------------------
ShieldguardPass(dir) == FirstPass(dir, "shieldguard")

\* Attacks on a stack beside which guards of its side stand: which guards were hit too.
ShieldguardRows(d) ==
    LET carriers == ShieldguardPass(d.dir).carriers
        fights   == d.type \in Attacks /\ Relation(d.before, d.actor, d.target) = "other_owner"
        guards   == {u \in (carriers \cap DOMAIN d.before) \ {d.target} :
                        d.before[u].alive /\ d.before[u].owner = d.before[d.target].owner}
        near     == {u \in guards \cap Visible(d.before) : Beside(d.before, u, d.target)}
    IN  When(carriers # {} /\ fights /\ near # {},
             [shared   |-> Compared(near, guards \cap HitBy(d.cmds, d.actor)),
              unharmed |-> Hits(d.cmds, d.actor, d.target) = {}])

-----------------------------------------------------------------------------
TauntPass(dir) == FirstPass(dir, "taunt")

\* Attacks that a taunting stack might have drawn on itself: on the stack itself while
\* an ally stands beside it, or on such an ally.
TauntRows(d) ==
    LET carriers == TauntPass(d.dir).carriers
        foes     == {u \in carriers \cap DOMAIN d.before :
                        d.before[u].alive /\ Relation(d.before, u, d.actor) = "other_owner"}
        allies   == [u \in foes |-> {v \in Visible(d.before) \ {u} :
                        Relation(d.before, u, v) = "same_owner" /\ Beside(d.before, u, v)}]
        drawing  == {u \in foes : allies[u] # {}}
        context  == CASE d.target \in drawing -> "carrier_target_with_adjacent_ally"
                      [] d.target \in carriers -> "none"
                      [] \E u \in drawing : d.target \in allies[u] -> "adjacent_ally_target"
                      [] OTHER -> "none"
        specials == {i \in 1..Len(d.cmds) : d.cmds[i].op = "SPECIAL"}
    IN  When(/\ d.type \in Attacks /\ {d.actor, d.target} \subseteq DOMAIN d.before
             /\ foes # {},
             [context  |-> context,
              codes    |-> IF context = "none" THEN {} ELSE Codes(d.cmds, specials),
              involved |-> IF context = "none" THEN {}
                           ELSE Codes(d.cmds, {i \in specials : {d.cmds[i].actor, d.cmds[i].target} \cap carriers # {}}),
              answers  |-> IF context = "none" THEN {}
                           ELSE Codes(d.cmds, {i \in specials : d.cmds[i].actor = d.target})])

-----------------------------------------------------------------------------
TeleportPass(dir) == FirstPass(dir, "teleport")

\* The movement of a carrier, leg by leg; the scan asks for the same name of records.
TeleportRows(d) ==
    LET legs == {i \in 1..Len(d.cmds) : d.cmds[i].op = "MOVEMENT" /\ d.cmds[i].actor = d.actor}
        origin(i) == LET former == {j \in legs : j < i}
                     IN  IF former = {} THEN d.before[d.actor].pos ELSE Cell(d.cmds, Greatest(former))
    IN  When(d.actor \in TeleportPass(d.dir).carriers \cap DOMAIN d.before,
             {[within |-> Distance(origin(i), Cell(d.cmds, i)) <= Larger(0, d.before[d.actor].speed),
               there  |-> d.actor \in DOMAIN d.after /\ d.after[d.actor].pos = Cell(d.cmds, i)] : i \in legs})

-----------------------------------------------------------------------------
PortalPass(dir) == FirstPass(dir, "portal")

\* Carriers that stood before a decision and are gone or dead after it.
Died(d, carriers) == {u \in carriers : Alive(d.before, u) /\ ~Alive(d.after, u)}

Related(cmds, carriers) ==
    {i \in 1..Len(cmds) : {cmds[i].actor, cmds[i].target} \cap carriers # {}}

\* What concerns the carriers in any decision of their battle.
PortalRows(d) ==
    LET carriers == PortalPass(d.dir).carriers
        related  == Related(d.cmds, carriers)
        hits     == {i \in related : d.cmds[i].op = "DAMAGE"}
        specials == {i \in related : d.cmds[i].op = "SPECIAL"}
        stayed   == carriers \cap DOMAIN d.before \cap DOMAIN d.after
    IN  When(carriers # {},
             [acts     |-> d.actor \in carriers,
              ops      |-> {d.cmds[i].op : i \in related},
              outgoing |-> {i \in hits : d.cmds[i].actor \in carriers /\ d.cmds[i].target \notin carriers},
              incoming |-> {i \in hits : d.cmds[i].target \in carriers /\ d.cmds[i].actor \notin carriers},
              sources  |-> Codes(d.cmds, {i \in specials : d.cmds[i].actor \in carriers}),
              targets  |-> Codes(d.cmds, {i \in specials : d.cmds[i].target \in carriers}),
              died     |-> Died(d, carriers),
              moved    |-> {u \in stayed : d.before[u].pos # d.after[u].pos},
              resized  |-> {u \in stayed : d.before[u].count # d.after[u].count}])

-----------------------------------------------------------------------------
\* Besides the carriers, the morale of every stack of a battle that has one.
DeathwailPass(dir) ==
    LET pass == FirstPass(dir, "deathwail")
    IN  [carriers |-> pass.carriers, errors |-> pass.errors,
         morale   |-> IF pass.carriers = {} THEN << >>
                      ELSE [u \in DOMAIN dir.stacks |-> dir.stacks[u].morale]]

\* The fewest moves between two stacks.
Gap(s, t) ==
    LET steps == {Distance(c, e) : c \in Cells(s, s.pos), e \in Cells(t, t.pos)}
    IN  Least(steps)

\* The damage that the description gives, in quarters of a hit point; Nothing beyond
\* three cells.
ReferenceDamage(count, morale, gap) ==
    IF gap \notin 1..3 THEN Nothing
    ELSE Larger(0, 15 - morale) * Larger(0, count) * (CASE gap = 1 -> 4 [] gap = 2 -> 2 [] OTHER -> 1)

\* The hits of a carrier, compared with the description where that says anything.
DeathwailRows(d) ==
    LET pass == DeathwailPass(d.dir)
        hits == {i \in 1..Len(d.cmds) : d.cmds[i].op = "DAMAGE" /\ d.cmds[i].actor = d.actor
                                        /\ d.cmds[i].target \in DOMAIN d.before}
        hit(i) == LET t   == d.cmds[i].target
                      n   == d.cmds[i].amount
                      gap == Gap(d.before[d.actor], d.before[t])
                      ref == IF t \in DOMAIN pass.morale
                             THEN ReferenceDamage(d.before[d.actor].count, pass.morale[t], gap) ELSE Nothing
                  IN  [relation |-> Relation(d.before, d.actor, t), gap |-> gap, comparable |-> ref # Nothing,
                       exact |-> ref = 4 * n, floor |-> ref # Nothing /\ ref \div 4 = n,
                       ceil  |-> ref # Nothing /\ (ref + 3) \div 4 = n]
    IN  When(d.actor \in pass.carriers \cap DOMAIN d.before /\ HitBy(d.cmds, d.actor) # {},
             [many |-> Cardinality(HitBy(d.cmds, d.actor)) > 1, hits |-> {hit(i) : i \in hits}])

-----------------------------------------------------------------------------
GribbombPass(dir) == FirstPass(dir, "gribbomb")

\* Deaths of carriers in any decision, and what the dying ones did in it.
GribbombRows(d) ==
    LET carriers == GribbombPass(d.dir).carriers
        related  == Related(d.cmds, carriers)
        died     == Died(d, carriers)
        own      == {i \in related : d.cmds[i].actor \in died}
        hits     == {i \in own : d.cmds[i].op = "DAMAGE"}
    IN  When(carriers # {} /\ (d.actor \in carriers \/ related # {}),
             [codes  |-> Codes(d.cmds, {i \in related : d.cmds[i].op = "SPECIAL" /\ d.cmds[i].actor \in carriers}),
              died   |-> died,
              hits   |-> hits,
              others |-> {i \in hits : d.cmds[i].actor # d.actor},
              marks  |-> Codes(d.cmds, {i \in own : d.cmds[i].op = "SPECIAL"})])

SelfDestructPass(dir) == FirstPass(dir, "gribbomb")

\* A bom-record of the actor that has nothing but zeros after it.
ValidatedBombMarker(c, a) == c.code = "bom" /\ c.actor = a /\ c.zeros

\* What a decision of a carrier was: its death, explained by hits of others or not, and
\* the bombs it set off with the stacks around it.
SelfDestruct(d) ==
    LET ents     == d.before
        all      == 1..Len(d.cmds)
        external == {i \in all : d.cmds[i].op = "DAMAGE" /\ d.cmds[i].target = d.actor /\ d.cmds[i].actor # d.actor}
        outgoing == {i \in all : d.cmds[i].op = "DAMAGE" /\ d.cmds[i].actor = d.actor /\ d.cmds[i].target # d.actor}
        bombs    == {i \in all : d.cmds[i].op = "SPECIAL" /\ d.cmds[i].code = "bom" /\ d.cmds[i].actor = d.actor}
        valid    == {i \in bombs : /\ ValidatedBombMarker(d.cmds[i], d.actor)
                                   /\ "gribbomb" \in Traits(ents, d.actor)}
        around   == {u \in Visible(ents) \ {d.actor} : Beside(ents, d.actor, u)}
    IN  [dead      |-> Died(d, {d.actor}) # {},
         explained |-> external # {},
         harming   |-> outgoing # {},
         malformed |-> bombs \ valid,
         bombs     |-> valid,
         survives  |-> valid # {} /\ Alive(d.after, d.actor),
         targets   |-> IF valid = {} THEN Compared({}, {})
                       ELSE Compared(around, {d.cmds[i].target : i \in outgoing})]

SelfDestructRows(d) == When(d.actor \in SelfDestructPass(d.dir).carriers, SelfDestruct(d))
=============================================================================
