---------------------------- MODULE ProcEvidence ----------------------------
(***************************************************************************)
(* The scripts that look for what a carrier's own attack or decision does  *)
(* to a stack: python/hwm_solver/ability/{venom, shootbash, purge,         *)
(* hexingattack, hexingattack_wire, ragingblood, torpor_lifecycle,         *)
(* stonegarden, spider, spider_wire}_evidence.py.                          *)
(***************************************************************************)
EXTENDS Evidence

\* A decision of a carrier that hits a stack of the battle.
Strikes(d, carriers) ==
    d.actor \in carriers /\ d.type \in Attacks /\ {d.actor, d.target} \subseteq DOMAIN d.before

-----------------------------------------------------------------------------
VenomPass(dir) == FirstPass(dir, "venom")

\* An attack of a carrier: what was marked on the target, what effect appeared on it.
VenomRows(d) ==
    When(Strikes(d, VenomPass(d.dir).carriers),
         [codes |-> Codes(d.cmds, Marks(d.cmds, d.actor, d.target)), added |-> Added(d, d.target)])

\* What a stack under one of the candidate effects lost in a decision, and how much of
\* it the records say.
VenomLifecycle(d, candidates) ==
    {[stack |-> u, active |-> u = d.actor,
      loss   |-> Larger(0, TotalHp(d.before[u]) - TotalHp(d.after[u])),
      direct |-> Dealing(d.cmds, {i \in 1..Len(d.cmds) : d.cmds[i].op = "DAMAGE" /\ d.cmds[i].target = u})] :
     u \in {v \in DOMAIN d.before \cap DOMAIN d.after :
               d.before[v].alive /\ d.before[v].effects \cap candidates # {}}}

-----------------------------------------------------------------------------
ShootbashPass(dir) == FirstPass(dir, "shootbash")

\* Only marks of a shot count; the delay of the target is what its place in the turn
\* order changed by.
ShootbashRows(d) ==
    When(d.actor \in ShootbashPass(d.dir).carriers /\ d.type \in Attacks,
         [codes      |-> IF d.type # "RANGED_ATTACK" THEN {}
                         ELSE Codes(d.cmds, Marks(d.cmds, d.actor, d.target)),
          added      |-> Added(d, d.target),
          delay      |-> IF d.target \in DOMAIN d.before \cap DOMAIN d.after
                         THEN d.after[d.target].atb - d.before[d.target].atb ELSE 0,
          mechanical |-> Traits(d.before, d.target) \cap Mechanical # {},
          answered   |-> d.target # 0 /\ Answered(d.cmds, d.actor, d.target)])

-----------------------------------------------------------------------------
PurgePass(dir) == FirstPass(dir, "purge")

\* Effects that a dead target no longer has are cleaned up, not purged.
PurgeRows(d) ==
    LET survives == Alive(d.after, d.target)
        gone     == Lost(d, d.target)
    IN  When(Strikes(d, PurgePass(d.dir).carriers),
             [survives |-> survives,
              removed  |-> IF survives THEN gone ELSE {},
              cleaned  |-> IF survives THEN {} ELSE gone,
              codes    |-> Codes(d.cmds, Marks(d.cmds, d.actor, d.target))])

-----------------------------------------------------------------------------
HexingPass(dir) == FirstPass(dir, "hexingattack")

\* The S-records of an attack, those of the attacker on its target kept apart.
HexingRows(d) ==
    LET marks == Marks(d.cmds, d.actor, d.target)
        all   == {i \in 1..Len(d.cmds) : d.cmds[i].op = "SPECIAL"}
    IN  When(d.actor \in HexingPass(d.dir).carriers /\ d.type \in Attacks,
             [codes |-> Codes(d.cmds, marks), others |-> Codes(d.cmds, all \ marks),
              added |-> IF marks = {} THEN {} ELSE Added(d, d.target)])

HexingCodes == {"crs", "slw", "sff", "ray"}

\* The spell books of a directory, empty if its init.txt cannot be read.
HexingBooks(dir) == IF dir.init # "read" THEN << >> ELSE [u \in DOMAIN dir.stacks |-> dir.stacks[u].spells]

\* Every record of one of the four codes, in whatever decision: what its cost says of
\* its source, and whether it belongs to the attack that the decision is.
HexingWires(d) ==
    LET books   == HexingBooks(d.dir)
        book(u) == IF u \in DOMAIN books THEN books[u] ELSE {}
        wires   == {i \in 1..Len(d.cmds) : d.cmds[i].op = "SPECIAL" /\ d.cmds[i].code \in HexingCodes
                                           /\ Len(d.cmds[i].raw) = 5}
        fact(c)  == [code     |-> c.code,
                    paid     |-> c.raw[3] > 0,
                    hexing   |-> "hexingattack" \in Traits(d.before, c.raw[1]),
                    relation |-> Relation(d.before, c.raw[1], c.raw[2]),
                    bound    |-> d.type \in Attacks /\ c.raw[1] = d.actor /\ c.raw[2] = d.target,
                    exact    |-> {e.name : e \in {f \in book(c.raw[1]) : f.cost = c.raw[3] /\ c.raw[3] > 0}},
                    possible |-> {e.name : e \in {f \in book(c.raw[1]) : c.raw[3] \in 1..f.cost}}]
    IN  {fact(d.cmds[i]) : i \in wires}

-----------------------------------------------------------------------------
\* Besides the carriers, how many heroes each has on its side.
RagingPass(dir) ==
    LET heroes(o) == {u \in DOMAIN dir.stacks : "hero" \in dir.stacks[u].traits /\ dir.stacks[u].owner = o}
        pass      == FirstPass(dir, "ragingblood")
    IN  [pass EXCEPT !.carriers = {[stack |-> u, heroes |-> Cardinality(heroes(dir.stacks[u].owner))] : u \in @}]

\* What a decision changes of the carrier that takes it.
RagingRows(d) ==
    When(/\ d.actor \in {c.stack : c \in RagingPass(d.dir).carriers}
         /\ d.actor \in DOMAIN d.before \cap DOMAIN d.after,
         [codes   |-> {c.code : c \in {d.cmds[i] : i \in {j \in 1..Len(d.cmds) :
                                d.cmds[j].op = "SPECIAL" /\ d.cmds[j].actor = d.actor}}},
          added   |-> Added(d, d.actor),
          removed |-> Lost(d, d.actor),
          changed |-> {k \in {"attack", "defense", "speed", "atb"} :
                          d.after[d.actor][k] # d.before[d.actor][k]}])

-----------------------------------------------------------------------------
Ineligible == {"undead", "elemental"} \cup Mechanical

\* The decoder names no target of a tor-record: the script reads it from the digits.
IsTorporSignal(c, a, t) ==
    /\ c.op = "SPECIAL" /\ c.code = "tor" /\ c.actor = a
    /\ IF c.target # 0 THEN c.target = t ELSE RawField(c, 2) = t

\* A melee attack of a carrier, as far as it put its target to sleep.
TorporRows(d) ==
    LET signals == {i \in 1..Len(d.cmds) : IsTorporSignal(d.cmds[i], d.actor, d.target)}
    IN  When(/\ "torpor" \in Traits(d.before, d.actor)
             /\ d.type = "MELEE_ATTACK" /\ d.target # 0,
             [proc       |-> signals # {},
              ineligible |-> IF signals = {} THEN {} ELSE Traits(d.before, d.target) \cap Ineligible,
              asleep     |-> signals # {} /\ "proc_torpor" \in EffectsOf(d.after, d.target),
              answered   |-> signals # {} /\ Answered(d.cmds, d.actor, d.target),
              again      |-> "proc_torpor" \in EffectsOf(d.before, d.target)])

\* Stacks that slept before the decision and were really hit in it.
TorporWakes(d) ==
    LET hurting(u) == {i \in 1..Len(d.cmds) : /\ d.cmds[i].op = "DAMAGE" /\ d.cmds[i].target = u
                                              /\ d.cmds[i].amount > 0}
        wakes == {u \in DOMAIN d.before : /\ d.before[u].alive /\ "proc_torpor" \in d.before[u].effects
                                          /\ hurting(u) # {}}
    IN  {[stack |-> u, woken |-> "proc_torpor" \notin EffectsOf(d.after, u),
          answered |-> \E i \in hurting(u) : Hits(d.cmds, u, d.cmds[i].actor) # {}] : u \in wakes}

-----------------------------------------------------------------------------
StoneEffects == {"proc_stone", "sta", "stone"}

StonegardenPass(dir) == FirstPass(dir, "stonegarden")

\* A melee attack of a carrier: whether it petrified, and how many stacks and creatures
\* were stone before it.
StonegardenRows(d) ==
    LET stones == {u \in Visible(d.before) : d.before[u].effects \cap StoneEffects # {}}
        add[S \in SUBSET stones] ==
            IF S = {} THEN 0 ELSE LET u == CHOOSE u \in S : TRUE IN Larger(0, d.before[u].count) + add[S \ {u}]
    IN  When(Strikes(d, StonegardenPass(d.dir).carriers) /\ d.type = "MELEE_ATTACK",
             [proc      |-> \E i \in Marks(d.cmds, d.actor, d.target) : d.cmds[i].code = "sta",
              already   |-> d.before[d.target].effects \cap StoneEffects # {},
              stacks    |-> Cardinality(stones),
              creatures |-> add[stones]])

-----------------------------------------------------------------------------
SpiderPass(dir) == FirstPass(dir, "spider")

\* The S-records of a carrier whose targets are known.
SpiderRows(d) ==
    LET marks == {i \in 1..Len(d.cmds) : /\ d.cmds[i].op = "SPECIAL" /\ d.cmds[i].actor = d.actor
                                         /\ d.cmds[i].target \in DOMAIN d.before \cup DOMAIN d.after}
    IN  When(d.actor \in SpiderPass(d.dir).carriers,
             [moved   |-> /\ d.actor \in DOMAIN d.before \cap DOMAIN d.after
                          /\ d.before[d.actor].pos # d.after[d.actor].pos,
              targets |-> [k \in Codes(d.cmds, marks) |-> {d.cmds[i].target : i \in {j \in marks : d.cmds[j].code = k}}],
              marks   |-> {[code |-> d.cmds[i].code, added |-> Added(d, d.cmds[i].target),
                            removed  |-> Lost(d, d.cmds[i].target),
                            relation |-> Relation(d.before, d.actor, d.cmds[i].target)] : i \in marks}])

SourceClass(traits) ==
    CASE {"spider", "entroots"} \subseteq traits -> "spider_and_entroots"
      [] "entroots" \in traits -> "entroots_without_spider"
      [] "spider" \in traits -> "spider_without_entroots"
      [] OTHER -> "neither"

SpiderWirePass(dir) ==
    LET pass == FirstPass(dir, "spider")
    IN  [with    |-> {u \in pass.carriers : "entroots" \in dir.stacks[u].traits},
         without |-> {u \in pass.carriers : "entroots" \notin dir.stacks[u].traits},
         errors  |-> pass.errors]

\* Every ent-record: its first number is a source, or 0 if there is none, its second a
\* target; the decoder names only the source.
SpiderWires(d) ==
    LET present(u) == u \in DOMAIN d.before \cup DOMAIN d.after
        either(u)  == IF u \in DOMAIN d.before THEN d.before[u] ELSE d.after[u]
        fact(c)     == LET s == RawField(c, 1)
                          t == RawField(c, 2)
                      IN  [agrees   |-> c.actor = s,
                           sourced  |-> s > 0,
                           class    |-> IF s > 0 /\ present(s) THEN SourceClass(either(s).traits) ELSE "unavailable",
                           relation |-> IF s > 0 /\ t > 0 /\ present(s) /\ present(t)
                                        THEN Relation([u \in {s, t} |-> either(u)], s, t) ELSE "unknown"]
    IN  {fact(d.cmds[i]) : i \in {j \in 1..Len(d.cmds) : d.cmds[j].op = "SPECIAL" /\ d.cmds[j].code = "ent"}}
=============================================================================
