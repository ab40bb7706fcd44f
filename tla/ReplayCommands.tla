--------------------------- MODULE ReplayCommands ---------------------------
(***************************************************************************)
(* What a decoded command does to the stacks, and which commands the       *)
(* replay parser calls semantically exact                                  *)
(* (python/hwm_solver/protocol/replay.py).  "ents" maps identifiers to     *)
(* stacks, "cmds" is the sequence of commands of one decision, a the stack *)
(* that acts.  Raw text kept for later, and the numeric values of the      *)
(* battle-thirst and rage counters, are left out.                          *)
(***************************************************************************)
EXTENDS StackHealth, Board, WireRecords

CONSTANT Summons      \* stacks that M-records in a turn can carry

StatusSpells(code) ==
    CASE code = "fst" -> {"fast", "mfast"}   [] code = "slw" -> {"slow", "mslow"}
      [] code = "bls" -> {"bless", "mbless"} [] code = "crs" -> {"curse", "mcurse"}
      [] code = "stn" -> {"stoneskin", "mstoneskin"}
      [] code = "dfm" -> {"deflect_missile", "mdeflect_missile"}
      [] code = "rgm" -> {"righteous_might", "mrighteous_might"}
      [] code = "cnf" -> {"confusion", "mconfusion"}
      [] code = "sff" -> {"suffering", "msuffering"}
      [] code = "ray" -> {"dray", "mdray"}

Known(ents, c) == {c.actor, c.target} \subseteq DOMAIN ents

Has(ents, u, trait) == u \in DOMAIN ents /\ trait \in ents[u].traits

Enemies(s, t) == s.owner # t.owner

IsHero(s) == "hero" \in s.traits

\* The spellbook of s holds exactly one spell of that name, and it costs at least this.
Castable(s, name, cost) ==
    LET entries == {e \in s.spells : e.name = name}
    IN  /\ Cardinality(entries) = 1
        /\ 0 < cost /\ \A e \in entries : cost <= e.cost

StatusMatches(s, code, cost) ==
    \E e \in s.spells : e.name \in StatusSpells(code) /\ 0 < cost /\ cost <= e.cost

ValidRaiseDead(c, ents) ==
    /\ Known(ents, c)
    /\ c.amount > 0
    /\ ~Enemies(ents[c.actor], ents[c.target])
    /\ Has(ents, c.target, "undead")
    /\ ents[c.target].maxcount > 0 /\ ents[c.target].maxhp > 0
    /\ TotalHp(ents[c.target]) < ents[c.target].maxcount * ents[c.target].maxhp
    /\ Castable(ents[c.actor], "raisedead", c.value)

ValidCarrier(c, ents) ==
    /\ c.op = "CARRIER_RELOCATE" /\ Known(ents, c)
    /\ Has(ents, c.actor, "carrier")
    /\ ~Enemies(ents[c.actor], ents[c.target])
    /\ Size(ents[c.target]) = 1
    /\ ents[c.target].count <= 2 * ents[c.actor].count
    /\ c.duration = 0
    /\ ents[c.actor].pos = <<c.fromx, c.fromy>>

PhantomSource(c, ents) ==
    /\ IsHero(ents[c.actor])
    /\ ~IsHero(ents[c.target]) /\ ~ents[c.target].phantom /\ ents[c.target].alive
    /\ ~Enemies(ents[c.actor], ents[c.target])
    /\ c.duration = 0
    /\ Castable(ents[c.actor], "phantom_forces", c.value)

PhantomOf(clone, source) ==
    clone.owner = source.owner /\ clone.creature = source.creature /\ clone.phantom

\* While the records are applied the clone must already be there,
ValidPhantom(c, ents) ==
    /\ Known(ents, c) /\ c.amount \in DOMAIN ents
    /\ PhantomSource(c, ents)
    /\ PhantomOf(ents[c.amount], ents[c.target])

\* Faulty: whatever clone is announced will do.
ValidPhantomAnnounced(c, cmds, ents) ==
    /\ Known(ents, c)
    /\ \E i, j \in 1..Len(cmds) : /\ cmds[i].op = "SPAWN_ENTITY" /\ cmds[i].actor = c.amount
                                  /\ cmds[j].op = "P_RECORD" /\ cmds[j].actor = c.amount

\* before they are applied it must be announced among them.
ValidPhantomDecision(c, cmds, ents) ==
    LET spawns == {i \in 1..Len(cmds) : cmds[i].op = "SPAWN_ENTITY" /\ cmds[i].actor = c.amount}
    IN  /\ Known(ents, c) /\ spawns # {}
        /\ \E i \in 1..Len(cmds) : cmds[i].op = "P_RECORD" /\ cmds[i].actor = c.amount
        /\ PhantomSource(c, ents)
        /\ PhantomOf(Summons[cmds[CHOOSE i \in spawns : \A j \in spawns : i <= j].value], ents[c.target])

ValidPawstrike(c, ents) ==
    /\ Known(ents, c)
    /\ ents[c.target].alive /\ Has(ents, c.target, "pawstrike")
    /\ Enemies(ents[c.actor], ents[c.target])

ValidPawstrikeDecision(c, cmds, ents, a) ==
    /\ ValidPawstrike(c, ents)
    /\ c.target = a
    /\ \E i \in 1..Len(cmds) : cmds[i].op = "DAMAGE" /\ cmds[i].actor = c.target /\ cmds[i].target = c.actor
    /\ \E i \in 1..Len(cmds) : cmds[i].op = "FORCED_POSITION" /\ cmds[i].actor = c.actor

\* A marker of an ability of the acting stack: msl (mighty slam), bom (self-destruction).
ValidMarker(c, ents, trait) == Has(ents, c.actor, trait) /\ ents[c.actor].alive /\ c.zeros

\* Faulty: the creature may give more than it has.
ValidManaFeedUnchecked(c, ents) ==
    /\ Known(ents, c)
    /\ ents[c.actor].alive /\ Has(ents, c.actor, "manafeed")
    /\ IsHero(ents[c.target]) /\ ~Enemies(ents[c.actor], ents[c.target])
    /\ c.amount > 0

ValidManaFeed(c, ents) ==
    /\ Known(ents, c)
    /\ ents[c.actor].alive /\ Has(ents, c.actor, "manafeed")
    /\ IsHero(ents[c.target]) /\ ~Enemies(ents[c.actor], ents[c.target])
    /\ c.amount > 0
    /\ LET least == IF ents[c.actor].count < ents[c.actor].mana THEN ents[c.actor].count ELSE ents[c.actor].mana
       IN  c.amount = Larger(0, least)

ValidWeakening(c, ents) ==
    /\ Known(ents, c)
    /\ Has(ents, c.actor, "weakeningstrike")
    /\ Enemies(ents[c.actor], ents[c.target])

ValidManaDrain(c, ents) ==
    /\ Known(ents, c)
    /\ Has(ents, c.actor, "manadrain")
    /\ "caster" \in ents[c.target].traits /\ ents[c.target].traits \cap {"statix", "warmachine"} = {}
    /\ 0 <= c.amount /\ c.amount <= Larger(0, ents[c.target].mana)

ValidDrainHeal(c, ents) ==
    Has(ents, c.actor, "manadrain") /\ ents[c.actor].maxhp > 0 /\ c.amount >= 0
    /\ c.amount % ents[c.actor].maxhp = 0

ValidProc(c, ents) ==
    /\ Known(ents, c)
    /\ Has(ents, c.actor, IF c.code = "sta" THEN "stoning" ELSE "cripplingwound")
    /\ Enemies(ents[c.actor], ents[c.target])

ValidCounter(c, ents) ==
    c.actor \in DOMAIN ents /\
    CASE c.code = "enr" -> ents[c.actor].traits \cap {"enraged", "packenrage"} # {}
      [] c.code = "blt" -> "bloodlust" \in ents[c.actor].traits
      [] c.code = "btt" -> "battlethirst" \in ents[c.actor].traits
      [] c.code = "tob" -> "tasteofblood" \in ents[c.actor].traits

Dealt(cmds, a) == SelectSeq(cmds, LAMBDA c : c.op = "DAMAGE" /\ c.actor = a /\ c.target # 0)

\* The stack that a hit first and that a shield-bash marker is about, or 0.
BashTarget(cmds, ents, a) ==
    IF /\ Has(ents, a, "shieldbash") /\ Dealt(cmds, a) # << >>
       /\ Dealt(cmds, a)[1].target \in DOMAIN ents
       /\ ~Has(ents, Dealt(cmds, a)[1].target, "mechanical")
       /\ \E i \in 1..Len(cmds) : cmds[i].op = "OPAQUE_SHORT" /\ cmds[i].code = "o" /\ cmds[i].actor = a
    THEN Dealt(cmds, a)[1].target ELSE 0

UnresolvedOps == {"SPECIAL", "OPAQUE_SHORT", "OPAQUE_A", "OPAQUE_EFFECT", "P_RECORD", "I_RECORD",
                  "T_RECORD", "W_RECORD", "R_RECORD", "V_RECORD", "F_RECORD", "Y_RECORD", "Z_RECORD",
                  "X_RECORD", "U_RECORD", "CARRIER_RELOCATE"}

\* Without the context of a decision: only the basic attack of a hero is known.
SemanticallyUnresolved(c, ents) ==
    c.op \in UnresolvedOps /\ ~(c.op = "SPECIAL" /\ c.code = "psc" /\ c.value = 62 /\ Has(ents, c.actor, "hero"))

\* A status record with a cost is a spell of the acting stack's book; one without
\* cost belongs to the mass spell whose record came before it.
ExactStatus(i, cmds, ents, a) ==
    LET paid(j) == /\ cmds[j].op = "SPECIAL" /\ cmds[j].code \in StatusCodes
                   /\ StatusMatches(ents[a], cmds[j].code, cmds[j].value)
        earlier == {j \in 1..(i - 1) : paid(j)}
    IN  IF cmds[i].value > 0 THEN paid(i)
        ELSE \E j \in earlier : (\A k \in earlier : k <= j) /\ cmds[j].code = cmds[i].code

ExactSpecial(i, cmds, ents, a) ==
    LET c == cmds[i]
        phantoms == {j \in 1..Len(cmds) : /\ cmds[j].op = "SPECIAL" /\ cmds[j].code = "phm"
                                          /\ ValidPhantomDecision(cmds[j], cmds, ents)}
    IN  CASE c.code \in StatusCodes /\ a \in DOMAIN ents -> ExactStatus(i, cmds, ents, a)
          [] c.code = "rsd" -> ValidRaiseDead(c, ents)
          [] c.code \in {"enr", "blt", "tob"} -> ValidCounter(c, ents)
          [] c.code = "btt" -> ValidCounter(c, ents) /\ c.amount \in 0..20
          [] c.code = "msl" -> ValidMarker(c, ents, "mightyslam")
          [] c.code = "bom" -> ValidMarker(c, ents, "gribbomb")
          [] c.code = "mfd" -> ValidManaFeed(c, ents)
          [] c.code = "rgl" -> ValidDrainHeal(c, ents)
          [] c.code \in {"sta", "wnd"} -> ValidProc(c, ents)
          [] c.code = "phm" -> i \in phantoms /\ \A j \in phantoms : i <= j
          [] OTHER -> ~SemanticallyUnresolved(c, ents)

\* Whether command i of a decision is exact on the state before the decision.
Exact(i, cmds, ents, a) ==
    LET c == cmds[i]
    IN  CASE c.op = "SPECIAL" -> ExactSpecial(i, cmds, ents, a)
          [] c.op = "Z_RECORD" -> ValidManaDrain(c, ents)
          [] c.op = "CARRIER_RELOCATE" -> ValidCarrier(c, ents)
          [] c.op = "RUNE_SPEED_ACTIVATE" -> c.actor \in DOMAIN ents /\ "available" \in ents[c.actor].rune
                                             /\ "consumed" \notin ents[c.actor].rune
          [] c.op = "RUNE_SPEED_CLEAR" -> c.actor \in DOMAIN ents /\ "active" \in ents[c.actor].rune
          [] c.op = "W_RECORD" -> ValidWeakening(c, ents)
          [] c.op = "I_RECORD" -> ValidPawstrikeDecision(c, cmds, ents, a)
          [] c.op = "T_RECORD" -> /\ Known(ents, c) /\ Has(ents, c.actor, "wardingarrows")
                                  /\ Enemies(ents[c.actor], ents[c.target])
          [] c.op = "OPAQUE_SHORT" -> c.code = "o" /\ c.actor = a /\ BashTarget(cmds, ents, a) # 0
          [] c.op = "U_RECORD" -> Has(ents, c.actor, "endurance") /\ ents[c.actor].speed < 8
          [] c.op = "P_RECORD" -> \E j \in 1..Len(cmds) : /\ cmds[j].op = "SPECIAL" /\ cmds[j].code = "phm"
                                                          /\ ExactSpecial(j, cmds, ents, a)
                                                          /\ cmds[j].amount = c.actor
          [] OTHER -> ~SemanticallyUnresolved(c, ents)

Unresolved(cmds, ents, a) == {i \in 1..Len(cmds) : ~Exact(i, cmds, ents, a)}
=============================================================================
