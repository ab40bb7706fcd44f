---------------------------- MODULE EvidenceAudit ----------------------------
(***************************************************************************)
(* What the scripts of python/hwm_solver/ability may rely on: the decoder  *)
(* whose states they compare, and one another.  Everything is said of the  *)
(* decision that is about to be written out.                               *)
(***************************************************************************)
EXTENDS ProcEvidence, AreaEvidence, SpellEvidence, StrikeEvidence

\* Commands that take hit points from stack u, give it some, remove it whatever it has
\* left, or set its number anew.
Hurts(c, u) ==
    /\ c.target = u /\ c.amount > 0
    /\ \/ c.op = "DAMAGE"
       \/ c.op = "SPECIAL" /\ c.code \in DirectDamageCodes \cup {"psc"}

Heals(c, u) ==
    /\ c.op = "SPECIAL" /\ c.amount > 0
    /\ \/ c.code = "rsd" /\ c.target = u
       \/ c.code = "rgl" /\ c.actor = u

Removes(c, u) ==
    /\ c.actor = u
    /\ \/ c.op = "HIDE_OR_DEATH"
       \/ c.op = "SPECIAL" /\ c.code = "bom"

Places(c, u) == c.actor = u /\ c.op = "SPAWN_POSITION"

-----------------------------------------------------------------------------
\* Two scripts attribute wounds to hits, one looking back from the wound and one ahead
\* from the hit; they name the same hit, and each wound has at most one
\* (cripplingwound_evidence.py:93, cripplingwound_hit_evidence.py:35).
WoundsAreAttributedOnce(d) ==
    \A r \in WoundRecords(d) : r.carrier /\ d.type \in Attacks =>
        {h.place : h \in {g \in WoundHits(d) : r.place \in g.wounds}} = {r.hit} \ {0}

\* Three scripts recognise a shove, one trying every forced position and two only the
\* first: they find it in the same decisions, and agree on the place
\* (powerstrike_evidence.py:78, powerstrike_discriminator.py:80,
\* powerstrike_retaliation_evidence.py:141).
ShovesAreRecognisedAlike(d) ==
    \A r \in PowerstrikeRows(d) :
        /\ FirstPair(PowerstrikeWire(d)) = WireDetails(d)
        /\ r.carrier => (r.proc <=> PrimaryProcSuppression(d) # {})
        /\ r.carrier => \A s \in PrimaryProcSuppression(d) : s.answersAfter => r.answersAfter

\* A wound of a stack of the same recorded owner is kept apart by the control script
\* and never called exact by the decoder.
OwnSideWoundsStayOpen(d) ==
    {r.place : r \in WoundControl(d, {})} \subseteq d.vague

\* A status record that the book of the acting stack explains as a light spell is exact
\* for the decoder, too.
LightStatusesAreExact(d) ==
    \A r \in LightWireRows(d) : r.source = d.actor =>
        \A i \in r.records :
            MatchingLightStatusEntries(d.dir.stacks[r.source].spells, r.code, d.cmds[i].value) # {}
            => i \notin d.vague

\* A validated bomb marker of a standing carrier is a death for both bomb scripts, but
\* if another record of the decision raises the carrier again.
BombsAreDeaths(d) ==
    \A r \in SelfDestructRows(d) :
        /\ r.bombs # {} /\ Alive(d.before, d.actor)
        /\ \A i \in 1..Len(d.cmds) : ~Heals(d.cmds[i], d.actor) /\ ~Places(d.cmds[i], d.actor)
        => /\ r.dead /\ ~r.survives
           /\ \E g \in GribbombRows(d) : d.actor \in g.died

\* The scripts that classify the same records agree with one another and with the
\* decoder.
AuditsAgree ==
    Concluding => LET d == Decision
                  IN  /\ WoundsAreAttributedOnce(d)
                      /\ ShovesAreRecognisedAlike(d)
                      /\ OwnSideWoundsStayOpen(d)
                      /\ LightStatusesAreExact(d)
                      /\ BombsAreDeaths(d)

-----------------------------------------------------------------------------
Told(d, u, code) == \E i \in 1..Len(d.cmds) : d.cmds[i].code = code /\ d.cmds[i].target = u

\* What the scripts read from a difference of states is in the records: an attack that
\* wounds or petrifies an enemy leaves the effect on it, the effect appears on nobody
\* without its record, and a stack that does not act loses none.
AuditedEffectsAreExplained ==
    Concluding => LET d == Decision
                  IN  /\ \A r \in WoundAttackRow(d) :
                            r.carrier /\ r.proc /\ Enemy(d.before, d.actor, d.target) => r.wounded /\ r.turns > 0
                      /\ \A r \in StonegardenRows(d) :
                            r.proc /\ "stoning" \in d.before[d.actor].traits /\ Enemy(d.before, d.actor, d.target)
                            => "proc_stone" \in EffectsOf(d.after, d.target)
                      /\ \A u \in DOMAIN d.before :
                            /\ "proc_stone" \in Added(d, u) => Told(d, u, "sta")
                            /\ "proc_cripple" \in Added(d, u) => Told(d, u, "wnd")
                            /\ u # d.actor => Lost(d, u) = {}

\* Hit points that the records of a decision take from a stack, and give it.
Taken(d, u) == Dealing(d.cmds, {i \in 1..Len(d.cmds) : Hurts(d.cmds[i], u)})

Given(d, u) == Dealing(d.cmds, {i \in 1..Len(d.cmds) : Heals(d.cmds[i], u)})

\* Creatures that the records of a decision change by damage and healing only.
Accountable(d, u) ==
    /\ ~IsHero(d.before[u]) /\ ~d.before[u].phantom
    /\ \A i \in 1..Len(d.cmds) : ~Removes(d.cmds[i], u) /\ ~Places(d.cmds[i], u)

\* The losses that the venom, bomb and damage scripts read from the states are those of
\* the records: a stack loses no more than they take, gains no more than they give, and
\* a stack that nothing healed loses all they take as long as it has it.
HitPointsAreAccountedFor ==
    Concluding => LET d == Decision
                  IN  \A u \in DOMAIN d.before \cap DOMAIN d.after : Accountable(d, u) =>
                          LET was == TotalHp(d.before[u])
                              is  == TotalHp(d.after[u])
                          IN  /\ is >= was - Taken(d, u)
                              /\ is <= was + Given(d, u)
                              /\ Given(d, u) = 0 => is = Larger(0, was - Taken(d, u))
=============================================================================
