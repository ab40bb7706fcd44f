--------------------------- MODULE StrikeEvidence ---------------------------
(***************************************************************************)
(* The scripts that attribute a mark to the very hit that left it:         *)
(* python/hwm_solver/ability/{cripplingwound, cripplingwound_hit,          *)
(* cripplingwound_control, powerstrike_evidence, powerstrike_discriminator,*)
(* powerstrike_geometry, powerstrike_retaliation}.  A battle without       *)
(* init.txt or turns0.txt is left out of all of them.                      *)
(***************************************************************************)
EXTENDS Evidence

Damages(c, a, t) == c.op = "DAMAGE" /\ c.actor = a /\ c.target = t

Wounds(c, a, t) == c.op = "SPECIAL" /\ c.code = "wnd" /\ c.actor = a /\ c.target = t

\* How a source and a target relate to the decision in which their records stand.
StrikeRelation(d, s, t) ==
    IF s = d.actor /\ t = d.target THEN "primary"
    ELSE IF d.target # 0 /\ s = d.target /\ t = d.actor THEN "counter"
    ELSE "other"

Enemy(ents, u, v) == {u, v} \subseteq DOMAIN ents /\ Enemies(ents[u], ents[v])

-----------------------------------------------------------------------------
\* A wnd-record, with the last hit of the same pair before it (0: none),
WoundRecord(d, i) ==
    LET c    == d.cmds[i]
        hits == {j \in Hits(d.cmds, c.actor, c.target) : j < i}
    IN  [place |-> i, source |-> c.actor, target |-> c.target,
         relation |-> StrikeRelation(d, c.actor, c.target),
         enemy    |-> Enemy(d.before, c.actor, c.target),
         carrier  |-> "cripplingwound" \in Traits(d.before, c.actor),
         hit      |-> IF hits = {} THEN 0 ELSE Greatest(hits),
         answered |-> d.target # 0 /\ \E j \in Hits(d.cmds, d.target, d.actor) : j < i]

\* and those of a decision.
WoundRecords(d) ==
    {WoundRecord(d, i) : i \in {j \in 1..Len(d.cmds) : d.cmds[j].op = "SPECIAL" /\ d.cmds[j].code = "wnd"}}

\* What is kept of an attack: whether it wounded its target, and whether the hit alone
\* killed it.
WoundAttack(d) ==
    LET hits   == Hits(d.cmds, d.actor, d.target)
        damage == IF hits = {} THEN 0 ELSE d.cmds[Least(hits)].amount
        wounds == {r \in WoundRecords(d) : r.relation = "primary"}
    IN  [carrier |-> "cripplingwound" \in d.before[d.actor].traits,
         proc    |-> wounds # {},
         lethal  |-> TotalHp(d.before[d.target]) \in 1..damage,
         already |-> "proc_cripple" \in d.before[d.target].effects,
         wounded |-> "proc_cripple" \in EffectsOf(d.after, d.target),
         turns   |-> IF d.target \in DOMAIN d.after THEN d.after[d.target].turns["proc_cripple"] ELSE 0]

WoundAttackRow(d) ==
    When(d.type \in Attacks /\ d.target # 0 /\ {d.actor, d.target} \subseteq DOMAIN d.before, WoundAttack(d))

\* Faulty: the search does not stop at the next hit of the pair.
PairedWoundsToEnd(cmds, hit) ==
    LET a == cmds[hit].actor
        t == cmds[hit].target
    IN  {i \in (hit + 1)..Len(cmds) : Wounds(cmds[i], a, t)}

\* The wnd-records that belong to one hit: those before the pair's next one.
PairedWounds(cmds, hit) ==
    LET a == cmds[hit].actor
        t == cmds[hit].target
    IN  {i \in (hit + 1)..Len(cmds) : /\ Wounds(cmds[i], a, t)
                                      /\ \A j \in hit + 1..i : ~Damages(cmds[j], a, t)}

\* A hit, which of its pair it is, and the wnd-records that belong to it,
WoundHit(d, i) ==
    LET a == d.cmds[i].actor
        t == d.cmds[i].target
    IN  [place    |-> i,
         relation |-> StrikeRelation(d, a, t),
         ordinal  |-> Cardinality({j \in Hits(d.cmds, a, t) : j <= i}),
         enemy    |-> Enemy(d.before, a, t),
         wounds   |-> PairedWounds(d.cmds, i)]

\* for every hit of a carrier in an attack, each a trial of its own.
WoundHits(d) ==
    LET hits == {i \in 1..Len(d.cmds) : d.cmds[i].op = "DAMAGE"
                                        /\ "cripplingwound" \in Traits(d.before, d.cmds[i].actor)}
    IN  IF d.type \in Attacks THEN {WoundHit(d, i) : i \in hits} ELSE {}

\* Wounds of a stack of the carrier's own side, as its owner is recorded: "controlled"
\* are the stacks that a hyp-record of an earlier decision names, which the decoder
\* does not understand.
WoundControl(d, controlled) ==
    {[place |-> r.place, explained |-> r.source \in controlled] :
     r \in {s \in WoundRecords(d) : s.carrier /\ Relation(d.before, s.source, s.target) = "same_owner"}}

-----------------------------------------------------------------------------
\* After the hit, the target is put somewhere, and then an I-record names both.
Shoved(cmds, hit, a, t, places) ==
    {p \in places \X places :
        /\ hit < p[1] /\ p[1] < p[2]
        /\ cmds[p[1]].op = "FORCED_POSITION" /\ cmds[p[1]].actor = t
        /\ cmds[p[2]].op = "I_RECORD" /\ cmds[p[2]].actor = t /\ cmds[p[2]].target = a}

\* The evidence script tries one forced position after the other,
PowerstrikeWire(d) ==
    LET hits == Hits(d.cmds, d.actor, d.target)
    IN  IF d.target = 0 \/ hits = {} THEN {}
        ELSE Shoved(d.cmds, Least(hits), d.actor, d.target, 1..Len(d.cmds))

\* its choice is the first one, with the first I-record after it; << >> if none.
FirstPair(pairs) ==
    IF pairs = {} THEN << >>
    ELSE LET f == Least({p[1] : p \in pairs})
         IN  <<f, Least({p[2] : p \in {q \in pairs : q[1] = f}})>>

\* The discriminator takes the first forced position and looks no further.
WireDetails(d) ==
    LET hits   == Hits(d.cmds, d.actor, d.target)
        forced == {f \in 1..Len(d.cmds) : /\ d.cmds[f].op = "FORCED_POSITION" /\ d.cmds[f].actor = d.target
                                          /\ f > Least(hits)}
    IN  IF d.target = 0 \/ hits = {} \/ forced = {} THEN << >>
        ELSE FirstPair({p \in PowerstrikeWire(d) : p[1] = Least(forced)})

\* The last place to which the attacker moved, up to its first hit of the target.
AttackPlace(d) ==
    LET hits  == Hits(d.cmds, d.actor, d.target)
        moves == {i \in 1..Len(d.cmds) : /\ d.cmds[i].op = "MOVE" /\ d.cmds[i].actor = d.actor
                                         /\ hits = {} \/ i < Least(hits)}
    IN  IF moves = {} THEN d.before[d.actor].pos ELSE Cell(d.cmds, Greatest(moves))

\* What the records of a melee attack say and what it could change,
PowerstrikeRow(d) ==
    LET hits  == Hits(d.cmds, d.actor, d.target)
        pair  == FirstPair(PowerstrikeWire(d))
        backs == {i \in Hits(d.cmds, d.target, d.actor) : hits # {} /\ i > Least(hits)}
        first == IF hits = {} THEN 0 ELSE d.cmds[Least(hits)].amount
    IN  [carrier      |-> "powerstrike" \in d.before[d.actor].traits,
         pawstrike    |-> "pawstrike" \in d.before[d.actor].traits,
         proc         |-> pair # << >>,
         changed      |-> pair # << >> /\ Cell(d.cmds, pair[1]) # d.before[d.target].pos,
         zeroed       |-> pair # << >> /\ \E i \in (pair[2] + 1)..Len(d.cmds) :
                             d.cmds[i].op = "STATE" /\ d.cmds[i].actor = d.target /\ d.cmds[i].code = "0000",
         answered     |-> backs # {},
         answersAfter |-> pair # << >> /\ \E i \in backs : i > pair[2],
         left         |-> Larger(0, TotalHp(d.before[d.target]) - first),
         travelled    |-> Distance(d.before[d.actor].pos, AttackPlace(d)),
         fixed        |-> "nonshiftable" \in d.before[d.target].traits]

\* of a carrier or not.
PowerstrikeRows(d) ==
    When(d.type = "MELEE_ATTACK" /\ d.target # 0 /\ {d.actor, d.target} \subseteq DOMAIN d.before,
         PowerstrikeRow(d))

Sign(n) == IF n > 0 THEN 1 ELSE IF n < 0 THEN -1 ELSE 0

\* Where the target was shoved to: how far, whether away from the attacker, whether
\* something stood there, and whether it is there after the decision.
ForcedGeometry(d, pair) ==
    LET t    == d.before[d.target]
        to   == Cell(d.cmds, pair[1])
        from == AttackPlace(d)
        away == <<Sign(t.pos[1] - from[1]), Sign(t.pos[2] - from[2])>>
    IN  [distance  |-> Distance(to, t.pos),
         direction |-> IF to = t.pos THEN "noop"
                       ELSE IF <<Sign(to[1] - t.pos[1]), Sign(to[2] - t.pos[2])>> = away THEN "away" ELSE "other",
         occupied  |-> Blocked(d.before, d.target, to),
         there     |-> d.target \in DOMAIN d.after /\ d.after[d.target].pos = to]

\* The discriminator's row: with what it adds to that of the evidence script.
ExtendedRows(d) ==
    LET pair == WireDetails(d)
    IN  {[base |-> r, enemy |-> Enemy(d.before, d.actor, d.target),
          geometry |-> IF pair = << >> THEN << >> ELSE <<ForcedGeometry(d, pair)>>] : r \in PowerstrikeRows(d)}

\* Shoves of carriers that do not go one cell to a free place.
Anomalies(d) ==
    {r \in ExtendedRows(d) :
        /\ r.base.carrier /\ r.base.proc
        /\ r.geometry # << >>
        /\ r.geometry[1].distance # 1 \/ r.geometry[1].occupied}

\* The hits with which an attacked carrier answers: the shove must come before the
\* next hit of anybody.
RetaliationRows(d) ==
    LET hits == Hits(d.cmds, d.actor, d.target)
        backs == {i \in Hits(d.cmds, d.target, d.actor) : hits # {} /\ i > Least(hits)}
        window(i) == {j \in (i + 1)..Len(d.cmds) : \A k \in (i + 1)..j : d.cmds[k].op # "DAMAGE"}
        pair(i)   == FirstPair({p \in Shoved(d.cmds, i, d.target, d.actor, window(i)) :
                                   \A f \in window(i) : d.cmds[f].op = "FORCED_POSITION" /\ d.cmds[f].actor = d.actor
                                                        => p[1] <= f})
    IN  IF /\ d.type = "MELEE_ATTACK" /\ d.target # 0
           /\ {d.actor, d.target} \subseteq DOMAIN d.before /\ "powerstrike" \in d.before[d.target].traits
        THEN {[place  |-> i, proc |-> pair(i) # << >>,
               zeroed |-> pair(i) # << >> /\ \E j \in window(i) :
                             j > pair(i)[2] /\ d.cmds[j].op = "STATE" /\ d.cmds[j].actor = d.actor
                             /\ d.cmds[j].code = "0000"] : i \in backs}
        ELSE {}

\* A shove by an attacking carrier: whether its target still hit back after it.
PrimaryProcSuppression(d) ==
    LET pair == WireDetails(d)
    IN  When(/\ d.type = "MELEE_ATTACK"
             /\ "powerstrike" \in Traits(d.before, d.actor) /\ pair # << >>,
             [answersAfter |-> \E i \in Hits(d.cmds, d.target, d.actor) : i > pair[2]])
=============================================================================
