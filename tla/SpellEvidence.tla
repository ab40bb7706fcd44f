---------------------------- MODULE SpellEvidence ----------------------------
(***************************************************************************)
(* The scripts that relate S-records to the spell books of a battle:       *)
(* python/hwm_solver/ability/{auraoffirevul, auraoffirevul_applicability,  *)
(* auraoffirevul_spellwire, childofthelight, childofthelight_school,       *)
(* childofthelight_spellwire, vulnerabilitytolight}_evidence.py.  Tooltips *)
(* are left out.  A spell has a name, a cost and a school.                 *)
(***************************************************************************)
EXTENDS Evidence

\* The spells of a school in the books of a battle, of the stacks that have any.
Schooled(stacks, school) ==
    LET spells(u) == {e \in stacks[u].spells : e.school = school}
    IN  [u \in {v \in DOMAIN stacks : spells(v) # {}} |-> spells(u)]

BookOf(books, u) == IF u \in DOMAIN books THEN books[u] ELSE {}

\* The S-records of a stack, and those of them that name a target.
Casts(d, a) == {i \in 1..Len(d.cmds) : d.cmds[i].op = "SPECIAL" /\ d.cmds[i].actor = a}

Dealings(d, a) == {i \in 1..Len(d.cmds) : d.cmds[i].op = "DAMAGE" /\ d.cmds[i].actor = a /\ d.cmds[i].target # 0}

-----------------------------------------------------------------------------
\* The inventory of carriers does not count warnings as errors.
AuraPass(dir) ==
    [FirstPass(dir, "auraoffirevul") EXCEPT !.errors = IF dir.init = "broken" THEN 1 ELSE 0]

\* A battle without turns is skipped before anything is read.
ApplicabilityPass(dir) ==
    LET pass == FirstPass(dir, "auraoffirevul")
    IN  [books  |-> IF dir.turns /\ pass.carriers # {} THEN Schooled(dir.stacks, "fire") ELSE << >>,
         errors |-> IF dir.turns THEN pass.errors ELSE 0]

EnemyAuraSources(ents, t) ==
    {u \in DOMAIN ents : /\ ents[u].alive /\ "auraoffirevul" \in ents[u].traits
                         /\ Enemies(ents[u], ents[t]) /\ Adjacent(ents[u], ents[u].pos, ents[t])}

\* The digits seven to nine of an S-record, whatever fields its code really has there:
\* a status has two digits of cost and then its duration in hundredths, a blow six
\* digits of damage.
ThirdNumber(c) ==
    CASE c.code \in StatusCodes /\ Len(c.raw) = 5 -> 10 * c.raw[3] + c.raw[4] \div 10
      [] c.code = "psc" /\ Len(c.raw) = 4 -> c.raw[3] \div 1000
      [] OTHER -> RawField(c, 3)

\* What an S-record would be if it were a fire spell of the book.
SpecialShape(c, ents, book) ==
    LET t == RawField(c, 2)
    IN  [code       |-> c.code,
         exists     |-> t \in DOMAIN ents,
         compatible |-> \E e \in book : ThirdNumber(c) \in 1..e.cost,
         aura       |-> t \in DOMAIN ents /\ EnemyAuraSources(ents, t) # {}]

\* A decision of a stack with fire spells, in a battle with an aura.
ApplicabilityRows(d) ==
    LET book == BookOf(ApplicabilityPass(d.dir).books, d.actor)
        hits == {i \in Dealings(d, d.actor) : d.cmds[i].target \in DOMAIN d.before}
    IN  When(book # {},
             [shapes |-> {SpecialShape(d.cmds[i], d.before, book) : i \in Casts(d, d.actor)},
              hits   |-> hits,
              inAura |-> {i \in hits : EnemyAuraSources(d.before, d.cmds[i].target) # {}}])

\* The second scan takes the fire books of every battle, with an aura or not.
FireWirePass(dir) ==
    LET pass == FirstPass(dir, "auraoffirevul")
    IN  [aura   |-> dir.turns /\ pass.carriers # {},
         books  |-> IF dir.turns /\ dir.init = "read" THEN Schooled(dir.stacks, "fire") ELSE << >>,
         errors |-> IF dir.turns THEN pass.errors ELSE 0]

ManaSpent(d) ==
    IF d.actor \in DOMAIN d.before \cap DOMAIN d.after
    THEN d.before[d.actor].mana - d.after[d.actor].mana ELSE 0

\* What a stack with fire spells cast, what it paid and which fire spells cost enough.
FireWireRows(d) ==
    LET book  == BookOf(FireWirePass(d.dir).books, d.actor)
        spent == ManaSpent(d)
    IN  When(book # {},
             [codes     |-> Codes(d.cmds, Casts(d, d.actor)),
              spent     |-> spent,
              afforded  |-> {e.name : e \in {f \in book : spent \in 1..f.cost}},
              hits      |-> Cardinality(Dealings(d, d.actor)),
              fireballs |-> {[known   |-> RawField(d.cmds[i], 2) \in DOMAIN d.before,
                              only    |-> {e.name : e \in book} = {"fireball"},
                              paid    |-> \E e \in book : e.name = "fireball" /\ spent \in 1..e.cost,
                              hurting |-> Dealings(d, d.actor) # {}] :
                             i \in {j \in Casts(d, d.actor) : d.cmds[j].code = "fbl"}}])

-----------------------------------------------------------------------------
LightChildPass(dir) == FirstPass(dir, "childofthelight")

\* S-records with targets, grouped by source and code, that name a carrier.
Groups(d, carriers) ==
    LET named == {i \in 1..Len(d.cmds) : d.cmds[i].op = "SPECIAL" /\ d.cmds[i].target # 0}
        group(s, k) == {i \in named : d.cmds[i].actor = s /\ d.cmds[i].code = k}
        groups == {group(d.cmds[i].actor, d.cmds[i].code) : i \in named}
    IN  {[source   |-> d.cmds[Least(g)].actor,
          code     |-> d.cmds[Least(g)].code,
          carriers |-> {i \in g : d.cmds[i].target \in carriers},
          others   |-> {i \in g : d.cmds[i].target \notin carriers}] :
         g \in {h \in groups : \E i \in h : d.cmds[i].target \in carriers}}

\* A record that names a carrier, a copy if one of the same source and code names
\* another stack.
LightChildRows(d) ==
    UNION {{[code   |-> g.code,
             copy   |-> g.others # {},
             value  |-> \A j \in g.others : d.cmds[i].value = d.cmds[j].value,
             amount |-> \A j \in g.others : d.cmds[i].amount = d.cmds[j].amount,
             added  |-> Added(d, d.cmds[i].target)] : i \in g.carriers} :
           g \in Groups(d, LightChildPass(d.dir).carriers)}

\* The schools of all spells of a battle with a carrier.
LightSchools(dir) ==
    IF LightChildPass(dir).carriers = {} THEN {}
    ELSE {[school |-> e.school, name |-> e.name] : e \in UNION {dir.stacks[u].spells : u \in DOMAIN dir.stacks}}

\* Spells of the light school that a status record of that cost may be.
MatchingLightStatusEntries(book, code, cost) ==
    {e \in book : e.school = "light" /\ e.name \in StatusSpells(code) /\ cost \in 1..e.cost}

\* The name of a status spell for one target; that for a whole side begins with an m.
SingleName(code) == CHOOSE n \in StatusSpells(code) : \E m \in StatusSpells(code) : m = "m" \o n

\* A group of status records: a copy only if its source's book leaves nothing but a
\* spell for one target, and another stack got it too.
LightWireRow(d, g) ==
    LET costs   == {d.cmds[i].value : i \in g.carriers \cup g.others} \ (-1..0)
        book    == IF g.source \in DOMAIN d.dir.stacks THEN d.dir.stacks[g.source].spells ELSE {}
        matches == UNION {MatchingLightStatusEntries(book, g.code, n) : n \in costs}
        names   == {e.name : e \in matches}
    IN  [code    |-> g.code, source |-> g.source, costs |-> costs, matches |-> matches,
         records |-> g.carriers \cup g.others,
         class   |-> CASE costs = {} -> "without_positive_cost"
                       [] costs # {} /\ g.source \notin DOMAIN d.dir.stacks -> "without_source_spellbook"
                       [] costs # {} /\ names = {} -> "not_light"
                       [] names = StatusSpells(g.code) -> "ambiguous"
                       [] names = {SingleName(g.code)} /\ g.others # {} -> "single_copy"
                       [] names = {SingleName(g.code)} /\ g.others = {} -> "single_direct"
                       [] OTHER -> "mass_control"]

\* The groups of a decision that name a carrier.
LightWireRows(d) ==
    {LightWireRow(d, g) : g \in {h \in Groups(d, LightChildPass(d.dir).carriers) : h.code \in StatusCodes}}

\* What cannot be copied: damage and raising on a carrier.
LightExcluded(d) ==
    {i \in 1..Len(d.cmds) : /\ d.cmds[i].op = "SPECIAL" /\ d.cmds[i].target \in LightChildPass(d.dir).carriers
                            /\ d.cmds[i].code \in DirectDamageCodes \cup {"rsd"}}

-----------------------------------------------------------------------------
\* The light books of battles with a stack that is vulnerable to light.
VulnerablePass(dir) ==
    LET pass == FirstPass(dir, "vulnerabilitytolight")
    IN  [carriers |-> pass.carriers, errors |-> pass.errors,
         books    |-> IF pass.carriers = {} THEN << >> ELSE Schooled(dir.stacks, "light")]

\* What a stack with light spells did to carriers, and to others.
VulnerableRows(d) ==
    LET pass    == VulnerablePass(d.dir)
        touched == {i \in Casts(d, d.actor) \cup Dealings(d, d.actor) : d.cmds[i].target \in pass.carriers}
    IN  When(BookOf(pass.books, d.actor) # {},
             [touches  |-> touched # {},
              codes    |-> Codes(d.cmds, touched \cap Casts(d, d.actor)),
              others   |-> Codes(d.cmds, Casts(d, d.actor) \ touched),
              hits     |-> Cardinality(touched \cap Dealings(d, d.actor)),
              controls |-> Cardinality(Dealings(d, d.actor) \ touched)])
=============================================================================
