--------------------------- MODULE ReplayDecisions ---------------------------
(***************************************************************************)
(* iter_compact_decisions of the replay parser                             *)
(* (python/hwm_solver/protocol/replay.py): the commands between two        *)
(* activations are collected, and when the next stack is activated they    *)
(* are labelled as one decision of the stack that was active, on the state *)
(* before them, judged for semantic exactness, and only then applied.      *)
(*                                                                         *)
(* Commands are applied one per step; nothing else runs in between.        *)
(***************************************************************************)
EXTENDS ReplayEffects

CONSTANTS
    Battles,     \* environment: records of the stacks of a battle at its start, of the
                 \* records that may come before the first activation ("opening"), and of
                 \* what each stack may do ("actions": sequences of records by stack)
    MaxActions   \* bound: decisions in a battle

StackFields == {"traits", "maxhp", "top", "maxcount", "count", "mana", "shots", "attack", "alive",
                "phantom", "defending", "rune", "effects", "turns", "owner", "spells"}

Counted == {"proc_stone", "proc_cripple"}

\* A stack as a battle starts with it or summons it; the numbers of a hero are no hit points.
StackOK(s) ==
    /\ StackFields \subseteq DOMAIN s
    /\ s.alive \in BOOLEAN /\ s.defending \in BOOLEAN /\ s.phantom \in BOOLEAN
    /\ s.mana \in Nat /\ s.shots \in Nat /\ s.attack \in Nat
    /\ s.turns \in [Timed -> 0..3]
    /\ \A k \in Counted : k \in s.effects <=> s.turns[k] > 0
    /\ "active" \in s.rune => "consumed" \in s.rune
    /\ \/ IsHero(s)
       \/ /\ s.maxhp \in Nat \ {0} /\ s.maxcount \in Nat
          /\ s.top \in Int /\ s.top <= s.maxhp /\ s.count \in Int
          /\ Whole(s)

\* A record of a turn other than an activation; an M-record carries one of the summons.
\* Numbers are digits; only the last one of a psc-record may have a sign.
WireOK(w) ==
    /\ \A i \in 1..Len(w.nums) : w.nums[i] < 0 => w.tag = "S" /\ w.code = "psc" /\ i = 4
    /\ w.nums \in Seq(Int) /\ w.tag # "C" /\ w.code \notin Counted \cup {"proc_shieldbash"}
    /\ w.tag = "M" => Len(w.nums) = 2 /\ w.nums[2] \in DOMAIN Summons

\* No record of a stack carries effects: they are learnt from the turns only.
ASSUME SummonsAssumption ==
    \A v \in DOMAIN Summons : StackOK(Summons[v]) /\ Summons[v].effects = {}

ASSUME BattlesAssumption ==
    \A b \in Battles :
        /\ \A u \in DOMAIN b.stacks : StackOK(b.stacks[u])
        /\ DOMAIN b.actions \subseteq DOMAIN b.stacks \cap (Nat \ {0})
        /\ \A f \in b.opening \cup UNION {b.actions[u] : u \in DOMAIN b.actions} :
              f \in Seq({f[i] : i \in DOMAIN f}) /\ \A i \in DOMAIN f : WireOK(f[i])

ASSUME ActionsAssumption == MaxActions \in Nat

VARIABLES
    working,     \* the stacks as far as records were applied
    active,      \* the stack whose activation is running, 0 if none
    pending,     \* its commands so far
    before,      \* the stacks when it was activated, NoState if none was
    total,       \* semantic_unresolved_total
    totalBefore, \* semantic_unresolved_before
    row,         \* the decision being applied, or the last one
    todo,        \* its commands that are still to be applied
    next,        \* the stack that is activated when they are, 0: no decision is applied
    battle,      \* environment: the member of Battles that is played
    script,      \* environment: records of the current decision still to come
    budget       \* environment: decisions still to come

parser == <<working, active, pending, before, total, totalBefore, row, todo, next>>
vars == <<parser, battle, script, budget>>

NoState == << >>
NoRow == [actor |-> 0]

Of(cmds, op, a) == SelectSeq(cmds, LAMBDA c : c.op = op /\ c.actor = a)

Specials(cmds) == SelectSeq(cmds, LAMBDA c : c.op = "SPECIAL")

AnyOp(cmds, ops) == \E i \in 1..Len(cmds) : cmds[i].op \in ops

\* The place of the last move of a before its first hit, or of its last one; 0 if none.
AttackMove(cmds, a) ==
    LET hits  == {i \in 1..Len(cmds) : cmds[i].op = "DAMAGE" /\ cmds[i].actor = a}
        moves == {i \in 1..Len(cmds) : cmds[i].op = "MOVE" /\ cmds[i].actor = a /\ \A h \in hits : i < h}
    IN  IF moves = {} THEN 0 ELSE CHOOSE i \in moves : \A j \in moves : j <= i

\* The place of the last move of the decision.
AttackMoveLast(cmds, a) ==
    LET moves == {i \in 1..Len(cmds) : cmds[i].op = "MOVE" /\ cmds[i].actor = a}
    IN  IF moves = {} THEN 0 ELSE CHOOSE i \in moves : \A j \in moves : j <= i

Cell(cmds, i) == <<cmds[i].x, cmds[i].y>>

\* The target of a decision, in the order in which the label looks for it, or 0.
Target(cmds, a) ==
    LET named == Dealt(cmds, a) \o Of(cmds, "TELEPORT", a)
                 \o SelectSeq(cmds, LAMBDA c : c.op = "CARRIER_RELOCATE")
                 \o SelectSeq(cmds, LAMBDA c : c.op = "SPECIAL" /\ c.code = "mfd" /\ c.actor = a /\ c.target # 0)
                 \o SelectSeq(cmds, LAMBDA c : c.op = "SPECIAL" /\ c.code = "phm" /\ c.target # 0)
    IN  IF named = << >> THEN 0 ELSE named[1].target

Ordinary(cmds) == \A i \in 1..Len(cmds) : cmds[i].op # "SPECIAL"

Shoots(s) == s.shots > 0 \/ "shooter" \in s.traits

BesideEnemy(ents, a) ==
    \E u \in DOMAIN ents : /\ BlocksBoard(ents[u]) /\ Enemies(ents[u], ents[a])
                           /\ Adjacent(ents[a], ents[a].pos, ents[u])

\* The m-record of a shooter names an occupied cell: it is no movement.
\* "adjacentOnly" is the narrower test with which the commands are applied.
Collision(ents, a, cmds, i, t, adjacentOnly) ==
    /\ a \in DOMAIN ents /\ i # 0 /\ Shoots(ents[a]) /\ Ordinary(cmds)
    /\ Blocked(ents, a, Cell(cmds, i))
    /\ \/ t \in DOMAIN ents /\ Adjacent(ents[a], ents[a].pos, ents[t])
       \/ ~adjacentOnly /\ ents[a].shots > 0 /\ ~BesideEnemy(ents, a)

\* The m-record that the label of a decision takes as its movement, or 0.
ActionMove(cmds, a) == IF Dealt(cmds, a) # << >> THEN AttackMove(cmds, a) ELSE AttackMoveLast(cmds, a)

HitType(ents, a, cmds) ==
    LET i    == ActionMove(cmds, a)
        t    == Target(cmds, a)
        from == IF i = 0 \/ Collision(ents, a, cmds, i, t, FALSE) THEN ents[a].pos ELSE Cell(cmds, i)
    IN  IF a \notin DOMAIN ents THEN "MELEE_ATTACK"
        ELSE IF IsHero(ents[a]) THEN "HERO_ACTION"
        ELSE IF Shoots(ents[a]) /\ ~(t \in DOMAIN ents /\ Adjacent(ents[a], from, ents[t]))
             THEN "RANGED_ATTACK" ELSE "MELEE_ATTACK"

\* The kind of the decision of stack a on the state before it.
ActionType(ents, a, cmds) ==
    LET hero       == Has(ents, a, "hero")
        magic      == IF hero THEN "HERO_ACTION" ELSE "ABILITY"
        last       == AttackMoveLast(cmds, a)
        marked(x)  == \E i \in 1..Len(cmds) : /\ cmds[i].op = "SPECIAL" /\ cmds[i].code = x
                                              /\ cmds[i].actor = a
        feeds      == \E i \in 1..Len(cmds) : /\ cmds[i].op = "SPECIAL" /\ cmds[i].code = "mfd"
                                              /\ cmds[i].actor = a /\ cmds[i].target # 0
        badmorale  == \E i \in 1..Len(cmds) : cmds[i].op = "PROC" /\ cmds[i].code = "badmorale"
        casts      == a \in DOMAIN ents /\ ("caster" \in ents[a].traits \/ ents[a].mana > 0)
    IN  IF marked("msl") THEN "ABILITY"
        ELSE IF Of(cmds, "WAIT", a) # << >> THEN "WAIT"
        ELSE IF Of(cmds, "DEFEND", a) # << >> THEN "DEFEND"
        ELSE IF Dealt(cmds, a) # << >> THEN HitType(ents, a, cmds)
        ELSE IF Of(cmds, "TELEPORT", a) # << >> THEN magic
        ELSE IF feeds \/ AnyOp(cmds, {"CARRIER_RELOCATE"}) THEN "ABILITY"
        ELSE IF badmorale THEN "FORCED_EVENT"
        ELSE IF AnyOp(cmds, {"RUNE_SPEED_ACTIVATE", "Y_RECORD", "Z_RECORD", "X_RECORD"}) THEN "ABILITY"
        ELSE IF AnyOp(cmds, {"SPAWN_ENTITY", "P_RECORD"}) THEN magic
        ELSE IF ~Ordinary(cmds) THEN IF ~hero /\ casts THEN "CAST_OR_ABILITY" ELSE magic
        ELSE IF last # 0 /\ a \in DOMAIN ents THEN IF Cell(cmds, last) = ents[a].pos THEN "PASS" ELSE "MOVE"
        ELSE IF /\ hero /\ Len(cmds) = 1 /\ cmds[1].op = "STATE"
                /\ cmds[1].actor = a /\ cmds[1].code = "0100"
             THEN "DEFEND"
        ELSE "UNKNOWN"

\* Where the label of a decision says that its stack went, << >> if it says nothing.
Destination(ents, a, cmds) ==
    LET type == ActionType(ents, a, cmds)
        i    == ActionMove(cmds, a)
        t    == Target(cmds, a)
        far  == Of(cmds, "TELEPORT", a) \o SelectSeq(cmds, LAMBDA c : c.op = "CARRIER_RELOCATE")
        hit  == {cmds[j].target : j \in {k \in 1..Len(cmds) : cmds[k].op = "DAMAGE" /\ cmds[k].actor = a}}
    IN  IF far # << >> THEN Cell(far, 1)
        ELSE IF type \notin {"MOVE", "MELEE_ATTACK", "ABILITY"} \/ i = 0 THEN << >>
        ELSE IF type # "MELEE_ATTACK" THEN Cell(cmds, i)
        ELSE IF Collision(ents, a, cmds, i, t, FALSE) THEN ents[a].pos
        ELSE MeleeAnchor(ents, a, t, Cell(cmds, i), ~Ordinary(cmds), hit)

\* Faulty: the attacker is put where its m-record says.
CorrectedNot(ents, a, cmds) == cmds

\* The commands as they are applied: an attacker is put where it really landed.
Corrected(ents, a, cmds) ==
    LET i   == AttackMove(cmds, a)
        t   == Target(cmds, a)
        hit == {cmds[j].target : j \in {k \in 1..Len(cmds) : cmds[k].op = "DAMAGE" /\ cmds[k].actor = a}}
        p   == MeleeAnchor(ents, a, t, Cell(cmds, i), ~Ordinary(cmds), hit)
    IN  IF ActionType(ents, a, cmds) # "MELEE_ATTACK" \/ i = 0 \/ Collision(ents, a, cmds, i, t, TRUE)
        THEN cmds ELSE [cmds EXCEPT ![i] = [@ EXCEPT !.x = p[1], !.y = p[2]]]

\* The stack whose m-records are no movement in this decision, or 0.
Still(ents, a, cmds) ==
    LET type == ActionType(ents, a, cmds)
    IN  IF \/ type \notin {"MOVE", "MELEE_ATTACK", "ABILITY"}
           \/ type = "MELEE_ATTACK" /\ Collision(ents, a, cmds, AttackMove(cmds, a), Target(cmds, a), TRUE)
        THEN a ELSE 0

Row(ents, a, cmds) ==
    [actor  |-> a,
     type   |-> ActionType(ents, a, cmds),
     target |-> Target(cmds, a),
     dest   |-> Destination(ents, a, cmds),
     still  |-> Still(ents, a, cmds),
     bashed |-> BashTarget(cmds, ents, a),
     cmds   |-> cmds,
     vague  |-> Unresolved(cmds, ents, a),
     exact  |-> totalBefore = 0]

-----------------------------------------------------------------------------
Init ==
    /\ battle \in Battles
    /\ working = battle.stacks
    /\ active = 0 /\ next = 0
    /\ pending = << >> /\ todo = << >>
    /\ before = NoState
    /\ total = 0 /\ totalBefore = 0
    /\ row = NoRow
    /\ script = << >>
    /\ budget = MaxActions

\* Faulty: the marks of a stack are cleared when its activation ends.
ActivateOnLate(ents, u) ==
    LET ready == IF active \in DOMAIN ents THEN [ents EXCEPT ![active] = Activated(Ticked(@))] ELSE ents
    IN  /\ working' = ready
        /\ before' = ready
        /\ active' = u

\* The activation of stack u: the effects of the stack that was active wear off,
\* the marks of u are cleared, and the state is kept for the next label.
ActivateOn(ents, u) ==
    LET ticked == IF active \in DOMAIN ents THEN [ents EXCEPT ![active] = Ticked(@)] ELSE ents
        ready  == IF u \in DOMAIN ticked THEN [ticked EXCEPT ![u] = Activated(@)] ELSE ticked
    IN  /\ working' = ready
        /\ before' = ready
        /\ active' = u

\* The server plays the rules: who acts or is hit stands, or is just summoned,
Playable(f, u) ==
    LET spawned == {f[i].nums[1] : i \in {j \in 1..Len(f) : f[j].tag = "M"}}
        hurts   == {f[i] : i \in {j \in 1..Len(f) : f[j].tag = "d"}}
        placed  == {f[i].nums[1] : i \in {j \in 1..Len(f) : f[j].tag = "s"}}
        gone    == {f[i].nums[1] : i \in {j \in 1..Len(f) : f[j].tag = "h" \/ f[j].code = "bom"}}
    IN  /\ placed \subseteq DOMAIN working \cup spawned
        /\ spawned \cap DOMAIN working = {}
        /\ \A w \in hurts : \A x \in {w.nums[1], w.nums[2]} : x \in DOMAIN working /\ working[x].alive
        \* and whom it activates next survives what is sent before.
        /\ u \in DOMAIN working \ gone /\ working[u].alive
        /\ \A w \in hurts : w.nums[2] = u => w.nums[3] < TotalHp(working[u]) /\ ~working[u].phantom

\* The records of one decision and the activation that ends it.
Arrive ==
    /\ script = << >> /\ next = 0 /\ budget > 0
    /\ budget' = budget - 1
    /\ \E f \in IF active = 0 THEN battle.opening ELSE battle.actions[active], u \in DOMAIN battle.actions :
          /\ Playable(f, u)
          /\ script' = Append(f, Wire("C", "", <<u>>))
    /\ UNCHANGED <<parser, battle>>

Received == script # << >> /\ next = 0

\* A command is kept until the decision it belongs to is complete.
Collect ==
    LET c == Decode(Head(script))
    IN  /\ Received /\ c.op # "ACTIVATE"
        /\ pending' = Append(pending, c)
        /\ script' = Tail(script)
        /\ UNCHANGED <<working, active, before, total, totalBefore, row, todo, next, battle, budget>>

\* An activation with nothing to label: before the first one, or at once after another.
ActivateIdle ==
    LET c == Decode(Head(script))
    IN  /\ Received /\ c.op = "ACTIVATE"
        /\ active = 0 \/ pending = << >>
        /\ ActivateOn(working, c.actor)
        /\ pending' = << >>
        /\ totalBefore' = total
        /\ script' = Tail(script)
        /\ UNCHANGED <<total, row, todo, next, battle, budget>>

\* An activation completes a decision: it is labelled and judged on the state before it.
Decide ==
    LET c == Decode(Head(script))
    IN  /\ Received /\ c.op = "ACTIVATE"
        /\ active # 0 /\ pending # << >>
        /\ row' = Row(before, active, pending)
        /\ todo' = Corrected(before, active, pending)
        /\ next' = c.actor
        /\ pending' = << >>
        /\ script' = Tail(script)
        /\ UNCHANGED <<working, active, before, total, totalBefore, battle, budget>>

\* The commands of the decision are applied in their order,
ApplyNext ==
    /\ next # 0 /\ todo # << >>
    /\ working' = ApplyCommand(working, Head(todo), row.still)
    /\ todo' = Tail(todo)
    /\ UNCHANGED <<active, pending, before, total, totalBefore, row, next, battle, script, budget>>

\* The state after the decision, when its commands are applied.
Settled ==
    LET from == IF active \in DOMAIN before THEN before[active].pos ELSE << >>
    IN  AfterCommands(working, active, row.type, from, row.bashed)

\* and the decision is written out.
Conclude ==
    /\ next # 0 /\ todo = << >>
    /\ ActivateOn(Settled, next)
    /\ total' = total + Cardinality(row.vague)
    /\ totalBefore' = total'
    /\ next' = 0
    /\ UNCHANGED <<pending, row, todo, battle, script, budget>>

Next == Arrive \/ Collect \/ ActivateIdle \/ Decide \/ ApplyNext \/ Conclude

Spec == Init /\ [][Next]_vars

-----------------------------------------------------------------------------
\* The state is well formed (RawEntity and the locals of iter_compact_decisions).
ReplayTypeOK ==
    /\ active \in {0} \cup DOMAIN working
    /\ next \in {0} \cup DOMAIN working
    /\ total \in Nat /\ totalBefore \in 0..total
    /\ (next = 0) => todo = << >>
    /\ (active = 0) <=> (before = NoState)
    /\ \A u \in DOMAIN working :
          /\ working[u].alive \in BOOLEAN /\ working[u].defending \in BOOLEAN
          /\ working[u].mana \in Nat /\ working[u].shots \in Nat /\ working[u].attack \in Nat
          /\ working[u].turns \in [Timed -> 0..3]

\* A creature stack that stands has as many creatures as its hit points need, never
\* more than it ever had, and never a dead one in front (apply_damage, apply_heal and
\* the s-record of a summoned stack, which set five fields one by one).
StacksAreWhole == \A u \in DOMAIN working : IsHero(working[u]) \/ Whole(working[u])

\* Records move mana between the stacks of a side or spend it; they never make any:
\* if a stack gains mana, no other gains any, and one of its side loses as much (the
\* m-feed, m-drain and spell branches of _apply_command).
ManaIsNeverMade ==
    [][(next # 0 /\ todo # << >> /\ Head(todo).op # "SPAWN_ENTITY")
       => \A u \in DOMAIN working : working'[u].mana > working[u].mana =>
              /\ \A v \in DOMAIN working \ {u} : working'[v].mana <= working[v].mana
              /\ \E v \in DOMAIN working :
                    /\ working[v].owner = working[u].owner
                    /\ working[v].mana - working'[v].mana >= working'[u].mana - working[u].mana]_vars

\* What the flags call exact must also be understood when it is applied.
Understood(ents, c) ==
    CASE c.op = "SPECIAL" /\ c.code = "rsd" -> ValidRaiseDead(c, ents)
      [] c.op = "SPECIAL" /\ c.code = "phm" -> ValidPhantom(c, ents)
      [] c.op = "SPECIAL" /\ c.code = "mfd" -> ValidManaFeed(c, ents)
      [] c.op = "SPECIAL" /\ c.code = "msl" -> ValidMarker(c, ents, "mightyslam")
      [] c.op = "SPECIAL" /\ c.code = "bom" -> ValidMarker(c, ents, "gribbomb")
      [] c.op = "SPECIAL" /\ c.code \in {"sta", "wnd"} -> ValidProc(c, ents)
      [] c.op = "CARRIER_RELOCATE" -> ValidCarrier(c, ents)
      [] c.op = "W_RECORD" -> ValidWeakening(c, ents)
      [] c.op = "I_RECORD" -> ValidPawstrike(c, ents)
      [] c.op = "Z_RECORD" -> ValidManaDrain(c, ents)
      [] OTHER -> TRUE

\* A record is judged on the state before the whole decision and applied on the state
\* that the records before it left: what was judged exact is never skipped then
\* (_decision_semantic_unresolved_flags against _apply_command).  This depends on which
\* records servers send together and holds of the batches in Battles (MCReplay), not of
\* arbitrary ones: of a feed of mana announced twice, both are exact, the second is skipped.
ExactIsApplied ==
    [][(next # 0 /\ todo # << >> /\ Len(row.cmds) - Len(todo) + 1 \notin row.vague)
       => Understood(working, Head(todo))]_vars

\* Stoning and crippling wound are there exactly as long as their counter runs: none
\* wears off early, none stays for the rest of the battle (_apply_command sets effect
\* and counter, _tick_observed_activation_effects takes both away).
TimedEffectsAreCounted ==
    \A u \in DOMAIN working, k \in {"proc_stone", "proc_cripple"} :
        k \in working[u].effects <=> working[u].turns[k] > 0

MovedAgain(cmds, a) ==
    \/ \E i \in 1..Len(cmds) : cmds[i].actor = a /\ cmds[i].op = "FORCED_POSITION"
    \/ \E i \in 1..Len(cmds) : cmds[i].target = a /\ cmds[i].op \in {"TELEPORT", "CARRIER_RELOCATE"}
    \/ AttackMove(cmds, a) # AttackMoveLast(cmds, a)

\* The place that the label gives to an attacker, computed from the compact state, is
\* the place where the records put it, computed on the live one, unless it moved on
\* after the blow (_action_from_compact against _apply_decision_commands).  It, too, is
\* about the batches in Battles: arbitrary records may move an attacker anywhere.
MeleeLandsWhereLabelled ==
    [][(next # 0 /\ next' = 0 /\ row.type = "MELEE_ATTACK" /\ row.dest # << >>
           /\ ~MovedAgain(row.cmds, row.actor))
       => working'[row.actor].pos = row.dest]_vars

\* A bashed stack stays marked until it is itself activated (the comment at line 1815):
\* the delay of its turn is learnt from the mark.
BashLastsUntilActivation ==
    [][\A u \in DOMAIN working :
          "proc_shieldbash" \in working[u].effects /\ "proc_shieldbash" \notin working'[u].effects
          => next' = 0 /\ active' = u]_vars

=============================================================================
