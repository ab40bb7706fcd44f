---------------------------- MODULE ReplayEffects ----------------------------
(***************************************************************************)
(* The state change of each command of the replay parser (_apply_command   *)
(* and what surrounds it in python/hwm_solver/protocol/replay.py).         *)
(* "effects" of a stack is the set of names of its effects; the three      *)
(* effects that wear off keep in "turns" how many activations they still   *)
(* last (0: no counter).                                                   *)
(***************************************************************************)
EXTENDS ReplayCommands

Timed == {"proc_stone", "proc_cripple", "msl"}

WithEffect(s, key) == [s EXCEPT !.effects = @ \cup {key}]

WithTimed(s, key, n) == [s EXCEPT !.effects = @ \cup {key}, !.turns[key] = n]

\* Faulty: more mana is spent than there is.
SpendUnchecked(s, n) == [s EXCEPT !.mana = @ - Larger(0, n)]

Spend(s, n) == [s EXCEPT !.mana = Larger(0, @ - Larger(0, n))]

At(s, p) == [s EXCEPT !.pos = p]

\* A record of an S-code that no rule below understands is only noted.
Noted(ents, c) ==
    IF c.actor \in DOMAIN ents THEN [ents EXCEPT ![c.actor] = WithEffect(@, c.code)] ELSE ents

Fed(ents, c) ==
    LET spent == [ents EXCEPT ![c.actor] = Spend(@, c.amount)]
    IN  [spent EXCEPT ![c.target].mana = @ + c.amount]

\* Faulty: the effect comes upon its source.
ProcOnSource(ents, c) ==
    IF ~ValidProc(c, ents) THEN ents
    ELSE [ents EXCEPT ![c.actor] = IF c.code = "sta" THEN WithTimed(@, "proc_stone", 1)
                                   ELSE WithTimed(@, "proc_cripple", 2)]

Proc(ents, c) ==
    IF ~ValidProc(c, ents) THEN ents
    ELSE [ents EXCEPT ![c.target] = IF c.code = "sta" THEN WithTimed(@, "proc_stone", 1)
                                    ELSE WithTimed(@, "proc_cripple", 2)]

\* A status takes effect in any case; it costs mana only if the caster's book has it.
Status(ents, c) ==
    LET noted == [ents EXCEPT ![c.target] = WithEffect(@, c.code)]
    IN  IF c.actor \in DOMAIN ents /\ StatusMatches(ents[c.actor], c.code, c.value)
        THEN [noted EXCEPT ![c.actor] = Spend(@, c.value)] ELSE noted

\* Damage printed in an S-record; the direct spells of a hero cost mana.
DirectDamage(ents, c) ==
    LET hurt == [ents EXCEPT ![c.target] = ApplyDamage(@, Abs(c.amount))]
    IN  IF c.code # "psc" /\ Has(hurt, c.actor, "hero") /\ c.value # Nothing
        THEN [hurt EXCEPT ![c.actor] = Spend(@, c.value)] ELSE hurt

Special(ents, c) ==
    CASE c.code = "phm" /\ ValidPhantom(c, ents) -> [ents EXCEPT ![c.actor] = Spend(@, c.value)]
      [] c.code = "rsd" /\ ValidRaiseDead(c, ents) ->
            LET raised == [ents EXCEPT ![c.target] = ApplyHeal(@, c.amount)]
            IN  [raised EXCEPT ![c.actor] = Spend(@, c.value)]
      [] c.code = "msl" /\ ValidMarker(c, ents, "mightyslam") ->
            [ents EXCEPT ![c.actor] = WithTimed(@, "msl", 3)]
      [] c.code = "bom" /\ ValidMarker(c, ents, "gribbomb") -> [ents EXCEPT ![c.actor] = Removed(@)]
      [] c.code = "mfd" /\ ValidManaFeed(c, ents) -> Fed(ents, c)
      [] c.code = "rgl" /\ c.actor \in DOMAIN ents /\ c.amount # Nothing ->
            IF ValidDrainHeal(c, ents) THEN [ents EXCEPT ![c.actor] = ApplyHeal(@, c.amount)] ELSE ents
      [] c.code \in {"enr", "blt", "btt", "tob"} /\ c.actor \in DOMAIN ents /\ c.amount # Nothing ->
            IF ValidCounter(c, ents) THEN Noted(ents, c) ELSE ents
      [] c.code \in {"sta", "wnd"} /\ c.target \in DOMAIN ents -> Proc(ents, c)
      [] c.code \in StatusCodes /\ c.target \in DOMAIN ents -> Status(ents, c)
      [] c.code \in DirectDamageCodes \cup {"psc"} /\ c.target \in DOMAIN ents /\ c.amount # Nothing ->
            DirectDamage(ents, c)
      [] OTHER -> Noted(ents, c)

Weakened(s) == [s EXCEPT !.attack = Larger(0, @ - 4),
                         !.defense = IF "armoured" \in s.traits THEN @ ELSE Larger(0, @ - 4)]

\* The s-record of a summoned stack brings its place and number.
Placed(s, c) ==
    LET counted == [s EXCEPT !.pos = <<c.x, c.y>>, !.count = c.amount,
                             !.maxcount = Larger(s.maxcount, c.amount), !.alive = c.amount > 0]
    IN  IF c.amount < 0 THEN At(s, <<c.x, c.y>>)
        ELSE IF c.amount > 0 /\ s.top <= 0 THEN [counted EXCEPT !.top = s.maxhp]
        ELSE counted

RuneActivated(s) ==
    IF "available" \in s.rune /\ "consumed" \notin s.rune
    THEN [s EXCEPT !.rune = @ \cup {"active", "consumed"}] ELSE s

Hastened(s) ==
    IF "endurance" \in s.traits /\ s.speed < 8 THEN [s EXCEPT !.speed = @ + 1] ELSE s

\* One command; the m-records of stack "still" are no movement.
ApplyCommand(ents, c, still) ==
    CASE c.op = "MOVE" /\ c.actor \in DOMAIN ents ->
            IF c.actor = still THEN ents
            ELSE [ents EXCEPT ![c.actor] = At(@, AppliedAnchor(ents, c.actor, <<c.x, c.y>>))]
      [] c.op = "DAMAGE" /\ c.target \in DOMAIN ents -> [ents EXCEPT ![c.target] = ApplyDamage(@, c.amount)]
      [] c.op = "FORCED_POSITION" /\ c.actor \in DOMAIN ents -> [ents EXCEPT ![c.actor] = At(@, <<c.x, c.y>>)]
      [] c.op = "SPAWN_ENTITY" -> [u \in DOMAIN ents \cup {c.actor} |->
                                      IF u = c.actor THEN Summons[c.value] ELSE ents[u]]
      [] c.op = "SPAWN_POSITION" /\ c.actor \in DOMAIN ents -> [ents EXCEPT ![c.actor] = Placed(@, c)]
      [] c.op = "TELEPORT" /\ c.target \in DOMAIN ents -> [ents EXCEPT ![c.target] = At(@, <<c.x, c.y>>)]
      [] c.op = "SPECIAL" -> Special(ents, c)
      [] c.op = "I_RECORD" /\ ValidPawstrike(c, ents) -> [ents EXCEPT ![c.actor].atb = 0]
      [] c.op = "Z_RECORD" /\ ValidManaDrain(c, ents) -> [ents EXCEPT ![c.target] = Spend(@, c.amount)]
      [] c.op = "DEFEND" /\ c.actor \in DOMAIN ents -> [ents EXCEPT ![c.actor].defending = TRUE]
      [] c.op = "CARRIER_RELOCATE" /\ ValidCarrier(c, ents) -> [ents EXCEPT ![c.target] = At(@, <<c.x, c.y>>)]
      [] c.op = "RUNE_SPEED_ACTIVATE" /\ c.actor \in DOMAIN ents -> [ents EXCEPT ![c.actor] = RuneActivated(@)]
      [] c.op = "RUNE_SPEED_CLEAR" /\ c.actor \in DOMAIN ents -> [ents EXCEPT ![c.actor].rune = @ \ {"active"}]
      [] c.op = "W_RECORD" /\ ValidWeakening(c, ents) -> [ents EXCEPT ![c.target] = Weakened(@)]
      [] c.op = "U_RECORD" /\ c.actor \in DOMAIN ents -> [ents EXCEPT ![c.actor] = Hastened(@)]
      [] c.op = "HIDE_OR_DEATH" /\ c.actor \in DOMAIN ents -> [ents EXCEPT ![c.actor] = Removed(@)]
      [] OTHER -> ents

\* After the commands: a stack that digs in is entrenched while it stays,
Entrenched(s, from) ==
    IF "entrenchment" \notin s.traits THEN s
    ELSE IF from # << >> /\ s.pos # from THEN [s EXCEPT !.effects = @ \ {"proc_entrenchment"}]
    ELSE WithEffect(s, "proc_entrenchment")

\* a bashed stack that lives is marked until its activation,
Bashed(ents, type, t) ==
    IF type = "MELEE_ATTACK" /\ t \in DOMAIN ents /\ ents[t].alive
    THEN [ents EXCEPT ![t] = WithEffect(@, "proc_shieldbash")] ELSE ents

\* and a shot costs ammunition, which the wire does not say.
Shot(s, type) ==
    IF type = "RANGED_ATTACK" /\ s.shots > 0
    THEN [s EXCEPT !.shots = Larger(0, @ - (IF "doubleshoot" \in s.traits THEN 2 ELSE 1))] ELSE s

AfterCommands(ents, a, type, from, bashed) ==
    LET dug == IF a \in DOMAIN ents THEN [ents EXCEPT ![a] = Entrenched(@, from)] ELSE ents
        hit == Bashed(dug, type, bashed)
    IN  IF a \in DOMAIN hit THEN [hit EXCEPT ![a] = Shot(@, type)] ELSE hit

\* Faulty: the counter runs below zero and the effect stays.
TickedTooLate(s) ==
    LET over == {k \in Timed : s.turns[k] = 0}
    IN  [s EXCEPT !.turns = [k \in Timed |-> Larger(0, s.turns[k] - 1)], !.effects = @ \ over]

\* The activation of s has ended: timed effects wear off.
Ticked(s) ==
    LET left(k) == Larger(0, s.turns[k] - 1)
        over    == {k \in Timed : s.turns[k] > 0 /\ left(k) = 0}
    IN  [s EXCEPT !.turns = [k \in Timed |-> left(k)], !.effects = @ \ over]

\* The activation of s begins.
Activated(s) == [s EXCEPT !.defending = FALSE, !.effects = @ \ {"proc_shieldbash", "proc_warding"}]
=============================================================================
