----------------------------- MODULE DamageChain -----------------------------
(***************************************************************************)
(* The multi-step evaluation of the learned damage model                   *)
(* (python/hwm_solver/evaluation/dynamics_multistep.py, dynamics_selector, *)
(* dynamics_survival_gate).  From every decision of a held-out battle a    *)
(* window is opened in which each policy carries its own hit points        *)
(* forward: the observed damage of the attack is replaced by the predicted *)
(* one, everything else is taken from the recording ("teacher forced").    *)
(*                                                                         *)
(* Damage is counted in whole hit points; the damage formula is reduced to *)
(* a rate per attacking creature, a fitted profile to another rate.        *)
(***************************************************************************)
EXTENDS StackHealth, Calibration

CONSTANTS
    Members,       \* fitted profiles of the ensemble
    Rate,          \* damage per creature, by profile and for the "generic" formula
    Stacks,        \* environment: the stacks when the recording begins
    Deeds,         \* environment: what a stack may do in a decision
    Horizons,      \* lengths of a window after which it is measured
    Probabilities, \* what the selector may think of "the learned model is worse"
    MaxDecisions   \* bound: decisions of a recording

Uids  == DOMAIN Stacks
Stack == [maxhp : Int, top : Int, maxcount : Int, count : Int, alive : BOOLEAN, phantom : BOOLEAN]
Hits  == [by : Uids, on : Uids, amount : Int]
Heals == [on : Uids, amount : Int]
Deed  == [type : STRING, actor : Uids, target : Uids \cup {0}, hits : Seq(Hits), heals : Seq(Heals)]

ASSUME ChainAssumption ==
    /\ Members # {} /\ IsFiniteSet(Members)
    /\ Members \cap {"generic", "mean", "selector"} = {}
    /\ Rate \in [Members \cup {"generic"} -> Nat \ {0}]
    /\ IsFiniteSet(Uids) /\ Stacks \in [Uids -> Stack]
    /\ Deeds \subseteq Deed
    /\ Horizons # {} /\ IsFiniteSet(Horizons) /\ Horizons \subseteq Nat \ {0}
    /\ Probabilities \subseteq 0..Certain /\ MaxDecisions \in Nat

VARIABLES
    decisions,  \* the recording: decisions with the stacks before and after them
    start,      \* the decision at which the window begins, 0 while the battle is recorded
    offset,     \* decisions of the window that are done
    hp,         \* hit points of each stack as each policy has them
    modeled,    \* attacks in the window
    invalid,    \* of which the policy had the attacker or the target dead
    samples,    \* measurements by horizon
    examples,   \* calibration: attacks predicted from the recorded state
    threshold   \* and the threshold chosen on them, NoThreshold before

vars == <<decisions, start, offset, hp, modeled, invalid, samples, examples, threshold>>

NoThreshold == -1
NoDamage == -1

Policies == Members \cup {"generic", "mean", "selector"}

Positive(n) == IF n > 0 THEN n ELSE 0

HpEquivalent(s) ==
    IF ~s.alive \/ s.count <= 0 THEN 0
    ELSE (s.count - 1) * AtLeastOne(s.maxhp) + Positive(s.top)

HpMap(state) == [u \in DOMAIN state |-> HpEquivalent(state[u])]

\* Stack s with n hit points, but never more than it had creatures for.
Patched(s, n) ==
    LET m      == AtLeastOne(s.maxhp)
        capped == IF s.maxcount > 0 /\ s.maxcount * m < n THEN s.maxcount * m ELSE n
    IN  IF n <= 0 THEN Removed(s) ELSE WithHp(s, capped)

Attack(row) == row.type \in {"MELEE_ATTACK", "RANGED_ATTACK"} /\ row.target # 0

ObservedDamage(row) ==
    LET primary == {i \in DOMAIN row.hits : row.hits[i].by = row.actor /\ row.hits[i].on = row.target}
    IN  Total([i \in primary |-> Positive(row.hits[i].amount)])

\* An attack that did no damage is not modelled.
IsModeled(row) == Attack(row) /\ ObservedDamage(row) > 0

\* What the formula expects of the attacker in its predicted state.
ExpectedDamage(actor, profile) == actor.count * Rate[profile]

EnsembleMean(actor) ==
    Total([m \in Members |-> ExpectedDamage(actor, m)]) \div Cardinality(Members)

\* The damage that policy p predicts for an attack, from its own hit points h.
\* "generic" is what the selector says when p is the selector.
PrimaryDamage(p, row, h, generic) ==
    LET actor  == Patched(row.before[row.actor], h[row.actor])
        target == Patched(row.before[row.target], h[row.target])
    IN  IF ~actor.alive \/ ~target.alive THEN NoDamage
        ELSE IF p \in Members THEN ExpectedDamage(actor, p)
        ELSE IF p = "generic" \/ (p = "selector" /\ generic) THEN ExpectedDamage(actor, "generic")
        ELSE EnsembleMean(actor)

\* Every stack changes as it was observed to change, but not below zero.
TeacherForced(row, h) ==
    [u \in DOMAIN h |-> Positive(h[u] + HpMap(row.after)[u] - HpMap(row.before)[u])]

\* Faulty: the prediction is subtracted before the observed damage is given back.
AdvanceSwapped(p, row, h, generic) ==
    LET forced == TeacherForced(row, h)
        damage == PrimaryDamage(p, row, h, generic)
        t      == row.target
    IN  IF ~IsModeled(row) THEN forced
        ELSE IF damage = NoDamage THEN [forced EXCEPT ![t] = @ + ObservedDamage(row)]
        ELSE [forced EXCEPT ![t] = Positive(@ - damage) + ObservedDamage(row)]

\* The observed damage is given back to the target, and the predicted one taken.
\* An attack that the policy cannot make costs the target nothing.
Advance(p, row, h, generic) ==
    LET forced == TeacherForced(row, h)
        damage == PrimaryDamage(p, row, h, generic)
        t      == row.target
    IN  IF ~IsModeled(row) THEN forced
        ELSE IF damage = NoDamage THEN [forced EXCEPT ![t] = Positive(@ + ObservedDamage(row))]
        ELSE [forced EXCEPT ![t] = Positive(Positive(@ + ObservedDamage(row)) - damage)]

IsInvalid(p, row, h) == IsModeled(row) /\ PrimaryDamage(p, row, h, FALSE) = NoDamage

Far(a, b) == IF a < b THEN b - a ELSE a - b

Distance1(h, g) == Total([u \in DOMAIN h |-> Far(h[u], g[u])])

\* The distance of the ensemble's mean from the observation, times its members.
EnsembleError(hs, observed) ==
    Distance1([u \in DOMAIN observed |-> Total([m \in Members |-> hs[m][u]])],
              [u \in DOMAIN observed |-> Cardinality(Members) * observed[u]])

Available(first) ==
    LET rest == Len(decisions) - first + 1 IN IF Max(Horizons) < rest THEN Max(Horizons) ELSE rest

Opened(first) == [p \in Policies |-> HpMap(decisions[first].before)]

-----------------------------------------------------------------------------
Init ==
    /\ decisions = << >>
    /\ start = 0 /\ offset = 0
    /\ hp = [p \in Policies |-> HpMap(Stacks)]
    /\ modeled = 0
    /\ invalid = [p \in Policies |-> 0]
    /\ samples = [n \in Horizons |-> << >>]
    /\ examples = << >>
    /\ threshold = NoThreshold

Current == IF decisions = << >> THEN Stacks ELSE decisions[Len(decisions)].after

\* The stacks after the hits of a decision, and then its heals.
Struck(state, hits) == FoldLeft(LAMBDA s, hit : [s EXCEPT ![hit.on] = ApplyDamage(@, hit.amount)], state, hits)
Healed(state, heals) == FoldLeft(LAMBDA s, heal : [s EXCEPT ![heal.on] = ApplyHeal(@, heal.amount)], state, heals)

\* The battle is recorded: a living stack does one of its deeds to a living one.
Record ==
    /\ start = 0 /\ Len(decisions) < MaxDecisions
    /\ \E d \in Deeds :
          /\ Current[d.actor].alive
          /\ d.target # 0 => Current[d.target].alive
          /\ decisions' = Append(decisions,
                [type |-> d.type, actor |-> d.actor, target |-> d.target, hits |-> d.hits,
                 before |-> Current, after |-> Healed(Struck(Current, d.hits), d.heals)])
    /\ UNCHANGED <<start, offset, hp, modeled, invalid, samples, examples, threshold>>

\* A window begins at the next decision: every policy with the recorded hit points.
OpenWindow ==
    /\ decisions # << >>
    /\ start < Len(decisions)
    /\ start > 0 => \/ offset = Available(start)
                    \/ Available(start) < Min(Horizons)
    /\ start' = start + 1 /\ offset' = 0
    /\ hp' = Opened(start + 1)
    /\ modeled' = 0
    /\ invalid' = [p \in Policies |-> 0]
    /\ UNCHANGED <<decisions, samples, examples, threshold>>

\* Faulty: a window in which nobody attacked yet is measured too.
MeasuredAlways(n, count) == n \in Horizons

\* After n decisions with "count" attacks.
Measured(n, count) == n \in Horizons /\ count > 0

\* One decision of the window, for all policies.
StepWindow ==
    /\ start > 0 /\ offset < Available(start) /\ Available(start) >= Min(Horizons)
    /\ \E generic \in BOOLEAN :
          LET row   == decisions[start + offset]
              count == modeled + (IF IsModeled(row) THEN 1 ELSE 0)
              wrong == [p \in Policies |-> invalid[p] + (IF IsInvalid(p, row, hp[p]) THEN 1 ELSE 0)]
              moved == [p \in Policies |-> Advance(p, row, hp[p], generic)]
              sample == [start |-> start, modeled |-> count,
                         generic  |-> Distance1(moved["generic"], HpMap(row.after)),
                         ensemble |-> EnsembleError(moved, HpMap(row.after)),
                         invalid  |-> wrong]
          IN  /\ generic => "selector" \in Policies /\ IsModeled(row)
              /\ hp' = moved
              /\ modeled' = count
              /\ invalid' = wrong
              /\ offset' = offset + 1
              /\ samples' = IF Measured(offset + 1, count)
                            THEN [samples EXCEPT ![offset + 1] = Append(@, sample)] ELSE samples
    /\ UNCHANGED <<decisions, start, examples, threshold>>

Done == start > 0 /\ start = Len(decisions) /\ (offset = Available(start) \/ Available(start) < Min(Horizons))

\* The attacks of a calibration battle, predicted one by one from the recorded state.
OneStep(row, probability) ==
    LET h == HpMap(row.before)
    IN  [p        |-> probability,
         generic  |-> Far(PrimaryDamage("generic", row, h, TRUE), ObservedDamage(row)),
         ensemble |-> Far(PrimaryDamage("mean", row, h, FALSE), ObservedDamage(row))]

Attacks(rows) == FoldLeft(LAMBDA kept, row : IF IsModeled(row) THEN Append(kept, row) ELSE kept, << >>, rows)

\* The threshold of the selector is fitted on them.
Calibrate ==
    /\ Done /\ threshold = NoThreshold /\ Attacks(decisions) # << >>
    /\ \E ps \in [DOMAIN Attacks(decisions) -> Probabilities] :
          /\ examples' = [i \in DOMAIN ps |-> OneStep(Attacks(decisions)[i], ps[i])]
          /\ threshold' = ChooseThreshold(examples')
    /\ UNCHANGED <<decisions, start, offset, hp, modeled, invalid, samples>>

Next == Record \/ OpenWindow \/ StepWindow \/ Calibrate

Spec == Init /\ [][Next]_vars

-----------------------------------------------------------------------------
\* Targets of the attacks that a window has replaced so far.
Targets == {decisions[i].target : i \in {j \in start..(start + offset - 1) : IsModeled(decisions[j])}}

\* Only the target of an attack may leave the recording: every other stack has, in every
\* policy and however far the window has run, the hit points that were observed
\* (the deltas of advance_damage_chain and _teacher_force_non_primary).
UntouchedAreObserved ==
    start > 0 /\ offset > 0 =>
        \A p \in Policies, u \in DOMAIN Stacks \ Targets :
            hp[p][u] = HpEquivalent(decisions[start + offset - 1].after[u])

\* A policy that agrees with the recording and predicts the observed damage agrees with
\* it afterwards, whatever else happened to the target: overkill, heals, a phantom
\* that dissipates (the order of giving back and subtracting in advance_damage_chain).
RightPredictionsAgree ==
    [][(start > 0 /\ start' = start /\ offset' > offset) =>
        LET row == decisions[start + offset]
        IN  \A p \in Members \cup {"generic"} :
                /\ IsModeled(row) => PrimaryDamage(p, row, hp[p], FALSE) = ObservedDamage(row)
                /\ hp[p] = HpMap(row.before)
                => hp'[p] = HpMap(row.after)]_vars

\* After the loops every horizon was measured exactly once for every decision that is
\* followed by enough others and whose window has an attack, with all attacks of the
\* window counted, of which no policy can have more invalid (evaluate_battles).
WindowsAreCounted ==
    LET attacks(k, n) == {j \in k..(k + n - 1) : IsModeled(decisions[j])}
        counted(s, n) == /\ s.modeled = Cardinality(attacks(s.start, n))
                         /\ \A p \in Policies : s.invalid[p] <= s.modeled
    IN  Done => \A n \in Horizons :
            /\ {samples[n][i].start : i \in DOMAIN samples[n]} =
                  {k \in 1..Len(decisions) : k + n - 1 <= Len(decisions) /\ attacks(k, n) # {}}
            /\ \A i, j \in DOMAIN samples[n] : samples[n][i].start = samples[n][j].start => i = j
            /\ \A i \in DOMAIN samples[n] : counted(samples[n][i], n)

\* On the examples it was fitted on, the selector is never worse than the generic
\* formula, nor than the ensemble while no probability is rounded to one.  Among other
\* thresholds it need not be the best: only quantiles are tried (choose_threshold).
CalibratedIsNoWorse ==
    threshold # NoThreshold =>
        /\ SelectedError(examples, threshold) <= GenericError(examples)
        /\ (\A i \in DOMAIN examples : examples[i].p < Certain)
              => SelectedError(examples, threshold) <= LearnedError(examples)
=============================================================================
