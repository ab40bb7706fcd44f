---------------------------- MODULE ReplayProofs ----------------------------
(***************************************************************************)
(* Proofs about the hit points of StackHealth and the state that           *)
(* ReplayDecisions keeps, for every board, every set of summons and        *)
(* battles and every number of decisions: a stack stays whole, counted     *)
(* effects and their counters agree, the mark of a bashed stack lasts      *)
(* until its activation, mana is never made.  And about the audits that    *)
(* compare those states: the records of every decision account for them.   *)
(***************************************************************************)
EXTENDS EvidenceAudit, SequenceTheorems, FiniteSetTheorems, WellFoundedInduction, TLAPS

\* Between (k-1)*m and k*m hit points there is room for k creatures of m.
LEMMA MultipleGrows ==
    ASSUME NEW i \in Int, NEW j \in Int, NEW m \in Nat \ {0}, i <= j
    PROVE  i * m <= j * m
<1>1. PICK d \in Nat : j = i + d
  BY j - i \in Nat
<1>2. j * m = i * m + d * m
  BY <1>1
<1>3. d * m \in Nat
  OBVIOUS
<1> QED
  BY <1>2, <1>3

LEMMA CreaturesFit ==
    ASSUME NEW n \in Nat \ {0}, NEW m \in Nat \ {0}
    PROVE  /\ Creatures(n, m) \in Nat \ {0}
           /\ (Creatures(n, m) - 1) * m < n
           /\ n <= Creatures(n, m) * m
<1> DEFINE k == (n + m - 1) \div m
           e == (n + m - 1) % m
<1>1. k \in Int /\ e \in 0..(m - 1)
  OBVIOUS
<1>2. n + m - 1 = m * k + e
  OBVIOUS
<1>3. (k - 1) * m = m * k - m /\ k * m = m * k
  BY <1>1
<1> HIDE DEF k, e
<1>4. (k - 1) * m < n /\ n <= k * m
  BY <1>1, <1>2, <1>3
<1>5. k > 0
  <2>1. SUFFICES ASSUME k <= 0 PROVE FALSE
    BY <1>1
  <2>2. k * m <= 0 * m
    BY <1>1, <2>1, MultipleGrows
  <2>3. 0 * m = 0 /\ k * m \in Int
    BY <1>1
  <2> QED
    BY <1>4, <2>2, <2>3
<1> QED
  BY <1>1, <1>4, <1>5 DEF Creatures, k

LEMMA CreaturesWithin ==
    ASSUME NEW n \in Nat \ {0}, NEW m \in Nat \ {0}, NEW c \in Nat, n <= c * m
    PROVE  Creatures(n, m) <= c
<1> DEFINE k == Creatures(n, m)
<1>1. k \in Nat \ {0} /\ (k - 1) * m < n
  BY CreaturesFit
<1> HIDE DEF k
<1>2. SUFFICES ASSUME c <= k - 1 PROVE FALSE
  BY <1>1 DEF k
<1>3. c * m <= (k - 1) * m
  BY <1>1, <1>2, MultipleGrows
<1>4. c * m \in Int /\ (k - 1) * m \in Int
  BY <1>1
<1> QED
  BY <1>1, <1>3, <1>4

-----------------------------------------------------------------------------
HealthFields == {"maxhp", "top", "maxcount", "count", "alive", "phantom"}

\* What is known of the numbers of a creature stack.
Fit(s) ==
    /\ HealthFields \subseteq DOMAIN s
    /\ s.alive \in BOOLEAN /\ s.phantom \in BOOLEAN
    /\ s.maxhp \in Nat \ {0} /\ s.maxcount \in Nat
    /\ s.top \in Int /\ s.top <= s.maxhp /\ s.count \in Int
    /\ Whole(s)

LEMMA TotalBounds ==
    ASSUME NEW s, Fit(s)
    PROVE  /\ TotalHp(s) \in Nat
           /\ s.alive => TotalHp(s) > 0
           /\ s.alive => TotalHp(s) = (s.count - 1) * s.maxhp + s.top
           /\ ~s.alive => TotalHp(s) = 0
           /\ TotalHp(s) <= s.maxcount * s.maxhp
<1>1. AtLeastOne(s.maxhp) = s.maxhp
  BY DEF Fit, AtLeastOne
<1>2. CASE ~s.alive
  <2>1. TotalHp(s) = 0
    BY <1>2 DEF TotalHp
  <2>2. s.maxcount * s.maxhp \in Nat
    BY DEF Fit
  <2> QED
    BY <1>2, <2>1, <2>2
<1>3. CASE s.alive
  <2>1. TotalHp(s) = (s.count - 1) * s.maxhp + s.top
    BY <1>1, <1>3 DEF TotalHp, Fit, Whole
  <2>2. (s.count - 1) * s.maxhp \in Nat
    BY <1>3 DEF Fit, Whole
  <2>3. s.count * s.maxhp <= s.maxcount * s.maxhp
    BY <1>3, MultipleGrows DEF Fit, Whole
  <2>4. s.count * s.maxhp = (s.count - 1) * s.maxhp + s.maxhp
    BY DEF Fit
  <2>5. s.maxcount * s.maxhp \in Nat /\ s.top \in Nat \ {0} /\ s.top <= s.maxhp /\ s.maxhp \in Nat
    BY <1>3 DEF Fit, Whole
  <2>6. s.count * s.maxhp \in Int
    BY DEF Fit
  <2> HIDE DEF Fit
  <2>7. TotalHp(s) \in Nat \ {0} /\ TotalHp(s) <= s.maxcount * s.maxhp
    BY <2>1, <2>2, <2>3, <2>4, <2>5, <2>6
  <2> QED
    BY <1>3, <2>1, <2>7
<1> QED
  BY <1>2, <1>3 DEF Fit

\* A stack is rebuilt whole from n hit points, and then has just n.
LEMMA WithHpFit ==
    ASSUME NEW s, Fit(s), NEW n \in Nat \ {0}, n <= s.maxcount * s.maxhp
    PROVE  Fit(WithHp(s, n)) /\ TotalHp(WithHp(s, n)) = n
<1> DEFINE k == Creatures(n, s.maxhp)
           t == WithHp(s, n)
<1>1. AtLeastOne(s.maxhp) = s.maxhp /\ s.maxhp \in Nat \ {0} /\ s.maxcount \in Nat
  BY DEF Fit, AtLeastOne
<1>2. /\ k \in Nat \ {0}
      /\ (k - 1) * s.maxhp < n
      /\ n <= k * s.maxhp
      /\ k <= s.maxcount
  BY <1>1, CreaturesFit, CreaturesWithin
<1>3. t = [s EXCEPT !.count = k, !.top = n - (k - 1) * s.maxhp, !.alive = TRUE]
  BY <1>1 DEF WithHp
<1> HIDE DEF k, t
<1>4. /\ (k - 1) * s.maxhp \in Int
      /\ k * s.maxhp = (k - 1) * s.maxhp + s.maxhp
  BY <1>1, <1>2
<1>5. n - (k - 1) * s.maxhp \in 1..s.maxhp
  BY <1>1, <1>2, <1>4
<1>6. /\ t.count = k /\ t.top = n - (k - 1) * s.maxhp /\ t.alive = TRUE
      /\ t.maxhp = s.maxhp /\ t.maxcount = s.maxcount /\ t.phantom = s.phantom
      /\ DOMAIN t = DOMAIN s
  BY <1>3 DEF Fit, HealthFields
<1>7. Fit(t)
  <2>1. t.top \in 1..s.maxhp /\ t.count \in Nat \ {0} /\ t.count <= t.maxcount
    BY <1>2, <1>5, <1>6
  <2>2. s.phantom \in BOOLEAN /\ HealthFields \subseteq DOMAIN s
    BY DEF Fit
  <2>3. /\ t.maxhp \in Nat \ {0} /\ t.maxcount \in Nat /\ t.count \in Int /\ t.top \in Int
        /\ t.alive = TRUE /\ t.phantom \in BOOLEAN /\ HealthFields \subseteq DOMAIN t
    BY <1>1, <1>6, <2>1, <2>2
  <2>4. 0 < t.count /\ t.count <= t.maxcount /\ 0 < t.top /\ t.top <= t.maxhp
    BY <1>1, <1>6, <2>1
  <2> QED
    BY <2>3, <2>4, Zenon DEF Fit, Whole
<1>8. TotalHp(t) = (k - 1) * s.maxhp + (n - (k - 1) * s.maxhp)
  BY <1>6, <1>7, TotalBounds
<1> QED
  BY <1>4, <1>7, <1>8 DEF t

LEMMA RemovedFit ==
    ASSUME NEW s, Fit(s)
    PROVE  Fit(Removed(s)) /\ TotalHp(Removed(s)) = 0
  BY DEF Fit, HealthFields, Removed, Whole, TotalHp

\* Damage takes exactly its amount from the hit points of a stack, or all there are,
\* and leaves the stack whole (apply_damage); a phantom is gone at once.
THEOREM DamageIsAccounted ==
    ASSUME NEW s, Fit(s), NEW amount \in Nat \ {0}
    PROVE  /\ Fit(ApplyDamage(s, amount))
           /\ ~s.phantom => TotalHp(ApplyDamage(s, amount)) = Larger(0, TotalHp(s) - amount)
           /\ s.phantom /\ s.count > 0 => ~ApplyDamage(s, amount).alive
<1>1. s.maxhp > 0 /\ TotalHp(s) \in Nat /\ TotalHp(s) <= s.maxcount * s.maxhp
      /\ s.maxcount * s.maxhp \in Nat
  BY TotalBounds DEF Fit
<1>2. CASE s.count <= 0
  <2>1. ApplyDamage(s, amount) = s
    BY <1>2 DEF ApplyDamage
  <2>2. TotalHp(s) = 0
    BY <1>2 DEF TotalHp
  <2>3. Larger(0, TotalHp(s) - amount) = 0
    BY <2>2 DEF Larger
  <2> QED
    BY <1>2, <2>1, <2>2, <2>3 DEF Fit
<1>3. CASE s.count > 0 /\ (s.phantom \/ TotalHp(s) - amount <= 0)
  <2>1. ApplyDamage(s, amount) = Removed(s)
    BY <1>1, <1>3 DEF ApplyDamage, Fit
  <2>2. ~s.phantom => Larger(0, TotalHp(s) - amount) = 0
    BY <1>1, <1>3 DEF Larger
  <2>3. Removed(s).alive = FALSE
    BY DEF Removed, Fit, HealthFields
  <2> QED
    BY <2>1, <2>2, <2>3, RemovedFit
<1>4. CASE s.count > 0 /\ ~s.phantom /\ TotalHp(s) - amount > 0
  <2> DEFINE n == TotalHp(s) - amount
  <2>1. ApplyDamage(s, amount) = WithHp(s, n)
    BY <1>1, <1>4 DEF ApplyDamage, Fit
  <2>2. n \in Nat \ {0} /\ n <= s.maxcount * s.maxhp /\ Larger(0, n) = n
    BY <1>1, <1>4 DEF Larger
  <2> QED
    BY <1>4, <2>1, <2>2, WithHpFit
<1>5. s.count \in Int /\ TotalHp(s) - amount \in Int
  BY <1>1 DEF Fit
<1> QED
  BY <1>2, <1>3, <1>4, <1>5

\* Healing gives exactly its amount, or what is missing to the greatest number the
\* stack ever had, and leaves the stack whole (apply_heal); it also raises the dead.
THEOREM HealIsAccounted ==
    ASSUME NEW s, Fit(s), NEW amount \in Nat \ {0}, s.maxcount > 0
    PROVE  /\ Fit(ApplyHeal(s, amount))
           /\ TotalHp(ApplyHeal(s, amount)) =
                  IF s.maxcount * s.maxhp < TotalHp(s) + amount THEN s.maxcount * s.maxhp
                  ELSE TotalHp(s) + amount
<1> DEFINE cap == s.maxcount * s.maxhp
           n == IF cap < TotalHp(s) + amount THEN cap ELSE TotalHp(s) + amount
<1>1. TotalHp(s) \in Nat /\ cap \in Nat
  BY TotalBounds DEF Fit
<1>2. 1 * s.maxhp <= cap
  BY MultipleGrows DEF Fit
<1>3. cap > 0
  BY <1>1, <1>2 DEF Fit
<1>4. n \in Nat \ {0} /\ n <= cap
  BY <1>1, <1>3
<1>5. ApplyHeal(s, amount) = WithHp(s, n)
  BY DEF ApplyHeal, Fit
<1> QED
  BY <1>4, <1>5, WithHpFit

-----------------------------------------------------------------------------
\* Operations on one stack: each keeps what StackOK says of it.

Steady == StackFields \ {"count", "maxcount", "top", "alive"}

\* At most the number of creatures, their first and whether they live have changed.
Kept(s, t) ==
    /\ DOMAIN t = DOMAIN s /\ t.alive \in BOOLEAN
    /\ \A f \in Steady : t[f] = s[f]

LEMMA HealthChanged ==
    ASSUME NEW s, StackOK(s), NEW t, Kept(s, t), IsHero(s) \/ Fit(t)
    PROVE  StackOK(t)
<1>1. /\ t.traits = s.traits /\ t.maxhp = s.maxhp /\ t.mana = s.mana
      /\ t.shots = s.shots /\ t.attack = s.attack /\ t.phantom = s.phantom
      /\ t.defending = s.defending /\ t.rune = s.rune /\ t.effects = s.effects /\ t.turns = s.turns
  BY DEF StackFields, Steady, Kept
<1>2. IsHero(t) <=> IsHero(s)
  BY <1>1 DEF IsHero
<1> QED
  BY <1>1, <1>2 DEF StackOK, Fit, Kept

LEMMA CreatureFits ==
    ASSUME NEW s, StackOK(s), ~IsHero(s)
    PROVE  Fit(s)
  BY DEF StackOK, Fit, StackFields, HealthFields

LEMMA WithHpKept ==
    ASSUME NEW s, StackOK(s), NEW n
    PROVE  Kept(s, WithHp(s, n))
  BY DEF WithHp, StackOK, StackFields, Kept, Steady

LEMMA RemovedOK ==
    ASSUME NEW s, StackOK(s)
    PROVE  StackOK(Removed(s))
<1>1. Kept(s, Removed(s))
  BY DEF Removed, StackOK, StackFields, Kept, Steady
<1> QED
  BY <1>1, HealthChanged, CreatureFits, RemovedFit

LEMMA DamageOK ==
    ASSUME NEW s, StackOK(s), NEW amount \in Int
    PROVE  StackOK(ApplyDamage(s, amount))
<1>1. CASE amount <= 0
  BY <1>1 DEF ApplyDamage
<1>2. CASE amount > 0
  <2>1. amount \in Nat \ {0}
    BY <1>2
  <2>2. CASE ApplyDamage(s, amount) = s \/ ApplyDamage(s, amount) = Removed(s)
    BY <2>2, RemovedOK
  <2>3. CASE ApplyDamage(s, amount) = WithHp(s, TotalHp(s) - amount)
    BY <2>1, <2>3, WithHpKept, CreatureFits, DamageIsAccounted, HealthChanged
  <2> QED
    BY <2>2, <2>3 DEF ApplyDamage
<1> QED
  BY <1>1, <1>2

LEMMA HealOK ==
    ASSUME NEW s, StackOK(s), NEW amount \in Int
    PROVE  StackOK(ApplyHeal(s, amount))
<1>1. CASE ApplyHeal(s, amount) = s
  BY <1>1
<1>2. CASE ApplyHeal(s, amount) # s
  <2>1. amount > 0 /\ (~IsHero(s) => s.maxcount > 0)
    BY <1>2 DEF ApplyHeal, StackOK
  <2>2. \E n : ApplyHeal(s, amount) = WithHp(s, n)
    BY <1>2 DEF ApplyHeal
  <2>3. ~IsHero(s) => Fit(ApplyHeal(s, amount))
    BY <2>1, CreatureFits, HealIsAccounted
  <2> QED
    BY <2>2, <2>3, WithHpKept, HealthChanged
<1> QED
  BY <1>1, <1>2

LEMMA OtherFieldOK ==
    ASSUME NEW s, StackOK(s), NEW x
    PROVE  /\ StackOK([s EXCEPT !.pos = x])
           /\ StackOK([s EXCEPT !.atb = x])
           /\ StackOK([s EXCEPT !.speed = x])
           /\ StackOK([s EXCEPT !.defending = TRUE])
           /\ x \in Nat => StackOK([s EXCEPT !.mana = x])
           /\ x \in Nat => StackOK([s EXCEPT !.shots = x])
           /\ x \notin Counted => StackOK([s EXCEPT !.effects = @ \cup {x}])
           /\ x \notin Counted => StackOK([s EXCEPT !.effects = @ \ {x}])
  BY DEF StackOK, StackFields, IsHero, Whole

LEMMA RuneOK ==
    ASSUME NEW s, StackOK(s)
    PROVE  /\ StackOK(RuneActivated(s))
           /\ StackOK([s EXCEPT !.rune = @ \ {"active"}])
  BY DEF StackOK, StackFields, IsHero, Whole, RuneActivated

LEMMA SpendOK ==
    ASSUME NEW s, StackOK(s), NEW n \in Int
    PROVE  StackOK(Spend(s, n))
<1>1. Larger(0, s.mana - Larger(0, n)) \in Nat
  BY DEF Larger, StackOK
<1> QED
  BY <1>1, OtherFieldOK DEF Spend

LEMMA WeakenedOK ==
    ASSUME NEW s, StackOK(s)
    PROVE  StackOK(Weakened(s))
  BY DEF Weakened, StackOK, StackFields, IsHero, Whole, Larger

LEMMA WithTimedOK ==
    ASSUME NEW s, StackOK(s), NEW key \in Timed, NEW n \in 1..3
    PROVE  StackOK(WithTimed(s, key, n))
  BY DEF WithTimed, StackOK, StackFields, IsHero, Whole, Timed, Counted

LEMMA HastenedOK ==
    ASSUME NEW s, StackOK(s)
    PROVE  StackOK(Hastened(s))
  BY OtherFieldOK DEF Hastened

LEMMA EntrenchedOK ==
    ASSUME NEW s, StackOK(s), NEW from
    PROVE  StackOK(Entrenched(s, from))
  BY OtherFieldOK DEF Entrenched, WithEffect, Counted

LEMMA ShotOK ==
    ASSUME NEW s, StackOK(s), NEW type
    PROVE  StackOK(Shot(s, type))
<1>1. /\ Larger(0, s.shots - 2) \in Nat
      /\ Larger(0, s.shots - 1) \in Nat
  BY DEF Larger, StackOK
<1> QED
  BY <1>1, OtherFieldOK DEF Shot

LEMMA PlacedOK ==
    ASSUME NEW s, StackOK(s), NEW c, c.amount \in Int
    PROVE  StackOK(Placed(s, c))
<1>1. CASE c.amount < 0
  BY <1>1, OtherFieldOK DEF Placed, At
<1>2. CASE c.amount >= 0
  <2> DEFINE t == Placed(s, c)
  <2> DEFINE e == c.amount > 0
             u == [s EXCEPT !.pos = <<c.x, c.y>>, !.count = c.amount,
                           !.maxcount = Larger(s.maxcount, c.amount), !.alive = e]
             v == [u EXCEPT !.top = s.maxhp]
  <2>a. t = IF c.amount > 0 /\ s.top <= 0 THEN v ELSE u
    BY <1>2 DEF Placed
  <2>d. e \in BOOLEAN /\ (e <=> c.amount > 0)
    OBVIOUS
  <2> HIDE DEF e
  <2>b. /\ Kept(s, u) /\ u.count = c.amount /\ (u.alive <=> c.amount > 0)
        /\ u.maxcount = Larger(s.maxcount, c.amount) /\ u.top = s.top
    BY <2>d DEF StackOK, StackFields, Kept, Steady
  <2>c. /\ Kept(u, v) /\ v.top = s.maxhp
        /\ v.count = u.count /\ v.alive = u.alive /\ v.maxcount = u.maxcount
    BY <2>b DEF StackOK, StackFields, Kept, Steady
  <2> HIDE DEF t, u, v
  <2>1. /\ Kept(s, t) /\ t.count = c.amount /\ (t.alive <=> c.amount > 0)
        /\ t.maxcount = Larger(s.maxcount, c.amount)
        /\ t.top = IF c.amount > 0 /\ s.top <= 0 THEN s.maxhp ELSE s.top
    BY <2>a, <2>b, <2>c DEF Kept
  <2>2. CASE IsHero(s)
    BY <2>1, <2>2, HealthChanged DEF t
  <2>3. CASE ~IsHero(s)
    <3>1. /\ s.maxhp \in Nat \ {0} /\ s.maxcount \in Nat /\ s.top \in Int /\ s.top <= s.maxhp
      BY <2>3 DEF StackOK
    <3>2. /\ Larger(s.maxcount, c.amount) \in Nat /\ c.amount <= Larger(s.maxcount, c.amount)
      BY <1>2, <3>1 DEF Larger
    <3>3. t.maxhp = s.maxhp /\ t.phantom = s.phantom /\ t.phantom \in BOOLEAN
      BY <2>1 DEF StackFields, StackOK, Kept, Steady
    <3>4. /\ t.maxcount \in Nat /\ t.top \in Int /\ t.top <= t.maxhp
          /\ t.count \in Int /\ t.count <= t.maxcount /\ (t.alive => 0 < t.count /\ 0 < t.top)
      BY <1>2, <2>1, <3>1, <3>2, <3>3
    <3>5. HealthFields \subseteq DOMAIN t
      BY <2>1 DEF StackOK, StackFields, HealthFields, Kept
    <3>6. Fit(t)
      BY <2>1, <3>1, <3>3, <3>4, <3>5 DEF Fit, Whole, Kept
    <3> QED
      BY <2>1, <3>6, HealthChanged DEF t
  <2> QED
    BY <2>2, <2>3
<1> QED
  BY <1>1, <1>2

\* An effect wears off exactly when its counter reaches zero.
LEMMA TickedOK ==
    ASSUME NEW s, StackOK(s)
    PROVE  StackOK(Ticked(s))
  BY DEF Ticked, Larger, StackOK, StackFields, IsHero, Whole, Timed, Counted

LEMMA ActivatedOK ==
    ASSUME NEW s, StackOK(s)
    PROVE  StackOK(Activated(s))
  BY DEF Activated, StackOK, StackFields, IsHero, Whole, Counted

-----------------------------------------------------------------------------
\* Commands keep it of every stack.

StatesOK(ents) == \A u \in DOMAIN ents : StackOK(ents[u])

\* The stacks ents have become new ones, and none is lost.
Keeps(ents, new) == StatesOK(new) /\ DOMAIN new = DOMAIN ents

CommandOK(c, actors) ==
    /\ {"op", "code", "actor", "target", "amount", "value", "zeros"} \subseteq DOMAIN c
    /\ c.amount \in Int /\ c.amount >= Nothing /\ c.value \in Int
    /\ c.code \notin Counted /\ c.code # "proc_shieldbash"
    /\ c.op = "SPAWN_ENTITY" => c.value \in DOMAIN Summons
    /\ c.op = "ACTIVATE" => c.actor \in actors

LEMMA Updated ==
    ASSUME NEW ents, StatesOK(ents), NEW u, NEW s, u \in DOMAIN ents => StackOK(s)
    PROVE  Keeps(ents, [ents EXCEPT ![u] = s])
  BY DEF StatesOK, Keeps

LEMMA KeepsTwice ==
    ASSUME NEW ents, NEW mid, NEW new, Keeps(ents, mid), Keeps(mid, new)
    PROVE  Keeps(ents, new)
  BY DEF Keeps

LEMMA NotedOK ==
    ASSUME NEW ents, StatesOK(ents), NEW c, c.code \notin Counted
    PROVE  Keeps(ents, Noted(ents, c))
  BY Updated, OtherFieldOK DEF Noted, WithEffect, StatesOK, Keeps

LEMMA FedOK ==
    ASSUME NEW ents, StatesOK(ents), NEW c, c.amount \in Nat
    PROVE  Keeps(ents, Fed(ents, c))
<1> DEFINE mid == [ents EXCEPT ![c.actor] = Spend(@, c.amount)]
           new == [mid EXCEPT ![c.target] = [mid[c.target] EXCEPT !.mana = mid[c.target].mana + c.amount]]
<1>1. Keeps(ents, mid)
  BY SpendOK, Updated DEF StatesOK
<1>2. \A u \in DOMAIN mid : StackOK([mid[u] EXCEPT !.mana = mid[u].mana + c.amount])
  <2>1. SUFFICES ASSUME NEW u \in DOMAIN mid
                 PROVE  StackOK([mid[u] EXCEPT !.mana = mid[u].mana + c.amount])
    OBVIOUS
  <2>2. StackOK(mid[u]) /\ mid[u].mana + c.amount \in Nat
    BY <1>1 DEF Keeps, StatesOK, StackOK
  <2> QED
    BY <2>2, OtherFieldOK
<1> HIDE DEF mid
<1>3. Keeps(mid, new)
  BY <1>1, <1>2, Updated DEF Keeps
<1>4. Fed(ents, c) = new
  BY DEF Fed, mid
<1> QED
  BY <1>1, <1>3, <1>4, KeepsTwice

LEMMA ProcOK ==
    ASSUME NEW ents, StatesOK(ents), NEW c
    PROVE  Keeps(ents, Proc(ents, c))
<1>1. "proc_stone" \in Timed /\ "proc_cripple" \in Timed /\ 1 \in 1..3 /\ 2 \in 1..3
  BY DEF Timed
<1>2. Keeps(ents, [ents EXCEPT ![c.target] = WithTimed(@, "proc_stone", 1)])
  BY <1>1, WithTimedOK, Updated DEF StatesOK
<1>3. Keeps(ents, [ents EXCEPT ![c.target] = WithTimed(@, "proc_cripple", 2)])
  BY <1>1, WithTimedOK, Updated DEF StatesOK
<1>4. CASE c.code = "sta"
  BY <1>2, <1>4 DEF Proc, Keeps
<1>5. CASE c.code # "sta"
  BY <1>3, <1>5 DEF Proc, Keeps
<1> QED
  BY <1>4, <1>5

LEMMA StatusOK ==
    ASSUME NEW ents, StatesOK(ents), NEW c, c.code \notin Counted, c.value \in Int
    PROVE  Keeps(ents, Status(ents, c))
<1> DEFINE noted == [ents EXCEPT ![c.target] = WithEffect(@, c.code)]
<1>1. Keeps(ents, noted)
  BY OtherFieldOK, Updated DEF WithEffect, StatesOK
<1> HIDE DEF noted
<1>2. Keeps(noted, [noted EXCEPT ![c.actor] = Spend(@, c.value)])
  BY <1>1, SpendOK, Updated DEF Keeps, StatesOK
<1> QED
  BY <1>1, <1>2, KeepsTwice DEF Status, noted

LEMMA DirectDamageOK ==
    ASSUME NEW ents, StatesOK(ents), NEW c, c.amount \in Int, c.value \in Int
    PROVE  Keeps(ents, DirectDamage(ents, c))
<1> DEFINE hurt == [ents EXCEPT ![c.target] = ApplyDamage(@, Abs(c.amount))]
<1>1. Abs(c.amount) \in Int
  BY DEF Abs
<1>2. Keeps(ents, hurt)
  BY <1>1, DamageOK, Updated DEF StatesOK
<1> HIDE DEF hurt
<1>3. Keeps(hurt, [hurt EXCEPT ![c.actor] = Spend(@, c.value)])
  BY <1>2, SpendOK, Updated DEF Keeps, StatesOK
<1> QED
  BY <1>2, <1>3, KeepsTwice DEF DirectDamage, hurt

LEMMA SpecialOK ==
    ASSUME NEW ents, StatesOK(ents), NEW c, NEW actors, CommandOK(c, actors)
    PROVE  Keeps(ents, Special(ents, c))
<1>1. c.amount \in Int /\ c.value \in Int /\ c.code \notin Counted
  BY DEF CommandOK
<1>2. Keeps(ents, [ents EXCEPT ![c.actor] = Spend(@, c.value)])
  BY <1>1, SpendOK, Updated DEF StatesOK
<1>3. Keeps(ents, [ents EXCEPT ![c.target] = ApplyHeal(@, c.amount)])
  BY <1>1, HealOK, Updated DEF StatesOK
<1>4. Keeps(ents, [[ents EXCEPT ![c.target] = ApplyHeal(@, c.amount)] EXCEPT ![c.actor] = Spend(@, c.value)])
  <2> DEFINE mid == [ents EXCEPT ![c.target] = ApplyHeal(@, c.amount)]
  <2> HIDE DEF mid
  <2>1. Keeps(ents, mid)
    BY <1>3 DEF mid
  <2>2. Keeps(mid, [mid EXCEPT ![c.actor] = Spend(@, c.value)])
    BY <1>1, <2>1, SpendOK, Updated DEF Keeps, StatesOK
  <2> QED
    BY <2>1, <2>2, KeepsTwice DEF mid
<1>5. Keeps(ents, [ents EXCEPT ![c.actor] = WithTimed(@, "msl", 3)])
  BY WithTimedOK, Updated DEF StatesOK, Timed
<1>6. Keeps(ents, [ents EXCEPT ![c.actor] = Removed(@)])
  BY RemovedOK, Updated DEF StatesOK
<1>7. ValidManaFeed(c, ents) => Keeps(ents, Fed(ents, c))
  BY <1>1, FedOK DEF ValidManaFeed
<1>8. Keeps(ents, [ents EXCEPT ![c.actor] = ApplyHeal(@, c.amount)])
  BY <1>1, HealOK, Updated DEF StatesOK
<1>9. Keeps(ents, ents)
  BY DEF Keeps
<1>10. Keeps(ents, Noted(ents, c)) /\ Keeps(ents, Proc(ents, c)) /\ Keeps(ents, Status(ents, c))
       /\ Keeps(ents, DirectDamage(ents, c))
  BY <1>1, NotedOK, ProcOK, StatusOK, DirectDamageOK
<1> QED
  BY <1>2, <1>4, <1>5, <1>6, <1>7, <1>8, <1>9, <1>10 DEF Special

LEMMA CommandApplied ==
    ASSUME NEW ents, StatesOK(ents), NEW c, NEW actors, CommandOK(c, actors), NEW still
    PROVE  /\ StatesOK(ApplyCommand(ents, c, still))
           /\ DOMAIN ents \subseteq DOMAIN ApplyCommand(ents, c, still)
<1>1. c.amount \in Int /\ c.value \in Int
  BY DEF CommandOK
<1>2. \A u, p : Keeps(ents, [ents EXCEPT ![u] = At(@, p)])
  BY OtherFieldOK, Updated DEF At, StatesOK
<1>3. Keeps(ents, [ents EXCEPT ![c.target] = ApplyDamage(@, c.amount)])
  BY <1>1, DamageOK, Updated DEF StatesOK
<1>4. c.op = "SPAWN_ENTITY" =>
          StatesOK([u \in DOMAIN ents \cup {c.actor} |-> IF u = c.actor THEN Summons[c.value] ELSE ents[u]])
  BY SummonsAssumption DEF CommandOK, StatesOK
<1>5. Keeps(ents, [ents EXCEPT ![c.actor] = Placed(@, c)])
  BY <1>1, PlacedOK, Updated DEF StatesOK
<1>6. Keeps(ents, Special(ents, c))
  BY SpecialOK
<1>7. Keeps(ents, [ents EXCEPT ![c.actor].atb = 0]) /\ Keeps(ents, [ents EXCEPT ![c.actor].defending = TRUE])
  BY OtherFieldOK, Updated DEF StatesOK
<1>8. Keeps(ents, [ents EXCEPT ![c.target] = Spend(@, c.amount)])
  BY <1>1, SpendOK, Updated DEF StatesOK
<1>9. Keeps(ents, [ents EXCEPT ![c.actor] = RuneActivated(@)])
      /\ Keeps(ents, [ents EXCEPT ![c.actor].rune = @ \ {"active"}])
  BY RuneOK, Updated DEF StatesOK
<1>10. Keeps(ents, [ents EXCEPT ![c.target] = Weakened(@)])
  BY WeakenedOK, Updated DEF StatesOK
<1>11. Keeps(ents, [ents EXCEPT ![c.actor] = Hastened(@)]) /\ Keeps(ents, [ents EXCEPT ![c.actor] = Removed(@)])
  BY HastenedOK, RemovedOK, Updated DEF StatesOK
<1> QED
  BY <1>2, <1>3, <1>4, <1>5, <1>6, <1>7, <1>8, <1>9, <1>10, <1>11 DEF ApplyCommand, Keeps

LEMMA AfterCommandsOK ==
    ASSUME NEW ents, StatesOK(ents), NEW a, NEW type, NEW from, NEW bashed
    PROVE  Keeps(ents, AfterCommands(ents, a, type, from, bashed))
<1> DEFINE dug == IF a \in DOMAIN ents THEN [ents EXCEPT ![a] = Entrenched(@, from)] ELSE ents
           hit == Bashed(dug, type, bashed)
           new == IF a \in DOMAIN hit THEN [hit EXCEPT ![a] = Shot(@, type)] ELSE hit
<1>1. Keeps(ents, dug)
  BY EntrenchedOK, Updated DEF StatesOK, Keeps
<1> HIDE DEF dug
<1>2. Keeps(dug, hit)
  <2>1. \A u \in DOMAIN dug : StackOK(WithEffect(dug[u], "proc_shieldbash"))
    BY <1>1, OtherFieldOK DEF WithEffect, Counted, Keeps, StatesOK
  <2> QED
    BY <1>1, <2>1, Updated DEF Bashed, Keeps
<1> HIDE DEF hit
<1>3. Keeps(hit, new)
  BY <1>2, ShotOK, Updated DEF Keeps, StatesOK
<1> QED
  BY <1>1, <1>2, <1>3, KeepsTwice DEF AfterCommands, dug, hit

\* What an activation makes of the stacks.
LEMMA ActivationOK ==
    ASSUME NEW ents, StatesOK(ents), NEW u, ActivateOn(ents, u)
    PROVE  Keeps(ents, working') /\ before' = working' /\ active' = u
<1> DEFINE ticked == IF active \in DOMAIN ents THEN [ents EXCEPT ![active] = Ticked(@)] ELSE ents
           ready == IF u \in DOMAIN ticked THEN [ticked EXCEPT ![u] = Activated(@)] ELSE ticked
<1>1. Keeps(ents, ticked)
  BY TickedOK, Updated DEF StatesOK, Keeps
<1> HIDE DEF ticked
<1>2. Keeps(ticked, ready)
  BY <1>1, ActivatedOK, Updated DEF Keeps, StatesOK
<1>3. working' = ready /\ before' = ready /\ active' = u
  BY DEF ActivateOn, ticked
<1> QED
  BY <1>1, <1>2, <1>3, KeepsTwice

-----------------------------------------------------------------------------
\* Records and the sequences they come in.

FromWire(w, actors) ==
    /\ w.nums \in Seq(Int) /\ w.code \notin Counted /\ w.code # "proc_shieldbash"
    /\ \A i \in 1..Len(w.nums) : w.nums[i] < 0 => w.tag = "S" /\ w.code = "psc" /\ i = 4
    /\ w.tag = "M" => Len(w.nums) = 2 /\ w.nums[2] \in DOMAIN Summons
    /\ w.tag = "C" => w.whole /\ Len(w.nums) = 1 /\ w.nums[1] \in actors

\* A name that a layout gives to a number that is there gets this number.
LEMMA NamedInt ==
    ASSUME NEW layout, Len(layout) \in Nat, NEW nums \in Seq(Int), NEW k \in DOMAIN Command,
           Command[k] \in Int
    PROVE  Named(layout, nums)[k] \in Int
<1> DEFINE places == {i \in 1..Len(layout) : i <= Len(nums) /\ layout[i] = k}
<1>1. Named(layout, nums)[k] = IF places # {} THEN nums[CHOOSE i \in places : TRUE] ELSE Command[k]
  BY DEF Named
<1>2. ASSUME places # {} PROVE nums[CHOOSE i \in places : TRUE] \in Int
  <2>1. (CHOOSE i \in places : TRUE) \in places
    BY <1>2
  <2>2. (CHOOSE i \in places : TRUE) \in 1..Len(nums)
    BY <2>1
  <2> QED
    BY <2>2
<1> QED
  BY <1>1, <1>2

\* The amount that a record says is never negative: only the last number of a
\* psc-record may be, and it is no amount.
LEMMA AmountDecoded ==
    ASSUME NEW w, NEW actors, FromWire(w, actors), NEW layout, Len(layout) \in Nat,
           w.tag = "S" /\ w.code = "psc" => 4 \notin {i \in 1..Len(layout) : layout[i] = "amount"}
    PROVE  Named(layout, w.nums).amount >= Nothing
<1> DEFINE places == {i \in 1..Len(layout) : i <= Len(w.nums) /\ layout[i] = "amount"}
<1>1. "amount" \in DOMAIN Command /\ Command.amount = Nothing /\ Nothing = -1
  BY DEF Command, Nothing
<1>2. Named(layout, w.nums).amount = IF places # {} THEN w.nums[CHOOSE i \in places : TRUE] ELSE Nothing
  BY <1>1 DEF Named
<1>3. ASSUME places # {}
      PROVE  w.nums[CHOOSE i \in places : TRUE] \in Int /\ w.nums[CHOOSE i \in places : TRUE] >= 0
  <2>1. PICK i \in places : i = CHOOSE k \in places : TRUE
    BY <1>3
  <2>2. i \in 1..Len(w.nums) /\ i \in 1..Len(layout) /\ layout[i] = "amount" /\ w.nums[i] \in Int
    BY DEF FromWire
  <2>3. ~(w.nums[i] < 0)
    BY <2>2 DEF FromWire
  <2> QED
    BY <2>1, <2>2, <2>3
<1> HIDE DEF places
<1> QED
  BY <1>1, <1>2, <1>3

LEMMA DecodedOK ==
    ASSUME NEW w, NEW actors, FromWire(w, actors)
    PROVE  CommandOK(Decode(w), actors)
<1> DEFINE Fields == {"op", "code", "actor", "target", "amount", "value", "zeros", "raw"}
           Basic(c) == c.amount \in Int /\ c.value \in Int
<1>1. /\ Fields \subseteq DOMAIN Command
      /\ Command.amount \in Int /\ Command.value \in Int /\ Command.amount >= Nothing
      /\ Command.code \notin Counted /\ Command.code # "proc_shieldbash"
      /\ Command.op = "UNKNOWN"
  BY DEF Command, Nothing, Counted
<1>2. ASSUME NEW layout, Len(layout) \in Nat
      PROVE  Basic(Named(layout, w.nums)) /\ DOMAIN Named(layout, w.nums) = DOMAIN Command
  BY <1>1, <1>2, NamedInt DEF FromWire, Named
<1>3. CASE w.tag = "S"
  <2> DEFINE layout == IF w.whole /\ w.code # "def" THEN SpecialLayout(w.code) ELSE <<"actor">>
             n == Named(layout, w.nums)
  <2>1. Len(layout) \in Nat
    BY DEF SpecialLayout
  <2>2. Basic(n) /\ DOMAIN n = DOMAIN Command
    BY <1>2, <2>1
  <2>3. SpecialOp(w) \notin {"SPAWN_ENTITY", "ACTIVATE"}
    BY DEF SpecialOp
  <2>4. Decode(w) = [n EXCEPT !.op = SpecialOp(w), !.code = w.code, !.zeros = w.zeros, !.raw = w.nums]
    BY <1>3 DEF Decode, SpecialCommand
  <2>5. n.amount >= Nothing
    <3>1. w.code = "psc" => layout \in {<<"actor", "target", "amount", "value">>, <<"actor">>}
      BY DEF SpecialLayout, StatusCodes, DirectDamageCodes
    <3>2. w.code = "psc" => 4 \notin {i \in 1..Len(layout) : layout[i] = "amount"}
      BY <3>1
    <3> HIDE DEF layout
    <3> QED
      BY <2>1, <3>2, AmountDecoded
  <2> HIDE DEF n
  <2> QED
    BY <1>1, <2>2, <2>3, <2>4, <2>5 DEF CommandOK, FromWire
<1>4. CASE w.tag # "S" /\ w.whole
  <2> DEFINE layout == FixedLayout(w.tag)
             n == Named(layout, w.nums)
  <2>1. Len(layout) \in Nat
    BY DEF FixedLayout
  <2>2. Basic(n) /\ DOMAIN n = DOMAIN Command
    BY <1>2, <2>1
  <2>3. /\ FixedOp(w.tag) = "SPAWN_ENTITY" => w.tag = "M"
        /\ FixedOp(w.tag) = "ACTIVATE" => w.tag = "C"
    BY DEF FixedOp
  <2>4. Decode(w) = [n EXCEPT !.op = FixedOp(w.tag), !.code = w.code]
    BY <1>4 DEF Decode, FixedCommand
  <2>5. w.tag = "M" => n.value \in DOMAIN Summons
    <3>1. SUFFICES ASSUME w.tag = "M" PROVE n.value \in DOMAIN Summons
      OBVIOUS
    <3>2. layout = <<"actor", "value">>
      BY <3>1 DEF FixedLayout
    <3>3. {i \in 1..Len(layout) : i <= Len(w.nums) /\ layout[i] = "value"} = {2}
      BY <3>1, <3>2 DEF FromWire
    <3>4. n.value = w.nums[2]
      BY <1>1, <3>3 DEF Named
    <3> QED
      BY <3>1, <3>4 DEF FromWire
  <2>6. w.tag = "C" => n.actor \in actors
    <3>1. SUFFICES ASSUME w.tag = "C" PROVE n.actor \in actors
      OBVIOUS
    <3>2. layout = <<"actor">>
      BY <3>1 DEF FixedLayout
    <3>3. {i \in 1..Len(layout) : i <= Len(w.nums) /\ layout[i] = "actor"} = {1}
      BY <3>1, <3>2 DEF FromWire
    <3>4. n.actor = w.nums[1]
      BY <1>1, <3>3 DEF Named
    <3> QED
      BY <3>1, <3>4 DEF FromWire
  <2>7. n.amount >= Nothing
    <3> HIDE DEF layout
    <3> QED
      BY <1>4, <2>1, AmountDecoded
  <2> HIDE DEF n
  <2> QED
    BY <1>1, <2>2, <2>3, <2>4, <2>5, <2>6, <2>7 DEF CommandOK, FromWire
<1>5. CASE w.tag # "S" /\ ~w.whole
  BY <1>1, <1>5 DEF Decode, FixedCommand, CommandOK
<1> QED
  BY <1>3, <1>4, <1>5

CommandsOK(q, actors) == \E S : q \in Seq(S) /\ \A c \in S : CommandOK(c, actors)

RecordsOK(q, actors) == \E S : q \in Seq(S) /\ \A w \in S : FromWire(w, actors)

LEMMA EmptyOK ==
    ASSUME NEW actors
    PROVE  CommandsOK(<< >>, actors) /\ RecordsOK(<< >>, actors)
<1>1. PICK S : S = {}
  OBVIOUS
<1>2. << >> \in Seq(S) /\ (\A c \in S : CommandOK(c, actors)) /\ (\A w \in S : FromWire(w, actors))
  BY <1>1
<1> QED
  BY <1>2 DEF CommandsOK, RecordsOK

LEMMA CorrectedOK ==
    ASSUME NEW cmds, NEW actors, CommandsOK(cmds, actors), NEW ents, NEW a
    PROVE  CommandsOK(Corrected(ents, a, cmds), actors)
<1>1. CASE Corrected(ents, a, cmds) = cmds
  BY <1>1
<1>2. CASE Corrected(ents, a, cmds) # cmds
  <2>1. PICK i, p : Corrected(ents, a, cmds) = [cmds EXCEPT ![i] = [cmds[i] EXCEPT !.x = p[1], !.y = p[2]]]
    BY <1>2 DEF Corrected
  <2>2. PICK S : cmds \in Seq(S) /\ \A c \in S : CommandOK(c, actors)
    BY DEF CommandsOK
  <2> DEFINE d == [cmds[i] EXCEPT !.x = p[1], !.y = p[2]]
  <2>3. CASE i \in 1..Len(cmds)
    <3>1. CommandOK(cmds[i], actors)
      BY <2>2, <2>3
    <3>2. CommandOK(d, actors)
      BY <3>1 DEF CommandOK
    <3> HIDE DEF d
    <3>3. [cmds EXCEPT ![i] = d] \in Seq(S \cup {d})
      BY <2>2, <2>3
    <3> QED
      BY <2>1, <2>2, <3>2, <3>3 DEF CommandsOK, d
  <2>4. CASE i \notin 1..Len(cmds)
    <3>1. [cmds EXCEPT ![i] = d] = cmds
      BY <2>2, <2>4
    <3> QED
      BY <1>2, <2>1, <3>1
  <2> QED
    BY <2>3, <2>4
<1> QED
  BY <1>1, <1>2

LEMMA VagueIsFinite ==
    ASSUME NEW ents, NEW a, NEW cmds, Len(cmds) \in Nat
    PROVE  IsFiniteSet(Row(ents, a, cmds).vague)
<1>1. Row(ents, a, cmds).vague = Unresolved(cmds, ents, a)
  BY DEF Row
<1>2. Unresolved(cmds, ents, a) \subseteq 1..Len(cmds)
  BY DEF Unresolved
<1>3. IsFiniteSet(1..Len(cmds))
  BY FS_Interval
<1> QED
  BY <1>1, <1>2, <1>3, FS_Subset

-----------------------------------------------------------------------------
Actors == DOMAIN battle.actions

\* The stacks are well formed, and everything still to be read or applied is.
IInv ==
    /\ battle \in Battles
    /\ StatesOK(working) /\ DOMAIN battle.stacks \subseteq DOMAIN working
    /\ CommandsOK(pending, Actors) /\ CommandsOK(todo, Actors) /\ RecordsOK(script, Actors)
    /\ active \in {0} \cup Actors /\ next \in {0} \cup Actors
    /\ (active = 0) <=> (before = NoState)
    /\ (next = 0) => todo = << >>
    /\ (next # 0) => IsFiniteSet(row.vague)
    /\ total \in Nat /\ totalBefore \in 0..total

\* Identifiers of stacks that act are positive and name stacks of the battle.
LEMMA ActorsKnown ==
    ASSUME battle \in Battles
    PROVE  Actors \subseteq DOMAIN battle.stacks /\ Actors \subseteq Nat \ {0}
  BY BattlesAssumption DEF Actors

LEMMA InitIInv == Init => IInv
<1> SUFFICES ASSUME Init PROVE IInv
  OBVIOUS
<1>1. StatesOK(working) /\ battle \in Battles /\ DOMAIN battle.stacks \subseteq DOMAIN working
  BY BattlesAssumption DEF Init, StatesOK
<1>2. CommandsOK(<< >>, Actors) /\ RecordsOK(<< >>, Actors)
  BY EmptyOK
<1> QED
  BY <1>1, <1>2 DEF Init, IInv

\* What the next record of a turn is.
LEMMA ReceivedOK ==
    ASSUME IInv, Received
    PROVE  /\ CommandOK(Decode(Head(script)), Actors)
           /\ RecordsOK(Tail(script), Actors)
<1>1. PICK S : script \in Seq(S) /\ \A w \in S : FromWire(w, Actors)
  BY DEF IInv, RecordsOK
<1>2. Head(script) \in S /\ Tail(script) \in Seq(S)
  BY <1>1 DEF Received
<1> QED
  BY <1>1, <1>2, DecodedOK DEF RecordsOK

LEMMA ArriveIInv ==
    ASSUME IInv, Arrive
    PROVE  IInv'
<1>1. PICK f \in IF active = 0 THEN battle.opening ELSE battle.actions[active], u \in Actors :
          script' = Append(f, Wire("C", "", <<u>>))
  BY DEF Arrive, Actors
<1> DEFINE T == {f[i] : i \in DOMAIN f}
           w == Wire("C", "", <<u>>)
<1>2. f \in battle.opening \cup UNION {battle.actions[v] : v \in DOMAIN battle.actions}
  BY <1>1 DEF IInv, Actors
<1>3. f \in Seq(T) /\ \A i \in DOMAIN f : WireOK(f[i])
  BY <1>2, BattlesAssumption DEF IInv
<1>4. \A x \in T : FromWire(x, Actors)
  BY <1>3 DEF WireOK, FromWire
<1>5. FromWire(w, Actors)
  BY ActorsKnown DEF IInv, FromWire, Wire, Counted
<1>6. Append(f, w) \in Seq(T \cup {w})
  <2> HIDE DEF T, w
  <2> QED
    BY <1>3
<1>7. RecordsOK(script', Actors)
  BY <1>1, <1>4, <1>5, <1>6 DEF RecordsOK
<1> QED
  BY <1>7 DEF Arrive, parser, IInv, Actors

LEMMA CollectIInv ==
    ASSUME IInv, Collect
    PROVE  IInv'
<1> DEFINE c == Decode(Head(script))
<1>1. CommandOK(c, Actors) /\ RecordsOK(Tail(script), Actors)
  BY ReceivedOK DEF Collect
<1>2. PICK S : pending \in Seq(S) /\ \A d \in S : CommandOK(d, Actors)
  BY DEF IInv, CommandsOK
<1>3. pending' = Append(pending, c)
  BY DEF Collect
<1> HIDE DEF c
<1>4. Append(pending, c) \in Seq(S \cup {c})
  BY <1>2
<1>5. CommandsOK(pending', Actors)
  BY <1>1, <1>2, <1>3, <1>4 DEF CommandsOK
<1> QED
  BY <1>1, <1>5 DEF Collect, IInv, Actors

\* A stack is activated on the stacks ents.
LEMMA ActivateIInv ==
    ASSUME IInv, NEW ents, Keeps(working, ents), NEW u \in Actors, ActivateOn(ents, u), battle' = battle
    PROVE  /\ StatesOK(working') /\ (DOMAIN battle.stacks \subseteq DOMAIN working)'
           /\ (active \in {0} \cup Actors)'
           /\ ((active = 0) <=> (before = NoState))'
<1>1. Keeps(ents, working') /\ before' = working' /\ active' = u
  BY ActivationOK DEF Keeps
<1>2. u # 0 /\ u \in DOMAIN working
  BY ActorsKnown DEF IInv
<1>3. DOMAIN working' = DOMAIN working
  BY <1>1 DEF Keeps
<1>4. working' # NoState
  <2>1. SUFFICES ASSUME working' = << >> PROVE FALSE
    BY DEF NoState
  <2>2. DOMAIN working' = {}
    BY <2>1
  <2> QED
    BY <1>2, <1>3, <2>2
<1> QED
  BY <1>1, <1>2, <1>3, <1>4 DEF Keeps, IInv, Actors

LEMMA ActivateIdleIInv ==
    ASSUME IInv, ActivateIdle
    PROVE  IInv'
<1> DEFINE c == Decode(Head(script))
<1>1. CommandOK(c, Actors) /\ RecordsOK(Tail(script), Actors) /\ c.op = "ACTIVATE"
  BY ReceivedOK DEF ActivateIdle
<1>2. c.actor \in Actors
  BY <1>1 DEF CommandOK
<1>3. Keeps(working, working)
  BY DEF Keeps, IInv
<1>4. ActivateOn(working, c.actor) /\ battle' = battle
  BY DEF ActivateIdle
<1>5. /\ StatesOK(working') /\ (DOMAIN battle.stacks \subseteq DOMAIN working)'
      /\ (active \in {0} \cup Actors)'
      /\ ((active = 0) <=> (before = NoState))'
  BY <1>2, <1>3, <1>4, ActivateIInv
<1>6. CommandsOK(<< >>, Actors)
  BY EmptyOK
<1>7. /\ pending' = << >> /\ totalBefore' = total /\ script' = Tail(script)
      /\ UNCHANGED <<total, row, todo, next, battle, budget>>
  BY DEF ActivateIdle
<1>8. totalBefore' \in 0..total'
  BY <1>7 DEF IInv
<1> HIDE DEF c
<1> QED
  BY <1>1, <1>5, <1>6, <1>7, <1>8 DEF IInv, Actors

LEMMA DecideIInv ==
    ASSUME IInv, Decide
    PROVE  IInv'
<1> DEFINE c == Decode(Head(script))
<1>1. CommandOK(c, Actors) /\ RecordsOK(Tail(script), Actors) /\ c.op = "ACTIVATE"
  BY ReceivedOK DEF Decide
<1>2. c.actor \in Actors /\ c.actor # 0
  BY <1>1, ActorsKnown DEF CommandOK, IInv
<1>3. CommandsOK(Corrected(before, active, pending), Actors)
  BY CorrectedOK DEF IInv
<1>4. IsFiniteSet(Row(before, active, pending).vague)
  <2>1. Len(pending) \in Nat
    BY DEF IInv, CommandsOK
  <2> QED
    BY <2>1, VagueIsFinite
<1>5. CommandsOK(<< >>, Actors)
  BY EmptyOK
<1>6. /\ row' = Row(before, active, pending) /\ todo' = Corrected(before, active, pending)
      /\ next' = c.actor /\ pending' = << >> /\ script' = Tail(script)
      /\ UNCHANGED <<working, active, before, total, totalBefore, battle, budget>>
  BY DEF Decide
<1> HIDE DEF c
<1> QED
  BY <1>1, <1>2, <1>3, <1>4, <1>5, <1>6 DEF IInv, Actors

LEMMA ApplyNextIInv ==
    ASSUME IInv, ApplyNext
    PROVE  IInv'
<1>1. PICK S : todo \in Seq(S) /\ \A d \in S : CommandOK(d, Actors)
  BY DEF IInv, CommandsOK
<1>2. Head(todo) \in S /\ Tail(todo) \in Seq(S)
  BY <1>1 DEF ApplyNext
<1>3. CommandsOK(Tail(todo), Actors)
  BY <1>1, <1>2 DEF CommandsOK
<1>4. /\ StatesOK(ApplyCommand(working, Head(todo), row.still))
      /\ DOMAIN working \subseteq DOMAIN ApplyCommand(working, Head(todo), row.still)
  BY <1>1, <1>2, CommandApplied DEF IInv
<1>5. /\ next # 0 /\ todo' = Tail(todo)
      /\ working' = ApplyCommand(working, Head(todo), row.still)
      /\ UNCHANGED <<active, pending, before, total, totalBefore, row, next, battle, script, budget>>
  BY DEF ApplyNext
<1>6. StatesOK(working') /\ DOMAIN working \subseteq DOMAIN working' /\ CommandsOK(todo', Actors)
  BY <1>3, <1>4, <1>5
<1> QED
  BY <1>5, <1>6 DEF IInv, Actors

LEMMA ConcludeIInv ==
    ASSUME IInv, Conclude
    PROVE  IInv'
<1>1. Keeps(working, Settled)
  BY AfterCommandsOK DEF Settled, IInv
<1>2. /\ next \in Actors /\ ActivateOn(Settled, next) /\ battle' = battle
      /\ total' = total + Cardinality(row.vague) /\ totalBefore' = total' /\ next' = 0 /\ todo = << >>
      /\ UNCHANGED <<pending, row, todo, battle, script, budget>>
  BY DEF Conclude, IInv
<1>3. /\ StatesOK(working') /\ (DOMAIN battle.stacks \subseteq DOMAIN working)'
      /\ (active \in {0} \cup Actors)'
      /\ ((active = 0) <=> (before = NoState))'
  BY <1>1, <1>2, ActivateIInv
<1>4. Cardinality(row.vague) \in Nat
  BY FS_CardinalityType DEF IInv, Conclude
<1>5. total' \in Nat /\ totalBefore' \in 0..total'
  BY <1>2, <1>4 DEF IInv
<1> QED
  BY <1>2, <1>3, <1>5 DEF IInv, Actors

THEOREM ReplayInvariant == Spec => []IInv
<1>1. IInv /\ [Next]_vars => IInv'
  <2> SUFFICES ASSUME IInv, [Next]_vars PROVE IInv'
    OBVIOUS
  <2>1. CASE Next
    BY <2>1, ArriveIInv, CollectIInv, ActivateIdleIInv, DecideIInv, ApplyNextIInv, ConcludeIInv DEF Next
  <2>2. CASE UNCHANGED vars
    BY <2>2 DEF vars, parser, IInv, Actors
  <2> QED
    BY <2>1, <2>2
<1> QED
  BY <1>1, InitIInv, PTL DEF Spec

\* The state of the parser is well formed at every step (iter_compact_decisions).
THEOREM ReplayTypes == Spec => []ReplayTypeOK
<1>1. IInv => ReplayTypeOK
  BY ActorsKnown DEF IInv, StatesOK, StackOK, ReplayTypeOK
<1> QED
  BY <1>1, ReplayInvariant, PTL

\* A standing creature stack has as many creatures as its hit points need and never
\* more than it ever had, whatever records arrive (apply_damage, apply_heal, s-record).
THEOREM StacksStayWhole == Spec => []StacksAreWhole
<1>1. IInv => StacksAreWhole
  BY DEF IInv, StatesOK, StackOK, StacksAreWhole
<1> QED
  BY <1>1, ReplayInvariant, PTL

\* Stoning and crippling wound last exactly as long as their counters.
THEOREM EffectsAreCounted == Spec => []TimedEffectsAreCounted
<1>1. IInv => TimedEffectsAreCounted
  BY DEF IInv, StatesOK, StackOK, TimedEffectsAreCounted, Counted
<1> QED
  BY <1>1, ReplayInvariant, PTL

-----------------------------------------------------------------------------
(* The bash mark and the mana of the stacks.                                 *)

Marked(s) == "proc_shieldbash" \in s.effects

\* Neither the mark comes or goes nor mana is gained.
Quiet(s, t) == (Marked(t) <=> Marked(s)) /\ t.mana <= s.mana

\* It is so for every stack.
Calm(ents, new) == \A u \in DOMAIN ents : u \in DOMAIN new /\ Quiet(ents[u], new[u])

LEMMA QuietTwice ==
    ASSUME NEW ents, NEW mid, NEW new, Calm(ents, mid), Calm(mid, new),
           StatesOK(ents), StatesOK(mid), StatesOK(new), DOMAIN mid = DOMAIN ents
    PROVE  Calm(ents, new)
<1> SUFFICES ASSUME NEW u \in DOMAIN ents
             PROVE  u \in DOMAIN new /\ Quiet(ents[u], new[u])
  BY DEF Calm
<1>1. u \in DOMAIN mid /\ u \in DOMAIN new /\ Quiet(ents[u], mid[u]) /\ Quiet(mid[u], new[u])
  BY DEF Calm
<1>2. ents[u].mana \in Nat /\ mid[u].mana \in Nat /\ new[u].mana \in Nat
  BY <1>1 DEF StatesOK, StackOK
<1> QED
  BY <1>1, <1>2 DEF Quiet

\* A stack is rewritten quietly.
LEMMA CalmUpdate ==
    ASSUME NEW ents, StatesOK(ents), NEW u, NEW s, u \in DOMAIN ents => Quiet(ents[u], s)
    PROVE  Calm(ents, [ents EXCEPT ![u] = s])
<1> SUFFICES ASSUME NEW v \in DOMAIN ents
             PROVE  Quiet(ents[v], [ents EXCEPT ![u] = s][v])
  BY DEF Calm
<1>1. CASE v = u
  BY <1>1
<1>2. CASE v # u
  <2>1. [ents EXCEPT ![u] = s][v] = ents[v] /\ ents[v].mana \in Nat
    BY <1>2 DEF StatesOK, StackOK
  <2> QED
    BY <2>1 DEF Quiet
<1> QED
  BY <1>1, <1>2

LEMMA QuietFields ==
    ASSUME NEW s, StackOK(s), NEW x, NEW y, NEW z, NEW w
    PROVE  /\ Quiet(s, s)
           /\ Quiet(s, Removed(s))
           /\ Quiet(s, [s EXCEPT !.count = x, !.top = y, !.alive = TRUE])
           /\ Quiet(s, [s EXCEPT !.pos = x, !.count = y, !.maxcount = z, !.alive = w])
           /\ Quiet(s, [[s EXCEPT !.pos = x, !.count = y, !.maxcount = z, !.alive = w] EXCEPT !.top = s.maxhp])
           /\ Quiet(s, [s EXCEPT !.pos = x])
           /\ Quiet(s, [s EXCEPT !.atb = x])
           /\ Quiet(s, [s EXCEPT !.speed = x])
           /\ Quiet(s, [s EXCEPT !.shots = x])
           /\ Quiet(s, [s EXCEPT !.defending = TRUE])
           /\ Quiet(s, [s EXCEPT !.rune = x])
           /\ Quiet(s, [s EXCEPT !.attack = x, !.defense = y])
           /\ Quiet(s, [s EXCEPT !.turns = x])
           /\ x # "proc_shieldbash" => /\ Quiet(s, [s EXCEPT !.effects = @ \cup {x}])
                                       /\ Quiet(s, [s EXCEPT !.effects = @ \ {x}])
                                       /\ Quiet(s, [s EXCEPT !.effects = @ \cup {x}, !.turns[x] = y])
<1>1. StackFields \subseteq DOMAIN s /\ s.mana \in Nat
  BY DEF StackOK
<1> QED
  BY <1>1 DEF Quiet, Marked, StackFields, Removed

LEMMA HealthIsQuiet ==
    ASSUME NEW s, StackOK(s), NEW n
    PROVE  Quiet(s, ApplyDamage(s, n)) /\ Quiet(s, ApplyHeal(s, n))
<1>1. \A k : Quiet(s, WithHp(s, k))
  BY QuietFields DEF WithHp
<1>2. Quiet(s, s) /\ Quiet(s, Removed(s))
  BY QuietFields
<1>3. ApplyDamage(s, n) \in {s, Removed(s), WithHp(s, TotalHp(s) - n)}
  BY DEF ApplyDamage
<1>4. \E k : ApplyHeal(s, n) \in {s, WithHp(s, k)}
  BY DEF ApplyHeal
<1> QED
  BY <1>1, <1>2, <1>3, <1>4

\* Spending takes mana, or leaves it when there is none.
LEMMA SpendIsQuiet ==
    ASSUME NEW s, StackOK(s), NEW n \in Int
    PROVE  Quiet(s, Spend(s, n))
<1>1. StackFields \subseteq DOMAIN s /\ s.mana \in Nat
  BY DEF StackOK
<1>2. Larger(0, s.mana - Larger(0, n)) <= s.mana
  BY <1>1 DEF Larger
<1> QED
  BY <1>1, <1>2 DEF Spend, Quiet, Marked, StackFields

LEMMA OtherQuiet ==
    ASSUME NEW s, StackOK(s), NEW c, NEW p, NEW type
    PROVE  /\ Quiet(s, At(s, p)) /\ Quiet(s, Weakened(s)) /\ Quiet(s, Hastened(s))
           /\ Quiet(s, RuneActivated(s)) /\ Quiet(s, [s EXCEPT !.rune = @ \ {"active"}])
           /\ Quiet(s, Placed(s, c)) /\ Quiet(s, Shot(s, type)) /\ Quiet(s, Entrenched(s, p))
<1>1. Quiet(s, At(s, p))
  BY QuietFields DEF At
<1>2. Quiet(s, Weakened(s))
  BY QuietFields DEF Weakened
<1>3. Quiet(s, Hastened(s))
  BY QuietFields DEF Hastened
<1>4. Quiet(s, RuneActivated(s)) /\ Quiet(s, [s EXCEPT !.rune = @ \ {"active"}])
  BY QuietFields DEF RuneActivated
<1>5. Quiet(s, Placed(s, c))
  BY QuietFields DEF Placed, At
<1>6. Quiet(s, Shot(s, type))
  BY QuietFields DEF Shot
<1>7. Quiet(s, Entrenched(s, p))
  BY QuietFields DEF Entrenched, WithEffect
<1> QED
  BY <1>1, <1>2, <1>3, <1>4, <1>5, <1>6, <1>7

\* Every command but a feed and a summon is quiet.
LEMMA NotedIsCalm ==
    ASSUME NEW ents, StatesOK(ents), NEW c, c.code # "proc_shieldbash"
    PROVE  /\ Calm(ents, ents)
           /\ Calm(ents, Noted(ents, c))
           /\ Calm(ents, [ents EXCEPT ![c.target] = WithEffect(@, c.code)])
<1>1. \A u \in DOMAIN ents : Quiet(ents[u], ents[u]) /\ Quiet(ents[u], WithEffect(ents[u], c.code))
  BY QuietFields DEF WithEffect, StatesOK
<1> QED
  BY <1>1, CalmUpdate DEF Noted, Calm

LEMMA ProcIsCalm ==
    ASSUME NEW ents, StatesOK(ents), NEW c
    PROVE  Calm(ents, Proc(ents, c)) /\ Calm(ents, [ents EXCEPT ![c.actor] = WithTimed(@, "msl", 3)])
<1>1. \A u \in DOMAIN ents : /\ Quiet(ents[u], ents[u])
                             /\ Quiet(ents[u], WithTimed(ents[u], "proc_stone", 1))
                             /\ Quiet(ents[u], WithTimed(ents[u], "proc_cripple", 2))
                             /\ Quiet(ents[u], WithTimed(ents[u], "msl", 3))
  BY QuietFields DEF WithTimed, StatesOK
<1>2. /\ Calm(ents, [ents EXCEPT ![c.target] = WithTimed(@, "proc_stone", 1)])
      /\ Calm(ents, [ents EXCEPT ![c.target] = WithTimed(@, "proc_cripple", 2)])
      /\ Calm(ents, [ents EXCEPT ![c.actor] = WithTimed(@, "msl", 3)])
      /\ Calm(ents, ents)
  BY <1>1, CalmUpdate DEF Calm
<1>3. Proc(ents, c) \in {ents, [ents EXCEPT ![c.target] = WithTimed(@, "proc_stone", 1)],
                         [ents EXCEPT ![c.target] = WithTimed(@, "proc_cripple", 2)]}
  BY DEF Proc
<1> QED
  BY <1>2, <1>3

\* A first rewriting, and then a stack that spends.
LEMMA SpentCalmly ==
    ASSUME NEW ents, StatesOK(ents), NEW mid, Keeps(ents, mid), Calm(ents, mid), NEW u, NEW n \in Int
    PROVE  Calm(ents, [mid EXCEPT ![u] = Spend(@, n)])
<1>1. StatesOK(mid) /\ DOMAIN mid = DOMAIN ents
  BY DEF Keeps
<1>2. \A v \in DOMAIN mid : Quiet(mid[v], Spend(mid[v], n)) /\ StackOK(Spend(mid[v], n))
  BY <1>1, SpendIsQuiet, SpendOK DEF StatesOK
<1> DEFINE new == [mid EXCEPT ![u] = Spend(mid[u], n)]
<1>3. Calm(mid, new) /\ StatesOK(new)
  BY <1>1, <1>2, CalmUpdate, Updated DEF Keeps
<1> HIDE DEF new
<1>4. Calm(ents, new)
  BY <1>1, <1>3, QuietTwice
<1> QED
  BY <1>4 DEF new

LEMMA StatusIsCalm ==
    ASSUME NEW ents, StatesOK(ents), NEW c, NEW actors, CommandOK(c, actors)
    PROVE  /\ Calm(ents, Status(ents, c))
           /\ Calm(ents, DirectDamage(ents, c))
<1>1. c.code # "proc_shieldbash" /\ c.code \notin Counted /\ c.amount \in Int /\ c.value \in Int
  BY DEF CommandOK
<1>2. Calm(ents, Status(ents, c))
  <2> DEFINE noted == [ents EXCEPT ![c.target] = WithEffect(@, c.code)]
  <2>1. Calm(ents, noted)
    BY <1>1, NotedIsCalm
  <2>2. Keeps(ents, noted)
    BY <1>1, OtherFieldOK, Updated DEF WithEffect, StatesOK
  <2>3. Status(ents, c) \in {noted, [noted EXCEPT ![c.actor] = Spend(@, c.value)]}
    BY DEF Status
  <2> HIDE DEF noted
  <2>4. Calm(ents, [noted EXCEPT ![c.actor] = Spend(@, c.value)])
    BY <1>1, <2>1, <2>2, SpentCalmly
  <2> QED
    BY <2>1, <2>3, <2>4
<1>3. Calm(ents, DirectDamage(ents, c))
  <2> DEFINE hurt == [ents EXCEPT ![c.target] = ApplyDamage(@, Abs(c.amount))]
  <2>1. Calm(ents, hurt)
    BY HealthIsQuiet, CalmUpdate DEF StatesOK
  <2>2. Keeps(ents, hurt)
    BY <1>1, DamageOK, Updated DEF StatesOK, Abs
  <2>3. DirectDamage(ents, c) \in {hurt, [hurt EXCEPT ![c.actor] = Spend(@, c.value)]}
    BY DEF DirectDamage
  <2> HIDE DEF hurt
  <2>4. Calm(ents, [hurt EXCEPT ![c.actor] = Spend(@, c.value)])
    BY <1>1, <2>1, <2>2, SpentCalmly
  <2> QED
    BY <2>1, <2>3, <2>4
<1> QED
  BY <1>2, <1>3

LEMMA SpecialIsCalm ==
    ASSUME NEW ents, StatesOK(ents), NEW c, NEW actors, CommandOK(c, actors)
    PROVE  \/ Calm(ents, Special(ents, c))
           \/ ValidManaFeed(c, ents) /\ Special(ents, c) = Fed(ents, c)
<1>1. c.code # "proc_shieldbash" /\ c.amount \in Int /\ c.value \in Int
  BY DEF CommandOK
<1>2. Calm(ents, [ents EXCEPT ![c.actor] = Spend(@, c.value)])
  BY <1>1, SpendIsQuiet, CalmUpdate DEF StatesOK
<1>3. Calm(ents, [[ents EXCEPT ![c.target] = ApplyHeal(@, c.amount)] EXCEPT ![c.actor] = Spend(@, c.value)])
  <2> DEFINE mid == [ents EXCEPT ![c.target] = ApplyHeal(@, c.amount)]
  <2>1. Calm(ents, mid)
    BY HealthIsQuiet, CalmUpdate DEF StatesOK
  <2>2. Keeps(ents, mid)
    BY <1>1, HealOK, Updated DEF StatesOK
  <2> HIDE DEF mid
  <2>3. Calm(ents, [mid EXCEPT ![c.actor] = Spend(@, c.value)])
    BY <1>1, <2>1, <2>2, SpentCalmly
  <2> QED
    BY <2>3 DEF mid
<1>4. /\ Calm(ents, [ents EXCEPT ![c.actor] = Removed(@)])
      /\ Calm(ents, [ents EXCEPT ![c.actor] = ApplyHeal(@, c.amount)])
  BY HealthIsQuiet, QuietFields, CalmUpdate DEF StatesOK
<1>5. /\ Calm(ents, ents) /\ Calm(ents, Noted(ents, c)) /\ Calm(ents, Proc(ents, c))
      /\ Calm(ents, [ents EXCEPT ![c.actor] = WithTimed(@, "msl", 3)])
      /\ Calm(ents, Status(ents, c)) /\ Calm(ents, DirectDamage(ents, c))
  BY <1>1, NotedIsCalm, ProcIsCalm, StatusIsCalm
<1>6. CASE c.code = "mfd" /\ ValidManaFeed(c, ents)
  BY <1>6 DEF Special, StatusCodes, DirectDamageCodes
<1>7. CASE ~(c.code = "mfd" /\ ValidManaFeed(c, ents))
  BY <1>2, <1>3, <1>4, <1>5, <1>7 DEF Special
<1> QED
  BY <1>6, <1>7

\* What a feed gives to one stack is taken from another of its side.
LEMMA FedIsPaid ==
    ASSUME NEW ents, StatesOK(ents), NEW c, c.amount \in Int, ValidManaFeed(c, ents)
    PROVE  /\ c.actor \in DOMAIN ents /\ c.target \in DOMAIN ents
           /\ ents[c.actor].owner = ents[c.target].owner
           /\ DOMAIN Fed(ents, c) = DOMAIN ents
           /\ \A u \in DOMAIN ents : Marked(Fed(ents, c)[u]) <=> Marked(ents[u])
           /\ \A u \in DOMAIN ents \ {c.target} : Fed(ents, c)[u].mana <= ents[u].mana
           /\ Fed(ents, c)[c.target].mana > ents[c.target].mana =>
                 ents[c.actor].mana - Fed(ents, c)[c.actor].mana
                     = Fed(ents, c)[c.target].mana - ents[c.target].mana
<1> DEFINE a == c.actor
           t == c.target
           n == c.amount
           spent == [ents EXCEPT ![a] = Spend(@, n)]
           new == [spent EXCEPT ![t] = [spent[t] EXCEPT !.mana = spent[t].mana + n]]
<1>1. a \in DOMAIN ents /\ t \in DOMAIN ents /\ ents[a].owner = ents[t].owner
  BY DEF ValidManaFeed, Known, Enemies
<1>2. n \in Nat \ {0} /\ n <= ents[a].mana
  <2>1. ents[a].mana \in Nat /\ n > 0
    BY <1>1 DEF StatesOK, StackOK, ValidManaFeed
  <2>2. n = ents[a].mana \/ (n = ents[a].count /\ ents[a].count < ents[a].mana)
    BY <2>1 DEF ValidManaFeed, Larger
  <2> QED
    BY <2>1, <2>2
<1>3. \A u \in DOMAIN ents : StackFields \subseteq DOMAIN ents[u] /\ ents[u].mana \in Nat
  BY DEF StatesOK, StackOK
<1>4. Spend(ents[a], n) = [ents[a] EXCEPT !.mana = ents[a].mana - n]
  <2>1. Larger(0, ents[a].mana - Larger(0, n)) = ents[a].mana - n
    BY <1>1, <1>2, <1>3 DEF Larger
  <2> QED
    BY <2>1 DEF Spend
<1>5. Fed(ents, c) = new
  BY DEF Fed
<1> HIDE DEF a, t, n
<1>6. /\ DOMAIN spent = DOMAIN ents
      /\ spent[a].mana = ents[a].mana - n /\ spent[a].effects = ents[a].effects
      /\ StackFields \subseteq DOMAIN spent[a]
      /\ \A u \in DOMAIN ents \ {a} : spent[u] = ents[u]
  <2>1. /\ spent[a] = [ents[a] EXCEPT !.mana = ents[a].mana - n]
        /\ \A u \in DOMAIN ents \ {a} : spent[u] = ents[u]
        /\ DOMAIN spent = DOMAIN ents
    BY <1>1, <1>4
  <2> HIDE DEF spent
  <2> QED
    BY <1>1, <1>3, <2>1 DEF StackFields
<1> HIDE DEF spent
<1>7. /\ DOMAIN new = DOMAIN ents
      /\ new[t].mana = spent[t].mana + n /\ new[t].effects = spent[t].effects
      /\ \A u \in DOMAIN ents \ {t} : new[u] = spent[u]
  <2>1. StackFields \subseteq DOMAIN spent[t]
    BY <1>1, <1>3, <1>6
  <2>2. /\ new[t] = [spent[t] EXCEPT !.mana = spent[t].mana + n]
        /\ \A u \in DOMAIN ents \ {t} : new[u] = spent[u]
        /\ DOMAIN new = DOMAIN ents
    BY <1>1, <1>6
  <2> HIDE DEF new
  <2> QED
    BY <2>1, <2>2 DEF StackFields
<1> HIDE DEF new
<1>8. \A u \in DOMAIN ents : new[u].effects = ents[u].effects
  BY <1>6, <1>7
<1>9. \A u \in DOMAIN ents \ {t} : new[u].mana <= ents[u].mana
  BY <1>2, <1>3, <1>6, <1>7
<1>10. new[t].mana > ents[t].mana => ents[a].mana - new[a].mana = new[t].mana - ents[t].mana
  BY <1>1, <1>2, <1>3, <1>6, <1>7
<1> QED
  BY <1>1, <1>5, <1>7, <1>8, <1>9, <1>10 DEF Marked, a, t

\* No command takes the mark from a stack or gives it one, but that a summoned stack
\* comes without.
LEMMA CommandKeepsMarks ==
    ASSUME NEW ents, StatesOK(ents), NEW c, NEW actors, CommandOK(c, actors), NEW still
    PROVE  /\ c.op # "SPAWN_ENTITY" =>
                 \/ Calm(ents, ApplyCommand(ents, c, still))
                    /\ DOMAIN ApplyCommand(ents, c, still) = DOMAIN ents
                 \/ ValidManaFeed(c, ents) /\ ApplyCommand(ents, c, still) = Fed(ents, c)
           /\ c.op = "SPAWN_ENTITY" =>
                 \A u \in DOMAIN ApplyCommand(ents, c, still) :
                    IF u = c.actor THEN ~Marked(ApplyCommand(ents, c, still)[u])
                    ELSE u \in DOMAIN ents /\ ApplyCommand(ents, c, still)[u] = ents[u]
<1>1. c.amount \in Int /\ c.value \in Int /\ c.code # "proc_shieldbash" /\ c.code \notin Counted
  BY DEF CommandOK
<1>2. \A u, p : Calm(ents, [ents EXCEPT ![u] = At(@, p)])
  BY OtherQuiet, CalmUpdate DEF StatesOK
<1>3. /\ Calm(ents, [ents EXCEPT ![c.target] = ApplyDamage(@, c.amount)])
      /\ Calm(ents, [ents EXCEPT ![c.target] = Spend(@, c.amount)])
      /\ Calm(ents, [ents EXCEPT ![c.actor] = Removed(@)])
  BY <1>1, HealthIsQuiet, SpendIsQuiet, QuietFields, CalmUpdate DEF StatesOK
<1>4. /\ Calm(ents, [ents EXCEPT ![c.actor] = Placed(@, c)])
      /\ Calm(ents, [ents EXCEPT ![c.actor] = RuneActivated(@)])
      /\ Calm(ents, [ents EXCEPT ![c.actor].rune = @ \ {"active"}])
      /\ Calm(ents, [ents EXCEPT ![c.target] = Weakened(@)])
      /\ Calm(ents, [ents EXCEPT ![c.actor] = Hastened(@)])
  BY OtherQuiet, CalmUpdate DEF StatesOK
<1>5. Calm(ents, [ents EXCEPT ![c.actor].atb = 0]) /\ Calm(ents, [ents EXCEPT ![c.actor].defending = TRUE])
  BY QuietFields, CalmUpdate DEF StatesOK
<1>6. Calm(ents, ents)
  BY <1>1, NotedIsCalm
<1>7. \/ Calm(ents, Special(ents, c))
      \/ ValidManaFeed(c, ents) /\ Special(ents, c) = Fed(ents, c)
  BY SpecialIsCalm
<1>8. DOMAIN Special(ents, c) = DOMAIN ents
  BY SpecialOK DEF Keeps
<1>9. CASE c.op = "SPECIAL"
  <2>1. ApplyCommand(ents, c, still) = Special(ents, c)
    BY <1>9 DEF ApplyCommand
  <2> QED
    BY <1>7, <1>8, <1>9, <2>1
<1>10. CASE c.op = "SPAWN_ENTITY"
  <2>1. ApplyCommand(ents, c, still) =
            [u \in DOMAIN ents \cup {c.actor} |-> IF u = c.actor THEN Summons[c.value] ELSE ents[u]]
    BY <1>10 DEF ApplyCommand
  <2>2. ~Marked(Summons[c.value])
    BY <1>10, SummonsAssumption DEF CommandOK, Marked
  <2> QED
    BY <1>10, <2>1, <2>2
<1>11. CASE c.op \notin {"SPECIAL", "SPAWN_ENTITY"}
  <2>1. Calm(ents, ApplyCommand(ents, c, still))
    BY <1>2, <1>3, <1>4, <1>5, <1>6, <1>11 DEF ApplyCommand
  <2>2. DOMAIN ApplyCommand(ents, c, still) = DOMAIN ents
    BY <1>11 DEF ApplyCommand
  <2> QED
    BY <1>11, <2>1, <2>2
<1> QED
  BY <1>9, <1>10, <1>11

\* What follows the commands of a decision takes no mark away.
LEMMA AfterCommandsMarks ==
    ASSUME NEW ents, StatesOK(ents), NEW a, NEW type, NEW from, NEW bashed
    PROVE  \A u \in DOMAIN ents : Marked(ents[u]) => Marked(AfterCommands(ents, a, type, from, bashed)[u])
<1> DEFINE dug == IF a \in DOMAIN ents THEN [ents EXCEPT ![a] = Entrenched(@, from)] ELSE ents
           hit == Bashed(dug, type, bashed)
           new == IF a \in DOMAIN hit THEN [hit EXCEPT ![a] = Shot(@, type)] ELSE hit
<1>1. Keeps(ents, dug) /\ Calm(ents, dug)
  <2>1. Keeps(ents, dug)
    BY EntrenchedOK, Updated DEF StatesOK, Keeps
  <2>2. Calm(ents, ents) /\ Calm(ents, [ents EXCEPT ![a] = Entrenched(@, from)])
    BY OtherQuiet, QuietFields, CalmUpdate DEF StatesOK, Calm
  <2> QED
    BY <2>1, <2>2
<1> HIDE DEF dug
<1>2. DOMAIN hit = DOMAIN dug /\ \A u \in DOMAIN dug : Marked(dug[u]) => Marked(hit[u])
  <2>1. \A u \in DOMAIN dug : Marked(WithEffect(dug[u], "proc_shieldbash"))
    <3>1. \A u \in DOMAIN dug : "effects" \in DOMAIN dug[u]
      BY <1>1 DEF Keeps, StatesOK, StackOK, StackFields
    <3> QED
      BY <3>1 DEF Marked, WithEffect
  <2> QED
    BY <2>1 DEF Bashed
<1>3. Keeps(dug, hit)
  <2>1. \A u \in DOMAIN dug : StackOK(WithEffect(dug[u], "proc_shieldbash"))
    BY <1>1, OtherFieldOK DEF WithEffect, Counted, Keeps, StatesOK
  <2> QED
    BY <1>1, <2>1, Updated DEF Bashed, Keeps
<1> HIDE DEF hit
<1>4. Calm(hit, new)
  <2>1. Calm(hit, hit) /\ Calm(hit, [hit EXCEPT ![a] = Shot(@, type)])
    BY <1>3, OtherQuiet, QuietFields, CalmUpdate DEF Keeps, StatesOK, Calm
  <2> QED
    BY <2>1
<1> HIDE DEF new
<1>5. AfterCommands(ents, a, type, from, bashed) = new
  BY DEF AfterCommands, dug, hit, new
<1> QED
  BY <1>1, <1>2, <1>4, <1>5 DEF Calm, Quiet, Keeps

\* An activation takes the mark of the activated stack only.
LEMMA ActivationMarks ==
    ASSUME NEW ents, StatesOK(ents), NEW u, ActivateOn(ents, u)
    PROVE  /\ DOMAIN working' = DOMAIN ents /\ active' = u
           /\ \A v \in DOMAIN ents : /\ Marked(working'[v]) => Marked(ents[v])
                                     /\ v # u /\ Marked(ents[v]) => Marked(working'[v])
<1> DEFINE ticked == IF active \in DOMAIN ents THEN [ents EXCEPT ![active] = Ticked(@)] ELSE ents
           ready == IF u \in DOMAIN ticked THEN [ticked EXCEPT ![u] = Activated(@)] ELSE ticked
<1>1. \A v \in DOMAIN ents : "effects" \in DOMAIN ents[v]
  BY DEF StatesOK, StackOK, StackFields
<1>2. /\ DOMAIN ticked = DOMAIN ents
      /\ \A v \in DOMAIN ents : "effects" \in DOMAIN ticked[v] /\ (Marked(ticked[v]) <=> Marked(ents[v]))
  <2>1. \A v \in DOMAIN ents : "effects" \in DOMAIN Ticked(ents[v]) /\ (Marked(Ticked(ents[v])) <=> Marked(ents[v]))
    BY <1>1 DEF Ticked, Marked, Timed
  <2> QED
    BY <1>1, <2>1
<1> HIDE DEF ticked
<1>3. \A v \in DOMAIN ticked : ~Marked(Activated(ticked[v]))
  BY <1>2 DEF Activated, Marked
<1>4. /\ DOMAIN ready = DOMAIN ents
      /\ \A v \in DOMAIN ents : /\ Marked(ready[v]) => Marked(ents[v])
                                /\ v # u /\ Marked(ents[v]) => Marked(ready[v])
  BY <1>2, <1>3
<1>5. working' = ready /\ active' = u
  BY DEF ActivateOn, ticked
<1> HIDE DEF ready
<1> QED
  BY <1>4, <1>5

-----------------------------------------------------------------------------
Unmarked(u) == u \in DOMAIN working => ~Marked(working[u])

\* A summons still to be read or applied overwrites no marked stack: its stack is new,
\* or was summoned by the same decision.  Only the end of a decision marks a stack, and
\* then nothing is left to be read or applied.
MarkInv ==
    /\ \A i \in 1..Len(pending) : pending[i].op = "SPAWN_ENTITY" => Unmarked(pending[i].actor)
    /\ \A i \in 1..Len(todo) : todo[i].op = "SPAWN_ENTITY" => Unmarked(todo[i].actor)
    /\ \A i \in 1..Len(script) : /\ script[i].tag = "M" => Unmarked(script[i].nums[1])
                                 /\ script[i].tag = "C" => i = Len(script)
    /\ (next # 0) => script = << >> /\ pending = << >>

LEMMA DecodedKind ==
    ASSUME NEW w, NEW actors, FromWire(w, actors)
    PROVE  /\ Decode(w).op = "SPAWN_ENTITY" => w.tag = "M" /\ Decode(w).actor = w.nums[1]
           /\ Decode(w).op = "ACTIVATE" => w.tag = "C"
<1>1. /\ {"op", "actor", "code", "zeros", "raw"} \subseteq DOMAIN Command /\ Command.op = "UNKNOWN"
  BY DEF Command
<1>2. \A layout : DOMAIN Named(layout, w.nums) = DOMAIN Command
  BY DEF Named
<1>3. CASE w.tag = "S"
  <2>1. PICK layout : Decode(w) = [Named(layout, w.nums) EXCEPT
                          !.op = SpecialOp(w), !.code = w.code, !.zeros = w.zeros, !.raw = w.nums]
    BY <1>3 DEF Decode, SpecialCommand
  <2>2. SpecialOp(w) \notin {"SPAWN_ENTITY", "ACTIVATE"}
    BY DEF SpecialOp
  <2> QED
    BY <1>1, <1>2, <2>1, <2>2
<1>4. CASE w.tag # "S" /\ w.whole
  <2> DEFINE layout == FixedLayout(w.tag)
             n == Named(layout, w.nums)
  <2>1. Decode(w) = [n EXCEPT !.op = FixedOp(w.tag), !.code = w.code]
    BY <1>4 DEF Decode, FixedCommand
  <2>2. Decode(w).op = FixedOp(w.tag) /\ Decode(w).actor = n.actor
    <3> HIDE DEF n
    <3>1. DOMAIN n = DOMAIN Command
      BY <1>2 DEF n
    <3> QED
      BY <1>1, <2>1, <3>1
  <2>3. /\ FixedOp(w.tag) = "SPAWN_ENTITY" => w.tag = "M"
        /\ FixedOp(w.tag) = "ACTIVATE" => w.tag = "C"
    BY DEF FixedOp
  <2>4. ASSUME w.tag = "M" PROVE n.actor = w.nums[1]
    <3>1. layout = <<"actor", "value">>
      BY <2>4 DEF FixedLayout
    <3>2. {i \in 1..Len(layout) : i <= Len(w.nums) /\ layout[i] = "actor"} = {1}
      BY <2>4, <3>1 DEF FromWire
    <3> QED
      BY <1>1, <3>2 DEF Named
  <2> HIDE DEF n, layout
  <2> QED
    BY <2>2, <2>3, <2>4
<1>5. CASE w.tag # "S" /\ ~w.whole
  BY <1>1, <1>5 DEF Decode, FixedCommand
<1> QED
  BY <1>3, <1>4, <1>5

\* Commands that differ at most in the cell they name.
Alike(c, e) ==
    /\ c.op = e.op /\ c.code = e.code /\ c.actor = e.actor /\ c.target = e.target
    /\ c.amount = e.amount /\ c.zeros = e.zeros

\* The corrections move stacks, they name no others.
LEMMA CorrectedSame ==
    ASSUME NEW cmds, NEW actors, CommandsOK(cmds, actors), NEW ents, NEW a
    PROVE  /\ Len(Corrected(ents, a, cmds)) = Len(cmds)
           /\ \A i \in 1..Len(cmds) : Alike(Corrected(ents, a, cmds)[i], cmds[i])
<1>1. CASE Corrected(ents, a, cmds) = cmds
  BY <1>1 DEF Alike
<1>2. CASE Corrected(ents, a, cmds) # cmds
  <2>1. PICK i, p : Corrected(ents, a, cmds) = [cmds EXCEPT ![i] = [cmds[i] EXCEPT !.x = p[1], !.y = p[2]]]
    BY <1>2 DEF Corrected
  <2>2. PICK S : cmds \in Seq(S) /\ \A c \in S : CommandOK(c, actors)
    BY DEF CommandsOK
  <2>3. \A j \in 1..Len(cmds) : {"op", "code", "actor", "target", "amount", "zeros"} \subseteq DOMAIN cmds[j]
    BY <2>2 DEF CommandOK
  <2> DEFINE d == [cmds[i] EXCEPT !.x = p[1], !.y = p[2]]
  <2>4. i \in 1..Len(cmds) => Alike(d, cmds[i])
    BY <2>3 DEF Alike
  <2> HIDE DEF d
  <2>5. /\ Len([cmds EXCEPT ![i] = d]) = Len(cmds)
        /\ \A j \in 1..Len(cmds) : [cmds EXCEPT ![i] = d][j] = IF j = i THEN d ELSE cmds[j]
    BY <2>2
  <2> QED
    BY <2>1, <2>4, <2>5 DEF d, Alike
<1> QED
  BY <1>1, <1>2

LEMMA InitMarkInv == Init => MarkInv
  BY DEF Init, MarkInv

\* The records summon new stacks only, and an activation is the last of them.
NewRecords(records, ents) ==
    \A i \in 1..Len(records) : /\ records[i].tag = "M" => records[i].nums[1] \notin DOMAIN ents
                               /\ records[i].tag = "C" => i = Len(records)

LEMMA ArrivedRecords ==
    ASSUME IInv, Arrive
    PROVE  NewRecords(script', working)
<1>1. PICK f \in IF active = 0 THEN battle.opening ELSE battle.actions[active], u \in Actors :
          Playable(f, u) /\ script' = Append(f, Wire("C", "", <<u>>))
  BY DEF Arrive, Actors
<1> DEFINE w == Wire("C", "", <<u>>)
           T == {f[i] : i \in DOMAIN f}
<1>2. f \in battle.opening \cup UNION {battle.actions[v] : v \in DOMAIN battle.actions}
  BY <1>1 DEF IInv, Actors
<1>3. f \in Seq(T) /\ \A i \in DOMAIN f : WireOK(f[i])
  BY <1>2, BattlesAssumption DEF IInv
<1>4. w.tag = "C"
  BY DEF Wire
<1>5. \A i \in 1..Len(f) : f[i].tag # "C" /\ (f[i].tag = "M" => f[i].nums[1] \notin DOMAIN working)
  <2>1. DOMAIN f = 1..Len(f)
    BY <1>3
  <2>2. \A i \in 1..Len(f) : f[i].tag = "M" => f[i].nums[1] \notin DOMAIN working
    <3>1. {f[i].nums[1] : i \in {j \in 1..Len(f) : f[j].tag = "M"}} \cap DOMAIN working = {}
      BY <1>1 DEF Playable
    <3> QED
      BY <3>1
  <2> QED
    BY <1>3, <2>1, <2>2 DEF WireOK
<1> HIDE DEF w, T
<1>6. /\ Len(Append(f, w)) = Len(f) + 1 /\ Append(f, w)[Len(f) + 1] = w /\ Len(f) \in Nat
      /\ \A i \in 1..Len(f) : Append(f, w)[i] = f[i]
  BY <1>3
<1> SUFFICES ASSUME NEW i \in 1..Len(script')
             PROVE  /\ script'[i].tag = "M" => script'[i].nums[1] \notin DOMAIN working
                    /\ script'[i].tag = "C" => i = Len(script')
  BY DEF NewRecords
<1>7. script' = Append(f, w)
  BY <1>1 DEF w
<1>8. CASE i \in 1..Len(f)
  BY <1>5, <1>6, <1>7, <1>8
<1>9. CASE i \notin 1..Len(f)
  <2>1. i = Len(f) + 1
    BY <1>6, <1>7, <1>9
  <2> QED
    BY <1>4, <1>6, <1>7, <2>1
<1> QED
  BY <1>8, <1>9

LEMMA ArriveMarkInv ==
    ASSUME IInv, MarkInv, Arrive
    PROVE  MarkInv'
<1>1. next' = 0 /\ UNCHANGED <<working, pending, todo>>
  BY DEF Arrive, parser
<1>2. NewRecords(script', working)
  BY ArrivedRecords
<1> QED
  BY <1>1, <1>2 DEF MarkInv, Unmarked, NewRecords

\* A sequence of one element ends after it.
LEMMA TailOfOne ==
    ASSUME NEW S, NEW s \in Seq(S), Len(s) = 1
    PROVE  Tail(s) = << >>
<1>1. Len(Tail(s)) = 0 /\ Tail(s) \in Seq(S)
  OBVIOUS
<1> QED
  BY <1>1, EmptySeq

\* The next record, and those after it.
LEMMA HeadOfScript ==
    ASSUME IInv, Received
    PROVE  /\ 1 \in 1..Len(script) /\ Len(script) \in Nat /\ Len(Tail(script)) = Len(script) - 1
           /\ Decode(Head(script)).op = "SPAWN_ENTITY" =>
                 script[1].tag = "M" /\ Decode(Head(script)).actor = script[1].nums[1]
           /\ Decode(Head(script)).op = "ACTIVATE" => script[1].tag = "C"
           /\ \A i \in 1..Len(Tail(script)) : Tail(script)[i] = script[i + 1] /\ i + 1 \in 1..Len(script)
           /\ Len(script) = 1 => Tail(script) = << >>
<1>1. PICK S : script \in Seq(S) /\ \A w \in S : FromWire(w, Actors)
  BY DEF IInv, RecordsOK
<1>2. /\ Len(script) \in Nat \ {0} /\ Head(script) = script[1] /\ 1 \in 1..Len(script)
      /\ Len(Tail(script)) = Len(script) - 1 /\ Head(script) \in S
      /\ \A i \in 1..Len(Tail(script)) : Tail(script)[i] = script[i + 1] /\ i + 1 \in 1..Len(script)
  BY <1>1 DEF Received
<1>3. /\ Decode(Head(script)).op = "SPAWN_ENTITY" =>
            Head(script).tag = "M" /\ Decode(Head(script)).actor = Head(script).nums[1]
      /\ Decode(Head(script)).op = "ACTIVATE" => Head(script).tag = "C"
  BY <1>1, <1>2, DecodedKind
<1> QED
  BY <1>1, <1>2, <1>3, TailOfOne

\* What Received says of the next record.
LEMMA HeadIsFirst ==
    ASSUME IInv, MarkInv, Received
    PROVE  /\ Decode(Head(script)).op = "SPAWN_ENTITY" => Unmarked(Decode(Head(script)).actor)
           /\ Decode(Head(script)).op = "ACTIVATE" => Tail(script) = << >>
           /\ \A i \in 1..Len(Tail(script)) :
                 /\ Tail(script)[i].tag = "M" => Unmarked(Tail(script)[i].nums[1])
                 /\ Tail(script)[i].tag = "C" => i = Len(Tail(script))
           /\ next = 0 /\ todo = << >>
<1>1. next = 0 /\ todo = << >>
  BY DEF Received, IInv
<1>2. \A i \in 1..Len(script) : /\ script[i].tag = "M" => Unmarked(script[i].nums[1])
                                /\ script[i].tag = "C" => i = Len(script)
  BY DEF MarkInv
<1>3. Decode(Head(script)).op = "ACTIVATE" => Tail(script) = << >>
  BY <1>2, HeadOfScript
<1>4. ASSUME NEW i \in 1..Len(Tail(script))
      PROVE  /\ Tail(script)[i].tag = "M" => Unmarked(Tail(script)[i].nums[1])
             /\ Tail(script)[i].tag = "C" => i = Len(Tail(script))
  <2>1. /\ Tail(script)[i] = script[i + 1] /\ i + 1 \in 1..Len(script)
        /\ Len(script) \in Nat /\ Len(Tail(script)) = Len(script) - 1 /\ i \in Int
    BY HeadOfScript
  <2>2. Tail(script)[i].tag = "M" => Unmarked(Tail(script)[i].nums[1])
    BY <1>2, <2>1
  <2>3. Tail(script)[i].tag = "C" => i + 1 = Len(script)
    BY <1>2, <2>1
  <2> QED
    BY <2>1, <2>2, <2>3
<1>5. Decode(Head(script)).op = "SPAWN_ENTITY" => Unmarked(Decode(Head(script)).actor)
  BY <1>2, HeadOfScript
<1> QED
  BY <1>1, <1>3, <1>4, <1>5

LEMMA CollectMarkInv ==
    ASSUME IInv, MarkInv, Collect
    PROVE  MarkInv'
<1> DEFINE c == Decode(Head(script))
<1>1. c.op = "SPAWN_ENTITY" => Unmarked(c.actor)
  BY HeadIsFirst DEF Collect
<1>2. PICK S : pending \in Seq(S)
  BY DEF IInv, CommandsOK
<1>3. pending' = Append(pending, c) /\ script' = Tail(script) /\ UNCHANGED <<working, todo, next>>
  BY DEF Collect
<1>4. /\ \A i \in 1..Len(Tail(script)) :
             /\ Tail(script)[i].tag = "M" => Unmarked(Tail(script)[i].nums[1])
             /\ Tail(script)[i].tag = "C" => i = Len(Tail(script))
      /\ next = 0
  BY HeadIsFirst DEF Collect
<1> HIDE DEF c
<1>5. \A i \in 1..Len(Append(pending, c)) :
          Append(pending, c)[i] = IF i \in 1..Len(pending) THEN pending[i] ELSE c
  BY <1>2
<1>6. \A i \in 1..Len(pending') : pending'[i].op = "SPAWN_ENTITY" => Unmarked(pending'[i].actor)
  BY <1>1, <1>3, <1>5 DEF MarkInv
<1> QED
  BY <1>3, <1>4, <1>6 DEF MarkInv, Unmarked

LEMMA ActivateIdleMarkInv ==
    ASSUME IInv, MarkInv, ActivateIdle
    PROVE  MarkInv'
<1>1. pending' = << >> /\ script' = << >> /\ todo' = << >> /\ next' = 0
  BY HeadIsFirst DEF ActivateIdle
<1> QED
  BY <1>1 DEF MarkInv

LEMMA DecideMarkInv ==
    ASSUME IInv, MarkInv, Decide
    PROVE  MarkInv'
<1>1. /\ pending' = << >> /\ script' = << >> /\ todo' = Corrected(before, active, pending)
      /\ working' = working
  BY HeadIsFirst DEF Decide
<1>2. \A i \in 1..Len(pending) : pending[i].op = "SPAWN_ENTITY" => Unmarked(pending[i].actor)
  BY DEF MarkInv
<1>3. \A i \in 1..Len(todo') : todo'[i].op = "SPAWN_ENTITY" => Unmarked(todo'[i].actor)
  BY <1>1, <1>2, CorrectedSame DEF IInv, Alike
<1> QED
  BY <1>1, <1>3 DEF MarkInv, Unmarked

\* The command that is applied next.
LEMMA NextCommand ==
    ASSUME IInv, todo # << >>
    PROVE  /\ CommandOK(Head(todo), Actors) /\ Head(todo) = todo[1] /\ 1 \in 1..Len(todo)
           /\ \A i \in 1..Len(Tail(todo)) : Tail(todo)[i] = todo[i + 1] /\ i + 1 \in 1..Len(todo)
  BY DEF IInv, CommandsOK

\* What a command does to the marks and the mana of the stacks.
LEMMA ApplyNextMarks ==
    ASSUME IInv, ApplyNext
    PROVE  LET c == Head(todo)
           IN  /\ c.op # "SPAWN_ENTITY" =>
                     \/ Calm(working, working') /\ DOMAIN working' = DOMAIN working
                     \/ ValidManaFeed(c, working) /\ working' = Fed(working, c)
               /\ c.op = "SPAWN_ENTITY" =>
                     \A u \in DOMAIN working' :
                        IF u = c.actor THEN ~Marked(working'[u])
                        ELSE u \in DOMAIN working /\ working'[u] = working[u]
<1>1. CommandOK(Head(todo), Actors) /\ StatesOK(working)
  BY NextCommand DEF ApplyNext, IInv
<1>2. working' = ApplyCommand(working, Head(todo), row.still)
  BY DEF ApplyNext
<1> QED
  BY <1>1, <1>2, CommandKeepsMarks

LEMMA ApplyNextMarkInv ==
    ASSUME IInv, MarkInv, ApplyNext
    PROVE  MarkInv'
<1> DEFINE c == Head(todo)
<1>1. \A u : Unmarked(u) => (u \in DOMAIN working' => ~Marked(working'[u]))
  <2> SUFFICES ASSUME NEW u, Unmarked(u), u \in DOMAIN working' PROVE ~Marked(working'[u])
    OBVIOUS
  <2>1. CASE c.op = "SPAWN_ENTITY"
    BY <2>1, ApplyNextMarks DEF Unmarked
  <2>2. CASE Calm(working, working') /\ DOMAIN working' = DOMAIN working
    BY <2>2 DEF Calm, Quiet, Unmarked
  <2>3. CASE ValidManaFeed(c, working) /\ working' = Fed(working, c)
    <3>1. c.amount \in Int /\ StatesOK(working)
      BY NextCommand DEF ApplyNext, CommandOK, IInv
    <3> QED
      BY <2>3, <3>1, FedIsPaid DEF Unmarked
  <2> QED
    BY <2>1, <2>2, <2>3, ApplyNextMarks
<1>2. /\ todo' = Tail(todo) /\ next' = next /\ next # 0 /\ todo # << >>
      /\ script' = script /\ pending' = pending
  BY DEF ApplyNext
<1>3. script = << >> /\ pending = << >>
  BY <1>2 DEF MarkInv
<1>4. \A i \in 1..Len(todo') : todo'[i].op = "SPAWN_ENTITY" => Unmarked(todo'[i].actor)
  BY <1>2, NextCommand DEF MarkInv
<1> QED
  BY <1>1, <1>2, <1>3, <1>4 DEF MarkInv, Unmarked

LEMMA ConcludeMarkInv ==
    ASSUME IInv, MarkInv, Conclude
    PROVE  MarkInv'
<1>1. next # 0 /\ todo = << >> /\ UNCHANGED <<pending, todo, script>> /\ next' = 0
  BY DEF Conclude
<1> QED
  BY <1>1 DEF MarkInv

LEMMA NextMarkInv == IInv /\ MarkInv /\ [Next]_vars => MarkInv'
<1> SUFFICES ASSUME IInv, MarkInv, [Next]_vars PROVE MarkInv'
  OBVIOUS
<1>1. CASE Next
  BY <1>1, ArriveMarkInv, CollectMarkInv, ActivateIdleMarkInv, DecideMarkInv, ApplyNextMarkInv,
     ConcludeMarkInv DEF Next
<1>2. CASE UNCHANGED vars
  BY <1>2 DEF vars, parser, MarkInv, Unmarked
<1> QED
  BY <1>1, <1>2

\* A stack that was bashed stays marked until it is itself activated: no record, no
\* activation of another stack and no summons takes the mark away (the comment at line
\* 1815 of replay.py).
THEOREM BashMarksLast == Spec => BashLastsUntilActivation
<1> DEFINE Lasting == \A u \in DOMAIN working :
                         "proc_shieldbash" \in working[u].effects /\ "proc_shieldbash" \notin working'[u].effects
                         => next' = 0 /\ active' = u
<1>1. IInv /\ MarkInv /\ [Next]_vars => [Lasting]_vars
  <2> SUFFICES ASSUME IInv, MarkInv, Next,
                      NEW u \in DOMAIN working, Marked(working[u]), ~Marked(working'[u])
               PROVE  next' = 0 /\ active' = u
    BY DEF Marked
  <2>1. ASSUME working' = working PROVE FALSE
    BY <2>1
  <2>2. CASE Arrive \/ Collect \/ Decide
    BY <2>1, <2>2 DEF Arrive, Collect, Decide, parser
  <2>3. CASE ActivateIdle
    <3> DEFINE c == Decode(Head(script))
    <3>1. ActivateOn(working, c.actor) /\ next' = 0 /\ StatesOK(working)
      BY <2>3 DEF ActivateIdle, Received, IInv
    <3> HIDE DEF c
    <3>2. active' = c.actor /\ (u # c.actor => Marked(working'[u]))
      BY <3>1, ActivationMarks
    <3> QED
      BY <3>1, <3>2
  <2>4. CASE ApplyNext
    <3>1. CASE Head(todo).op = "SPAWN_ENTITY"
      <4>1. u # Head(todo).actor
        BY <2>4, <3>1, NextCommand DEF ApplyNext, MarkInv, Unmarked
      <4>2. u \in DOMAIN working'
        BY <2>4, NextCommand, CommandApplied DEF ApplyNext, IInv
      <4> QED
        BY <2>1, <2>4, <3>1, <4>1, <4>2, ApplyNextMarks
    <3>2. CASE Calm(working, working') /\ DOMAIN working' = DOMAIN working
      BY <3>2 DEF Calm, Quiet
    <3>3. CASE ValidManaFeed(Head(todo), working) /\ working' = Fed(working, Head(todo))
      <4>1. Head(todo).amount \in Int /\ StatesOK(working)
        BY <2>4, NextCommand DEF ApplyNext, CommandOK, IInv
      <4> QED
        BY <3>3, <4>1, FedIsPaid
    <3> QED
      BY <2>4, <3>1, <3>2, <3>3, ApplyNextMarks
  <2>5. CASE Conclude
    <3>1. Keeps(working, Settled)
      BY AfterCommandsOK DEF Settled, IInv
    <3>2. Marked(Settled[u]) /\ u \in DOMAIN Settled
      BY <3>1, AfterCommandsMarks DEF Settled, IInv, Keeps
    <3>3. ActivateOn(Settled, next) /\ next' = 0
      BY <2>5 DEF Conclude
    <3>4. active' = next /\ (u # next => Marked(working'[u]))
      BY <3>1, <3>2, <3>3, ActivationMarks DEF Keeps
    <3> QED
      BY <3>3, <3>4
  <2> QED
    BY <2>2, <2>3, <2>4, <2>5 DEF Next
<1>2. BashLastsUntilActivation <=> [][Lasting]_vars
  BY DEF BashLastsUntilActivation
<1> HIDE DEF Lasting
<1> QED
  BY <1>1, <1>2, InitMarkInv, NextMarkInv, ReplayInvariant, PTL DEF Spec

\* A stack gains mana only from another of its side, which loses as much at the same
\* command: records move mana or spend it, they never make any (the m-feed, m-drain and
\* spell branches of _apply_command).
THEOREM NoManaIsMade == Spec => ManaIsNeverMade
<1> DEFINE Paid == (next # 0 /\ todo # << >> /\ Head(todo).op # "SPAWN_ENTITY")
               => \A u \in DOMAIN working : working'[u].mana > working[u].mana =>
                      /\ \A v \in DOMAIN working \ {u} : working'[v].mana <= working[v].mana
                      /\ \E v \in DOMAIN working :
                            /\ working[v].owner = working[u].owner
                            /\ working[v].mana - working'[v].mana >= working'[u].mana - working[u].mana
<1>1. IInv /\ [Next]_vars => [Paid]_vars
  <2> SUFFICES ASSUME IInv, Next, next # 0, todo # << >>, Head(todo).op # "SPAWN_ENTITY",
                      NEW u \in DOMAIN working, working'[u].mana > working[u].mana
               PROVE  /\ \A v \in DOMAIN working \ {u} : working'[v].mana <= working[v].mana
                      /\ \E v \in DOMAIN working :
                            /\ working[v].owner = working[u].owner
                            /\ working[v].mana - working'[v].mana >= working'[u].mana - working[u].mana
    OBVIOUS
  <2>1. ApplyNext
    BY DEF Next, Arrive, Collect, ActivateIdle, Decide, Conclude, Received
  <2>2. IInv'
    BY <2>1, ApplyNextIInv
  <2>3. /\ \A v \in DOMAIN working : working[v].mana \in Nat
        /\ \A v \in DOMAIN working' : working'[v].mana \in Nat
    BY <2>2 DEF IInv, StatesOK, StackOK
  <2>4. ~Calm(working, working')
    <3>1. SUFFICES ASSUME u \in DOMAIN working', working'[u].mana <= working[u].mana PROVE FALSE
      BY DEF Calm, Quiet
    <3> QED
      BY <2>3, <3>1
  <2> DEFINE c == Head(todo)
  <2>5. ValidManaFeed(c, working) /\ working' = Fed(working, c) /\ c.amount \in Int /\ StatesOK(working)
    BY <2>1, <2>4, ApplyNextMarks, NextCommand DEF CommandOK, IInv
  <2> HIDE DEF c
  <2>6. /\ c.actor \in DOMAIN working /\ c.target \in DOMAIN working
        /\ working[c.actor].owner = working[c.target].owner
        /\ DOMAIN working' = DOMAIN working
        /\ \A v \in DOMAIN working \ {c.target} : working'[v].mana <= working[v].mana
        /\ working'[c.target].mana > working[c.target].mana =>
              working[c.actor].mana - working'[c.actor].mana = working'[c.target].mana - working[c.target].mana
    BY <2>5, FedIsPaid
  <2>7. u = c.target
    BY <2>3, <2>6
  <2>8. working[c.actor].mana - working'[c.actor].mana >= working'[u].mana - working[u].mana
    BY <2>3, <2>6, <2>7
  <2> QED
    BY <2>6, <2>7, <2>8
<1>2. ManaIsNeverMade <=> [][Paid]_vars
  BY DEF ManaIsNeverMade
<1> HIDE DEF Paid
<1> QED
  BY <1>1, <1>2, ReplayInvariant, PTL DEF Spec

-----------------------------------------------------------------------------
(* What the states of a decision say of its records.                        *)

\* What no command changes of a stack.
Steadfast(s, t) ==
    t.traits = s.traits /\ t.owner = s.owner /\ t.spells = s.spells /\ t.phantom = s.phantom

\* A bom-record of stack u with nothing but zeros after it.
Bombs(c, u) == c.op = "SPECIAL" /\ c.code = "bom" /\ c.actor = u /\ c.zeros

\* A record of stoning or crippling wound upon stack u, and the effect it leaves.
Petrifies(c, u) == c.op = "SPECIAL" /\ c.code = "sta" /\ c.target = u

Cripples(c, u) == c.op = "SPECIAL" /\ c.code = "wnd" /\ c.target = u

\* Stack s has become t after records that took so many hit points and gave so many.
Accounted(s, t, taken, given) ==
    /\ TotalHp(t) >= TotalHp(s) - taken
    /\ TotalHp(t) <= TotalHp(s) + given
    /\ given = 0 => TotalHp(t) = Larger(0, TotalHp(s) - taken)

HurtsOf(cmds, u) == {i \in 1..Len(cmds) : Hurts(cmds[i], u)}

HealsOf(cmds, u) == {i \in 1..Len(cmds) : Heals(cmds[i], u)}

\* Stack u of the states "old" has become w after the first n of the commands.
Follows(cmds, n, old, u, w) ==
    LET b == old[u]
    IN  /\ Steadfast(b, w) /\ b.effects \subseteq w.effects
        /\ "proc_stone" \in w.effects \ b.effects =>
              \E i \in 1..n : cmds[i].code = "sta" /\ cmds[i].target = u
        /\ "proc_cripple" \in w.effects \ b.effects =>
              \E i \in 1..n : cmds[i].code = "wnd" /\ cmds[i].target = u
        /\ \A i \in 1..n : Petrifies(cmds[i], u) /\ ValidProc(cmds[i], old) => "proc_stone" \in w.effects
        /\ \A i \in 1..n : Cripples(cmds[i], u) /\ ValidProc(cmds[i], old) => "proc_cripple" \in w.effects
        /\ \A i \in 1..n :
              /\ Bombs(cmds[i], u) /\ "gribbomb" \in b.traits
              /\ \A j \in 1..Len(cmds) : ~Heals(cmds[j], u) /\ ~Places(cmds[j], u)
              => ~w.alive
        /\ Accountable([before |-> old, cmds |-> cmds], u) =>
              Accounted(b, w, Running(cmds, HurtsOf(cmds, u))[n], Running(cmds, HealsOf(cmds, u))[n])

Applied == Len(row.cmds) - Len(todo)

\* The spell books are those of the battle.
Books(ents) ==
    \A u \in DOMAIN battle.stacks : u \in DOMAIN ents /\ ents[u].spells = battle.stacks[u].spells

\* While a decision is applied, its row says which records it has, judged on the states
\* before it; what is still to be applied are the last of them, and the others have made
\* of every stack what they say.
DecisionOK ==
    /\ active # 0 /\ row.actor = active
    /\ CommandsOK(row.cmds, Actors)
    /\ row.vague = Unresolved(row.cmds, before, active)
    /\ Len(todo) <= Len(row.cmds)
    /\ \A i \in 1..Len(todo) : Alike(todo[i], row.cmds[Applied + i])
    /\ \A i \in 1..Len(row.cmds) : row.cmds[i].op = "SPAWN_ENTITY" => row.cmds[i].actor \notin DOMAIN before
    /\ \A u \in DOMAIN before : u \in DOMAIN working /\ Follows(row.cmds, Applied, before, u, working[u])

\* Between decisions the states before the next one are the present ones, and no record
\* summons a stack that is there.
DecisionInv ==
    /\ StatesOK(before)
    /\ Books(working) /\ (active # 0 => Books(before))
    /\ \A i \in 1..Len(pending) : pending[i].op = "SPAWN_ENTITY" => pending[i].actor \notin DOMAIN working
    /\ \A i \in 1..Len(script) : script[i].tag = "M" => script[i].nums[1] \notin DOMAIN working
    /\ (next = 0 /\ active # 0) => before = working
    /\ (next # 0) => DecisionOK

\* Effects that no record but its own brings, and hit points, are untouched.
Plain(s, t) ==
    /\ Steadfast(s, t)
    /\ \A f \in HealthFields : t[f] = s[f]
    /\ s.effects \subseteq t.effects /\ (t.effects \ s.effects) \cap Counted = {}

\* All stacks but that u is s before are rewritten plainly.
Changed(ents, new, u, s) ==
    \A v \in DOMAIN ents : v \in DOMAIN new /\ Plain(IF v = u THEN s ELSE ents[v], new[v])

Unchanging(ents, new) == \A v \in DOMAIN ents : v \in DOMAIN new /\ Plain(ents[v], new[v])

LEMMA PlainTwice ==
    ASSUME NEW s, NEW t, NEW w, Plain(s, t), Plain(t, w)
    PROVE  Plain(s, w)
<1>1. Steadfast(s, w) /\ \A f \in HealthFields : w[f] = s[f]
  BY DEF Plain, Steadfast
<1>2. s.effects \subseteq w.effects /\ (w.effects \ s.effects) \cap Counted = {}
  BY DEF Plain
<1> QED
  BY <1>1, <1>2 DEF Plain

LEMMA PlainSelf == \A s : Plain(s, s)
  BY DEF Plain, Steadfast

LEMMA PlainFields ==
    ASSUME NEW s, StackFields \subseteq DOMAIN s, NEW x, NEW y
    PROVE  /\ Plain(s, [s EXCEPT !.pos = x])
           /\ Plain(s, [s EXCEPT !.atb = x])
           /\ Plain(s, [s EXCEPT !.speed = x])
           /\ Plain(s, [s EXCEPT !.mana = x])
           /\ Plain(s, [s EXCEPT !.shots = x])
           /\ Plain(s, [s EXCEPT !.defending = TRUE])
           /\ Plain(s, [s EXCEPT !.rune = x])
           /\ Plain(s, [s EXCEPT !.attack = x, !.defense = y])
           /\ x \notin Counted => /\ Plain(s, [s EXCEPT !.effects = @ \cup {x}])
                                  /\ Plain(s, [s EXCEPT !.effects = @ \cup {x}, !.turns[x] = y])
  BY DEF Plain, Steadfast, StackFields, HealthFields

LEMMA PlainOperations ==
    ASSUME NEW s, StackOK(s), NEW p, NEW n
    PROVE  /\ Plain(s, At(s, p)) /\ Plain(s, Weakened(s)) /\ Plain(s, Hastened(s))
           /\ Plain(s, RuneActivated(s)) /\ Plain(s, [s EXCEPT !.rune = @ \ {"active"}])
           /\ Plain(s, Spend(s, n)) /\ Plain(s, WithTimed(s, "msl", n))
           /\ p \notin Counted => Plain(s, WithEffect(s, p))
<1>0. StackFields \subseteq DOMAIN s
  BY DEF StackOK
<1>1. Plain(s, At(s, p))
  BY <1>0, PlainFields DEF At
<1>2. Plain(s, Weakened(s))
  BY <1>0, PlainFields DEF Weakened
<1>3. Plain(s, Hastened(s))
  BY <1>0, PlainFields, PlainSelf DEF Hastened
<1>4. Plain(s, RuneActivated(s)) /\ Plain(s, [s EXCEPT !.rune = @ \ {"active"}])
  BY <1>0, PlainFields, PlainSelf DEF RuneActivated
<1>5. Plain(s, Spend(s, n))
  BY <1>0, PlainFields DEF Spend
<1>6. Plain(s, WithTimed(s, "msl", n))
  BY <1>0, PlainFields DEF WithTimed, Counted
<1>7. p \notin Counted => Plain(s, WithEffect(s, p))
  BY <1>0, PlainFields DEF WithEffect
<1> QED
  BY <1>1, <1>2, <1>3, <1>4, <1>5, <1>6, <1>7

\* One stack is rewritten.
LEMMA OneChanged ==
    ASSUME NEW ents, NEW u, NEW s
    PROVE  /\ Changed(ents, [ents EXCEPT ![u] = s], u, s)
           /\ (u \in DOMAIN ents => Plain(ents[u], s)) => Unchanging(ents, [ents EXCEPT ![u] = s])
           /\ Unchanging(ents, ents)
  BY PlainSelf DEF Changed, Unchanging

\* and then others plainly.
LEMMA ChangedTwice ==
    ASSUME NEW ents, NEW mid, NEW new, NEW u, NEW s, Changed(ents, mid, u, s), Unchanging(mid, new)
    PROVE  Changed(ents, new, u, s)
  BY PlainTwice DEF Changed, Unchanging

LEMMA UnchangingTwice ==
    ASSUME NEW ents, NEW mid, NEW new, Unchanging(ents, mid), Unchanging(mid, new)
    PROVE  Unchanging(ents, new)
  BY PlainTwice DEF Unchanging

LEMMA NotedUnchanging ==
    ASSUME NEW ents, StatesOK(ents), NEW c, c.code \notin Counted
    PROVE  Unchanging(ents, Noted(ents, c)) /\ Unchanging(ents, [ents EXCEPT ![c.target] = WithEffect(@, c.code)])
<1>1. \A u \in DOMAIN ents : Plain(ents[u], WithEffect(ents[u], c.code))
  BY PlainOperations DEF StatesOK
<1> QED
  BY <1>1, OneChanged DEF Noted

LEMMA SpendUnchanging ==
    ASSUME NEW ents, StatesOK(ents), NEW u, NEW n
    PROVE  Unchanging(ents, [ents EXCEPT ![u] = Spend(@, n)])
<1>1. \A v \in DOMAIN ents : Plain(ents[v], Spend(ents[v], n))
  BY PlainOperations DEF StatesOK
<1> QED
  BY <1>1, OneChanged

LEMMA FedUnchanging ==
    ASSUME NEW ents, StatesOK(ents), NEW c, c.amount \in Nat
    PROVE  Unchanging(ents, Fed(ents, c))
<1> DEFINE mid == [ents EXCEPT ![c.actor] = Spend(@, c.amount)]
           fed == [mid[c.target] EXCEPT !.mana = mid[c.target].mana + c.amount]
<1>1. Unchanging(ents, mid)
  BY SpendUnchanging
<1>2. StatesOK(mid)
  BY SpendOK, Updated DEF StatesOK, Keeps
<1>3. c.target \in DOMAIN mid => Plain(mid[c.target], fed)
  <2> HIDE DEF mid
  <2>1. c.target \in DOMAIN mid => StackFields \subseteq DOMAIN mid[c.target]
    BY <1>2 DEF StatesOK, StackOK
  <2> QED
    BY <2>1, PlainFields
<1>4. Fed(ents, c) = [mid EXCEPT ![c.target] = fed]
  BY DEF Fed
<1> HIDE DEF mid, fed
<1>5. Unchanging(mid, [mid EXCEPT ![c.target] = fed])
  BY <1>3, OneChanged
<1> QED
  BY <1>1, <1>4, <1>5, UnchangingTwice

LEMMA StatusUnchanging ==
    ASSUME NEW ents, StatesOK(ents), NEW c, c.code \notin Counted
    PROVE  Unchanging(ents, Status(ents, c))
<1> DEFINE noted == [ents EXCEPT ![c.target] = WithEffect(@, c.code)]
<1>1. Unchanging(ents, noted) /\ StatesOK(noted)
  <2>1. StatesOK(noted)
    BY OtherFieldOK, Updated DEF WithEffect, StatesOK, Keeps
  <2> QED
    BY <2>1, NotedUnchanging
<1>2. Status(ents, c) = noted \/ Status(ents, c) = [noted EXCEPT ![c.actor] = Spend(@, c.value)]
  BY DEF Status
<1> HIDE DEF noted
<1>3. Unchanging(noted, [noted EXCEPT ![c.actor] = Spend(@, c.value)])
  BY <1>1, SpendUnchanging
<1> QED
  BY <1>1, <1>2, <1>3, UnchangingTwice

\* A command that changes one stack, whose actor then spends mana.
LEMMA ChangedAndSpent ==
    ASSUME NEW ents, NEW u, NEW s, StatesOK(ents), u \in DOMAIN ents => StackOK(s), NEW a, NEW n
    PROVE  Changed(ents, [[ents EXCEPT ![u] = s] EXCEPT ![a] = Spend(@, n)], u, s)
<1> DEFINE mid == [ents EXCEPT ![u] = s]
<1>1. Changed(ents, mid, u, s) /\ StatesOK(mid)
  BY OneChanged, Updated DEF Keeps
<1> HIDE DEF mid
<1>2. Unchanging(mid, [mid EXCEPT ![a] = Spend(@, n)])
  BY <1>1, SpendUnchanging
<1> QED
  BY <1>1, <1>2, ChangedTwice DEF mid

LEMMA DirectDamageChanged ==
    ASSUME NEW ents, StatesOK(ents), NEW c, c.amount \in Nat, c.value \in Int
    PROVE  Changed(ents, DirectDamage(ents, c), c.target, ApplyDamage(ents[c.target], c.amount))
<1> DEFINE s == ApplyDamage(ents[c.target], c.amount)
           hurt == [ents EXCEPT ![c.target] = s]
<1>1. Abs(c.amount) = c.amount
  BY DEF Abs
<1>2. DirectDamage(ents, c) = hurt \/ DirectDamage(ents, c) = [hurt EXCEPT ![c.actor] = Spend(@, c.value)]
  BY <1>1 DEF DirectDamage
<1>3. c.target \in DOMAIN ents => StackOK(s)
  BY DamageOK DEF StatesOK
<1>4. Changed(ents, hurt, c.target, s)
  BY OneChanged
<1>5. Changed(ents, [hurt EXCEPT ![c.actor] = Spend(@, c.value)], c.target, s)
  <2> HIDE DEF s
  <2> QED
    BY <1>3, ChangedAndSpent
<1> HIDE DEF s, hurt
<1>6. Changed(ents, DirectDamage(ents, c), c.target, s)
  BY <1>2, <1>4, <1>5
<1> QED
  BY <1>6 DEF s

\* The stack that an S-record changes other than plainly, and what becomes of it.
LEMMA SpecialChanged ==
    ASSUME NEW ents, StatesOK(ents), NEW c, NEW actors, CommandOK(c, actors),
           NEW new, new = Special(ents, c)
    PROVE  /\ c.code \in DirectDamageCodes \cup {"psc"} =>
                 IF c.target \in DOMAIN ents /\ c.amount # Nothing
                 THEN Changed(ents, new, c.target, ApplyDamage(ents[c.target], c.amount))
                 ELSE Unchanging(ents, new)
           /\ c.code = "rsd" =>
                 Unchanging(ents, new) \/ Changed(ents, new, c.target, ApplyHeal(ents[c.target], c.amount))
           /\ c.code = "rgl" =>
                 Unchanging(ents, new) \/ Changed(ents, new, c.actor, ApplyHeal(ents[c.actor], c.amount))
           /\ c.code = "bom" =>
                 IF ValidMarker(c, ents, "gribbomb") THEN Changed(ents, new, c.actor, Removed(ents[c.actor]))
                 ELSE Unchanging(ents, new)
           /\ c.code = "sta" =>
                 IF ValidProc(c, ents) THEN Changed(ents, new, c.target, WithTimed(ents[c.target], "proc_stone", 1))
                 ELSE Unchanging(ents, new)
           /\ c.code = "wnd" =>
                 IF ValidProc(c, ents) THEN Changed(ents, new, c.target, WithTimed(ents[c.target], "proc_cripple", 2))
                 ELSE Unchanging(ents, new)
           /\ c.code \notin DirectDamageCodes \cup {"psc", "rsd", "rgl", "bom", "sta", "wnd"} =>
                 Unchanging(ents, new)
<1>1. /\ c.amount \in Int /\ c.value \in Int /\ c.code \notin Counted
      /\ c.amount # Nothing => c.amount \in Nat
  BY DEF CommandOK, Nothing
<1>2. /\ Unchanging(ents, ents) /\ Unchanging(ents, Noted(ents, c)) /\ Unchanging(ents, Status(ents, c))
      /\ Unchanging(ents, [ents EXCEPT ![c.actor] = Spend(@, c.value)])
      /\ Unchanging(ents, [ents EXCEPT ![c.actor] = WithTimed(@, "msl", 3)])
  <2>1. \A u \in DOMAIN ents : Plain(ents[u], WithTimed(ents[u], "msl", 3))
    BY PlainOperations DEF StatesOK
  <2> QED
    BY <1>1, <2>1, OneChanged, NotedUnchanging, StatusUnchanging, SpendUnchanging
<1>3. CASE c.code \in DirectDamageCodes \cup {"psc"}
  <2>1. c.target \in DOMAIN ents /\ c.amount # Nothing => new = DirectDamage(ents, c)
    BY <1>3 DEF Special, StatusCodes, DirectDamageCodes
  <2>2. ~(c.target \in DOMAIN ents /\ c.amount # Nothing) => new = Noted(ents, c)
    BY <1>3 DEF Special, StatusCodes, DirectDamageCodes
  <2>3. c.code \notin {"rsd", "rgl", "bom", "sta", "wnd"}
    BY <1>3 DEF DirectDamageCodes
  <2> QED
    BY <1>1, <1>2, <1>3, <2>1, <2>2, <2>3, DirectDamageChanged
<1>4. CASE c.code = "rsd"
  <2>1. \/ new = [[ents EXCEPT ![c.target] = ApplyHeal(@, c.amount)] EXCEPT ![c.actor] = Spend(@, c.value)]
        \/ new = Noted(ents, c)
    BY <1>4 DEF Special, StatusCodes, DirectDamageCodes
  <2>2. c.target \in DOMAIN ents => StackOK(ApplyHeal(ents[c.target], c.amount))
    BY <1>1, HealOK DEF StatesOK
  <2> DEFINE s == ApplyHeal(ents[c.target], c.amount)
  <2>3. Changed(ents, [[ents EXCEPT ![c.target] = s] EXCEPT ![c.actor] = Spend(@, c.value)], c.target, s)
    <3> HIDE DEF s
    <3> QED
      BY <2>2, ChangedAndSpent DEF s
  <2>4. Unchanging(ents, new) \/ Changed(ents, new, c.target, s)
    BY <1>2, <2>1, <2>3
  <2> QED
    BY <1>4, <2>4 DEF DirectDamageCodes
<1>5. CASE c.code = "rgl"
  <2>1. \/ new = [ents EXCEPT ![c.actor] = ApplyHeal(@, c.amount)]
        \/ new = Noted(ents, c) \/ new = ents
    BY <1>5 DEF Special, StatusCodes, DirectDamageCodes
  <2>2. Changed(ents, [ents EXCEPT ![c.actor] = ApplyHeal(@, c.amount)], c.actor, ApplyHeal(ents[c.actor], c.amount))
    BY OneChanged
  <2>3. Unchanging(ents, new) \/ Changed(ents, new, c.actor, ApplyHeal(ents[c.actor], c.amount))
    BY <1>2, <2>1, <2>2
  <2> QED
    BY <1>5, <2>3 DEF DirectDamageCodes
<1>6. CASE c.code = "bom"
  <2>1. new = IF ValidMarker(c, ents, "gribbomb") THEN [ents EXCEPT ![c.actor] = Removed(@)] ELSE Noted(ents, c)
    BY <1>6 DEF Special, StatusCodes, DirectDamageCodes
  <2>2. Changed(ents, [ents EXCEPT ![c.actor] = Removed(@)], c.actor, Removed(ents[c.actor]))
    BY OneChanged
  <2> QED
    BY <1>2, <1>6, <2>1, <2>2 DEF DirectDamageCodes
<1>7. CASE c.code \in {"sta", "wnd"}
  <2>1. new = IF c.target \in DOMAIN ents THEN Proc(ents, c) ELSE Noted(ents, c)
    BY <1>7 DEF Special, StatusCodes, DirectDamageCodes
  <2>2. ValidProc(c, ents) => c.target \in DOMAIN ents
    BY DEF ValidProc, Known
  <2>3. Proc(ents, c) = IF ~ValidProc(c, ents) THEN ents
                        ELSE IF c.code = "sta" THEN [ents EXCEPT ![c.target] = WithTimed(@, "proc_stone", 1)]
                        ELSE [ents EXCEPT ![c.target] = WithTimed(@, "proc_cripple", 2)]
    BY DEF Proc
  <2>4. /\ Changed(ents, [ents EXCEPT ![c.target] = WithTimed(@, "proc_stone", 1)],
                   c.target, WithTimed(ents[c.target], "proc_stone", 1))
        /\ Changed(ents, [ents EXCEPT ![c.target] = WithTimed(@, "proc_cripple", 2)],
                   c.target, WithTimed(ents[c.target], "proc_cripple", 2))
    BY OneChanged
  <2> QED
    BY <1>2, <1>7, <2>1, <2>2, <2>3, <2>4 DEF DirectDamageCodes
<1>8. CASE c.code = "mfd"
  <2>1. ValidManaFeed(c, ents) => Unchanging(ents, Fed(ents, c))
    <3>1. ValidManaFeed(c, ents) => c.amount \in Nat
      BY <1>1 DEF ValidManaFeed
    <3> QED
      BY <3>1, FedUnchanging
  <2>2. new = IF ValidManaFeed(c, ents) THEN Fed(ents, c) ELSE Noted(ents, c)
    BY <1>8 DEF Special, StatusCodes, DirectDamageCodes
  <2> QED
    BY <1>2, <1>8, <2>1, <2>2 DEF DirectDamageCodes
<1>9. CASE c.code \notin DirectDamageCodes \cup {"psc", "rsd", "rgl", "bom", "sta", "wnd", "mfd"}
  <2>1. new \in {ents, Noted(ents, c), Status(ents, c), [ents EXCEPT ![c.actor] = Spend(@, c.value)],
                 [ents EXCEPT ![c.actor] = WithTimed(@, "msl", 3)]}
    BY <1>9 DEF Special
  <2> QED
    BY <1>2, <1>9, <2>1
<1> QED
  BY <1>3, <1>4, <1>5, <1>6, <1>7, <1>8, <1>9

\* The stack that a command changes other than plainly, and what becomes of it.
LEMMA CommandChanged ==
    ASSUME NEW ents, StatesOK(ents), NEW c, NEW actors, CommandOK(c, actors), NEW still,
           NEW new, new = ApplyCommand(ents, c, still)
    PROVE  /\ c.op = "DAMAGE" =>
                 IF c.target \in DOMAIN ents
                 THEN Changed(ents, new, c.target, ApplyDamage(ents[c.target], c.amount))
                 ELSE Unchanging(ents, new)
           /\ c.op = "SPAWN_POSITION" =>
                 Unchanging(ents, new) \/ Changed(ents, new, c.actor, Placed(ents[c.actor], c))
           /\ c.op = "HIDE_OR_DEATH" =>
                 Unchanging(ents, new) \/ Changed(ents, new, c.actor, Removed(ents[c.actor]))
           /\ c.op = "SPECIAL" => new = Special(ents, c)
           /\ c.op = "SPAWN_ENTITY" => \A u \in DOMAIN ents \ {c.actor} : u \in DOMAIN new /\ new[u] = ents[u]
           /\ c.op \notin {"DAMAGE", "SPAWN_POSITION", "HIDE_OR_DEATH", "SPECIAL", "SPAWN_ENTITY"} =>
                 Unchanging(ents, new)
<1>1. \A u \in DOMAIN ents :
         /\ \A p : Plain(ents[u], At(ents[u], p))
         /\ \A n : Plain(ents[u], Spend(ents[u], n))
         /\ Plain(ents[u], [ents[u] EXCEPT !.atb = 0]) /\ Plain(ents[u], [ents[u] EXCEPT !.defending = TRUE])
         /\ Plain(ents[u], RuneActivated(ents[u])) /\ Plain(ents[u], [ents[u] EXCEPT !.rune = @ \ {"active"}])
         /\ Plain(ents[u], Weakened(ents[u])) /\ Plain(ents[u], Hastened(ents[u]))
  BY PlainOperations, PlainFields DEF StatesOK, StackOK
<1>2. Unchanging(ents, ents)
  BY OneChanged
<1>3. CASE c.op = "DAMAGE"
  <2>1. new = IF c.target \in DOMAIN ents THEN [ents EXCEPT ![c.target] = ApplyDamage(@, c.amount)] ELSE ents
    BY <1>3 DEF ApplyCommand
  <2> QED
    BY <1>2, <1>3, <2>1, OneChanged
<1>4. CASE c.op = "SPAWN_POSITION"
  <2>1. new = ents \/ new = [ents EXCEPT ![c.actor] = Placed(@, c)]
    BY <1>4 DEF ApplyCommand
  <2> QED
    BY <1>2, <1>4, <2>1, OneChanged
<1>5. CASE c.op = "HIDE_OR_DEATH"
  <2>1. new = ents \/ new = [ents EXCEPT ![c.actor] = Removed(@)]
    BY <1>5 DEF ApplyCommand
  <2> QED
    BY <1>2, <1>5, <2>1, OneChanged
<1>6. CASE c.op \in {"SPECIAL", "SPAWN_ENTITY"}
  BY <1>6 DEF ApplyCommand
<1>7. CASE c.op \notin {"DAMAGE", "SPAWN_POSITION", "HIDE_OR_DEATH", "SPECIAL", "SPAWN_ENTITY"}
  <2>1. \/ new = ents
        \/ \E u \in DOMAIN ents : \E p : new = [ents EXCEPT ![u] = At(@, p)]
        \/ \E u \in DOMAIN ents : new = [ents EXCEPT ![u].atb = 0]
        \/ \E u \in DOMAIN ents : \E n : new = [ents EXCEPT ![u] = Spend(@, n)]
        \/ \E u \in DOMAIN ents : new = [ents EXCEPT ![u].defending = TRUE]
        \/ \E u \in DOMAIN ents : new = [ents EXCEPT ![u] = RuneActivated(@)]
        \/ \E u \in DOMAIN ents : new = [ents EXCEPT ![u].rune = @ \ {"active"}]
        \/ \E u \in DOMAIN ents : new = [ents EXCEPT ![u] = Weakened(@)]
        \/ \E u \in DOMAIN ents : new = [ents EXCEPT ![u] = Hastened(@)]
    BY <1>7 DEF ApplyCommand, ValidPawstrike, ValidManaDrain, ValidCarrier, ValidWeakening, Known
  <2>2. new = ents \/ \E u \in DOMAIN ents : \E s : Plain(ents[u], s) /\ new = [ents EXCEPT ![u] = s]
    <3> DEFINE Update == \E u \in DOMAIN ents : \E s : Plain(ents[u], s) /\ new = [ents EXCEPT ![u] = s]
    <3>1. ASSUME NEW u \in DOMAIN ents, NEW s, Plain(ents[u], s), new = [ents EXCEPT ![u] = s] PROVE Update
      BY <3>1
    <3> HIDE DEF Update
    <3>2. (\E u \in DOMAIN ents : \E p : new = [ents EXCEPT ![u] = At(@, p)]) => Update
      BY <1>1, <3>1
    <3>3. (\E u \in DOMAIN ents : new = [ents EXCEPT ![u].atb = 0]) => Update
      BY <1>1, <3>1
    <3>4. (\E u \in DOMAIN ents : \E n : new = [ents EXCEPT ![u] = Spend(@, n)]) => Update
      BY <1>1, <3>1
    <3>5. (\E u \in DOMAIN ents : new = [ents EXCEPT ![u].defending = TRUE]) => Update
      BY <1>1, <3>1
    <3>6. (\E u \in DOMAIN ents : new = [ents EXCEPT ![u] = RuneActivated(@)]) => Update
      BY <1>1, <3>1
    <3>7. (\E u \in DOMAIN ents : new = [ents EXCEPT ![u].rune = @ \ {"active"}]) => Update
      BY <1>1, <3>1
    <3>8. (\E u \in DOMAIN ents : new = [ents EXCEPT ![u] = Weakened(@)]) => Update
      BY <1>1, <3>1
    <3>9. (\E u \in DOMAIN ents : new = [ents EXCEPT ![u] = Hastened(@)]) => Update
      BY <1>1, <3>1
    <3> QED
      BY <2>1, <3>2, <3>3, <3>4, <3>5, <3>6, <3>7, <3>8, <3>9 DEF Update
  <2> QED
    BY <1>2, <1>7, <2>2, OneChanged
<1> QED
  BY <1>3, <1>4, <1>5, <1>6, <1>7

\* What command c may make of stack u, which was s and has become t.
Outcome(c, u, s, t) ==
    /\ Steadfast(s, t) /\ s.effects \subseteq t.effects
    /\ "proc_stone" \in t.effects \ s.effects => c.code = "sta" /\ c.target = u
    /\ "proc_cripple" \in t.effects \ s.effects => c.code = "wnd" /\ c.target = u
    /\ Bombs(c, u) /\ "gribbomb" \in s.traits => ~t.alive
    /\ ~s.alive /\ ~Heals(c, u) /\ ~Places(c, u) => ~t.alive
    /\ ~IsHero(s) /\ ~s.phantom /\ ~Removes(c, u) /\ ~Places(c, u) =>
          IF Hurts(c, u) THEN TotalHp(t) = Larger(0, TotalHp(s) - c.amount)
          ELSE IF Heals(c, u) THEN TotalHp(t) \in TotalHp(s)..(TotalHp(s) + c.amount)
          ELSE TotalHp(t) = TotalHp(s)

\* The same but for hit points, of a change that brings no effect.
Same(s, t) == Steadfast(s, t) /\ t.effects = s.effects

LEMMA DamageBecomes ==
    ASSUME NEW s, StackOK(s), NEW n \in Int
    PROVE  /\ Same(s, ApplyDamage(s, n))
           /\ ~s.alive => ~ApplyDamage(s, n).alive
           /\ ~IsHero(s) /\ ~s.phantom =>
                 TotalHp(ApplyDamage(s, n)) = IF n > 0 THEN Larger(0, TotalHp(s) - n) ELSE TotalHp(s)
<1>0. StackFields \subseteq DOMAIN s
  BY DEF StackOK
<1>1. Same(s, s) /\ Same(s, Removed(s)) /\ ~Removed(s).alive /\ \A k : Same(s, WithHp(s, k))
  BY <1>0 DEF Same, Steadfast, Removed, WithHp, StackFields
<1>2. \/ ApplyDamage(s, n) = s \/ ApplyDamage(s, n) = Removed(s)
      \/ ApplyDamage(s, n) = WithHp(s, TotalHp(s) - n)
  BY DEF ApplyDamage
<1>3. ASSUME ~s.alive PROVE ApplyDamage(s, n) \in {s, Removed(s)}
  <2>1. TotalHp(s) = 0
    BY <1>3 DEF TotalHp
  <2> QED
    BY <2>1 DEF ApplyDamage
<1>4. n <= 0 => ApplyDamage(s, n) = s
  BY DEF ApplyDamage
<1>5. ASSUME ~IsHero(s), ~s.phantom, n > 0 PROVE TotalHp(ApplyDamage(s, n)) = Larger(0, TotalHp(s) - n)
  <2>1. Fit(s) /\ n \in Nat \ {0}
    BY <1>5, CreatureFits
  <2> QED
    BY <1>5, <2>1, DamageIsAccounted
<1> QED
  BY <1>1, <1>2, <1>3, <1>4, <1>5

LEMMA HealBecomes ==
    ASSUME NEW s, StackOK(s), NEW n \in Int
    PROVE  /\ Same(s, ApplyHeal(s, n))
           /\ n <= 0 => ApplyHeal(s, n) = s
           /\ n > 0 /\ ~IsHero(s) => TotalHp(ApplyHeal(s, n)) \in TotalHp(s)..(TotalHp(s) + n)
<1>0. StackFields \subseteq DOMAIN s
  BY DEF StackOK
<1>1. Same(s, s) /\ \A k : Same(s, WithHp(s, k))
  BY <1>0 DEF Same, Steadfast, WithHp, StackFields
<1>2. Same(s, ApplyHeal(s, n)) /\ (n <= 0 => ApplyHeal(s, n) = s)
  BY <1>1 DEF ApplyHeal
<1>3. ASSUME n > 0, ~IsHero(s) PROVE TotalHp(ApplyHeal(s, n)) \in TotalHp(s)..(TotalHp(s) + n)
  <2>1. Fit(s) /\ n \in Nat \ {0} /\ s.maxcount \in Nat
    BY <1>3, CreatureFits DEF Fit
  <2>2. TotalHp(s) \in Nat /\ TotalHp(s) <= s.maxcount * s.maxhp /\ s.maxcount * s.maxhp \in Int
    BY <2>1, TotalBounds DEF Fit
  <2>3. CASE s.maxcount > 0
    <3>1. TotalHp(ApplyHeal(s, n)) =
              IF s.maxcount * s.maxhp < TotalHp(s) + n THEN s.maxcount * s.maxhp ELSE TotalHp(s) + n
      BY <2>1, <2>3, HealIsAccounted
    <3> QED
      BY <2>1, <2>2, <3>1
  <2>4. CASE s.maxcount <= 0
    <3>1. ApplyHeal(s, n) = s
      BY <2>4 DEF ApplyHeal
    <3> QED
      BY <2>1, <2>2, <3>1
  <2> QED
    BY <2>1, <2>3, <2>4
<1> QED
  BY <1>2, <1>3

LEMMA OthersBecome ==
    ASSUME NEW s, StackOK(s), NEW c, NEW key, NEW n
    PROVE  /\ Same(s, Placed(s, c))
           /\ Same(s, Removed(s)) /\ ~Removed(s).alive
           /\ Steadfast(s, WithTimed(s, key, n)) /\ WithTimed(s, key, n).effects = s.effects \cup {key}
           /\ \A f \in HealthFields : WithTimed(s, key, n)[f] = s[f]
<1>0. StackFields \subseteq DOMAIN s
  BY DEF StackOK
<1>1. Same(s, Placed(s, c))
  BY <1>0 DEF Placed, At, Same, Steadfast, StackFields
<1>2. Same(s, Removed(s)) /\ ~Removed(s).alive
  BY <1>0 DEF Removed, Same, Steadfast, StackFields
<1>3. /\ Steadfast(s, WithTimed(s, key, n)) /\ WithTimed(s, key, n).effects = s.effects \cup {key}
      /\ \A f \in HealthFields : WithTimed(s, key, n)[f] = s[f]
  BY <1>0 DEF WithTimed, Steadfast, StackFields, HealthFields
<1> QED
  BY <1>1, <1>2, <1>3

LEMMA SameHealthSame ==
    ASSUME NEW s, NEW t, \A f \in HealthFields : t[f] = s[f]
    PROVE  TotalHp(t) = TotalHp(s) /\ t.alive = s.alive
  BY DEF HealthFields, TotalHp

\* A stack that a change made r of, and that is then rewritten plainly.
LEMMA PlainlyAfter ==
    ASSUME NEW s, NEW r, NEW t, Same(s, r), Plain(r, t)
    PROVE  /\ Steadfast(s, t) /\ s.effects \subseteq t.effects /\ (t.effects \ s.effects) \cap Counted = {}
           /\ TotalHp(t) = TotalHp(r) /\ t.alive = r.alive
<1>1. TotalHp(t) = TotalHp(r) /\ t.alive = r.alive
  BY SameHealthSame DEF Plain
<1>2. Steadfast(s, t) /\ t.effects \ s.effects = t.effects \ r.effects /\ s.effects \subseteq t.effects
  BY DEF Same, Plain, Steadfast
<1> QED
  BY <1>1, <1>2 DEF Plain

\* A stack that a command only rewrites plainly, though it names it.
LEMMA PlainOutcome ==
    ASSUME NEW c, NEW u, NEW s, NEW t, StackOK(s), c.amount \in Int, Plain(s, t), ~Hurts(c, u),
           Bombs(c, u) /\ "gribbomb" \in s.traits => ~s.alive
    PROVE  Outcome(c, u, s, t)
<1>1. TotalHp(t) = TotalHp(s) /\ t.alive = s.alive /\ s.effects \subseteq t.effects
      /\ (t.effects \ s.effects) \cap Counted = {} /\ Steadfast(s, t)
  BY SameHealthSame DEF Plain
<1>2. "proc_stone" \notin t.effects \ s.effects /\ "proc_cripple" \notin t.effects \ s.effects
  BY <1>1 DEF Counted
<1>3. ~IsHero(s) => TotalHp(s) \in Int
  BY CreatureFits, TotalBounds
<1>4. ~IsHero(s) /\ Heals(c, u) => TotalHp(t) \in TotalHp(s)..(TotalHp(s) + c.amount)
  BY <1>1, <1>3 DEF Heals
<1> QED
  BY <1>1, <1>2, <1>4 DEF Outcome

LEMMA DamageOutcome ==
    ASSUME NEW c, NEW u, NEW s, NEW t, StackOK(s), c.amount \in Int,
           Hurts(c, u) <=> c.amount > 0, ~Heals(c, u), ~Bombs(c, u),
           Plain(ApplyDamage(s, c.amount), t)
    PROVE  Outcome(c, u, s, t)
<1>1. /\ Steadfast(s, t) /\ s.effects \subseteq t.effects /\ (t.effects \ s.effects) \cap Counted = {}
      /\ TotalHp(t) = TotalHp(ApplyDamage(s, c.amount)) /\ t.alive = ApplyDamage(s, c.amount).alive
  BY DamageBecomes, PlainlyAfter
<1>2. "proc_stone" \notin t.effects \ s.effects /\ "proc_cripple" \notin t.effects \ s.effects
  BY <1>1 DEF Counted
<1>3. ~s.alive => ~t.alive
  BY <1>1, DamageBecomes
<1>4. ~IsHero(s) /\ ~s.phantom =>
          TotalHp(t) = IF c.amount > 0 THEN Larger(0, TotalHp(s) - c.amount) ELSE TotalHp(s)
  BY <1>1, DamageBecomes
<1> QED
  BY <1>1, <1>2, <1>3, <1>4 DEF Outcome

LEMMA HealOutcome ==
    ASSUME NEW c, NEW u, NEW s, NEW t, StackOK(s), c.amount \in Int,
           Heals(c, u) <=> c.amount > 0, ~Hurts(c, u), ~Bombs(c, u),
           Plain(ApplyHeal(s, c.amount), t)
    PROVE  Outcome(c, u, s, t)
<1>1. /\ Steadfast(s, t) /\ s.effects \subseteq t.effects /\ (t.effects \ s.effects) \cap Counted = {}
      /\ TotalHp(t) = TotalHp(ApplyHeal(s, c.amount)) /\ t.alive = ApplyHeal(s, c.amount).alive
  BY HealBecomes, PlainlyAfter
<1>2. "proc_stone" \notin t.effects \ s.effects /\ "proc_cripple" \notin t.effects \ s.effects
  BY <1>1 DEF Counted
<1>3. c.amount <= 0 => t.alive = s.alive /\ TotalHp(t) = TotalHp(s)
  BY <1>1, HealBecomes
<1>4. c.amount > 0 /\ ~IsHero(s) => TotalHp(t) \in TotalHp(s)..(TotalHp(s) + c.amount)
  BY <1>1, HealBecomes
<1> QED
  BY <1>1, <1>2, <1>3, <1>4 DEF Outcome

\* Removal and placing say nothing of hit points that were counted.
LEMMA RemovedOutcome ==
    ASSUME NEW c, NEW u, NEW s, NEW t, StackOK(s), Removes(c, u), Plain(Removed(s), t)
    PROVE  Outcome(c, u, s, t)
<1>1. /\ Steadfast(s, t) /\ s.effects \subseteq t.effects /\ (t.effects \ s.effects) \cap Counted = {}
      /\ ~t.alive
  BY OthersBecome, PlainlyAfter
<1>2. "proc_stone" \notin t.effects \ s.effects /\ "proc_cripple" \notin t.effects \ s.effects
  BY <1>1 DEF Counted
<1> QED
  BY <1>1, <1>2 DEF Outcome

LEMMA PlacedOutcome ==
    ASSUME NEW c, NEW u, NEW s, NEW t, StackOK(s), Places(c, u), Plain(Placed(s, c), t)
    PROVE  Outcome(c, u, s, t)
<1>1. /\ Steadfast(s, t) /\ s.effects \subseteq t.effects /\ (t.effects \ s.effects) \cap Counted = {}
  BY OthersBecome, PlainlyAfter
<1>2. "proc_stone" \notin t.effects \ s.effects /\ "proc_cripple" \notin t.effects \ s.effects
  BY <1>1 DEF Counted
<1>3. ~Bombs(c, u)
  BY DEF Bombs, Places
<1> QED
  BY <1>1, <1>2, <1>3 DEF Outcome

LEMMA ProcOutcome ==
    ASSUME NEW c, NEW u, NEW s, NEW t, StackOK(s), NEW key, NEW n, Plain(WithTimed(s, key, n), t),
           \/ key = "proc_stone" /\ Petrifies(c, u)
           \/ key = "proc_cripple" /\ Cripples(c, u)
    PROVE  Outcome(c, u, s, t) /\ key \in t.effects
<1> DEFINE r == WithTimed(s, key, n)
<1>1. Steadfast(s, r) /\ r.effects = s.effects \cup {key} /\ TotalHp(r) = TotalHp(s) /\ r.alive = s.alive
  BY OthersBecome, SameHealthSame
<1> HIDE DEF r
<1>2. TotalHp(t) = TotalHp(s) /\ t.alive = s.alive /\ Steadfast(s, t)
  BY <1>1, SameHealthSame DEF Plain, Steadfast, r
<1>3. s.effects \subseteq t.effects /\ key \in t.effects
      /\ \A k \in Counted : k \in t.effects \ s.effects => k = key
  BY <1>1 DEF Plain, r
<1>4. ~Hurts(c, u) /\ ~Heals(c, u) /\ ~Bombs(c, u)
  BY DEF Petrifies, Cripples, Hurts, Heals, Bombs, DirectDamageCodes
<1>5. /\ "proc_stone" \in t.effects \ s.effects => c.code = "sta" /\ c.target = u
      /\ "proc_cripple" \in t.effects \ s.effects => c.code = "wnd" /\ c.target = u
  BY <1>3 DEF Counted, Petrifies, Cripples
<1> QED
  BY <1>2, <1>3, <1>4, <1>5 DEF Outcome

-----------------------------------------------------------------------------
\* What a command makes of stack u, unless it summons it.
LEMMA CommandOutcome ==
    ASSUME NEW ents, StatesOK(ents), NEW c, NEW actors, CommandOK(c, actors), NEW still,
           NEW new, new = ApplyCommand(ents, c, still), NEW u \in DOMAIN ents,
           c.op = "SPAWN_ENTITY" => c.actor # u
    PROVE  /\ u \in DOMAIN new /\ Outcome(c, u, ents[u], new[u])
           /\ Petrifies(c, u) /\ ValidProc(c, ents) => "proc_stone" \in new[u].effects
           /\ Cripples(c, u) /\ ValidProc(c, ents) => "proc_cripple" \in new[u].effects
<1> DEFINE Goal == /\ u \in DOMAIN new /\ Outcome(c, u, ents[u], new[u])
                   /\ Petrifies(c, u) /\ ValidProc(c, ents) => "proc_stone" \in new[u].effects
                   /\ Cripples(c, u) /\ ValidProc(c, ents) => "proc_cripple" \in new[u].effects
<1>1. StackOK(ents[u]) /\ c.amount \in Int
  BY DEF StatesOK, CommandOK
<1>2. ASSUME u \in DOMAIN new, Plain(ents[u], new[u]), ~Hurts(c, u),
             Bombs(c, u) /\ "gribbomb" \in ents[u].traits => ~ents[u].alive,
             Petrifies(c, u) \/ Cripples(c, u) => ~ValidProc(c, ents)
      PROVE  Goal
  BY <1>1, <1>2, PlainOutcome
<1>3. ASSUME NEW t, NEW s, Changed(ents, new, t, s), t # u, ~Hurts(c, u), ~Bombs(c, u),
             Petrifies(c, u) \/ Cripples(c, u) => ~ValidProc(c, ents)
      PROVE  Goal
  <2>1. u \in DOMAIN new /\ Plain(ents[u], new[u])
    BY <1>3 DEF Changed
  <2> QED
    BY <1>2, <1>3, <2>1
<1>4. ASSUME NEW s, Changed(ents, new, u, s)
      PROVE  u \in DOMAIN new /\ Plain(s, new[u])
  BY <1>4 DEF Changed
<1>5. ASSUME Unchanging(ents, new)
      PROVE  u \in DOMAIN new /\ Plain(ents[u], new[u])
  BY <1>5 DEF Unchanging
<1>6. CASE c.op = "DAMAGE"
  <2>1. /\ ~Heals(c, u) /\ ~Bombs(c, u) /\ ~Petrifies(c, u) /\ ~Cripples(c, u)
        /\ Hurts(c, u) <=> c.target = u /\ c.amount > 0
    BY <1>6 DEF Hurts, Heals, Bombs, Petrifies, Cripples
  <2>2. CASE c.target = u
    <3>1. Changed(ents, new, u, ApplyDamage(ents[u], c.amount))
      BY <1>6, <2>2, CommandChanged
    <3>2. u \in DOMAIN new /\ Plain(ApplyDamage(ents[u], c.amount), new[u])
      BY <1>4, <3>1
    <3> QED
      BY <1>1, <2>1, <2>2, <3>2, DamageOutcome
  <2>3. CASE c.target # u
    <3>1. Changed(ents, new, c.target, ApplyDamage(ents[c.target], c.amount)) \/ Unchanging(ents, new)
      BY <1>6, CommandChanged
    <3> QED
      BY <1>2, <1>3, <1>5, <2>1, <2>3, <3>1
  <2> QED
    BY <2>2, <2>3
<1>7. CASE c.op = "SPAWN_POSITION"
  <2>1. ~Hurts(c, u) /\ ~Heals(c, u) /\ ~Bombs(c, u) /\ ~Petrifies(c, u) /\ ~Cripples(c, u)
    BY <1>7 DEF Hurts, Heals, Bombs, Petrifies, Cripples
  <2>2. CASE Unchanging(ents, new)
    BY <1>2, <1>5, <2>1, <2>2
  <2>3. CASE Changed(ents, new, c.actor, Placed(ents[c.actor], c)) /\ c.actor # u
    BY <1>3, <2>1, <2>3
  <2>4. CASE Changed(ents, new, u, Placed(ents[u], c)) /\ c.actor = u
    <3>1. u \in DOMAIN new /\ Plain(Placed(ents[u], c), new[u])
      BY <1>4, <2>4
    <3>2. Places(c, u)
      BY <1>7, <2>4 DEF Places
    <3> QED
      BY <1>1, <2>1, <3>1, <3>2, PlacedOutcome
  <2> QED
    BY <1>7, <2>2, <2>3, <2>4, CommandChanged
<1>8. CASE c.op = "HIDE_OR_DEATH"
  <2>1. ~Hurts(c, u) /\ ~Heals(c, u) /\ ~Bombs(c, u) /\ ~Petrifies(c, u) /\ ~Cripples(c, u)
    BY <1>8 DEF Hurts, Heals, Bombs, Petrifies, Cripples
  <2>2. CASE Unchanging(ents, new)
    BY <1>2, <1>5, <2>1, <2>2
  <2>3. CASE Changed(ents, new, c.actor, Removed(ents[c.actor])) /\ c.actor # u
    BY <1>3, <2>1, <2>3
  <2>4. CASE Changed(ents, new, u, Removed(ents[u])) /\ c.actor = u
    <3>1. u \in DOMAIN new /\ Plain(Removed(ents[u]), new[u])
      BY <1>4, <2>4
    <3>2. Removes(c, u)
      BY <1>8, <2>4 DEF Removes
    <3> QED
      BY <1>1, <2>1, <3>1, <3>2, RemovedOutcome
  <2> QED
    BY <1>8, <2>2, <2>3, <2>4, CommandChanged
<1>9. CASE c.op = "SPAWN_ENTITY"
  <2>1. u \in DOMAIN new /\ Plain(ents[u], new[u])
    BY <1>9, CommandChanged, PlainSelf
  <2>2. ~Hurts(c, u) /\ ~Bombs(c, u) /\ ~Petrifies(c, u) /\ ~Cripples(c, u)
    BY <1>9 DEF Hurts, Bombs, Petrifies, Cripples
  <2> QED
    BY <1>2, <2>1, <2>2
<1>10. CASE c.op \notin {"DAMAGE", "SPAWN_POSITION", "HIDE_OR_DEATH", "SPECIAL", "SPAWN_ENTITY"}
  <2>1. u \in DOMAIN new /\ Plain(ents[u], new[u])
    BY <1>5, <1>10, CommandChanged
  <2>2. ~Hurts(c, u) /\ ~Bombs(c, u) /\ ~Petrifies(c, u) /\ ~Cripples(c, u)
    BY <1>10 DEF Hurts, Bombs, Petrifies, Cripples
  <2> QED
    BY <1>2, <2>1, <2>2
<1>11. CASE c.op = "SPECIAL"
  <2>1. new = Special(ents, c)
    BY <1>11, CommandChanged
  <2>2. CASE c.code \in DirectDamageCodes \cup {"psc"}
    <3>1. /\ ~Heals(c, u) /\ ~Bombs(c, u) /\ ~Petrifies(c, u) /\ ~Cripples(c, u)
          /\ Hurts(c, u) <=> c.target = u /\ c.amount > 0
      BY <1>11, <2>2 DEF Hurts, Heals, Bombs, Petrifies, Cripples, DirectDamageCodes
    <3>2. IF c.target \in DOMAIN ents /\ c.amount # Nothing
          THEN Changed(ents, new, c.target, ApplyDamage(ents[c.target], c.amount))
          ELSE Unchanging(ents, new)
      BY <2>1, <2>2, SpecialChanged
    <3>3. CASE c.target = u /\ c.amount # Nothing
      <4>1. u \in DOMAIN new /\ Plain(ApplyDamage(ents[u], c.amount), new[u])
        BY <1>4, <3>2, <3>3
      <4> QED
        BY <1>1, <3>1, <3>3, <4>1, DamageOutcome
    <3>4. CASE c.target = u /\ c.amount = Nothing
      <4>1. ~Hurts(c, u)
        BY <3>1, <3>4 DEF Nothing
      <4> QED
        BY <1>2, <1>5, <3>1, <3>2, <3>4, <4>1
    <3>5. CASE c.target # u
      BY <1>2, <1>3, <1>5, <3>1, <3>2, <3>5
    <3> QED
      BY <3>3, <3>4, <3>5
  <2>3. CASE c.code = "rsd"
    <3>1. /\ ~Hurts(c, u) /\ ~Bombs(c, u) /\ ~Petrifies(c, u) /\ ~Cripples(c, u)
          /\ Heals(c, u) <=> c.target = u /\ c.amount > 0
      BY <1>11, <2>3 DEF Hurts, Heals, Bombs, Petrifies, Cripples, DirectDamageCodes
    <3>2. Unchanging(ents, new) \/ Changed(ents, new, c.target, ApplyHeal(ents[c.target], c.amount))
      BY <2>1, <2>3, SpecialChanged
    <3>3. CASE c.target = u /\ Changed(ents, new, u, ApplyHeal(ents[u], c.amount))
      <4>1. u \in DOMAIN new /\ Plain(ApplyHeal(ents[u], c.amount), new[u])
        BY <1>4, <3>3
      <4> QED
        BY <1>1, <3>1, <3>3, <4>1, HealOutcome
    <3> QED
      BY <1>2, <1>3, <1>5, <3>1, <3>2, <3>3
  <2>4. CASE c.code = "rgl"
    <3>1. /\ ~Hurts(c, u) /\ ~Bombs(c, u) /\ ~Petrifies(c, u) /\ ~Cripples(c, u)
          /\ Heals(c, u) <=> c.actor = u /\ c.amount > 0
      BY <1>11, <2>4 DEF Hurts, Heals, Bombs, Petrifies, Cripples, DirectDamageCodes
    <3>2. Unchanging(ents, new) \/ Changed(ents, new, c.actor, ApplyHeal(ents[c.actor], c.amount))
      BY <2>1, <2>4, SpecialChanged
    <3>3. CASE c.actor = u /\ Changed(ents, new, u, ApplyHeal(ents[u], c.amount))
      <4>1. u \in DOMAIN new /\ Plain(ApplyHeal(ents[u], c.amount), new[u])
        BY <1>4, <3>3
      <4> QED
        BY <1>1, <3>1, <3>3, <4>1, HealOutcome
    <3> QED
      BY <1>2, <1>3, <1>5, <3>1, <3>2, <3>3
  <2>5. CASE c.code = "bom"
    <3>1. /\ ~Hurts(c, u) /\ ~Petrifies(c, u) /\ ~Cripples(c, u)
          /\ Bombs(c, u) => c.actor = u /\ c.zeros
          /\ c.actor = u => Removes(c, u)
      BY <1>11, <2>5 DEF Hurts, Removes, Bombs, Petrifies, Cripples, DirectDamageCodes
    <3>2. IF ValidMarker(c, ents, "gribbomb") THEN Changed(ents, new, c.actor, Removed(ents[c.actor]))
          ELSE Unchanging(ents, new)
      BY <2>1, <2>5, SpecialChanged
    <3>3. CASE ValidMarker(c, ents, "gribbomb") /\ c.actor = u
      <4>1. u \in DOMAIN new /\ Plain(Removed(ents[u]), new[u])
        BY <1>4, <3>2, <3>3
      <4> QED
        BY <1>1, <3>1, <3>3, <4>1, RemovedOutcome
    <3>4. CASE ValidMarker(c, ents, "gribbomb") /\ c.actor # u
      BY <1>3, <3>1, <3>2, <3>4
    <3>5. CASE ~ValidMarker(c, ents, "gribbomb")
      <4>1. Bombs(c, u) /\ "gribbomb" \in ents[u].traits => ~ents[u].alive
        BY <3>1, <3>5 DEF ValidMarker, Has
      <4> QED
        BY <1>2, <1>5, <3>1, <3>2, <3>5, <4>1
    <3> QED
      BY <3>3, <3>4, <3>5
  <2>6. CASE c.code = "sta"
    <3>1. ~Hurts(c, u) /\ ~Bombs(c, u) /\ ~Cripples(c, u) /\ (Petrifies(c, u) <=> c.target = u)
      BY <1>11, <2>6 DEF Hurts, Bombs, Petrifies, Cripples, DirectDamageCodes
    <3>2. IF ValidProc(c, ents) THEN Changed(ents, new, c.target, WithTimed(ents[c.target], "proc_stone", 1))
          ELSE Unchanging(ents, new)
      BY <2>1, <2>6, SpecialChanged
    <3>3. CASE c.target = u /\ ValidProc(c, ents)
      <4>1. u \in DOMAIN new /\ Plain(WithTimed(ents[u], "proc_stone", 1), new[u])
        BY <1>4, <3>2, <3>3
      <4> QED
        BY <1>1, <3>1, <3>3, <4>1, ProcOutcome
    <3> QED
      BY <1>2, <1>3, <1>5, <3>1, <3>2, <3>3
  <2>7. CASE c.code = "wnd"
    <3>1. ~Hurts(c, u) /\ ~Bombs(c, u) /\ ~Petrifies(c, u) /\ (Cripples(c, u) <=> c.target = u)
      BY <1>11, <2>7 DEF Hurts, Bombs, Petrifies, Cripples, DirectDamageCodes
    <3>2. IF ValidProc(c, ents) THEN Changed(ents, new, c.target, WithTimed(ents[c.target], "proc_cripple", 2))
          ELSE Unchanging(ents, new)
      BY <2>1, <2>7, SpecialChanged
    <3>3. CASE c.target = u /\ ValidProc(c, ents)
      <4>1. u \in DOMAIN new /\ Plain(WithTimed(ents[u], "proc_cripple", 2), new[u])
        BY <1>4, <3>2, <3>3
      <4> QED
        BY <1>1, <3>1, <3>3, <4>1, ProcOutcome
    <3> QED
      BY <1>2, <1>3, <1>5, <3>1, <3>2, <3>3
  <2>8. CASE c.code \notin DirectDamageCodes \cup {"psc", "rsd", "rgl", "bom", "sta", "wnd"}
    <3>1. ~Hurts(c, u) /\ ~Bombs(c, u) /\ ~Petrifies(c, u) /\ ~Cripples(c, u)
      BY <1>11, <2>8 DEF Hurts, Bombs, Petrifies, Cripples
    <3>2. Unchanging(ents, new)
      BY <2>1, <2>8, SpecialChanged
    <3> QED
      BY <1>2, <1>5, <3>1, <3>2
  <2> QED
    BY <2>2, <2>3, <2>4, <2>5, <2>6, <2>7, <2>8
<1> QED
  BY <1>6, <1>7, <1>8, <1>9, <1>10, <1>11

-----------------------------------------------------------------------------
(* Counting along the records of a decision.  A recursive function is shown  *)
(* to exist by induction over an interval, which is drawn from the order of  *)
(* finite sets under inclusion.                                              *)

\* Among finite sets there is one with none smaller.
LEMMA SmallestSet ==
    ASSUME NEW F, F # {}, \A T \in F : IsFiniteSet(T)
    PROVE  \E T \in F : \A U \in F : U \subseteq T => U = T
<1> DEFINE S == UNION F
<1>1. IsWellFoundedOn(StrictSubsetOrdering(S), FiniteSubsetsOf(S))
  BY FS_StrictSubsetOrderingWellFounded
<1>2. F \subseteq FiniteSubsetsOf(S)
  BY DEF FiniteSubsetsOf
<1>3. PICK T \in F : \A U \in F : ~(<<U, T>> \in StrictSubsetOrdering(S))
  <2> HIDE DEF S
  <2> QED
    BY <1>1, <1>2, WFMin
<1>4. \A U \in F : U \subseteq T => U = T
  BY <1>3 DEF StrictSubsetOrdering
<1> QED
  BY <1>4

\* What holds at 0 and goes from each index to the next holds up to n.
LEMMA UpTo ==
    ASSUME NEW n \in Nat, NEW S, 0 \in S, \A i \in 0..(n - 1) : i \in S => i + 1 \in S
    PROVE  \A i \in 0..n : i \in S
<1> SUFFICES ASSUME NEW k \in (0..n) \ S PROVE FALSE
  OBVIOUS
<1> DEFINE F == {0..i : i \in (0..n) \ S}
<1>1. F # {} /\ \A T \in F : IsFiniteSet(T)
  BY FS_Interval
<1> HIDE DEF F
<1>2. PICK T \in F : \A U \in F : U \subseteq T => U = T
  BY <1>1, SmallestSet
<1> USE DEF F
<1>3. PICK i \in (0..n) \ S : T = 0..i
  BY <1>2
<1>4. i # 0 /\ i - 1 \in (0..n) \ S
  BY <1>3
<1>5. 0..(i - 1) \in F /\ 0..(i - 1) \subseteq 0..i /\ i \in 0..i /\ i \notin 0..(i - 1)
  BY <1>3, <1>4
<1> QED
  BY <1>2, <1>3, <1>5

\* A set of indices that is not empty has a least and a greatest member.
LEMMA LeastOf ==
    ASSUME NEW n \in Nat, NEW S \in SUBSET (1..n), S # {}
    PROVE  /\ Least(S) \in S /\ \A j \in S : Least(S) <= j
           /\ Greatest(S) \in S /\ \A j \in S : j <= Greatest(S)
<1>1. \E i \in S : \A j \in S : i <= j
  <2> SUFFICES ASSUME \A i \in S : \E j \in S : j < i PROVE FALSE
    OBVIOUS
  <2> DEFINE T == {k \in 0..n : \A i \in S : i > k}
  <2>1. 0 \in T /\ \A k \in 0..(n - 1) : k \in T => k + 1 \in T
    OBVIOUS
  <2> HIDE DEF T
  <2>2. n \in T
    BY <2>1, UpTo
  <2>3. PICK i \in S : TRUE
    OBVIOUS
  <2> QED
    BY <2>2, <2>3 DEF T
<1>2. \E i \in S : \A j \in S : j <= i
  <2> SUFFICES ASSUME \A i \in S : \E j \in S : i < j PROVE FALSE
    OBVIOUS
  <2> DEFINE T == {k \in 0..n : \A i \in S : i <= n - k}
  <2>1. 0 \in T /\ \A k \in 0..(n - 1) : k \in T => k + 1 \in T
    OBVIOUS
  <2> HIDE DEF T
  <2>2. n \in T
    BY <2>1, UpTo
  <2>3. PICK i \in S : TRUE
    OBVIOUS
  <2> QED
    BY <2>2, <2>3 DEF T
<1> QED
  BY <1>1, <1>2 DEF Least, Greatest

\* The running sum of the amounts at some places.
LEMMA RunningSum ==
    ASSUME NEW cmds, Len(cmds) \in Nat, NEW places, \A i \in 1..Len(cmds) : i \in places => cmds[i].amount \in Nat
    PROVE  LET f == Running(cmds, places)
           IN  /\ \A i \in 0..Len(cmds) : f[i] \in Nat
               /\ f[0] = 0
               /\ \A i \in 1..Len(cmds) : f[i] = f[i - 1] + (IF i \in places THEN cmds[i].amount ELSE 0)
<1> DEFINE n == Len(cmds)
           step == [i \in 1..n |-> IF i \in places THEN cmds[i].amount ELSE 0]
           sums(f, k) == f \in [0..k -> Nat] /\ f[0] = 0 /\ \A i \in 1..k : f[i] = f[i - 1] + step[i]
           S == {k \in 0..n : \E f : sums(f, k)}
           sum == CHOOSE f : f = [i \in 0..n |-> IF i = 0 THEN 0 ELSE f[i - 1] + (IF i \in places THEN cmds[i].amount ELSE 0)]
<1>1. step \in [1..n -> Nat]
  OBVIOUS
<1>2. 0 \in S
  <2> DEFINE f == [i \in 0..0 |-> 0]
  <2>1. f \in [0..0 -> Nat] /\ f[0] = 0 /\ \A i \in 1..0 : FALSE
    OBVIOUS
  <2> HIDE DEF f
  <2>2. sums(f, 0)
    BY <2>1
  <2> QED
    BY <2>2
<1>3. ASSUME NEW k \in 0..(n - 1), k \in S PROVE k + 1 \in S
  <2>1. PICK f : sums(f, k)
    BY <1>3
  <2> DEFINE g == [i \in 0..(k + 1) |-> IF i = k + 1 THEN f[k] + step[k + 1] ELSE f[i]]
  <2> HIDE DEF step
  <2>2. f[k] \in Nat /\ step[k + 1] \in Nat /\ k + 1 \in 0..n
    BY <1>1, <2>1
  <2>3. g \in [0..(k + 1) -> Nat] /\ g[0] = 0
    BY <2>1, <2>2
  <2>4. \A i \in 1..(k + 1) : g[i] = g[i - 1] + step[i]
    <3>1. g[k + 1] = f[k] + step[k + 1] /\ \A i \in 0..k : g[i] = f[i]
      OBVIOUS
    <3> HIDE DEF g
    <3> QED
      BY <2>1, <3>1
  <2> HIDE DEF g
  <2>5. sums(g, k + 1)
    BY <2>3, <2>4
  <2> QED
    BY <2>2, <2>5
<1>4. PICK f : sums(f, n)
  <2>1. n \in Nat
    OBVIOUS
  <2> HIDE DEF S, step, n
  <2>2. \A i \in 0..(n - 1) : i \in S => i + 1 \in S
    BY <1>3
  <2>3. \A i \in 0..n : i \in S
    BY <1>2, <2>1, <2>2, UpTo
  <2>4. n \in S
    BY <2>1, <2>3
  <2> QED
    BY <2>4 DEF S
<1>5. \A i \in 1..n : step[i] = IF i \in places THEN cmds[i].amount ELSE 0
  OBVIOUS
<1> HIDE DEF step
<1>6. f = [i \in 0..n |-> IF i = 0 THEN 0 ELSE f[i - 1] + (IF i \in places THEN cmds[i].amount ELSE 0)]
  <2>1. f = [i \in 0..n |-> f[i]]
    BY <1>4
  <2>2. \A i \in 0..n : f[i] = IF i = 0 THEN 0 ELSE f[i - 1] + (IF i \in places THEN cmds[i].amount ELSE 0)
    BY <1>4, <1>5
  <2> QED
    BY <2>1, <2>2
<1>7. sum = [i \in 0..n |-> IF i = 0 THEN 0 ELSE sum[i - 1] + (IF i \in places THEN cmds[i].amount ELSE 0)]
  BY <1>6
<1>8. Running(cmds, places) = sum
  BY DEF Running
<1> HIDE DEF sum
<1>9. /\ sum[0] = 0
      /\ \A i \in 1..n : sum[i] = sum[i - 1] + (IF i \in places THEN cmds[i].amount ELSE 0)
  BY <1>7
<1>10. \A i \in 0..n : sum[i] \in Nat
  <2> DEFINE T == {i \in 0..n : sum[i] \in Nat}
  <2>1. 0 \in T /\ \A i \in 0..(n - 1) : i \in T => i + 1 \in T
    <3>1. 0 \in T
      BY <1>9
    <3>2. ASSUME NEW i \in 0..(n - 1), i \in T PROVE i + 1 \in T
      <4>1. i + 1 \in 1..n /\ i + 1 - 1 = i /\ sum[i] \in Nat /\ i + 1 \in 0..n
        BY <3>2
      <4>2. sum[i + 1] = sum[i] + (IF i + 1 \in places THEN cmds[i + 1].amount ELSE 0)
        BY <1>9, <4>1
      <4>3. sum[i + 1] \in Nat
        BY <4>1, <4>2
      <4> QED
        BY <4>1, <4>3
    <3> QED
      BY <3>1, <3>2
  <2> HIDE DEF T
  <2>2. \A i \in 0..n : i \in T
    BY <2>1, UpTo
  <2> QED
    BY <2>2 DEF T
<1> QED
  BY <1>8, <1>9, <1>10

-----------------------------------------------------------------------------
\* What the records applied so far have made of a stack.
LEMMA CommandIs ==
    ASSUME NEW cmds, NEW actors, CommandsOK(cmds, actors)
    PROVE  /\ Len(cmds) \in Nat
           /\ \A i \in 1..Len(cmds) : CommandOK(cmds[i], actors) /\ cmds[i].amount \in Int
  BY DEF CommandsOK, CommandOK

LEMMA SumsOf ==
    ASSUME NEW cmds, NEW actors, CommandsOK(cmds, actors), NEW u
    PROVE  LET taken == Running(cmds, HurtsOf(cmds, u))
               given == Running(cmds, HealsOf(cmds, u))
           IN  /\ \A i \in 0..Len(cmds) : taken[i] \in Nat /\ given[i] \in Nat
               /\ taken[0] = 0 /\ given[0] = 0
               /\ \A i \in 1..Len(cmds) :
                     /\ taken[i] = taken[i - 1] + (IF Hurts(cmds[i], u) THEN cmds[i].amount ELSE 0)
                     /\ given[i] = given[i - 1] + (IF Heals(cmds[i], u) THEN cmds[i].amount ELSE 0)
<1>1. Len(cmds) \in Nat /\ \A i \in 1..Len(cmds) : cmds[i].amount \in Int
  BY CommandIs
<1>2. \A i \in 1..Len(cmds) : /\ i \in HurtsOf(cmds, u) <=> Hurts(cmds[i], u)
                              /\ i \in HealsOf(cmds, u) <=> Heals(cmds[i], u)
  BY DEF HurtsOf, HealsOf
<1>3. \A i \in 1..Len(cmds) : i \in HurtsOf(cmds, u) \/ i \in HealsOf(cmds, u) => cmds[i].amount \in Nat
  <2>1. \A i \in 1..Len(cmds) : i \in HurtsOf(cmds, u) \/ i \in HealsOf(cmds, u) => cmds[i].amount > 0
    BY DEF HurtsOf, HealsOf, Hurts, Heals
  <2> QED
    BY <1>1, <2>1
<1> DEFINE taken == Running(cmds, HurtsOf(cmds, u))
           given == Running(cmds, HealsOf(cmds, u))
<1>4. /\ \A i \in 0..Len(cmds) : taken[i] \in Nat
      /\ taken[0] = 0
      /\ \A i \in 1..Len(cmds) : taken[i] = taken[i - 1] + (IF i \in HurtsOf(cmds, u) THEN cmds[i].amount ELSE 0)
  BY <1>1, <1>3, RunningSum
<1>5. /\ \A i \in 0..Len(cmds) : given[i] \in Nat
      /\ given[0] = 0
      /\ \A i \in 1..Len(cmds) : given[i] = given[i - 1] + (IF i \in HealsOf(cmds, u) THEN cmds[i].amount ELSE 0)
  BY <1>1, <1>3, RunningSum
<1> HIDE DEF taken, given
<1>6. /\ \A i \in 0..Len(cmds) : taken[i] \in Nat /\ given[i] \in Nat
      /\ taken[0] = 0 /\ given[0] = 0
      /\ \A i \in 1..Len(cmds) :
            /\ taken[i] = taken[i - 1] + (IF Hurts(cmds[i], u) THEN cmds[i].amount ELSE 0)
            /\ given[i] = given[i - 1] + (IF Heals(cmds[i], u) THEN cmds[i].amount ELSE 0)
  BY <1>2, <1>4, <1>5
<1> QED
  BY <1>6 DEF taken, given

LEMMA TotalIsNat ==
    ASSUME NEW s, StackOK(s), ~IsHero(s)
    PROVE  TotalHp(s) \in Nat
  BY CreatureFits, TotalBounds

LEMMA FollowsStart ==
    ASSUME NEW cmds, NEW actors, CommandsOK(cmds, actors), NEW old, StatesOK(old), NEW u \in DOMAIN old
    PROVE  Follows(cmds, 0, old, u, old[u])
<1>1. Steadfast(old[u], old[u])
  BY DEF Steadfast
<1>2. ~IsHero(old[u]) => TotalHp(old[u]) \in Nat
  BY TotalIsNat DEF StatesOK
<1>3. Running(cmds, HurtsOf(cmds, u))[0] = 0 /\ Running(cmds, HealsOf(cmds, u))[0] = 0
  BY SumsOf
<1>4. ~IsHero(old[u]) => Accounted(old[u], old[u], 0, 0)
  BY <1>2 DEF Accounted, Larger
<1>5. \A i \in 1..0 : FALSE
  OBVIOUS
<1> QED
  BY <1>1, <1>3, <1>4, <1>5 DEF Follows, Accountable

LEMMA AlikeOutcome ==
    ASSUME NEW c, NEW e, Alike(c, e), NEW u, NEW s, NEW t, Outcome(c, u, s, t)
    PROVE  Outcome(e, u, s, t)
<1>1. /\ Hurts(c, u) <=> Hurts(e, u)
      /\ Heals(c, u) <=> Heals(e, u)
      /\ Removes(c, u) <=> Removes(e, u)
      /\ Places(c, u) <=> Places(e, u)
      /\ Bombs(c, u) <=> Bombs(e, u)
      /\ c.amount = e.amount /\ c.code = e.code /\ c.target = e.target
  BY DEF Alike, Hurts, Heals, Removes, Places, Bombs
<1> QED
  BY <1>1 DEF Outcome

\* One more record that takes or gives hit points.
LEMMA AccountedStep ==
    ASSUME NEW s, NEW w, NEW t, TotalHp(s) \in Nat, TotalHp(w) \in Nat, TotalHp(t) \in Nat,
           NEW taken \in Nat, NEW given \in Nat, Accounted(s, w, taken, given), NEW n \in Int
    PROVE  /\ n > 0 /\ TotalHp(t) = Larger(0, TotalHp(w) - n) => Accounted(s, t, taken + n, given)
           /\ n > 0 /\ TotalHp(t) \in TotalHp(w)..(TotalHp(w) + n) => Accounted(s, t, taken, given + n)
           /\ TotalHp(t) = TotalHp(w) => Accounted(s, t, taken, given)
  BY DEF Accounted, Larger

LEMMA FollowsStep ==
    ASSUME NEW cmds, NEW actors, CommandsOK(cmds, actors), NEW n \in 0..(Len(cmds) - 1),
           NEW old, StatesOK(old), NEW u \in DOMAIN old,
           NEW w, StackOK(w), NEW t, StackOK(t), Follows(cmds, n, old, u, w), Outcome(cmds[n + 1], u, w, t),
           Petrifies(cmds[n + 1], u) /\ ValidProc(cmds[n + 1], old) => "proc_stone" \in t.effects,
           Cripples(cmds[n + 1], u) /\ ValidProc(cmds[n + 1], old) => "proc_cripple" \in t.effects
    PROVE  Follows(cmds, n + 1, old, u, t)
<1> DEFINE e == cmds[n + 1]
           b == old[u]
           taken == Running(cmds, HurtsOf(cmds, u))
           given == Running(cmds, HealsOf(cmds, u))
<1>1. /\ Len(cmds) \in Nat /\ n \in Nat /\ n + 1 \in 1..Len(cmds) /\ n \in 0..Len(cmds)
      /\ \A i \in 1..(n + 1) : i \in 1..n \/ i = n + 1
      /\ \A i \in 1..n : i \in 1..(n + 1)
      /\ n + 1 \in 1..(n + 1)
  BY CommandIs
<1>2. e.amount \in Int /\ StackOK(b)
  BY <1>1, CommandIs DEF StatesOK
<1>3. Steadfast(b, t) /\ b.effects \subseteq t.effects /\ w.effects \subseteq t.effects
  BY DEF Follows, Outcome, Steadfast
<1>4. "proc_stone" \in t.effects \ b.effects =>
          \E i \in 1..(n + 1) : cmds[i].code = "sta" /\ cmds[i].target = u
  BY <1>1 DEF Follows, Outcome
<1>5. "proc_cripple" \in t.effects \ b.effects =>
          \E i \in 1..(n + 1) : cmds[i].code = "wnd" /\ cmds[i].target = u
  BY <1>1 DEF Follows, Outcome
<1>6. \A i \in 1..(n + 1) : /\ Petrifies(cmds[i], u) /\ ValidProc(cmds[i], old) => "proc_stone" \in t.effects
                            /\ Cripples(cmds[i], u) /\ ValidProc(cmds[i], old) => "proc_cripple" \in t.effects
  BY <1>1, <1>3 DEF Follows
<1>7. ASSUME NEW i \in 1..(n + 1), Bombs(cmds[i], u), "gribbomb" \in b.traits,
             \A j \in 1..Len(cmds) : ~Heals(cmds[j], u) /\ ~Places(cmds[j], u)
      PROVE  ~t.alive
  <2>1. ~Heals(e, u) /\ ~Places(e, u) /\ "gribbomb" \in w.traits
    BY <1>1, <1>7 DEF Follows, Steadfast
  <2>2. CASE i \in 1..n
    <3>1. ~w.alive
      BY <1>7, <2>2 DEF Follows
    <3> QED
      BY <2>1, <3>1 DEF Outcome
  <2>3. CASE i = n + 1
    BY <1>7, <2>1, <2>3 DEF Outcome
  <2> QED
    BY <1>1, <2>2, <2>3
<1>8. ASSUME Accountable([before |-> old, cmds |-> cmds], u)
      PROVE  Accounted(b, t, taken[n + 1], given[n + 1])
  <2>1. ~IsHero(b) /\ ~b.phantom /\ ~Removes(e, u) /\ ~Places(e, u)
    BY <1>1, <1>8 DEF Accountable
  <2>2. ~IsHero(w) /\ ~w.phantom /\ ~IsHero(t)
    BY <1>3, <2>1 DEF Follows, Steadfast, IsHero
  <2>3. TotalHp(b) \in Nat /\ TotalHp(w) \in Nat /\ TotalHp(t) \in Nat
    BY <1>2, <2>1, <2>2, TotalIsNat
  <2>4. /\ taken[n] \in Nat /\ given[n] \in Nat
        /\ taken[n + 1] = taken[n] + (IF Hurts(e, u) THEN e.amount ELSE 0)
        /\ given[n + 1] = given[n] + (IF Heals(e, u) THEN e.amount ELSE 0)
    <3>1. n + 1 - 1 = n
      BY <1>1
    <3> HIDE DEF taken, given
    <3> QED
      BY <1>1, <3>1, SumsOf DEF taken, given
  <2>5. Accounted(b, w, taken[n], given[n])
    BY <1>8 DEF Follows
  <2>6. IF Hurts(e, u) THEN TotalHp(t) = Larger(0, TotalHp(w) - e.amount)
        ELSE IF Heals(e, u) THEN TotalHp(t) \in TotalHp(w)..(TotalHp(w) + e.amount)
        ELSE TotalHp(t) = TotalHp(w)
    BY <2>1, <2>2 DEF Outcome
  <2>7. ~(Hurts(e, u) /\ Heals(e, u))
    BY DEF Hurts, Heals, DirectDamageCodes
  <2>8. /\ Hurts(e, u) => e.amount > 0
        /\ Heals(e, u) => e.amount > 0
    BY DEF Hurts, Heals
  <2> HIDE DEF taken, given, e, b
  <2>9. CASE Hurts(e, u)
    <3>1. taken[n + 1] = taken[n] + e.amount /\ given[n + 1] = given[n]
      BY <2>4, <2>7, <2>9
    <3>2. Accounted(b, t, taken[n] + e.amount, given[n])
      BY <1>2, <2>3, <2>4, <2>5, <2>6, <2>8, <2>9, AccountedStep
    <3> QED
      BY <3>1, <3>2
  <2>10. CASE Heals(e, u)
    <3>1. taken[n + 1] = taken[n] /\ given[n + 1] = given[n] + e.amount
      BY <2>4, <2>7, <2>10
    <3>2. Accounted(b, t, taken[n], given[n] + e.amount)
      BY <1>2, <2>3, <2>4, <2>5, <2>6, <2>7, <2>8, <2>10, AccountedStep
    <3> QED
      BY <3>1, <3>2
  <2>11. CASE ~Hurts(e, u) /\ ~Heals(e, u)
    <3>1. taken[n + 1] = taken[n] /\ given[n + 1] = given[n]
      BY <2>4, <2>11
    <3>2. Accounted(b, t, taken[n], given[n])
      BY <1>2, <2>3, <2>4, <2>5, <2>6, <2>11, AccountedStep
    <3> QED
      BY <3>1, <3>2
  <2> QED
    BY <2>9, <2>10, <2>11
<1> QED
  BY <1>3, <1>4, <1>5, <1>6, <1>7, <1>8 DEF Follows

-----------------------------------------------------------------------------
\* What follows the records of a decision leaves hit points and counted effects alone.
Lasting(s, t) ==
    /\ Steadfast(s, t) /\ \A f \in HealthFields : t[f] = s[f]
    /\ t.effects \cap Counted = s.effects \cap Counted

LEMMA PlainLasts ==
    ASSUME NEW s, NEW t, Plain(s, t)
    PROVE  Lasting(s, t)
  BY DEF Plain, Lasting, Counted

LEMMA LastingTwice ==
    ASSUME NEW s, NEW t, NEW w, Lasting(s, t), Lasting(t, w)
    PROVE  Lasting(s, w)
<1>1. \A f \in HealthFields : w[f] = s[f]
  BY DEF Lasting
<1>2. w.effects \cap Counted = s.effects \cap Counted
  BY DEF Lasting
<1> QED
  BY <1>1, <1>2 DEF Lasting, Steadfast

LEMMA LaterLasts ==
    ASSUME NEW s, StackOK(s), NEW from, NEW type
    PROVE  /\ Lasting(s, s) /\ Lasting(s, Entrenched(s, from)) /\ Lasting(s, Shot(s, type))
           /\ Plain(s, WithEffect(s, "proc_shieldbash"))
<1>0. StackFields \subseteq DOMAIN s
  BY DEF StackOK
<1>1. Plain(s, WithEffect(s, "proc_shieldbash")) /\ Plain(s, WithEffect(s, "proc_entrenchment"))
  BY PlainOperations DEF Counted
<1>2. Lasting(s, [s EXCEPT !.effects = @ \ {"proc_entrenchment"}])
  BY <1>0 DEF Lasting, Steadfast, StackFields, HealthFields, Counted
<1>3. Lasting(s, s) /\ Lasting(s, Entrenched(s, from))
  BY <1>1, <1>2, PlainLasts, PlainSelf DEF Entrenched
<1>4. Lasting(s, Shot(s, type))
  <2>1. \A n : Plain(s, [s EXCEPT !.shots = n])
    BY <1>0, PlainFields
  <2>2. \A n : Lasting(s, [s EXCEPT !.shots = n])
    BY <2>1, PlainLasts
  <2> QED
    BY <1>3, <2>2 DEF Shot
<1> QED
  BY <1>1, <1>3, <1>4

LEMMA AfterCommandsLasts ==
    ASSUME NEW ents, StatesOK(ents), NEW a, NEW type, NEW from, NEW bashed,
           NEW new, new = AfterCommands(ents, a, type, from, bashed)
    PROVE  \A u \in DOMAIN ents : /\ u \in DOMAIN new /\ Lasting(ents[u], new[u])
                                  /\ u # a => Plain(ents[u], new[u])
<1> DEFINE dug == IF a \in DOMAIN ents THEN [ents EXCEPT ![a] = Entrenched(@, from)] ELSE ents
           hit == Bashed(dug, type, bashed)
           shot == IF a \in DOMAIN hit THEN [hit EXCEPT ![a] = Shot(@, type)] ELSE hit
<1>1. Keeps(ents, dug) /\ \A u \in DOMAIN ents : Lasting(ents[u], dug[u]) /\ (u # a => Plain(ents[u], dug[u]))
  <2>1. Keeps(ents, dug)
    BY EntrenchedOK, Updated DEF StatesOK, Keeps
  <2>2. \A u \in DOMAIN ents : Lasting(ents[u], dug[u]) /\ (u # a => Plain(ents[u], dug[u]))
    BY LaterLasts, PlainSelf DEF StatesOK
  <2> QED
    BY <2>1, <2>2
<1> HIDE DEF dug
<1>2. Keeps(dug, hit) /\ \A u \in DOMAIN dug : Plain(dug[u], hit[u])
  <2>1. \A u \in DOMAIN dug : /\ StackOK(WithEffect(dug[u], "proc_shieldbash"))
                              /\ Plain(dug[u], WithEffect(dug[u], "proc_shieldbash"))
    BY <1>1, OtherFieldOK, LaterLasts DEF WithEffect, Counted, Keeps, StatesOK
  <2>2. Keeps(dug, hit)
    BY <1>1, <2>1, Updated DEF Bashed, Keeps
  <2>3. \A u \in DOMAIN dug : Plain(dug[u], hit[u])
    BY <2>1, PlainSelf DEF Bashed
  <2> QED
    BY <2>2, <2>3
<1> HIDE DEF hit
<1>3. DOMAIN shot = DOMAIN hit /\ \A u \in DOMAIN hit : Lasting(hit[u], shot[u]) /\ (u # a => Plain(hit[u], shot[u]))
  BY <1>2, LaterLasts, PlainSelf DEF Keeps, StatesOK
<1>4. new = shot
  BY DEF AfterCommands, dug, hit
<1> HIDE DEF shot
<1> SUFFICES ASSUME NEW u \in DOMAIN ents
             PROVE  /\ u \in DOMAIN new /\ Lasting(ents[u], new[u])
                    /\ u # a => Plain(ents[u], new[u])
  OBVIOUS
<1>5. u \in DOMAIN dug /\ u \in DOMAIN hit /\ u \in DOMAIN new
  BY <1>1, <1>2, <1>3, <1>4 DEF Keeps
<1>6. Lasting(ents[u], dug[u]) /\ Lasting(dug[u], hit[u]) /\ Lasting(hit[u], new[u])
  BY <1>1, <1>2, <1>3, <1>4, <1>5, PlainLasts
<1>7. ASSUME u # a PROVE Plain(ents[u], new[u])
  <2>1. Plain(ents[u], dug[u]) /\ Plain(dug[u], hit[u]) /\ Plain(hit[u], new[u])
    BY <1>1, <1>2, <1>3, <1>4, <1>5, <1>7
  <2> QED
    BY <2>1, PlainTwice
<1> QED
  BY <1>5, <1>6, <1>7, LastingTwice

\* An activation keeps the spell books.
LEMMA ActivationBooks ==
    ASSUME NEW ents, StatesOK(ents), NEW u, ActivateOn(ents, u)
    PROVE  \A v \in DOMAIN ents : v \in DOMAIN working' /\ working'[v].spells = ents[v].spells
<1> DEFINE ticked == IF active \in DOMAIN ents THEN [ents EXCEPT ![active] = Ticked(@)] ELSE ents
           ready == IF u \in DOMAIN ticked THEN [ticked EXCEPT ![u] = Activated(@)] ELSE ticked
<1>1. \A v \in DOMAIN ents : StackFields \subseteq DOMAIN ents[v]
  BY DEF StatesOK, StackOK
<1>2. \A s : StackFields \subseteq DOMAIN s => /\ Ticked(s).spells = s.spells /\ StackFields \subseteq DOMAIN Ticked(s)
                                               /\ Activated(s).spells = s.spells
  BY DEF Ticked, Activated, StackFields
<1>3. /\ DOMAIN ticked = DOMAIN ents
      /\ \A v \in DOMAIN ents : StackFields \subseteq DOMAIN ticked[v] /\ ticked[v].spells = ents[v].spells
  BY <1>1, <1>2
<1> HIDE DEF ticked
<1>4. DOMAIN ready = DOMAIN ents /\ \A v \in DOMAIN ents : ready[v].spells = ents[v].spells
  BY <1>2, <1>3
<1>5. working' = ready
  BY DEF ActivateOn, ticked
<1> QED
  BY <1>4, <1>5

-----------------------------------------------------------------------------
LEMMA InitDecisionInv == Init => DecisionInv
<1> SUFFICES ASSUME Init PROVE DecisionInv
  OBVIOUS
<1>1. before = << >> /\ working = battle.stacks /\ pending = << >> /\ script = << >> /\ active = 0 /\ next = 0
  BY DEF Init, NoState
<1>2. StatesOK(before)
  BY <1>1 DEF StatesOK
<1>3. Books(working)
  BY <1>1 DEF Books
<1> QED
  BY <1>1, <1>2, <1>3 DEF DecisionInv

LEMMA ArriveDecisionInv ==
    ASSUME IInv, DecisionInv, Arrive
    PROVE  DecisionInv'
<1>1. NewRecords(script', working)
  BY ArrivedRecords
<1>2. next = 0 /\ UNCHANGED <<working, active, pending, before, next, battle>>
  BY DEF Arrive, parser
<1>3. Books(working)' /\ (active # 0 => Books(before))' /\ StatesOK(before)'
  BY <1>2 DEF DecisionInv, Books
<1> QED
  BY <1>1, <1>2, <1>3 DEF DecisionInv, NewRecords

LEMMA CollectDecisionInv ==
    ASSUME IInv, DecisionInv, Collect
    PROVE  DecisionInv'
<1> DEFINE c == Decode(Head(script))
<1>1. /\ pending' = Append(pending, c) /\ script' = Tail(script) /\ next = 0
      /\ UNCHANGED <<working, active, before, next, battle>>
  BY DEF Collect, Received
<1>2. Received
  BY DEF Collect
<1>3. c.op = "SPAWN_ENTITY" => c.actor \notin DOMAIN working
  BY <1>2, HeadOfScript DEF DecisionInv
<1>4. \A i \in 1..Len(script') : script'[i].tag = "M" => script'[i].nums[1] \notin DOMAIN working
  <2> SUFFICES ASSUME NEW i \in 1..Len(Tail(script)), Tail(script)[i].tag = "M"
               PROVE  Tail(script)[i].nums[1] \notin DOMAIN working
    BY <1>1
  <2>1. Tail(script)[i] = script[i + 1] /\ i + 1 \in 1..Len(script)
    BY <1>2, HeadOfScript
  <2> QED
    BY <2>1 DEF DecisionInv
<1>5. PICK S : pending \in Seq(S)
  BY DEF IInv, CommandsOK
<1> HIDE DEF c
<1>6. \A i \in 1..Len(Append(pending, c)) :
          Append(pending, c)[i] = IF i \in 1..Len(pending) THEN pending[i] ELSE c
  BY <1>5
<1>7. \A i \in 1..Len(pending') : pending'[i].op = "SPAWN_ENTITY" => pending'[i].actor \notin DOMAIN working
  BY <1>1, <1>3, <1>6 DEF DecisionInv
<1>8. Books(working)' /\ (active # 0 => Books(before))' /\ StatesOK(before)'
  BY <1>1 DEF DecisionInv, Books
<1> QED
  BY <1>1, <1>4, <1>7, <1>8 DEF DecisionInv

\* After an activation everything begins anew.
LEMMA ActivateDecisionInv ==
    ASSUME IInv, NEW ents, Keeps(working, ents), Books(ents), NEW u, ActivateOn(ents, u),
           battle' = battle, pending' = << >>, script' = << >>, next' = 0
    PROVE  DecisionInv'
<1>1. Keeps(ents, working') /\ before' = working' /\ active' = u
  BY ActivationOK DEF Keeps
<1>2. Books(working)'
  BY ActivationBooks DEF Books, Keeps
<1>3. Books(before)'
  BY <1>1, <1>2 DEF Books
<1>4. StatesOK(before)'
  BY <1>1 DEF Keeps
<1> QED
  BY <1>1, <1>2, <1>3, <1>4 DEF DecisionInv

LEMMA ActivateIdleDecisionInv ==
    ASSUME IInv, MarkInv, DecisionInv, ActivateIdle
    PROVE  DecisionInv'
<1> DEFINE c == Decode(Head(script))
<1>1. pending' = << >> /\ script' = << >> /\ next' = 0 /\ battle' = battle /\ ActivateOn(working, c.actor)
  BY HeadIsFirst DEF ActivateIdle, Received
<1>2. Keeps(working, working) /\ Books(working)
  BY DEF Keeps, IInv, DecisionInv
<1> HIDE DEF c
<1> QED
  BY <1>1, <1>2, ActivateDecisionInv

LEMMA DecideDecisionInv ==
    ASSUME IInv, MarkInv, DecisionInv, Decide
    PROVE  DecisionInv'
<1> DEFINE new == Row(before, active, pending)
<1>1. /\ row' = new /\ todo' = Corrected(before, active, pending)
      /\ pending' = << >> /\ script' = << >> /\ next = 0 /\ active # 0
      /\ UNCHANGED <<working, active, before, battle>>
  BY HeadIsFirst DEF Decide, Received
<1>2. new.actor = active /\ new.cmds = pending /\ new.vague = Unresolved(pending, before, active)
  BY DEF Row
<1> HIDE DEF new
<1>3. before = working
  BY <1>1 DEF DecisionInv
<1>4. CommandsOK(pending, Actors) /\ Len(pending) \in Nat
  BY CommandIs DEF IInv
<1>5. Len(todo') = Len(pending) /\ \A i \in 1..Len(pending) : Alike(todo'[i], pending[i])
  BY <1>1, <1>4, CorrectedSame
<1>6. Applied' = 0
  BY <1>1, <1>2, <1>4, <1>5 DEF Applied
<1>7. \A i \in 1..Len(pending) : pending[i].op = "SPAWN_ENTITY" => pending[i].actor \notin DOMAIN before
  BY <1>3 DEF DecisionInv
<1>8. \A u \in DOMAIN before : u \in DOMAIN working /\ Follows(pending, 0, before, u, working[u])
  <2>1. StatesOK(before)
    BY DEF DecisionInv
  <2> QED
    BY <1>3, <1>4, <2>1, FollowsStart
<1>9. Actors' = Actors
  BY <1>1 DEF Actors
<1>10. DecisionOK'
  <2>1. (active # 0 /\ row.actor = active /\ CommandsOK(row.cmds, Actors)
         /\ row.vague = Unresolved(row.cmds, before, active))'
    BY <1>1, <1>2, <1>4, <1>9
  <2>2. (Len(todo) <= Len(row.cmds) /\ \A i \in 1..Len(todo) : Alike(todo[i], row.cmds[Applied + i]))'
    <3>1. \A i \in 1..Len(pending) : 0 + i = i
      OBVIOUS
    <3> QED
      BY <1>1, <1>2, <1>4, <1>5, <1>6, <3>1
  <2>3. (\A i \in 1..Len(row.cmds) : row.cmds[i].op = "SPAWN_ENTITY" => row.cmds[i].actor \notin DOMAIN before)'
    BY <1>1, <1>2, <1>7
  <2>4. (\A u \in DOMAIN before : u \in DOMAIN working /\ Follows(row.cmds, Applied, before, u, working[u]))'
    BY <1>1, <1>2, <1>6, <1>8
  <2> QED
    BY <2>1, <2>2, <2>3, <2>4 DEF DecisionOK
<1>11. Books(working)' /\ Books(before)' /\ StatesOK(before)'
  BY <1>1 DEF DecisionInv, Books
<1>12. next' # 0
  BY ReceivedOK, ActorsKnown DEF Decide, CommandOK, IInv
<1> QED
  BY <1>1, <1>10, <1>11, <1>12 DEF DecisionInv

LEMMA ApplyNextDecisionInv ==
    ASSUME IInv, MarkInv, DecisionInv, ApplyNext
    PROVE  DecisionInv'
<1> DEFINE c == Head(todo)
           n == Applied
           e == row.cmds[n + 1]
<1>1. /\ next # 0 /\ todo # << >> /\ todo' = Tail(todo) /\ working' = ApplyCommand(working, c, row.still)
      /\ UNCHANGED <<active, pending, before, row, next, battle, script>>
  BY DEF ApplyNext
<1>2. DecisionOK /\ pending = << >> /\ script = << >>
  BY <1>1 DEF DecisionInv, MarkInv
<1>3. /\ CommandOK(c, Actors) /\ c = todo[1] /\ 1 \in 1..Len(todo) /\ Len(todo) \in Nat
      /\ Len(Tail(todo)) = Len(todo) - 1
      /\ \A i \in 1..Len(Tail(todo)) : Tail(todo)[i] = todo[i + 1] /\ i + 1 \in 1..Len(todo)
  BY <1>1, NextCommand DEF IInv, CommandsOK
<1>4. Len(row.cmds) \in Nat /\ CommandsOK(row.cmds, Actors)
  BY <1>2, CommandIs DEF DecisionOK
<1>5. n \in 0..(Len(row.cmds) - 1) /\ n + 1 \in 1..Len(row.cmds) /\ Applied' = n + 1
  BY <1>1, <1>2, <1>3, <1>4 DEF Applied, DecisionOK
<1> HIDE DEF c, n
<1>6. Alike(c, e)
  BY <1>2, <1>3 DEF DecisionOK, n
<1>7. e.op = "SPAWN_ENTITY" => e.actor \notin DOMAIN before
  BY <1>2, <1>5 DEF DecisionOK
<1>8. c.op = "SPAWN_ENTITY" => c.actor \notin DOMAIN before
  BY <1>6, <1>7 DEF Alike
<1>9. StatesOK(working) /\ StatesOK(before) /\ StatesOK(working')
  BY <1>1, <1>3, CommandApplied DEF IInv, DecisionInv
<1>10. \A u \in DOMAIN before : u \in DOMAIN working /\ Follows(row.cmds, n, before, u, working[u])
  BY <1>2 DEF DecisionOK, n
<1>11. ASSUME NEW u \in DOMAIN before
       PROVE  /\ u \in DOMAIN working' /\ Outcome(c, u, working[u], working'[u])
              /\ Petrifies(c, u) /\ ValidProc(c, working) => "proc_stone" \in working'[u].effects
              /\ Cripples(c, u) /\ ValidProc(c, working) => "proc_cripple" \in working'[u].effects
  <2>1. u \in DOMAIN working /\ (c.op = "SPAWN_ENTITY" => c.actor # u)
    BY <1>8, <1>10
  <2> QED
    BY <1>1, <1>3, <1>9, <2>1, CommandOutcome
<1>12. ASSUME ValidProc(e, before) PROVE ValidProc(c, working)
  <2>1. /\ e.actor \in DOMAIN before /\ e.target \in DOMAIN before
        /\ c.actor = e.actor /\ c.target = e.target /\ c.code = e.code
    BY <1>6, <1>12 DEF ValidProc, Known, Alike
  <2>2. /\ e.actor \in DOMAIN working /\ e.target \in DOMAIN working
        /\ Steadfast(before[e.actor], working[e.actor]) /\ Steadfast(before[e.target], working[e.target])
    BY <1>10, <2>1 DEF Follows
  <2> HIDE DEF e
  <2> QED
    BY <1>12, <2>1, <2>2 DEF ValidProc, Known, Has, Enemies, Steadfast
<1>13. ASSUME NEW u \in DOMAIN before
       PROVE  u \in DOMAIN working' /\ Follows(row.cmds, n + 1, before, u, working'[u])
  <2>1. Outcome(e, u, working[u], working'[u])
    BY <1>6, <1>11, AlikeOutcome
  <2>2. /\ Petrifies(e, u) /\ ValidProc(e, before) => "proc_stone" \in working'[u].effects
        /\ Cripples(e, u) /\ ValidProc(e, before) => "proc_cripple" \in working'[u].effects
    <3>1. (Petrifies(e, u) <=> Petrifies(c, u)) /\ (Cripples(e, u) <=> Cripples(c, u))
      BY <1>6 DEF Petrifies, Cripples, Alike
    <3> QED
      BY <1>11, <1>12, <3>1
  <2>3. StackOK(working[u]) /\ StackOK(working'[u]) /\ u \in DOMAIN working'
    BY <1>9, <1>10, <1>11 DEF StatesOK
  <2>4. Follows(row.cmds, n, before, u, working[u])
    BY <1>10
  <2> QED
    BY <1>4, <1>5, <1>9, <2>1, <2>2, <2>3, <2>4, FollowsStep
<1>14. DecisionOK'
  <2>1. (active # 0 /\ row.actor = active /\ CommandsOK(row.cmds, Actors)
         /\ row.vague = Unresolved(row.cmds, before, active))'
    BY <1>1, <1>2 DEF DecisionOK, Actors
  <2>2. (Len(todo) <= Len(row.cmds))'
    BY <1>1, <1>2, <1>3, <1>4 DEF DecisionOK
  <2>3. (\A i \in 1..Len(todo) : Alike(todo[i], row.cmds[Applied + i]))'
    <3> SUFFICES ASSUME NEW i \in 1..Len(Tail(todo))
                 PROVE  Alike(Tail(todo)[i], row.cmds[n + 1 + i])
      BY <1>1, <1>5
    <3>1. Tail(todo)[i] = todo[i + 1] /\ i + 1 \in 1..Len(todo)
      BY <1>3
    <3>2. n + (i + 1) = n + 1 + i
      BY <1>5
    <3>3. Alike(todo[i + 1], row.cmds[n + (i + 1)])
      BY <1>2, <3>1 DEF DecisionOK, n
    <3> QED
      BY <3>1, <3>2, <3>3
  <2>4. (\A i \in 1..Len(row.cmds) : row.cmds[i].op = "SPAWN_ENTITY" => row.cmds[i].actor \notin DOMAIN before)'
    BY <1>1, <1>2 DEF DecisionOK
  <2>5. (\A u \in DOMAIN before : u \in DOMAIN working /\ Follows(row.cmds, Applied, before, u, working[u]))'
    BY <1>1, <1>5, <1>13
  <2> QED
    BY <2>1, <2>2, <2>3, <2>4, <2>5 DEF DecisionOK
<1>15. Books(before)
  BY <1>2 DEF DecisionInv, DecisionOK
<1>16. Books(working)'
  <2> SUFFICES ASSUME NEW u \in DOMAIN battle.stacks
               PROVE  u \in DOMAIN working' /\ working'[u].spells = battle.stacks[u].spells
    BY <1>1 DEF Books
  <2>1. u \in DOMAIN before /\ before[u].spells = battle.stacks[u].spells
    BY <1>15 DEF Books
  <2>2. u \in DOMAIN working' /\ Follows(row.cmds, n + 1, before, u, working'[u])
    BY <1>13, <2>1
  <2> QED
    BY <2>1, <2>2 DEF Follows, Steadfast
<1>17. Books(before)' /\ StatesOK(before)'
  BY <1>1, <1>9, <1>15 DEF Books
<1> QED
  BY <1>1, <1>2, <1>14, <1>16, <1>17 DEF DecisionInv

LEMMA ConcludeDecisionInv ==
    ASSUME IInv, MarkInv, DecisionInv, Conclude
    PROVE  DecisionInv'
<1>1. /\ next # 0 /\ pending' = << >> /\ script' = << >> /\ next' = 0 /\ battle' = battle
      /\ ActivateOn(Settled, next)
  BY DEF Conclude, MarkInv
<1>2. Keeps(working, Settled)
  BY AfterCommandsOK DEF Settled, IInv
<1>3. \A u \in DOMAIN working : u \in DOMAIN Settled /\ Lasting(working[u], Settled[u])
  BY AfterCommandsLasts DEF Settled, IInv
<1>4. Books(Settled)
  BY <1>3 DEF DecisionInv, Books, Lasting, Steadfast
<1> QED
  BY <1>1, <1>2, <1>4, ActivateDecisionInv

LEMMA NextDecisionInv == IInv /\ MarkInv /\ DecisionInv /\ [Next]_vars => DecisionInv'
<1> SUFFICES ASSUME IInv, MarkInv, DecisionInv, [Next]_vars PROVE DecisionInv'
  OBVIOUS
<1>1. CASE Next
  BY <1>1, ArriveDecisionInv, CollectDecisionInv, ActivateIdleDecisionInv, DecideDecisionInv,
     ApplyNextDecisionInv, ConcludeDecisionInv DEF Next
<1>2. CASE UNCHANGED vars
  BY <1>2 DEF vars, parser, DecisionInv, DecisionOK, Books, Applied, Actors
<1> QED
  BY <1>1, <1>2

\* While a decision is applied, its records account for what has become of every stack.
THEOREM DecisionsAreFollowed == Spec => [](IInv /\ DecisionInv)
  BY InitDecisionInv, NextDecisionInv, InitMarkInv, NextMarkInv, ReplayInvariant, PTL DEF Spec

-----------------------------------------------------------------------------
(* What holds of the records of any decision.                                *)

\* Looking back from a wound and looking ahead from a hit pair the same two.
LEMMA WoundsAttributed ==
    ASSUME NEW d, Len(d.cmds) \in Nat
    PROVE  WoundsAreAttributedOnce(d)
<1> SUFFICES ASSUME NEW r \in WoundRecords(d), r.carrier, d.type \in Attacks
             PROVE  {h.place : h \in {g \in WoundHits(d) : r.place \in g.wounds}} = {r.hit} \ {0}
  BY DEF WoundsAreAttributedOnce
<1> DEFINE n == Len(d.cmds)
           a == d.cmds[r.place].actor
           t == d.cmds[r.place].target
           hits == {j \in Hits(d.cmds, a, t) : j < r.place}
           paired == {h.place : h \in {g \in WoundHits(d) : r.place \in g.wounds}}
<1>1. /\ r.place \in 1..n /\ d.cmds[r.place].op = "SPECIAL" /\ d.cmds[r.place].code = "wnd"
      /\ r.carrier <=> "cripplingwound" \in Traits(d.before, a)
      /\ r.hit = IF hits = {} THEN 0 ELSE Greatest(hits)
  <2>1. PICK i \in 1..n : r = WoundRecord(d, i) /\ d.cmds[i].op = "SPECIAL" /\ d.cmds[i].code = "wnd"
    BY DEF WoundRecords
  <2>2. r.place = i
    BY <2>1 DEF WoundRecord
  <2> QED
    BY <2>1, <2>2 DEF WoundRecord
<1>2. \A k : k \in paired <=>
          /\ k \in 1..n /\ d.cmds[k].op = "DAMAGE"
          /\ "cripplingwound" \in Traits(d.before, d.cmds[k].actor)
          /\ r.place \in PairedWounds(d.cmds, k)
  <2>1. \A i : WoundHit(d, i).place = i /\ WoundHit(d, i).wounds = PairedWounds(d.cmds, i)
    BY DEF WoundHit
  <2> QED
    BY <2>1 DEF WoundHits
<1>3. hits \in SUBSET (1..n)
  BY DEF Hits
<1>4. ASSUME NEW k \in 1..n
      PROVE  k \in paired <=> k \in hits /\ \A j \in hits : j <= k
  <2>1. r.place \in PairedWounds(d.cmds, k) <=>
            /\ k < r.place /\ d.cmds[k].actor = a /\ d.cmds[k].target = t
            /\ \A j \in (k + 1)..r.place : ~Damages(d.cmds[j], a, t)
    BY <1>1 DEF PairedWounds, Wounds
  <2>2. \A j \in 1..n : j \in hits <=> Damages(d.cmds[j], a, t) /\ j < r.place
    BY DEF Hits, Damages
  <2>3. ASSUME k \in paired PROVE k \in hits /\ \A j \in hits : j <= k
    <3>1. k \in hits
      BY <1>2, <2>1, <2>2, <2>3 DEF Damages
    <3>2. ASSUME NEW j \in hits, k < j PROVE FALSE
      <4>1. j \in (k + 1)..r.place
        BY <1>1, <1>3, <3>2
      <4> QED
        BY <1>2, <1>3, <2>1, <2>2, <2>3, <3>2, <4>1
    <3> QED
      BY <1>3, <3>1, <3>2
  <2>4. ASSUME k \in hits, \A j \in hits : j <= k PROVE k \in paired
    <3>1. Damages(d.cmds[k], a, t) /\ k < r.place
      BY <2>2, <2>4
    <3>2. ASSUME NEW j \in (k + 1)..r.place, Damages(d.cmds[j], a, t) PROVE FALSE
      <4>1. j # r.place
        BY <1>1, <3>2 DEF Damages
      <4>2. j \in 1..n /\ j < r.place /\ k < j
        BY <1>1, <3>2, <4>1
      <4> QED
        BY <2>2, <2>4, <3>2, <4>2
    <3> QED
      BY <1>1, <1>2, <2>1, <3>1, <3>2 DEF Damages
  <2> QED
    BY <2>3, <2>4
<1>5. CASE hits = {}
  <2>1. paired = {}
    BY <1>2, <1>4, <1>5
  <2> QED
    BY <1>1, <1>5, <2>1
<1>6. CASE hits # {}
  <2> DEFINE m == Greatest(hits)
  <2>1. m \in hits /\ \A j \in hits : j <= m
    <3> HIDE DEF hits
    <3> QED
      BY <1>3, <1>6, LeastOf
  <2>2. m \in 1..n /\ m # 0
    <3>1. \A j \in 1..n : j # 0
      OBVIOUS
    <3> HIDE DEF hits, n, m
    <3> QED
      BY <1>3, <2>1, <3>1
  <2>3. r.hit = m
    BY <1>1, <1>6
  <2> HIDE DEF m, paired, hits, a, t
  <2>4. m \in paired
    BY <1>4, <2>1, <2>2
  <2>5. ASSUME NEW k \in paired PROVE k = m
    <3>1. k \in 1..n
      BY <1>2
    <3>2. k \in hits /\ m <= k /\ k <= m
      BY <1>4, <2>1, <3>1
    <3> QED
      BY <2>2, <3>1, <3>2
  <2>6. paired = {m}
    BY <2>4, <2>5
  <2> QED
    BY <2>2, <2>3, <2>6 DEF paired
<1> QED
  BY <1>5, <1>6

\* The first shove is found by trying every forced position and by the first alone.
LEMMA FirstShove ==
    ASSUME NEW d, Len(d.cmds) \in Nat
    PROVE  /\ FirstPair(PowerstrikeWire(d)) = WireDetails(d)
           /\ WireDetails(d) # << >> =>
                 /\ Hits(d.cmds, d.actor, d.target) # {}
                 /\ \E p \in PowerstrikeWire(d) : WireDetails(d)[2] = p[2]
<1> DEFINE n == Len(d.cmds)
           hits == Hits(d.cmds, d.actor, d.target)
           forced == {f \in 1..n : /\ d.cmds[f].op = "FORCED_POSITION" /\ d.cmds[f].actor = d.target
                                   /\ f > Least(hits)}
           W == PowerstrikeWire(d)
           m == Least(forced)
           V == {p \in W : p[1] = m}
<1>1. /\ (d.target = 0 \/ hits = {}) => W = {}
      /\ ~(d.target = 0 \/ hits = {}) => W = Shoved(d.cmds, Least(hits), d.actor, d.target, 1..n)
  BY DEF PowerstrikeWire
<1>2. WireDetails(d) = IF d.target = 0 \/ hits = {} \/ forced = {} THEN << >> ELSE FirstPair(V)
  BY DEF WireDetails
<1>3. FirstPair({}) = << >>
  BY DEF FirstPair
<1>4. CASE d.target = 0 \/ hits = {}
  <2>1. PowerstrikeWire(d) = {} /\ WireDetails(d) = << >>
    BY <1>1, <1>2, <1>4
  <2> QED
    BY <2>1 DEF FirstPair
<1>5. CASE ~(d.target = 0 \/ hits = {})
  <2>1. Least(hits) \in 1..n
    <3>1. hits \in SUBSET (1..n) /\ hits # {}
      BY <1>5 DEF Hits
    <3> HIDE DEF hits
    <3> QED
      BY <3>1, LeastOf
  <2>2. \A p : p \in W <=>
            /\ p \in (1..n) \X (1..n) /\ Least(hits) < p[1] /\ p[1] < p[2]
            /\ d.cmds[p[1]].op = "FORCED_POSITION" /\ d.cmds[p[1]].actor = d.target
            /\ d.cmds[p[2]].op = "I_RECORD" /\ d.cmds[p[2]].actor = d.target /\ d.cmds[p[2]].target = d.actor
    BY <1>1, <1>5 DEF Shoved
  <2>3. \A p \in W : p[1] \in forced /\ p[1] \in 1..n /\ p[2] \in 1..n /\ p[1] < p[2]
    BY <2>1, <2>2
  <2>4. CASE W = {}
    <3>1. V = {}
      BY <2>4
    <3> QED
      BY <1>2, <1>3, <2>4, <3>1
  <2>5. CASE W # {}
    <3>1. forced \in SUBSET (1..n) /\ forced # {}
      BY <2>3, <2>5
    <3>2. m \in forced /\ \A j \in forced : m <= j
      <4> HIDE DEF forced
      <4> QED
        BY <3>1, LeastOf
    <3>3. PICK p \in W : TRUE
      BY <2>5
    <3>4. m <= p[1] /\ p[1] < p[2] /\ p[2] \in 1..n /\ p[1] \in 1..n
      BY <2>3, <3>2
    <3>5. <<m, p[2]>> \in W
      <4>1. m \in 1..n /\ m > Least(hits) /\ d.cmds[m].op = "FORCED_POSITION" /\ d.cmds[m].actor = d.target
        BY <3>2
      <4> HIDE DEF m
      <4>2. <<m, p[2]>> \in (1..n) \X (1..n) /\ m < p[2]
        BY <3>4, <4>1
      <4> QED
        BY <2>1, <2>2, <3>3, <4>1, <4>2
    <3>6. V # {}
      BY <3>5
    <3>7. ASSUME NEW P, NEW q \in P, q[1] = m, P \subseteq W
          PROVE  Least({x[1] : x \in P}) = m
      <4> DEFINE first == {x[1] : x \in P}
      <4>1. first \in SUBSET (1..n) /\ m \in first /\ \A k \in first : m <= k
        BY <2>3, <3>2, <3>7
      <4>2. m \in 1..n
        BY <4>1
      <4> HIDE DEF first, m
      <4>3. Least(first) \in first /\ Least(first) <= m
        BY <4>1, LeastOf
      <4>4. Least(first) \in 1..n /\ m <= Least(first)
        BY <4>1, <4>3
      <4>5. Least(first) = m
        BY <4>2, <4>3, <4>4
      <4> QED
        BY <4>5 DEF first
    <3>8. Least({x[1] : x \in W}) = m
      <4>1. <<m, p[2]>>[1] = m
        OBVIOUS
      <4> HIDE DEF W, m
      <4> QED
        BY <3>5, <3>7, <4>1
    <3>9. Least({x[1] : x \in V}) = m
      <4>1. <<m, p[2]>> \in V /\ <<m, p[2]>>[1] = m /\ V \subseteq W
        BY <3>5
      <4> HIDE DEF V, W, m
      <4> QED
        BY <3>7, <4>1
    <3>10. {q \in V : q[1] = m} = V
      OBVIOUS
    <3>11. FirstPair(W) = <<m, Least({q[2] : q \in V})>>
      <4> HIDE DEF W, m
      <4> QED
        BY <2>5, <3>8 DEF FirstPair
    <3>12. FirstPair(V) = <<m, Least({q[2] : q \in V})>>
      <4> HIDE DEF V, m
      <4> QED
        BY <3>6, <3>9, <3>10 DEF FirstPair
    <3>13. \E q \in W : Least({x[2] : x \in V}) = q[2]
      <4> DEFINE second == {x[2] : x \in V}
      <4>1. second \in SUBSET (1..n) /\ second # {}
        BY <2>3, <3>6
      <4> HIDE DEF second
      <4>2. Least(second) \in second
        BY <4>1, LeastOf
      <4> QED
        BY <4>2 DEF second
    <3> HIDE DEF W, V, m
    <3>14. WireDetails(d) = FirstPair(V)
      BY <1>2, <1>5, <3>1
    <3>15. WireDetails(d)[2] = Least({q[2] : q \in V})
      BY <3>12, <3>14
    <3>16. hits # {}
      BY <1>5
    <3>17. FirstPair(W) = WireDetails(d) /\ \E q \in W : WireDetails(d)[2] = q[2]
      BY <3>11, <3>12, <3>13, <3>14, <3>15
    <3> QED
      BY <3>16, <3>17 DEF W
  <2> QED
    BY <2>4, <2>5
<1> QED
  BY <1>4, <1>5

LEMMA ShovesRecognised ==
    ASSUME NEW d, Len(d.cmds) \in Nat
    PROVE  ShovesAreRecognisedAlike(d)
<1> SUFFICES ASSUME NEW r \in PowerstrikeRows(d)
             PROVE  /\ FirstPair(PowerstrikeWire(d)) = WireDetails(d)
                    /\ r.carrier => (r.proc <=> PrimaryProcSuppression(d) # {})
                    /\ r.carrier => \A s \in PrimaryProcSuppression(d) : s.answersAfter => r.answersAfter
  BY DEF ShovesAreRecognisedAlike
<1> DEFINE hits == Hits(d.cmds, d.actor, d.target)
           pair == WireDetails(d)
<1>1. FirstPair(PowerstrikeWire(d)) = pair
  BY FirstShove
<1>2. /\ d.type = "MELEE_ATTACK" /\ d.actor \in DOMAIN d.before
      /\ r.carrier <=> "powerstrike" \in d.before[d.actor].traits
      /\ r.proc <=> pair # << >>
      /\ r.answersAfter <=>
            /\ pair # << >>
            /\ \E i \in {j \in Hits(d.cmds, d.target, d.actor) : hits # {} /\ j > Least(hits)} : i > pair[2]
  <2>1. /\ d.type = "MELEE_ATTACK" /\ d.actor \in DOMAIN d.before /\ r = PowerstrikeRow(d)
    BY DEF PowerstrikeRows, When
  <2> HIDE DEF pair
  <2> QED
    BY <1>1, <2>1 DEF PowerstrikeRow
<1>3. r.carrier => (r.proc <=> PrimaryProcSuppression(d) # {})
  BY <1>2 DEF PrimaryProcSuppression, When, Traits
<1>4. ASSUME NEW s \in PrimaryProcSuppression(d), s.answersAfter PROVE r.answersAfter
  <2>1. pair # << >> /\ \E i \in Hits(d.cmds, d.target, d.actor) : i > pair[2]
    BY <1>4 DEF PrimaryProcSuppression, When
  <2>2. PICK i \in Hits(d.cmds, d.target, d.actor) : i > pair[2]
    BY <2>1
  <2>3. PICK p \in PowerstrikeWire(d) : pair[2] = p[2]
    BY <2>1, FirstShove
  <2>4. hits # {} /\ hits \in SUBSET (1..Len(d.cmds)) /\ i \in 1..Len(d.cmds)
    BY <2>1, FirstShove DEF Hits
  <2>5. Least(hits) \in 1..Len(d.cmds)
    <3> HIDE DEF hits
    <3> QED
      BY <2>4, LeastOf
  <2>6. p \in Shoved(d.cmds, Least(hits), d.actor, d.target, 1..Len(d.cmds))
    BY <2>3 DEF PowerstrikeWire
  <2> HIDE DEF hits, pair
  <2>7. p[1] \in 1..Len(d.cmds) /\ p[2] \in 1..Len(d.cmds) /\ Least(hits) < p[1] /\ p[1] < p[2]
    BY <2>6 DEF Shoved
  <2>8. i > Least(hits)
    BY <2>2, <2>3, <2>4, <2>5, <2>7
  <2> QED
    BY <1>2, <2>1, <2>2, <2>4, <2>8
<1> QED
  BY <1>1, <1>3, <1>4

\* The decoder takes a wound for one of an enemy.
LEMMA OwnSideOpen ==
    ASSUME NEW d, d.vague = Unresolved(d.cmds, d.before, d.actor)
    PROVE  OwnSideWoundsStayOpen(d)
<1> SUFFICES ASSUME NEW r \in WoundControl(d, {}) PROVE r.place \in d.vague
  BY DEF OwnSideWoundsStayOpen
<1> DEFINE c == d.cmds[r.place]
<1>1. PICK s \in WoundRecords(d) : r.place = s.place /\ Relation(d.before, s.source, s.target) = "same_owner"
  BY DEF WoundControl
<1>2. /\ r.place \in 1..Len(d.cmds) /\ c.op = "SPECIAL" /\ c.code = "wnd"
      /\ s.source = c.actor /\ s.target = c.target
  <2>1. PICK i \in 1..Len(d.cmds) : s = WoundRecord(d, i) /\ d.cmds[i].op = "SPECIAL" /\ d.cmds[i].code = "wnd"
    BY DEF WoundRecords
  <2>2. s.place = i /\ s.source = d.cmds[i].actor /\ s.target = d.cmds[i].target
    BY <2>1 DEF WoundRecord
  <2> QED
    BY <1>1, <2>1, <2>2
<1>3. ~ValidProc(c, d.before)
  BY <1>1, <1>2 DEF Relation, ValidProc, Enemies
<1>4. ~ExactSpecial(r.place, d.cmds, d.before, d.actor)
  BY <1>2, <1>3 DEF ExactSpecial, StatusCodes
<1>5. ~Exact(r.place, d.cmds, d.before, d.actor)
  BY <1>2, <1>4 DEF Exact
<1> QED
  BY <1>2, <1>5 DEF Unresolved

LEMMA LightExact ==
    ASSUME NEW d, d.vague = Unresolved(d.cmds, d.before, d.actor), d.actor \in DOMAIN d.before,
           d.dir.stacks[d.actor].spells = d.before[d.actor].spells,
           \A i \in 1..Len(d.cmds) : d.cmds[i].value \in Int, Len(d.cmds) \in Nat
    PROVE  LightStatusesAreExact(d)
<1> SUFFICES ASSUME NEW r \in LightWireRows(d), r.source = d.actor, NEW i \in r.records,
                    NEW e \in MatchingLightStatusEntries(d.dir.stacks[r.source].spells, r.code, d.cmds[i].value)
             PROVE  i \notin d.vague
  BY DEF LightStatusesAreExact
<1> DEFINE c == d.cmds[i]
           named == {j \in 1..Len(d.cmds) : d.cmds[j].op = "SPECIAL" /\ d.cmds[j].target # 0}
           group(s, k) == {j \in named : d.cmds[j].actor = s /\ d.cmds[j].code = k}
<1>1. PICK g \in Groups(d, LightChildPass(d.dir).carriers) :
          g.code \in StatusCodes /\ r.code = g.code /\ r.records = g.carriers \cup g.others
  <2>1. PICK g \in Groups(d, LightChildPass(d.dir).carriers) : g.code \in StatusCodes /\ r = LightWireRow(d, g)
    BY DEF LightWireRows
  <2>2. r.code = g.code /\ r.records = g.carriers \cup g.others
    BY <2>1 DEF LightWireRow
  <2> QED
    BY <2>1, <2>2
<1>2. PICK h \in {group(d.cmds[j].actor, d.cmds[j].code) : j \in named} :
          /\ \E j \in h : d.cmds[j].target \in LightChildPass(d.dir).carriers
          /\ g.code = d.cmds[Least(h)].code /\ i \in h
  BY <1>1 DEF Groups
<1>3. PICK j \in named : h = group(d.cmds[j].actor, d.cmds[j].code)
  BY <1>2
<1>4. /\ i \in 1..Len(d.cmds) /\ c.op = "SPECIAL" /\ c.code = d.cmds[j].code
      /\ h \in SUBSET (1..Len(d.cmds)) /\ h # {}
  BY <1>2, <1>3
<1>5. d.cmds[Least(h)].code = d.cmds[j].code
  <2>1. Least(h) \in h
    BY <1>4, LeastOf
  <2> QED
    BY <1>3, <2>1
<1>6. c.code = r.code /\ c.code \in StatusCodes
  BY <1>1, <1>2, <1>4, <1>5
<1> HIDE DEF c
<1>7. c.value > 0 /\ StatusMatches(d.before[d.actor], c.code, c.value)
  BY <1>4, <1>6 DEF MatchingLightStatusEntries, StatusMatches, c
<1>8. ExactStatus(i, d.cmds, d.before, d.actor)
  BY <1>4, <1>6, <1>7 DEF ExactStatus, c
<1>9. ExactSpecial(i, d.cmds, d.before, d.actor)
  BY <1>6, <1>8 DEF ExactSpecial, StatusCodes, c
<1>10. Exact(i, d.cmds, d.before, d.actor)
  BY <1>4, <1>9 DEF Exact, c
<1> QED
  BY <1>10 DEF Unresolved

-----------------------------------------------------------------------------
(* The decision that is about to be written out.                             *)

\* Its records have made of every stack what stands before the next activation, but for
\* what is added then.
AccountsForStates(d) ==
    /\ StatesOK(d.before) /\ d.actor \in DOMAIN d.before /\ CommandsOK(d.cmds, Actors)
    /\ d.vague = Unresolved(d.cmds, d.before, d.actor)
    /\ d.dir.stacks[d.actor].spells = d.before[d.actor].spells
    /\ \A u \in DOMAIN d.before :
          /\ u \in DOMAIN d.after /\ StackOK(d.after[u])
          /\ \E w : /\ Follows(d.cmds, Len(d.cmds), d.before, u, w)
                    /\ Lasting(w, d.after[u])
                    /\ u # d.actor => Plain(w, d.after[u])

LEMMA ConcludedDecision ==
    ASSUME IInv, DecisionInv, Concluding
    PROVE  AccountsForStates(Decision)
<1>1. DecisionOK /\ todo = << >> /\ StatesOK(before) /\ Books(before) /\ active # 0
  BY DEF DecisionInv, Concluding, DecisionOK
<1>2. Applied = Len(row.cmds)
  <2>1. Len(row.cmds) \in Nat
    BY <1>1, CommandIs DEF DecisionOK
  <2> QED
    BY <1>1, <2>1 DEF Applied
<1>3. row.actor = active /\ active \in DOMAIN battle.stacks
  BY <1>1, ActorsKnown DEF IInv, DecisionOK
<1>4. active \in DOMAIN before /\ battle.stacks[active].spells = before[active].spells
  BY <1>1, <1>3 DEF Books
<1>5. Keeps(working, Settled)
  BY AfterCommandsOK DEF Settled, IInv
<1>6. \A u \in DOMAIN working : /\ u \in DOMAIN Settled /\ Lasting(working[u], Settled[u])
                                /\ u # active => Plain(working[u], Settled[u])
  BY AfterCommandsLasts DEF Settled, IInv
<1>7. ASSUME NEW u \in DOMAIN before
      PROVE  /\ u \in DOMAIN Settled /\ StackOK(Settled[u])
             /\ Follows(row.cmds, Len(row.cmds), before, u, working[u])
             /\ Lasting(working[u], Settled[u])
             /\ u # active => Plain(working[u], Settled[u])
  <2>1. u \in DOMAIN working /\ Follows(row.cmds, Len(row.cmds), before, u, working[u])
    BY <1>1, <1>2 DEF DecisionOK
  <2> QED
    BY <1>5, <1>6, <2>1 DEF Keeps, StatesOK
<1> DEFINE d == Decision
<1>8. /\ d.actor = active /\ d.cmds = row.cmds /\ d.vague = row.vague /\ d.before = before
      /\ d.after = Settled /\ d.dir.stacks = battle.stacks
  BY <1>3 DEF Decision, Directory
<1> HIDE DEF d
<1>9. AccountsForStates(d)
  <2>1. CommandsOK(d.cmds, Actors) /\ d.vague = Unresolved(d.cmds, d.before, d.actor)
    BY <1>1, <1>3, <1>8 DEF DecisionOK
  <2>2. ASSUME NEW u \in DOMAIN d.before
        PROVE  /\ u \in DOMAIN d.after /\ StackOK(d.after[u])
               /\ \E w : /\ Follows(d.cmds, Len(d.cmds), d.before, u, w)
                         /\ Lasting(w, d.after[u])
                         /\ u # d.actor => Plain(w, d.after[u])
    BY <1>7, <1>8
  <2> QED
    BY <1>1, <1>4, <1>8, <2>1, <2>2 DEF AccountsForStates
<1> QED
  BY <1>9 DEF d

LEMMA HitPointsFollow ==
    ASSUME NEW d, AccountsForStates(d), NEW u \in DOMAIN d.before, Accountable(d, u)
    PROVE  /\ TotalHp(d.after[u]) >= TotalHp(d.before[u]) - Taken(d, u)
           /\ TotalHp(d.after[u]) <= TotalHp(d.before[u]) + Given(d, u)
           /\ Given(d, u) = 0 => TotalHp(d.after[u]) = Larger(0, TotalHp(d.before[u]) - Taken(d, u))
<1>1. PICK w : Follows(d.cmds, Len(d.cmds), d.before, u, w) /\ Lasting(w, d.after[u])
  BY DEF AccountsForStates
<1>2. Accountable([before |-> d.before, cmds |-> d.cmds], u)
  BY DEF Accountable
<1>3. /\ Taken(d, u) = Running(d.cmds, HurtsOf(d.cmds, u))[Len(d.cmds)]
      /\ Given(d, u) = Running(d.cmds, HealsOf(d.cmds, u))[Len(d.cmds)]
  BY DEF Taken, Given, Dealing, HurtsOf, HealsOf
<1>4. Accounted(d.before[u], w, Taken(d, u), Given(d, u))
  BY <1>1, <1>2, <1>3 DEF Follows
<1>5. TotalHp(d.after[u]) = TotalHp(w)
  BY <1>1, SameHealthSame DEF Lasting
<1> QED
  BY <1>4, <1>5 DEF Accounted

\* A stack loses and gains the hit points that the records say.
LEMMA ConcludedHitPoints ==
    ASSUME IInv, DecisionInv
    PROVE  HitPointsAreAccountedFor
<1> DEFINE d == Decision
<1> SUFFICES ASSUME Concluding, NEW u \in DOMAIN d.before \cap DOMAIN d.after, Accountable(d, u)
             PROVE  /\ TotalHp(d.after[u]) >= TotalHp(d.before[u]) - Taken(d, u)
                    /\ TotalHp(d.after[u]) <= TotalHp(d.before[u]) + Given(d, u)
                    /\ Given(d, u) = 0 => TotalHp(d.after[u]) = Larger(0, TotalHp(d.before[u]) - Taken(d, u))
  BY DEF HitPointsAreAccountedFor
<1>1. AccountsForStates(d)
  BY ConcludedDecision
<1> HIDE DEF d
<1> QED
  BY <1>1, HitPointsFollow

\* A record of stoning or crippling wound by a carrier upon an enemy leaves its effect.
LEMMA ProcsLeaveEffects ==
    ASSUME NEW d, AccountsForStates(d), NEW u, NEW v, Enemy(d.before, u, v), NEW i \in 1..Len(d.cmds),
           d.cmds[i].op = "SPECIAL", d.cmds[i].actor = u, d.cmds[i].target = v
    PROVE  /\ d.cmds[i].code = "sta" /\ "stoning" \in d.before[u].traits => "proc_stone" \in d.after[v].effects
           /\ d.cmds[i].code = "wnd" /\ "cripplingwound" \in d.before[u].traits =>
                 "proc_cripple" \in d.after[v].effects
<1>1. v \in DOMAIN d.before /\ u \in DOMAIN d.before /\ Enemies(d.before[u], d.before[v])
  BY DEF Enemy
<1>2. PICK w : Follows(d.cmds, Len(d.cmds), d.before, v, w) /\ Lasting(w, d.after[v])
  BY <1>1 DEF AccountsForStates
<1>3. w.effects \cap Counted = d.after[v].effects \cap Counted
  BY <1>2 DEF Lasting
<1>4. "proc_stone" \in Counted /\ "proc_cripple" \in Counted
  BY DEF Counted
<1>5. CASE d.cmds[i].code = "sta" /\ "stoning" \in d.before[u].traits
  <2>1. ValidProc(d.cmds[i], d.before) /\ Petrifies(d.cmds[i], v)
    BY <1>1, <1>5 DEF ValidProc, Known, Has, Petrifies
  <2> QED
    BY <1>2, <1>3, <1>4, <1>5, <2>1 DEF Follows
<1>6. CASE d.cmds[i].code = "wnd" /\ "cripplingwound" \in d.before[u].traits
  <2>1. ValidProc(d.cmds[i], d.before) /\ Cripples(d.cmds[i], v)
    BY <1>1, <1>6 DEF ValidProc, Known, Has, Cripples
  <2> QED
    BY <1>2, <1>3, <1>4, <1>6, <2>1 DEF Follows
<1> QED
  BY <1>5, <1>6

\* An effect comes with its record only, and stays with a stack that does not act.
LEMMA EffectsComeWithRecords ==
    ASSUME NEW d, AccountsForStates(d), NEW u \in DOMAIN d.before
    PROVE  /\ "proc_stone" \in Added(d, u) => Told(d, u, "sta")
           /\ "proc_cripple" \in Added(d, u) => Told(d, u, "wnd")
           /\ u # d.actor => Lost(d, u) = {}
<1>1. PICK w : /\ Follows(d.cmds, Len(d.cmds), d.before, u, w) /\ Lasting(w, d.after[u])
               /\ u # d.actor => Plain(w, d.after[u])
  BY DEF AccountsForStates
<1>2. u \in DOMAIN d.after
  BY DEF AccountsForStates
<1>3. Added(d, u) = d.after[u].effects \ d.before[u].effects /\ Lost(d, u) = d.before[u].effects \ d.after[u].effects
  BY <1>2 DEF Added, Lost, EffectsOf
<1>4. w.effects \cap Counted = d.after[u].effects \cap Counted
  BY <1>1 DEF Lasting
<1>5. "proc_stone" \in Added(d, u) => Told(d, u, "sta")
  BY <1>1, <1>3, <1>4 DEF Follows, Told, Counted
<1>6. "proc_cripple" \in Added(d, u) => Told(d, u, "wnd")
  BY <1>1, <1>3, <1>4 DEF Follows, Told, Counted
<1>7. u # d.actor => Lost(d, u) = {}
  BY <1>1, <1>3 DEF Follows, Plain
<1> QED
  BY <1>5, <1>6, <1>7

LEMMA ConcludedEffects ==
    ASSUME IInv, DecisionInv
    PROVE  AuditedEffectsAreExplained
<1> DEFINE d == Decision
<1> SUFFICES ASSUME Concluding
             PROVE  /\ \A r \in WoundAttackRow(d) :
                          r.carrier /\ r.proc /\ Enemy(d.before, d.actor, d.target) => r.wounded /\ r.turns > 0
                    /\ \A r \in StonegardenRows(d) :
                          r.proc /\ "stoning" \in d.before[d.actor].traits /\ Enemy(d.before, d.actor, d.target)
                          => "proc_stone" \in EffectsOf(d.after, d.target)
                    /\ \A u \in DOMAIN d.before :
                          /\ "proc_stone" \in Added(d, u) => Told(d, u, "sta")
                          /\ "proc_cripple" \in Added(d, u) => Told(d, u, "wnd")
                          /\ u # d.actor => Lost(d, u) = {}
  BY DEF AuditedEffectsAreExplained
<1>1. AccountsForStates(d)
  BY ConcludedDecision
<1> HIDE DEF d
<1>2. ASSUME NEW r \in WoundAttackRow(d), r.carrier, r.proc, Enemy(d.before, d.actor, d.target)
      PROVE  r.wounded /\ r.turns > 0
  <2>1. d.target # 0 /\ d.target \in DOMAIN d.before /\ d.target \in DOMAIN d.after /\ StackOK(d.after[d.target])
    BY <1>1, <1>2 DEF WoundAttackRow, When, AccountsForStates
  <2>2. /\ r.carrier <=> "cripplingwound" \in d.before[d.actor].traits
        /\ r.proc <=> {x \in WoundRecords(d) : x.relation = "primary"} # {}
        /\ r.wounded <=> "proc_cripple" \in EffectsOf(d.after, d.target)
        /\ r.turns = d.after[d.target].turns["proc_cripple"]
    <3>1. r = WoundAttack(d)
      BY DEF WoundAttackRow, When
    <3> QED
      BY <2>1, <3>1 DEF WoundAttack
  <2>3. PICK x \in WoundRecords(d) : x.relation = "primary"
    BY <1>2, <2>2
  <2>4. PICK i \in 1..Len(d.cmds) : x = WoundRecord(d, i) /\ d.cmds[i].op = "SPECIAL" /\ d.cmds[i].code = "wnd"
    BY DEF WoundRecords
  <2>5. x.relation = StrikeRelation(d, d.cmds[i].actor, d.cmds[i].target)
    BY <2>4 DEF WoundRecord
  <2>6. d.cmds[i].actor = d.actor /\ d.cmds[i].target = d.target
    BY <2>3, <2>5 DEF StrikeRelation
  <2>7. "proc_cripple" \in d.after[d.target].effects
    BY <1>1, <1>2, <2>2, <2>4, <2>6, ProcsLeaveEffects
  <2>8. d.after[d.target].turns["proc_cripple"] > 0
    BY <2>1, <2>7 DEF StackOK, Counted
  <2> QED
    BY <2>1, <2>2, <2>7, <2>8 DEF EffectsOf
<1>3. ASSUME NEW r \in StonegardenRows(d), r.proc, "stoning" \in d.before[d.actor].traits,
             Enemy(d.before, d.actor, d.target)
      PROVE  "proc_stone" \in EffectsOf(d.after, d.target)
  <2>1. \E i \in Marks(d.cmds, d.actor, d.target) : d.cmds[i].code = "sta"
    BY <1>3 DEF StonegardenRows, When
  <2>2. PICK i \in 1..Len(d.cmds) : /\ d.cmds[i].op = "SPECIAL" /\ d.cmds[i].code = "sta"
                                    /\ d.cmds[i].actor = d.actor /\ d.cmds[i].target = d.target
    BY <2>1 DEF Marks
  <2>3. "proc_stone" \in d.after[d.target].effects
    BY <1>1, <1>3, <2>2, ProcsLeaveEffects
  <2>4. d.target \in DOMAIN d.after
    BY <1>1, <1>3 DEF Enemy, AccountsForStates
  <2> QED
    BY <2>3, <2>4 DEF EffectsOf
<1>4. \A u \in DOMAIN d.before :
          /\ "proc_stone" \in Added(d, u) => Told(d, u, "sta")
          /\ "proc_cripple" \in Added(d, u) => Told(d, u, "wnd")
          /\ u # d.actor => Lost(d, u) = {}
  BY <1>1, EffectsComeWithRecords
<1> QED
  BY <1>2, <1>3, <1>4

LEMMA BombedIsDead ==
    ASSUME NEW d, AccountsForStates(d)
    PROVE  BombsAreDeaths(d)
<1> SUFFICES ASSUME NEW r \in SelfDestructRows(d), r.bombs # {}, Alive(d.before, d.actor),
                    \A i \in 1..Len(d.cmds) : ~Heals(d.cmds[i], d.actor) /\ ~Places(d.cmds[i], d.actor)
             PROVE  /\ r.dead /\ ~r.survives
                    /\ \E g \in GribbombRows(d) : d.actor \in g.died
  BY DEF BombsAreDeaths
<1>1. d.actor \in DOMAIN d.before /\ d.actor \in DOMAIN d.after
  BY DEF AccountsForStates
<1>2. d.actor \in SelfDestructPass(d.dir).carriers
  BY DEF SelfDestructRows, When
<1>3. /\ r.dead <=> Died(d, {d.actor}) # {}
      /\ r.survives => Alive(d.after, d.actor)
      /\ r.bombs = {i \in {j \in 1..Len(d.cmds) : /\ d.cmds[j].op = "SPECIAL" /\ d.cmds[j].code = "bom"
                                                  /\ d.cmds[j].actor = d.actor} :
                       ValidatedBombMarker(d.cmds[i], d.actor) /\ "gribbomb" \in Traits(d.before, d.actor)}
  <2>1. r = SelfDestruct(d)
    BY DEF SelfDestructRows, When
  <2> QED
    BY <2>1 DEF SelfDestruct
<1>4. PICK i \in 1..Len(d.cmds) : Bombs(d.cmds[i], d.actor) /\ "gribbomb" \in d.before[d.actor].traits
  BY <1>1, <1>3 DEF Bombs, ValidatedBombMarker, Traits
<1>5. PICK w : Follows(d.cmds, Len(d.cmds), d.before, d.actor, w) /\ Lasting(w, d.after[d.actor])
  BY <1>1 DEF AccountsForStates
<1>6. ~w.alive
  BY <1>4, <1>5 DEF Follows
<1>7. ~Alive(d.after, d.actor)
  BY <1>5, <1>6, SameHealthSame DEF Lasting, Alive
<1>8. d.actor \in GribbombPass(d.dir).carriers
  BY <1>2 DEF SelfDestructPass, GribbombPass
<1>9. \E g \in GribbombRows(d) : g.died = Died(d, GribbombPass(d.dir).carriers)
  BY <1>8 DEF GribbombRows, When
<1> QED
  BY <1>3, <1>7, <1>8, <1>9 DEF Died

LEMMA ConcludedAudits ==
    ASSUME IInv, DecisionInv
    PROVE  AuditsAgree
<1> DEFINE d == Decision
<1> SUFFICES ASSUME Concluding
             PROVE  /\ WoundsAreAttributedOnce(d) /\ ShovesAreRecognisedAlike(d) /\ OwnSideWoundsStayOpen(d)
                    /\ LightStatusesAreExact(d) /\ BombsAreDeaths(d)
  BY DEF AuditsAgree
<1>1. AccountsForStates(d)
  BY ConcludedDecision
<1> HIDE DEF d
<1>2. Len(d.cmds) \in Nat /\ \A i \in 1..Len(d.cmds) : d.cmds[i].value \in Int
  BY <1>1, CommandIs DEF AccountsForStates, CommandOK
<1>3. WoundsAreAttributedOnce(d) /\ ShovesAreRecognisedAlike(d)
  BY <1>2, WoundsAttributed, ShovesRecognised
<1>4. OwnSideWoundsStayOpen(d) /\ LightStatusesAreExact(d)
  BY <1>1, <1>2, OwnSideOpen, LightExact DEF AccountsForStates
<1>5. BombsAreDeaths(d)
  BY <1>1, BombedIsDead
<1> QED
  BY <1>3, <1>4, <1>5

\* The hit points that the venom, bomb and damage scripts find missing between two
\* decisions are those that the records between them take and give.
THEOREM HitPointsAlwaysAccountedFor == Spec => []HitPointsAreAccountedFor
  BY DecisionsAreFollowed, ConcludedHitPoints, PTL

\* Every attack that petrifies or wounds an enemy leaves the effect with a running
\* counter, the effects come with their records only, and only the acting stack loses any.
THEOREM AuditedEffectsAlwaysExplained == Spec => []AuditedEffectsAreExplained
  BY DecisionsAreFollowed, ConcludedEffects, PTL

\* In every decision of every battle the scripts that classify the same records agree:
\* on the hit of a wound, on a shove, on what the decoder leaves open and calls exact,
\* and on the death of a bomb's carrier.
THEOREM AuditsAlwaysAgree == Spec => []AuditsAgree
  BY DecisionsAreFollowed, ConcludedAudits, PTL

=============================================================================
