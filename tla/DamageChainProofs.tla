------------------------- MODULE DamageChainProofs -------------------------
(***************************************************************************)
(* Proofs about DamageChain, for every recording, every ensemble of        *)
(* profiles and every set of horizons: what the policies leave alone, what *)
(* the windows count, and that the threshold of the selector is the best.  *)
(*                                                                         *)
(* A fold of the community modules is a recursive function on the subsets  *)
(* of the set it folds.  That it exists, and what its values are, is shown *)
(* by induction over finite sets, once, and used for sums, for the stacks  *)
(* after a list of hits, and for the attacks among the decisions.          *)
(***************************************************************************)
EXTENDS DamageChain, FiniteSetTheorems, SequenceTheorems, WellFoundedInduction, TLAPS

\* A non-empty family of finite sets has a member with no smaller one in it.
LEMMA LeastFiniteSet ==
    ASSUME NEW F, F # {}, \A T \in F : IsFiniteSet(T)
    PROVE  \E T \in F : \A U \in F : ~(U \subseteq T /\ U # T)
<1> DEFINE S == UNION F
<1>1. IsWellFoundedOn(StrictSubsetOrdering(S), FiniteSubsetsOf(S))
    BY FS_StrictSubsetOrderingWellFounded
<1>2. F \subseteq FiniteSubsetsOf(S)
    BY DEF FiniteSubsetsOf
<1>3. PICK T \in F : \A U \in F : ~(<<U, T>> \in StrictSubsetOrdering(S))
    <2> HIDE DEF S
    <2>. QED BY <1>1, <1>2, WFMin
<1>4. ASSUME NEW U \in F, U \subseteq T, U # T PROVE FALSE
    BY <1>3, <1>4 DEF StrictSubsetOrdering
<1>. QED BY <1>4

\* A finite set of numbers that is not empty has a greatest and a least one.
LEMMA Extremes ==
    ASSUME NEW S \in SUBSET Int, S # {}, IsFiniteSet(S)
    PROVE  /\ Max(S) \in S /\ \A x \in S : x <= Max(S)
           /\ Min(S) \in S /\ \A x \in S : Min(S) <= x
<1> DEFINE above(x) == {w \in S : w > x}
           below(x) == {w \in S : w < x}
           F == {above(x) : x \in S}
           G == {below(x) : x \in S}
<1>1. /\ F # {} /\ \A T \in F : IsFiniteSet(T)
      /\ G # {} /\ \A T \in G : IsFiniteSet(T)
    <2>1. \A x \in S : above(x) \in SUBSET S /\ below(x) \in SUBSET S
        OBVIOUS
    <2>2. \A x \in S : IsFiniteSet(above(x)) /\ IsFiniteSet(below(x))
        <3> HIDE DEF above, below
        <3>. QED BY <2>1, FS_Subset
    <2> HIDE DEF above, below
    <2>. QED BY <2>2
<1> HIDE DEF F, G
<1>2. PICK T \in F : \A U \in F : ~(U \subseteq T /\ U # T)
    BY <1>1, LeastFiniteSet
<1>3. PICK V \in G : \A U \in G : ~(U \subseteq V /\ U # V)
    BY <1>1, LeastFiniteSet
<1>4. PICK x \in S : T = above(x)
    BY DEF F
<1>5. PICK z \in S : V = below(z)
    BY DEF G
<1>0. S \subseteq Int /\ x \in Int /\ z \in Int
    BY <1>4, <1>5
<1>6. \A y \in S : x >= y
    <2> SUFFICES ASSUME NEW y \in S, y > x PROVE FALSE
        BY <1>0
    <2>0. y \in Int /\ \A w \in S : w \in Int /\ (w > y => w > x)
        BY <1>0
    <2>1. y \in above(x) /\ y \notin above(y)
        BY <2>0
    <2>3. \A w \in above(y) : w \in above(x)
        BY <2>0
    <2>2. above(y) \in F
        BY DEF F
    <2>. QED BY <1>2, <1>4, <2>1, <2>2, <2>3
<1>7. \A y \in S : z =< y
    <2> SUFFICES ASSUME NEW y \in S, y < z PROVE FALSE
        BY <1>0
    <2>0. y \in Int /\ \A w \in S : w \in Int /\ (w < y => w < z)
        BY <1>0
    <2>1. y \in below(z) /\ y \notin below(y)
        BY <2>0
    <2>3. \A w \in below(y) : w \in below(z)
        BY <2>0
    <2>2. below(y) \in G
        BY DEF G
    <2>. QED BY <1>3, <1>5, <2>1, <2>2, <2>3
<1>8. Max(S) \in S /\ \A y \in S : Max(S) >= y
    BY <1>6 DEF Max
<1>9. Min(S) \in S /\ \A y \in S : Min(S) =< y
    BY <1>7 DEF Min
<1>. QED BY <1>8, <1>9

-----------------------------------------------------------------------------

\* f folds the subsets of S: "base" for the empty one, and otherwise a step from what is
\* left without the element that c picks.
Folds(f, S, X, base, c, step) ==
    /\ f \in [SUBSET S -> X]
    /\ \A s \in SUBSET S :
          f[s] = IF s = {} THEN base ELSE step[<<c[s], f[s \ {c[s]}]>>]

\* The two folds agree on every subset of both their sets.
LEMMA FoldsAgree ==
    ASSUME NEW S, IsFiniteSet(S), NEW X, NEW base, NEW c, NEW step,
           \A s \in SUBSET S : s # {} => c[s] \in s,
           NEW T \in SUBSET S, NEW U \in SUBSET S, NEW f, NEW g,
           Folds(f, T, X, base, c, step), Folds(g, U, X, base, c, step)
    PROVE  \A s \in SUBSET (T \cap U) : f[s] = g[s]
<1> DEFINE F == {s \in SUBSET (T \cap U) : f[s] # g[s]}
<1> SUFFICES ASSUME F # {} PROVE FALSE
    OBVIOUS
<1>1. \A s \in F : IsFiniteSet(s)
    <2>1. \A s \in F : s \in SUBSET S
        OBVIOUS
    <2>. QED BY <2>1, FS_Subset
<1> HIDE DEF F
<1>2. PICK s \in F : \A r \in F : ~(r \subseteq s /\ r # s)
    BY <1>1, LeastFiniteSet
<1> USE DEF F
<1>3. s \in SUBSET T /\ s \in SUBSET U /\ s \in SUBSET S /\ f[s] # g[s]
    OBVIOUS
<1> DEFINE r == s \ {c[s]}
<1>4. s # {}
    BY <1>3 DEF Folds
<1>5. c[s] \in s /\ r \in SUBSET (T \cap U) /\ r \subseteq s /\ r # s
    BY <1>3, <1>4
<1>6. f[r] = g[r]
    BY <1>2, <1>5
<1>. QED BY <1>3, <1>4, <1>6 DEF Folds

\* Every base and step is that of a fold.
LEMMA FoldExists ==
    ASSUME NEW S, IsFiniteSet(S), NEW X, NEW base \in X, NEW c,
           NEW step \in [S \X X -> X],
           \A s \in SUBSET S : s # {} => c[s] \in s
    PROVE  \E f : Folds(f, S, X, base, c, step)
<1> DEFINE F == {T \in SUBSET S : ~ \E f : Folds(f, T, X, base, c, step)}
<1> SUFFICES ASSUME F # {} PROVE FALSE
    OBVIOUS
<1>1. \A T \in F : IsFiniteSet(T)
    BY FS_Subset
<1> HIDE DEF F
<1>2. PICK T \in F : \A r \in F : ~(r \subseteq T /\ r # T)
    BY <1>1, LeastFiniteSet
<1> USE DEF F
<1> DEFINE sol(r) == CHOOSE f : Folds(f, r, X, base, c, step)
           rest(s) == s \ {c[s]}
           v(s) == sol(rest(s))[rest(s)]
           e(s) == IF s = {} THEN base ELSE step[<<c[s], v(s)>>]
           f == [s \in SUBSET T |-> e(s)]
<1>3. ASSUME NEW s \in SUBSET T, s # {}
      PROVE  /\ c[s] \in s /\ rest(s) \in SUBSET T /\ rest(s) # T
             /\ rest(s) \in SUBSET s /\ s \in SUBSET S /\ rest(s) \in SUBSET S
    BY <1>3
<1>4. ASSUME NEW r \in SUBSET T, r # T PROVE Folds(sol(r), r, X, base, c, step)
    <2>1. \E h : Folds(h, r, X, base, c, step)
        BY <1>2, <1>4
    <2>. QED BY <2>1
<1> HIDE DEF sol
<1>5. ASSUME NEW s \in SUBSET T, s # {} PROVE v(s) \in X
    <2>1. Folds(sol(rest(s)), rest(s), X, base, c, step)
        BY <1>3, <1>4, <1>5
    <2>. QED BY <2>1 DEF Folds
<1>6. f \in [SUBSET T -> X]
    <2>1. ASSUME NEW s \in SUBSET T PROVE e(s) \in X
        <3>1. CASE s = {}
            BY <3>1
        <3>2. CASE s # {}
            <4>0. v(s) \in X
                BY <1>5, <3>2
            <4> HIDE DEF v, f, F
            <4>1. c[s] \in S /\ v(s) \in X
                BY <1>3, <3>2, <4>0
            <4>2. <<c[s], v(s)>> \in S \X X
                BY <4>1
            <4>3. step[<<c[s], v(s)>>] \in X
                BY <4>2
            <4>4. e(s) = step[<<c[s], v(s)>>]
                BY <3>2
            <4>. QED BY <4>3, <4>4
        <3>. QED BY <3>1, <3>2
    <2> HIDE DEF e
    <2>. QED BY <2>1
<1>7. ASSUME NEW s \in SUBSET T, s # {} PROVE f[rest(s)] = v(s)
    <2> DEFINE r == rest(s)
    <2>1. r \in SUBSET T /\ r # T /\ r \in SUBSET S
        BY <1>3, <1>7
    <2> HIDE DEF r
    <2>2. Folds(sol(r), r, X, base, c, step)
        BY <1>4, <2>1
    <2>3. sol(r)[r] = IF r = {} THEN base ELSE step[<<c[r], sol(r)[rest(r)]>>]
        BY <2>2 DEF Folds
    <2>4. f[r] = e(r)
        BY <2>1
    <2>5. CASE r = {}
        BY <2>3, <2>4, <2>5 DEF r
    <2>6. CASE r # {}
        <3>1. rest(r) \in SUBSET T /\ rest(r) # T /\ rest(r) \in SUBSET r /\ rest(r) \in SUBSET S
            BY <1>3, <2>1, <2>6
        <3>2. Folds(sol(rest(r)), rest(r), X, base, c, step)
            BY <1>4, <3>1
        <3>3. sol(r)[rest(r)] = sol(rest(r))[rest(r)]
            <4> DEFINE U == rest(r)
                       g == sol(r)
                       h == sol(U)
            <4>1. /\ U \in SUBSET S /\ r \in SUBSET S /\ U \in SUBSET (r \cap U)
                  /\ Folds(g, r, X, base, c, step) /\ Folds(h, U, X, base, c, step)
                BY <2>1, <2>2, <3>1, <3>2
            <4> HIDE DEF U, g, h, f, e, v, F
            <4>2. g[U] = h[U]
                BY <4>1, FoldsAgree
            <4>. QED BY <4>2 DEF U, g, h
        <3>. QED BY <2>3, <2>4, <2>6, <3>3 DEF r
    <2>. QED BY <2>5, <2>6
<1>8. \A s \in SUBSET T : f[s] = IF s = {} THEN base ELSE step[<<c[s], f[rest(s)]>>]
    <2>1. \A s \in SUBSET T : f[s] = e(s)
        OBVIOUS
    <2> HIDE DEF f
    <2>. QED BY <1>7, <2>1
<1>9. Folds(f, T, X, base, c, step)
    BY <1>6, <1>8 DEF Folds
<1> HIDE DEF f
<1>. QED BY <1>2, <1>9

\* Induction along such a fold.
LEMMA SubsetInduction ==
    ASSUME NEW S, IsFiniteSet(S), NEW c,
           \A s \in SUBSET S : s # {} => c[s] \in s,
           NEW G, {} \in G,
           \A s \in SUBSET S : s # {} /\ s \ {c[s]} \in G => s \in G
    PROVE  \A s \in SUBSET S : s \in G
<1> DEFINE F == {s \in SUBSET S : s \notin G}
<1> SUFFICES ASSUME F # {} PROVE FALSE
    OBVIOUS
<1>1. \A s \in F : IsFiniteSet(s)
    BY FS_Subset
<1> HIDE DEF F
<1>2. PICK s \in F : \A r \in F : ~(r \subseteq s /\ r # s)
    BY <1>1, LeastFiniteSet
<1>3. s \in SUBSET S /\ s \notin G /\ s # {}
    BY DEF F
<1>4. c[s] \in s /\ s \ {c[s]} \in SUBSET S
    BY <1>3
<1>5. s \ {c[s]} \in G
    BY <1>2, <1>4 DEF F
<1>. QED BY <1>3, <1>5

\* A sum of numbers is a number.
LEMMA TotalFacts ==
    ASSUME NEW S, IsFiniteSet(S), NEW X \in {Nat, Int}, NEW f \in [S -> X]
    PROVE  Total(f) \in X
<1> DEFINE c == [s \in SUBSET S |-> CHOOSE x \in s : TRUE]
           step == [p \in S \X X |-> f[p[1]] + p[2]]
           iter == CHOOSE g : g = [s \in SUBSET S |-> IF s = {} THEN 0
                        ELSE f[CHOOSE x \in s : TRUE] + g[s \ {CHOOSE x \in s : TRUE}]]
<1>1. \A s \in SUBSET S : s # {} => c[s] \in s
    OBVIOUS
<1>2. 0 \in X /\ step \in [S \X X -> X]
    OBVIOUS
<1>3. \A x \in S, v \in X : step[<<x, v>>] = f[x] + v
    OBVIOUS
<1>4. PICK g : Folds(g, S, X, 0, c, step)
    <2> DEFINE base == 0
    <2>1. base \in X
        BY <1>2
    <2> HIDE DEF c, step, iter, base
    <2>2. \E g : Folds(g, S, X, base, c, step)
        BY <1>1, <1>2, <2>1, FoldExists
    <2>. QED BY <2>2 DEF base
<1>5. g = [s \in SUBSET S |-> IF s = {} THEN 0
                ELSE f[CHOOSE x \in s : TRUE] + g[s \ {CHOOSE x \in s : TRUE}]]
    <2>1. ASSUME NEW s \in SUBSET S, s # {}
          PROVE  g[s] = f[CHOOSE x \in s : TRUE] + g[s \ {CHOOSE x \in s : TRUE}]
        <3>1. c[s] = CHOOSE x \in s : TRUE
            OBVIOUS
        <3>2. c[s] \in S /\ s \ {c[s]} \in SUBSET S
            BY <1>1, <2>1
        <3> HIDE DEF c, step
        <3>3. g[s \ {c[s]}] \in X
            BY <1>4, <3>2 DEF Folds
        <3>4. g[s] = step[<<c[s], g[s \ {c[s]}]>>]
            BY <1>4, <2>1 DEF Folds
        <3>. QED BY <1>3, <3>1, <3>2, <3>3, <3>4
    <2>2. g[{}] = 0 /\ g = [s \in SUBSET S |-> g[s]]
        BY <1>4 DEF Folds
    <2>. QED BY <2>1, <2>2
<1>6. iter = [s \in SUBSET S |-> IF s = {} THEN 0
                ELSE f[CHOOSE x \in s : TRUE] + iter[s \ {CHOOSE x \in s : TRUE}]]
    BY <1>5
<1>7. \A s \in SUBSET S :
          iter[s] = IF s = {} THEN 0 ELSE f[c[s]] + iter[s \ {c[s]}]
    <2>1. \A s \in SUBSET S : c[s] = CHOOSE x \in s : TRUE
        OBVIOUS
    <2> HIDE DEF c, iter
    <2>. QED BY <1>6, <2>1
<1>8. iter[S] \in X
    <2> DEFINE G == {s \in SUBSET S : iter[s] \in X}
    <2> HIDE DEF c, iter, step
    <2>1. {} \in G
        BY <1>2, <1>7
    <2>2. ASSUME NEW s \in SUBSET S, s # {}, s \ {c[s]} \in G PROVE s \in G
        <3>1. c[s] \in S /\ iter[s \ {c[s]}] \in X
            BY <1>1, <2>2
        <3>2. f[c[s]] \in X
            BY <3>1
        <3>3. f[c[s]] + iter[s \ {c[s]}] \in X
            BY <3>1, <3>2
        <3>. QED BY <1>7, <2>2, <3>3
    <2> HIDE DEF G
    <2>3. \A s \in SUBSET S : s \in G
        BY <1>1, <2>1, <2>2, SubsetInduction
    <2>. QED BY <2>3 DEF G
<1>9. Total(f) = iter[S]
    BY DEF Total, FoldFunction, FoldFunctionOnSet, MapThenFoldSet
<1>. QED BY <1>8, <1>9

-----------------------------------------------------------------------------

States == [Uids -> Stack]

Row == [type : STRING, actor : Uids, target : Uids \cup {0}, hits : Seq(Hits),
        before : States, after : States]

\* The hit points of a stack of whole numbers are a number, never below zero.
LEMMA HpIsNat ==
    ASSUME NEW s \in Stack
    PROVE  HpEquivalent(s) \in Nat
<1>1. s.count \in Int /\ s.maxhp \in Int /\ s.top \in Int
    BY DEF Stack
<1>2. AtLeastOne(s.maxhp) \in Nat /\ Positive(s.top) \in Nat
    BY <1>1 DEF AtLeastOne, Positive
<1>3. ASSUME s.count > 0 PROVE (s.count - 1) * AtLeastOne(s.maxhp) \in Nat
    <2> DEFINE k == s.count - 1
               m == AtLeastOne(s.maxhp)
    <2>1. k \in Nat /\ m \in Nat
        BY <1>1, <1>2, <1>3
    <2> HIDE DEF k, m
    <2>2. k * m \in Nat
        BY <2>1
    <2>. QED BY <2>2 DEF k, m
<1>. QED BY <1>1, <1>2, <1>3 DEF HpEquivalent

LEMMA WithHpFacts ==
    ASSUME NEW s \in Stack, NEW n \in Int
    PROVE  WithHp(s, n) \in Stack
<1> DEFINE m == AtLeastOne(s.maxhp)
           k == Creatures(n, m)
<1>1. s.maxhp \in Int
    BY DEF Stack
<1>2. m \in Int /\ m > 0
    BY <1>1 DEF AtLeastOne
<1>3. k \in Int
    <2> HIDE DEF m
    <2>. QED BY <1>2 DEF Creatures
<1>4. n - (k - 1) * m \in Int
    <2> HIDE DEF m, k
    <2>. QED BY <1>2, <1>3
<1>5. WithHp(s, n) = [s EXCEPT !.count = k, !.top = n - (k - 1) * m, !.alive = TRUE]
    BY DEF WithHp
<1> HIDE DEF m, k
<1>. QED BY <1>3, <1>4, <1>5 DEF Stack

LEMMA TotalHpIsInt ==
    ASSUME NEW s \in Stack
    PROVE  TotalHp(s) \in Int
<1>1. s.count \in Int /\ s.maxhp \in Int /\ s.top \in Int
    BY DEF Stack
<1> DEFINE m == AtLeastOne(s.maxhp)
           k == s.count - 1
<1>2. m \in Int /\ k \in Int
    BY <1>1 DEF AtLeastOne
<1>3. k * m \in Int
    <2> HIDE DEF m, k
    <2>. QED BY <1>2
<1>. QED BY <1>1, <1>2, <1>3 DEF TotalHp

\* Damage and heals leave a stack a stack.
LEMMA StackFacts ==
    ASSUME NEW s \in Stack, NEW n \in Int
    PROVE  /\ ApplyDamage(s, n) \in Stack
           /\ ApplyHeal(s, n) \in Stack
           /\ Patched(s, n) \in Stack
<1>1. s.maxhp \in Int /\ s.maxcount \in Int /\ TotalHp(s) \in Int /\ s.count \in Int
    BY TotalHpIsInt DEF Stack
<1>2. Removed(s) \in Stack
    <2> DEFINE z == 0
               b == FALSE
    <2>1. z \in Int /\ b \in BOOLEAN
        OBVIOUS
    <2>2. Removed(s) = [s EXCEPT !.count = z, !.top = z, !.alive = b]
        BY DEF Removed
    <2> HIDE DEF z, b
    <2>. QED BY <2>1, <2>2 DEF Stack
<1>3. ApplyDamage(s, n) \in Stack
    <2>1. WithHp(s, TotalHp(s) - n) \in Stack
        BY <1>1, WithHpFacts
    <2>. QED BY <1>2, <2>1 DEF ApplyDamage
<1>4. ApplyHeal(s, n) \in Stack
    <2> DEFINE cap      == s.maxcount * s.maxhp
               healed   == TotalHp(s) + n
               restored == IF cap < healed THEN cap ELSE healed
    <2>1. restored \in Int
        BY <1>1
    <2>2. WithHp(s, restored) \in Stack
        <3> HIDE DEF restored
        <3>. QED BY <2>1, WithHpFacts
    <2>3. ApplyHeal(s, n) = s \/ ApplyHeal(s, n) = WithHp(s, restored)
        BY DEF ApplyHeal
    <2>. QED BY <2>2, <2>3
<1>5. Patched(s, n) \in Stack
    <2> DEFINE m      == AtLeastOne(s.maxhp)
               capped == IF s.maxcount > 0 /\ s.maxcount * m < n THEN s.maxcount * m ELSE n
    <2>1. capped \in Int
        BY <1>1 DEF AtLeastOne
    <2>2. WithHp(s, capped) \in Stack
        <3> HIDE DEF capped
        <3>. QED BY <2>1, WithHpFacts
    <2>3. Patched(s, n) = Removed(s) \/ Patched(s, n) = WithHp(s, capped)
        BY DEF Patched
    <2>. QED BY <1>2, <2>2, <2>3
<1>. QED BY <1>3, <1>4, <1>5

\* The last element of a prefix, as a fold over a sequence takes it.
LEMMA LastFirst ==
    ASSUME NEW n \in Nat
    PROVE  /\ IsFiniteSet(1..n)
           /\ \A s \in SUBSET (1..n) : s # {} => Max(s) \in s
<1>1. IsFiniteSet(1..n)
    BY FS_Interval
<1>2. ASSUME NEW s \in SUBSET (1..n), s # {} PROVE Max(s) \in s
    <2>1. IsFiniteSet(s)
        BY <1>1, FS_Subset
    <2>2. s \in SUBSET Int
        OBVIOUS
    <2>. QED BY <1>2, <2>1, <2>2, Extremes
<1>. QED BY <1>1, <1>2

\* Induction along a fold over a sequence.
LEMMA LastInduction ==
    ASSUME NEW n \in Nat, NEW G, {} \in G,
           \A s \in SUBSET (1..n) : s # {} /\ s \ {Max(s)} \in G => s \in G
    PROVE  \A s \in SUBSET (1..n) : s \in G
<1> DEFINE S == 1..n
           c == [s \in SUBSET S |-> Max(s)]
<1>1. \A s \in SUBSET S : c[s] = Max(s)
    OBVIOUS
<1>2. IsFiniteSet(S) /\ \A s \in SUBSET S : s # {} => c[s] \in s
    BY <1>1, LastFirst
<1>3. \A s \in SUBSET S : s # {} /\ s \ {c[s]} \in G => s \in G
    BY <1>1
<1> HIDE DEF S, c
<1>4. \A s \in SUBSET S : s \in G
    BY <1>2, <1>3, SubsetInduction
<1>. QED BY <1>4 DEF S

\* Hits change stacks, and no more.
LEMMA StruckFacts ==
    ASSUME NEW state \in States, NEW hits \in Seq(Hits)
    PROVE  Struck(state, hits) \in States
<1> DEFINE n == Len(hits)
           S == 1..n
           X == States
           base == state
           e(i, v) == [v EXCEPT ![hits[i].on] = ApplyDamage(v[hits[i].on], hits[i].amount)]
           c == [s \in SUBSET S |-> Max(s)]
           step == [p \in S \X X |-> e(p[1], p[2])]
           iter == CHOOSE g : g = [s \in SUBSET DOMAIN hits |-> IF s = {} THEN base
                                     ELSE e(Max(s), g[s \ {Max(s)}])]
<1>1. n \in Nat /\ DOMAIN hits = S /\ \A i \in S : hits[i] \in Hits
    BY LenProperties, ElementOfSeq
<1>2. IsFiniteSet(S) /\ \A s \in SUBSET S : s # {} => Max(s) \in s
    BY <1>1, LastFirst
<1>3. \A s \in SUBSET S : s # {} => c[s] \in s
    BY <1>2
<1>4. ASSUME NEW i \in S, NEW v \in X PROVE e(i, v) \in X
    <2>1. hits[i].on \in Uids /\ hits[i].amount \in Int /\ v[hits[i].on] \in Stack
        BY <1>1 DEF Hits, States
    <2>2. ApplyDamage(v[hits[i].on], hits[i].amount) \in Stack
        BY <2>1, StackFacts
    <2>. QED BY <2>1, <2>2 DEF States
<1>5. Struck(state, hits) = iter[DOMAIN hits]
    BY DEF Struck, FoldLeft, MapThenFoldSet
<1>6. base \in X
    OBVIOUS
<1> HIDE DEF X, base, e
<1>7. step \in [S \X X -> X] /\ \A i \in S, v \in X : step[<<i, v>>] = e(i, v)
    BY <1>4
<1>8. PICK g : Folds(g, S, X, base, c, step)
    <2> HIDE DEF S, c, step, iter
    <2>. QED BY <1>2, <1>3, <1>6, <1>7, FoldExists
<1>9. g = [s \in SUBSET DOMAIN hits |-> IF s = {} THEN base ELSE e(Max(s), g[s \ {Max(s)}])]
    <2>1. ASSUME NEW s \in SUBSET S, s # {} PROVE g[s] = e(Max(s), g[s \ {Max(s)}])
        <3>1. c[s] = Max(s) /\ Max(s) \in S /\ s \ {Max(s)} \in SUBSET S
            BY <1>2, <2>1
        <3> HIDE DEF c, step, S
        <3>2. g[s \ {Max(s)}] \in X
            BY <1>8, <3>1 DEF Folds
        <3>3. g[s] = step[<<c[s], g[s \ {c[s]}]>>]
            BY <1>8, <2>1 DEF Folds
        <3>. QED BY <1>7, <3>1, <3>2, <3>3
    <2>2. g[{}] = base /\ g = [s \in SUBSET S |-> g[s]]
        BY <1>8 DEF Folds
    <2>. QED BY <1>1, <2>1, <2>2
<1>10. iter = [s \in SUBSET S |-> IF s = {} THEN base ELSE e(Max(s), iter[s \ {Max(s)}])]
    BY <1>1, <1>9
<1>11. \A s \in SUBSET S : iter[s] \in X
    <2> DEFINE G == {s \in SUBSET S : iter[s] \in X}
    <2> HIDE DEF iter
    <2>1. iter[{}] = base /\ \A s \in SUBSET S : s # {} => iter[s] = e(Max(s), iter[s \ {Max(s)}])
        BY <1>10
    <2> HIDE DEF c, step
    <2>3. {} \in G
        BY <1>6, <2>1
    <2>4. ASSUME NEW s \in SUBSET S, s # {}, s \ {Max(s)} \in G PROVE s \in G
        <3>1. Max(s) \in S /\ iter[s \ {Max(s)}] \in X
            BY <1>2, <2>4
        <3>2. e(Max(s), iter[s \ {Max(s)}]) \in X
            BY <1>4, <3>1
        <3>. QED BY <2>1, <2>4, <3>2
    <2> HIDE DEF G, S, n, iter, X, base, e
    <2>5. \A s \in SUBSET S : s \in G
        BY <1>1, <2>3, <2>4, LastInduction DEF S
    <2>. QED BY <2>5 DEF G
<1> HIDE DEF iter
<1>. QED BY <1>1, <1>5, <1>11 DEF X

\* And so do heals.
LEMMA HealedFacts ==
    ASSUME NEW state \in States, NEW heals \in Seq(Heals)
    PROVE  Healed(state, heals) \in States
<1> DEFINE n == Len(heals)
           S == 1..n
           X == States
           base == state
           e(i, v) == [v EXCEPT ![heals[i].on] = ApplyHeal(v[heals[i].on], heals[i].amount)]
           c == [s \in SUBSET S |-> Max(s)]
           step == [p \in S \X X |-> e(p[1], p[2])]
           iter == CHOOSE g : g = [s \in SUBSET DOMAIN heals |-> IF s = {} THEN base
                                     ELSE e(Max(s), g[s \ {Max(s)}])]
<1>1. n \in Nat /\ DOMAIN heals = S /\ \A i \in S : heals[i] \in Heals
    BY LenProperties, ElementOfSeq
<1>2. IsFiniteSet(S) /\ \A s \in SUBSET S : s # {} => Max(s) \in s
    BY <1>1, LastFirst
<1>3. \A s \in SUBSET S : s # {} => c[s] \in s
    BY <1>2
<1>4. ASSUME NEW i \in S, NEW v \in X PROVE e(i, v) \in X
    <2>1. heals[i].on \in Uids /\ heals[i].amount \in Int /\ v[heals[i].on] \in Stack
        BY <1>1 DEF Heals, States
    <2>2. ApplyHeal(v[heals[i].on], heals[i].amount) \in Stack
        BY <2>1, StackFacts
    <2>. QED BY <2>1, <2>2 DEF States
<1>5. Healed(state, heals) = iter[DOMAIN heals]
    BY DEF Healed, FoldLeft, MapThenFoldSet
<1>6. base \in X
    OBVIOUS
<1> HIDE DEF X, base, e
<1>7. step \in [S \X X -> X] /\ \A i \in S, v \in X : step[<<i, v>>] = e(i, v)
    BY <1>4
<1>8. PICK g : Folds(g, S, X, base, c, step)
    <2> HIDE DEF S, c, step, iter
    <2>. QED BY <1>2, <1>3, <1>6, <1>7, FoldExists
<1>9. g = [s \in SUBSET DOMAIN heals |-> IF s = {} THEN base ELSE e(Max(s), g[s \ {Max(s)}])]
    <2>1. ASSUME NEW s \in SUBSET S, s # {} PROVE g[s] = e(Max(s), g[s \ {Max(s)}])
        <3>1. c[s] = Max(s) /\ Max(s) \in S /\ s \ {Max(s)} \in SUBSET S
            BY <1>2, <2>1
        <3> HIDE DEF c, step, S
        <3>2. g[s \ {Max(s)}] \in X
            BY <1>8, <3>1 DEF Folds
        <3>3. g[s] = step[<<c[s], g[s \ {c[s]}]>>]
            BY <1>8, <2>1 DEF Folds
        <3>. QED BY <1>7, <3>1, <3>2, <3>3
    <2>2. g[{}] = base /\ g = [s \in SUBSET S |-> g[s]]
        BY <1>8 DEF Folds
    <2>. QED BY <1>1, <2>1, <2>2
<1>10. iter = [s \in SUBSET S |-> IF s = {} THEN base ELSE e(Max(s), iter[s \ {Max(s)}])]
    BY <1>1, <1>9
<1>11. \A s \in SUBSET S : iter[s] \in X
    <2> DEFINE G == {s \in SUBSET S : iter[s] \in X}
    <2> HIDE DEF iter
    <2>1. iter[{}] = base /\ \A s \in SUBSET S : s # {} => iter[s] = e(Max(s), iter[s \ {Max(s)}])
        BY <1>10
    <2> HIDE DEF c, step
    <2>3. {} \in G
        BY <1>6, <2>1
    <2>4. ASSUME NEW s \in SUBSET S, s # {}, s \ {Max(s)} \in G PROVE s \in G
        <3>1. Max(s) \in S /\ iter[s \ {Max(s)}] \in X
            BY <1>2, <2>4
        <3>2. e(Max(s), iter[s \ {Max(s)}]) \in X
            BY <1>4, <3>1
        <3>. QED BY <2>1, <2>4, <3>2
    <2> HIDE DEF G, S, n, iter, X, base, e
    <2>5. \A s \in SUBSET S : s \in G
        BY <1>1, <2>3, <2>4, LastInduction DEF S
    <2>. QED BY <2>5 DEF G
<1> HIDE DEF iter
<1>. QED BY <1>1, <1>5, <1>11 DEF X

\* The attacks among the decisions.
ModeledRow == {row \in Row : IsModeled(row)}

LEMMA AttacksFacts ==
    ASSUME NEW rows \in Seq(Row)
    PROVE  Attacks(rows) \in Seq(ModeledRow)
<1> DEFINE n == Len(rows)
           S == 1..n
           X == Seq(ModeledRow)
           base == << >>
           e(i, v) == IF IsModeled(rows[i]) THEN Append(v, rows[i]) ELSE v
           c == [s \in SUBSET S |-> Max(s)]
           step == [p \in S \X X |-> e(p[1], p[2])]
           iter == CHOOSE g : g = [s \in SUBSET DOMAIN rows |-> IF s = {} THEN base
                                     ELSE e(Max(s), g[s \ {Max(s)}])]
<1>1. n \in Nat /\ DOMAIN rows = S /\ \A i \in S : rows[i] \in Row
    BY LenProperties, ElementOfSeq
<1>2. IsFiniteSet(S) /\ \A s \in SUBSET S : s # {} => Max(s) \in s
    BY <1>1, LastFirst
<1>3. \A s \in SUBSET S : s # {} => c[s] \in s
    BY <1>2
<1>4. ASSUME NEW i \in S, NEW v \in X PROVE e(i, v) \in X
    BY <1>1, <1>4, AppendProperties DEF ModeledRow
<1>5. Attacks(rows) = iter[DOMAIN rows]
    BY DEF Attacks, FoldLeft, MapThenFoldSet
<1>6. base \in X
    OBVIOUS
<1> HIDE DEF X, base, e
<1>7. step \in [S \X X -> X] /\ \A i \in S, v \in X : step[<<i, v>>] = e(i, v)
    BY <1>4
<1>8. PICK g : Folds(g, S, X, base, c, step)
    <2> HIDE DEF S, c, step, iter
    <2>. QED BY <1>2, <1>3, <1>6, <1>7, FoldExists
<1>9. g = [s \in SUBSET DOMAIN rows |-> IF s = {} THEN base ELSE e(Max(s), g[s \ {Max(s)}])]
    <2>1. ASSUME NEW s \in SUBSET S, s # {} PROVE g[s] = e(Max(s), g[s \ {Max(s)}])
        <3>1. c[s] = Max(s) /\ Max(s) \in S /\ s \ {Max(s)} \in SUBSET S
            BY <1>2, <2>1
        <3> HIDE DEF c, step, S
        <3>2. g[s \ {Max(s)}] \in X
            BY <1>8, <3>1 DEF Folds
        <3>3. g[s] = step[<<c[s], g[s \ {c[s]}]>>]
            BY <1>8, <2>1 DEF Folds
        <3>. QED BY <1>7, <3>1, <3>2, <3>3
    <2>2. g[{}] = base /\ g = [s \in SUBSET S |-> g[s]]
        BY <1>8 DEF Folds
    <2>. QED BY <1>1, <2>1, <2>2
<1>10. iter = [s \in SUBSET S |-> IF s = {} THEN base ELSE e(Max(s), iter[s \ {Max(s)}])]
    BY <1>1, <1>9
<1>11. \A s \in SUBSET S : iter[s] \in X
    <2> DEFINE G == {s \in SUBSET S : iter[s] \in X}
    <2> HIDE DEF iter
    <2>1. iter[{}] = base /\ \A s \in SUBSET S : s # {} => iter[s] = e(Max(s), iter[s \ {Max(s)}])
        BY <1>10
    <2> HIDE DEF c, step
    <2>3. {} \in G
        BY <1>6, <2>1
    <2>4. ASSUME NEW s \in SUBSET S, s # {}, s \ {Max(s)} \in G PROVE s \in G
        <3>1. Max(s) \in S /\ iter[s \ {Max(s)}] \in X
            BY <1>2, <2>4
        <3>2. e(Max(s), iter[s \ {Max(s)}]) \in X
            BY <1>4, <3>1
        <3>. QED BY <2>1, <2>4, <3>2
    <2> HIDE DEF G, S, n, iter, X, base, e
    <2>5. \A s \in SUBSET S : s \in G
        BY <1>1, <2>3, <2>4, LastInduction DEF S
    <2>. QED BY <2>5 DEF G
<1> HIDE DEF iter
<1>. QED BY <1>1, <1>5, <1>11 DEF X


-----------------------------------------------------------------------------

LEMMA ObservedFacts ==
    ASSUME NEW row \in Row
    PROVE  ObservedDamage(row) \in Nat
<1> DEFINE primary == {i \in DOMAIN row.hits : row.hits[i].by = row.actor /\ row.hits[i].on = row.target}
           f == [i \in primary |-> Positive(row.hits[i].amount)]
<1>1. row.hits \in Seq(Hits)
    BY DEF Row
<1>2. /\ Len(row.hits) \in Nat /\ DOMAIN row.hits = 1..Len(row.hits)
      /\ \A i \in DOMAIN row.hits : row.hits[i] \in Hits
    BY <1>1, LenProperties, ElementOfSeq
<1>3. IsFiniteSet(primary)
    <2>1. IsFiniteSet(DOMAIN row.hits) /\ primary \in SUBSET DOMAIN row.hits
        BY <1>2, FS_Interval
    <2> HIDE DEF primary
    <2>. QED BY <2>1, FS_Subset
<1>4. f \in [primary -> Nat]
    BY <1>2 DEF Hits, Positive
<1>5. ObservedDamage(row) = Total(f)
    BY DEF ObservedDamage
<1> HIDE DEF f, primary
<1>. QED BY <1>3, <1>4, <1>5, TotalFacts

LEMMA HpMapFacts ==
    ASSUME NEW state \in States
    PROVE  /\ HpMap(state) \in [Uids -> Nat]
           /\ \A u \in Uids : HpMap(state)[u] = HpEquivalent(state[u])
<1>1. DOMAIN state = Uids /\ \A u \in Uids : state[u] \in Stack
    BY DEF States
<1>2. \A u \in Uids : HpEquivalent(state[u]) \in Nat
    BY <1>1, HpIsNat
<1>. QED BY <1>1, <1>2 DEF HpMap

LEMMA EnsembleMeanFacts ==
    ASSUME NEW actor \in Stack
    PROVE  /\ \A p \in Members \cup {"generic"} : ExpectedDamage(actor, p) \in Int
           /\ EnsembleMean(actor) \in Int
<1> DEFINE f == [m \in Members |-> ExpectedDamage(actor, m)]
<1>1. ASSUME NEW p \in Members \cup {"generic"} PROVE ExpectedDamage(actor, p) \in Int
    <2>1. actor.count \in Int /\ Rate[p] \in Int
        BY ChainAssumption DEF Stack
    <2>. QED BY <2>1 DEF ExpectedDamage
<1>2. f \in [Members -> Int]
    BY <1>1
<1>3. Total(f) \in Int
    <2> HIDE DEF f
    <2>. QED BY <1>2, ChainAssumption, TotalFacts
<1>4. Cardinality(Members) \in Nat /\ Cardinality(Members) > 0
    BY ChainAssumption, FS_CardinalityType, FS_EmptySet
<1>5. EnsembleMean(actor) = Total(f) \div Cardinality(Members)
    BY DEF EnsembleMean
<1> HIDE DEF f
<1>6. Total(f) \div Cardinality(Members) \in Int
    BY <1>3, <1>4
<1>. QED BY <1>1, <1>5, <1>6

\* What a policy predicts of an attack is a number.
LEMMA PrimaryFacts ==
    ASSUME NEW p \in Policies, NEW row \in Row, Attack(row), NEW h \in [Uids -> Nat],
           NEW generic \in BOOLEAN
    PROVE  PrimaryDamage(p, row, h, generic) \in Int
<1> DEFINE actor  == Patched(row.before[row.actor], h[row.actor])
           target == Patched(row.before[row.target], h[row.target])
<1>1. row.actor \in Uids /\ row.target \in Uids /\ row.before \in [Uids -> Stack]
    BY DEF Row, Attack, States
<1>2. row.before[row.actor] \in Stack /\ h[row.actor] \in Int
    BY <1>1
<1>3. actor \in Stack
    BY <1>2, StackFacts
<1>4. NoDamage \in Int
    BY DEF NoDamage
<1>5. /\ PrimaryDamage(p, row, h, generic) = NoDamage
         \/ PrimaryDamage(p, row, h, generic) = EnsembleMean(actor)
         \/ PrimaryDamage(p, row, h, generic) = ExpectedDamage(actor, "generic")
         \/ (p \in Members /\ PrimaryDamage(p, row, h, generic) = ExpectedDamage(actor, p))
    BY DEF PrimaryDamage
<1> HIDE DEF actor, target
<1>. QED BY <1>3, <1>4, <1>5, EnsembleMeanFacts

-----------------------------------------------------------------------------

\* What was observed is taken over: exactly, by a policy that agreed before.
LEMMA ForcedFacts ==
    ASSUME NEW row \in Row, NEW h \in [Uids -> Nat]
    PROVE  /\ TeacherForced(row, h) \in [Uids -> Nat]
           /\ \A u \in Uids : h[u] = HpEquivalent(row.before[u])
                 => TeacherForced(row, h)[u] = HpEquivalent(row.after[u])
<1>1. row.before \in States /\ row.after \in States
    BY DEF Row
<1>2. /\ HpMap(row.before) \in [Uids -> Nat] /\ HpMap(row.after) \in [Uids -> Nat]
      /\ \A u \in Uids : HpMap(row.before)[u] = HpEquivalent(row.before[u])
      /\ \A u \in Uids : HpMap(row.after)[u] = HpEquivalent(row.after[u])
    BY <1>1, HpMapFacts
<1>3. TeacherForced(row, h) =
          [u \in Uids |-> Positive(h[u] + HpMap(row.after)[u] - HpMap(row.before)[u])]
    BY DEF TeacherForced
<1>4. ASSUME NEW u \in Uids
      PROVE  Positive(h[u] + HpMap(row.after)[u] - HpMap(row.before)[u]) \in Nat
    BY <1>2 DEF Positive
<1>5. TeacherForced(row, h) \in [Uids -> Nat]
    BY <1>3, <1>4
<1>6. ASSUME NEW u \in Uids, h[u] = HpEquivalent(row.before[u])
      PROVE  TeacherForced(row, h)[u] = HpEquivalent(row.after[u])
    <2>1. HpMap(row.before)[u] = h[u] /\ HpMap(row.after)[u] = HpEquivalent(row.after[u])
        BY <1>2, <1>6
    <2>2. h[u] \in Nat /\ HpMap(row.after)[u] \in Nat
        BY <1>2
    <2>3. Positive(h[u] + HpMap(row.after)[u] - h[u]) = HpMap(row.after)[u]
        BY <2>2 DEF Positive
    <2>. QED BY <1>3, <2>1, <2>3
<1>. QED BY <1>5, <1>6

\* A policy moves off the recording at the target of an attack and nowhere else.
LEMMA AdvanceFacts ==
    ASSUME NEW p \in Policies, NEW row \in Row, NEW h \in [Uids -> Nat], NEW generic \in BOOLEAN
    PROVE  /\ Advance(p, row, h, generic) \in [Uids -> Nat]
           /\ \A u \in Uids : ~(IsModeled(row) /\ u = row.target)
                 => Advance(p, row, h, generic)[u] = TeacherForced(row, h)[u]
           /\ IsModeled(row) /\ PrimaryDamage(p, row, h, generic) = ObservedDamage(row)
                 => Advance(p, row, h, generic)[row.target] = TeacherForced(row, h)[row.target]
<1> DEFINE forced == TeacherForced(row, h)
           damage == PrimaryDamage(p, row, h, generic)
           observed == ObservedDamage(row)
           t == row.target
<1>1. forced \in [Uids -> Nat] /\ observed \in Nat
    BY ForcedFacts, ObservedFacts
<1>2. CASE ~IsModeled(row)
    <2>1. Advance(p, row, h, generic) = forced
        BY <1>2 DEF Advance
    <2> HIDE DEF forced
    <2>. QED BY <1>1, <1>2, <2>1 DEF forced
<1>3. CASE IsModeled(row)
    <2> DEFINE v == IF damage = NoDamage THEN Positive(forced[t] + observed)
                    ELSE Positive(Positive(forced[t] + observed) - damage)
    <2>1. Advance(p, row, h, generic) = [forced EXCEPT ![t] = v]
        BY <1>3 DEF Advance
    <2>2. t \in Uids /\ damage \in Int
        BY <1>3, PrimaryFacts DEF IsModeled, Attack, Row
    <2> HIDE DEF forced, damage, observed
    <2>3. v \in Nat
        BY <1>1, <2>2 DEF Positive
    <2>4. damage = observed => v = forced[t]
        BY <1>1, <2>2 DEF Positive, NoDamage
    <2> HIDE DEF v
    <2>5. [forced EXCEPT ![t] = v] \in [Uids -> Nat]
        BY <1>1, <2>3
    <2>6. \A u \in Uids : u # t => [forced EXCEPT ![t] = v][u] = forced[u]
        BY <1>1
    <2>7. [forced EXCEPT ![t] = v][t] = v
        BY <1>1, <2>2
    <2>. QED BY <1>3, <2>1, <2>4, <2>5, <2>6, <2>7 DEF forced, damage, observed
<1>. QED BY <1>2, <1>3

LEMMA FarFacts ==
    ASSUME NEW a \in Int, NEW b \in Int
    PROVE  Far(a, b) \in Nat
BY DEF Far

LEMMA DistanceFacts ==
    ASSUME NEW h \in [Uids -> Int], NEW g \in [Uids -> Int]
    PROVE  Distance1(h, g) \in Nat
<1> DEFINE f == [u \in Uids |-> Far(h[u], g[u])]
<1>1. f \in [Uids -> Nat]
    BY FarFacts
<1>2. Distance1(h, g) = Total(f)
    BY DEF Distance1
<1> HIDE DEF f
<1>. QED BY <1>1, <1>2, ChainAssumption, TotalFacts

LEMMA EnsembleErrorFacts ==
    ASSUME NEW hs \in [Policies -> [Uids -> Nat]], NEW observed \in [Uids -> Nat]
    PROVE  EnsembleError(hs, observed) \in Nat
<1> DEFINE sum(u) == [m \in Members |-> hs[m][u]]
           h == [u \in Uids |-> Total(sum(u))]
           g == [u \in Uids |-> Cardinality(Members) * observed[u]]
<1>1. ASSUME NEW u \in Uids PROVE Total(sum(u)) \in Nat
    <2>1. sum(u) \in [Members -> Nat]
        BY DEF Policies
    <2> HIDE DEF sum
    <2>. QED BY <2>1, ChainAssumption, TotalFacts
<1>2. h \in [Uids -> Int]
    <2> HIDE DEF sum
    <2>. QED BY <1>1
<1>3. g \in [Uids -> Int]
    <2>1. Cardinality(Members) \in Nat
        BY ChainAssumption, FS_CardinalityType
    <2>. QED BY <2>1
<1>4. EnsembleError(hs, observed) = Distance1(h, g)
    BY DEF EnsembleError
<1> HIDE DEF h, g
<1>. QED BY <1>2, <1>3, <1>4, DistanceFacts

-----------------------------------------------------------------------------

Sample == [start : Nat, modeled : Nat, generic : Nat, ensemble : Nat, invalid : [Policies -> Nat]]
Errors == [p : 0..Certain, generic : Nat, ensemble : Nat]

ChainTypeOK ==
    /\ decisions \in Seq(Row)
    /\ start \in 0..Len(decisions) /\ offset \in Nat
    /\ hp \in [Policies -> [Uids -> Nat]]
    /\ modeled \in Nat /\ invalid \in [Policies -> Nat]
    /\ samples \in [Horizons -> Seq(Sample)]
    /\ examples \in Seq(Errors)
    /\ threshold \in (0..Certain) \cup {NoThreshold}

\* A decision begins where the one before it ended.
Chained == \A i \in 1..(Len(decisions) - 1) : decisions[i + 1].before = decisions[i].after

InWindow == IF start = 0 THEN offset = 0 ELSE offset <= Available(start)

\* A window begins with the recorded hit points, and goes on as UntouchedAreObserved says.
Follows ==
    /\ start > 0 /\ offset = 0 => hp = Opened(start)
    /\ UntouchedAreObserved

\* The attacks of the first n decisions of the window that begins at k.
AttacksIn(k, n) == {j \in k..(k + n - 1) : IsModeled(decisions[j])}

Counts(s, n) == /\ s.modeled = Cardinality(AttacksIn(s.start, n))
                /\ \A p \in Policies : s.invalid[p] <= s.modeled

\* The windows that were measured after n decisions, so far.
MeasuredStarts(n) ==
    {k \in 1..Len(decisions) : /\ k + n - 1 <= Len(decisions) /\ AttacksIn(k, n) # {}
                               /\ k < start \/ (k = start /\ n <= offset)}

WindowCounted ==
    /\ start > 0 => modeled = Cardinality(AttacksIn(start, offset))
    /\ \A p \in Policies : invalid[p] <= modeled

SamplesCounted ==
    \A n \in Horizons :
        /\ {samples[n][i].start : i \in DOMAIN samples[n]} = MeasuredStarts(n)
        /\ \A i, j \in DOMAIN samples[n] : samples[n][i].start = samples[n][j].start => i = j
        /\ \A i \in DOMAIN samples[n] : Counts(samples[n][i], n)

Fitted == threshold # NoThreshold => threshold = ChooseThreshold(examples) /\ examples # << >>

ChainInv == ChainTypeOK /\ Chained /\ InWindow /\ Follows /\ WindowCounted /\ SamplesCounted /\ Fitted

-----------------------------------------------------------------------------

\* A window that is long enough for a horizon is not cut before it.
LEMMA AvailableFacts ==
    ASSUME NEW first \in Int, Len(decisions) \in Nat, first <= Len(decisions)
    PROVE  /\ Available(first) \in Int
           /\ Available(first) > 0
           /\ Available(first) <= Len(decisions) - first + 1
           /\ \A n \in Horizons : n <= Len(decisions) - first + 1
                                    => n <= Available(first) /\ Min(Horizons) <= Available(first)
<1>1. /\ Max(Horizons) \in Horizons /\ \A n \in Horizons : n <= Max(Horizons)
      /\ Min(Horizons) \in Horizons /\ \A n \in Horizons : Min(Horizons) <= n
    <2>1. Horizons \in SUBSET Int /\ Horizons # {} /\ IsFiniteSet(Horizons)
        BY ChainAssumption
    <2>. QED BY <2>1, Extremes
<1>2. \A n \in Horizons : n \in Nat /\ n > 0
    BY ChainAssumption
<1> DEFINE M == Max(Horizons)
           m == Min(Horizons)
           rest == Len(decisions) - first + 1
<1>3. M \in Nat /\ M > 0 /\ m \in Nat /\ rest \in Nat /\ rest > 0
    BY <1>1, <1>2
<1>4. Available(first) = IF M < rest THEN M ELSE rest
    BY DEF Available
<1>5. \A n \in Horizons : n <= M /\ m <= n
    BY <1>1
<1> HIDE DEF M, m, rest
<1>6. \A n \in Horizons : n <= rest => n <= Available(first) /\ m <= Available(first)
    BY <1>2, <1>3, <1>4, <1>5
<1>7. Available(first) \in Int /\ Available(first) > 0 /\ Available(first) <= rest
    BY <1>3, <1>4
<1>. QED BY <1>6, <1>7 DEF rest, m

\* One more decision is at most one more attack.
LEMMA AttacksFinite ==
    ASSUME NEW k \in Int, NEW n \in Nat
    PROVE  IsFiniteSet(AttacksIn(k, n)) /\ Cardinality(AttacksIn(k, n)) \in Nat
<1>1. k + n - 1 \in Int
    OBVIOUS
<1>2. IsFiniteSet(k..(k + n - 1)) /\ AttacksIn(k, n) \in SUBSET (k..(k + n - 1))
    BY <1>1, FS_Interval DEF AttacksIn
<1>3. IsFiniteSet(AttacksIn(k, n))
    BY <1>2, FS_Subset
<1>. QED BY <1>3, FS_CardinalityType

LEMMA AttacksGrow ==
    ASSUME NEW k \in Int, NEW n \in Nat
    PROVE  Cardinality(AttacksIn(k, n + 1)) =
               Cardinality(AttacksIn(k, n)) + (IF IsModeled(decisions[k + n]) THEN 1 ELSE 0)
<1> DEFINE A == AttacksIn(k, n)
           B == AttacksIn(k, n + 1)
<1>1. IsFiniteSet(A) /\ Cardinality(A) \in Nat
    BY AttacksFinite
<1>0. k + n \notin A
    BY DEF AttacksIn
<1>2. CASE IsModeled(decisions[k + n])
    <2>1. B = A \cup {k + n}
        BY <1>2 DEF AttacksIn
    <2> HIDE DEF A, B
    <2>2. Cardinality(A \cup {k + n}) = Cardinality(A) + 1
        BY <1>0, <1>1, FS_AddElement
    <2>. QED BY <1>2, <2>1, <2>2 DEF A, B
<1>3. CASE ~IsModeled(decisions[k + n])
    <2>1. B = A
        BY <1>3 DEF AttacksIn
    <2> HIDE DEF A, B
    <2>. QED BY <1>1, <1>3, <2>1 DEF A, B
<1>. QED BY <1>2, <1>3

\* A battle can be evaluated where it is.
LEMMA PlaceFacts ==
    ASSUME ChainTypeOK
    PROVE  /\ Len(decisions) \in Nat /\ start \in Nat /\ start <= Len(decisions) /\ offset \in Nat
           /\ \A i \in 1..Len(decisions) : decisions[i] \in Row
           /\ \A i \in 1..Len(decisions) : decisions[i].before \in States /\ decisions[i].after \in States
<1>1. decisions \in Seq(Row)
    BY DEF ChainTypeOK
<1>2. Len(decisions) \in Nat /\ \A i \in 1..Len(decisions) : decisions[i] \in Row
    BY <1>1, LenProperties, ElementOfSeq
<1>. QED BY <1>2 DEF ChainTypeOK, Row

LEMMA OpenedFacts ==
    ASSUME NEW state \in States
    PROVE  [p \in Policies |-> HpMap(state)] \in [Policies -> [Uids -> Nat]]
<1>1. HpMap(state) \in [Uids -> Nat]
    BY HpMapFacts
<1>. QED BY <1>1

LEMMA ChainInit == Init => ChainInv
<1> SUFFICES ASSUME Init PROVE ChainInv
    OBVIOUS
<1> USE DEF Init
<1>1. Len(decisions) = 0 /\ DOMAIN decisions = {}
    OBVIOUS
<1>2. ChainTypeOK
    <2>1. Stacks \in States
        BY ChainAssumption DEF States
    <2>2. hp \in [Policies -> [Uids -> Nat]]
        BY <2>1, OpenedFacts
    <2>3. decisions \in Seq(Row) /\ examples \in Seq(Errors)
        OBVIOUS
    <2>4. samples \in [Horizons -> Seq(Sample)]
        OBVIOUS
    <2>5. invalid \in [Policies -> Nat]
        OBVIOUS
    <2>. QED BY <1>1, <2>2, <2>3, <2>4, <2>5 DEF ChainTypeOK
<1>3. Chained /\ InWindow
    BY <1>1 DEF Chained, InWindow
<1>4. Follows
    BY DEF Follows, UntouchedAreObserved
<1>5. WindowCounted
    BY DEF WindowCounted
<1>6. SamplesCounted
    <2>1. \A n \in Horizons : samples[n] = << >> /\ DOMAIN samples[n] = {}
        OBVIOUS
    <2>2. \A n \in Horizons : MeasuredStarts(n) = {}
        BY <1>1 DEF MeasuredStarts
    <2>. QED BY <2>1, <2>2 DEF SamplesCounted
<1>7. Fitted
    BY DEF Fitted
<1>. QED BY <1>2, <1>3, <1>4, <1>5, <1>6, <1>7 DEF ChainInv

-----------------------------------------------------------------------------

\* The stacks with which the next decision begins.
LEMMA CurrentFacts ==
    ASSUME ChainTypeOK
    PROVE  Current \in States
<1>1. CASE decisions = << >>
    BY <1>1, ChainAssumption DEF Current, States
<1>2. CASE decisions # << >>
    <2>1. Len(decisions) \in 1..Len(decisions)
        BY <1>2, EmptySeq, PlaceFacts DEF ChainTypeOK
    <2>. QED BY <1>2, <2>1, PlaceFacts DEF Current
<1>. QED BY <1>1, <1>2

LEMMA RecordFacts ==
    ASSUME ChainTypeOK, Record
    PROVE  \E row \in Row : row.before = Current /\ decisions' = Append(decisions, row)
<1>1. PICK d \in Deeds : decisions' = Append(decisions,
                [type |-> d.type, actor |-> d.actor, target |-> d.target, hits |-> d.hits,
                 before |-> Current, after |-> Healed(Struck(Current, d.hits), d.heals)])
    BY DEF Record
<1> DEFINE row == [type |-> d.type, actor |-> d.actor, target |-> d.target, hits |-> d.hits,
                   before |-> Current, after |-> Healed(Struck(Current, d.hits), d.heals)]
<1>2. /\ d.type \in STRING /\ d.actor \in Uids /\ d.target \in Uids \cup {0}
      /\ d.hits \in Seq(Hits) /\ d.heals \in Seq(Heals)
    BY ChainAssumption DEF Deed
<1>3. Current \in States
    BY CurrentFacts
<1>4. Struck(Current, d.hits) \in States
    BY <1>2, <1>3, StruckFacts
<1>5. Healed(Struck(Current, d.hits), d.heals) \in States
    BY <1>2, <1>4, HealedFacts
<1>6. row \in Row /\ row.before = Current
    BY <1>2, <1>3, <1>5 DEF Row
<1>. QED BY <1>1, <1>6

LEMMA RecordStep ==
    ASSUME ChainInv, Record
    PROVE  ChainInv'
<1>1. PICK row \in Row : row.before = Current /\ decisions' = Append(decisions, row)
    BY RecordFacts DEF ChainInv
<1>2. /\ start = 0 /\ start' = 0 /\ offset' = offset /\ hp' = hp /\ modeled' = modeled
      /\ invalid' = invalid /\ samples' = samples /\ examples' = examples /\ threshold' = threshold
    BY DEF Record
<1>3. /\ decisions \in Seq(Row) /\ Len(decisions) \in Nat
      /\ decisions' \in Seq(Row) /\ Len(decisions') = Len(decisions) + 1
      /\ \A i \in 1..Len(decisions) : decisions'[i] = decisions[i]
      /\ decisions'[Len(decisions) + 1] = row
    BY <1>1, AppendProperties, LenProperties DEF ChainInv, ChainTypeOK
<1>4. offset = 0
    BY <1>2 DEF ChainInv, InWindow
<1>5. ChainTypeOK'
    BY <1>2, <1>3 DEF ChainInv, ChainTypeOK
<1>6. Chained'
    <2> SUFFICES ASSUME NEW i \in 1..(Len(decisions') - 1)
                 PROVE  decisions'[i + 1].before = decisions'[i].after
        BY DEF Chained
    <2>1. CASE i = Len(decisions)
        <3>1. decisions # << >> /\ decisions'[i] = decisions[Len(decisions)]
            BY <1>3, <2>1
        <3>2. Current = decisions'[i].after
            BY <3>1 DEF Current
        <3>. QED BY <1>1, <1>3, <2>1, <3>2
    <2>2. CASE i \in 1..(Len(decisions) - 1)
        <3>1. decisions'[i + 1] = decisions[i + 1] /\ decisions'[i] = decisions[i]
            BY <1>3, <2>2
        <3>. QED BY <2>2, <3>1 DEF ChainInv, Chained
    <2>. QED BY <1>3, <2>1, <2>2
<1>7. InWindow'
    BY <1>2, <1>4 DEF InWindow
<1>8. Follows'
    BY <1>2 DEF Follows, UntouchedAreObserved
<1>9. WindowCounted'
    BY <1>2 DEF ChainInv, WindowCounted
<1>10. SamplesCounted'
    <2> SUFFICES ASSUME NEW n \in Horizons
                 PROVE  DOMAIN samples'[n] = {} /\ MeasuredStarts(n)' = {}
        BY DEF SamplesCounted
    <2>1. n \in Nat /\ n > 0
        BY ChainAssumption
    <2>2. MeasuredStarts(n) = {}
        BY <1>2, <1>3 DEF MeasuredStarts
    <2>3. MeasuredStarts(n)' = {}
        BY <1>2, <1>3 DEF MeasuredStarts
    <2>4. {samples[n][i].start : i \in DOMAIN samples[n]} = {}
        BY <2>2 DEF ChainInv, SamplesCounted
    <2>. QED BY <1>2, <2>3, <2>4
<1>11. Fitted'
    BY <1>2 DEF ChainInv, Fitted
<1>. QED BY <1>5, <1>6, <1>7, <1>8, <1>9, <1>10, <1>11 DEF ChainInv

\* What was measured stays counted while the recording stays.
LEMMA SamplesKept ==
    ASSUME SamplesCounted, decisions' = decisions, samples' = samples,
           \A n \in Horizons : MeasuredStarts(n)' = MeasuredStarts(n)
    PROVE  SamplesCounted'
<1>1. ASSUME NEW n \in Horizons, NEW i \in DOMAIN samples[n] PROVE Counts(samples[n][i], n)'
    <2> DEFINE s == samples[n][i]
    <2>1. s' = s
        OBVIOUS
    <2>2. Counts(s, n)
        BY <1>1 DEF SamplesCounted
    <2>3. AttacksIn(s.start, n)' = AttacksIn(s.start, n)
        BY <2>1 DEF AttacksIn
    <2> HIDE DEF s
    <2>4. Counts(s, n)'
        BY <2>1, <2>2, <2>3 DEF Counts
    <2>. QED BY <2>4 DEF s
<1>2. ASSUME NEW n \in Horizons
      PROVE  /\ {samples[n][i].start : i \in DOMAIN samples[n]}' = MeasuredStarts(n)'
             /\ (\A i, j \in DOMAIN samples[n] : samples[n][i].start = samples[n][j].start => i = j)'
    BY DEF SamplesCounted
<1>3. \A n \in Horizons : (\A i \in DOMAIN samples[n] : Counts(samples[n][i], n))'
    BY <1>1
<1>. QED BY <1>2, <1>3 DEF SamplesCounted

\* A window that is over was measured at every horizon it is long enough for.
LEMMA LongEnough ==
    ASSUME ChainInv, start > 0, NEW n \in Horizons, start + n - 1 <= Len(decisions),
           offset = Available(start) \/ Available(start) < Min(Horizons)
    PROVE  n <= offset
<1>1. /\ n \in Nat /\ Len(decisions) \in Nat /\ start \in Int /\ start <= Len(decisions)
      /\ n <= Len(decisions) - start + 1
    BY ChainAssumption, PlaceFacts DEF ChainInv
<1>2. n <= Available(start) /\ Min(Horizons) <= Available(start) /\ Available(start) \in Int
    BY <1>1, AvailableFacts
<1>3. Min(Horizons) \in Int
    <2>1. Horizons \in SUBSET Int /\ Horizons # {} /\ IsFiniteSet(Horizons)
        BY ChainAssumption
    <2>. QED BY <2>1, Extremes
<1>. QED BY <1>2, <1>3

LEMMA OpenWindowStep ==
    ASSUME ChainInv, OpenWindow
    PROVE  ChainInv'
<1>1. /\ start' = start + 1 /\ offset' = 0 /\ hp' = Opened(start + 1) /\ modeled' = 0
      /\ invalid' = [p \in Policies |-> 0] /\ decisions' = decisions /\ samples' = samples
      /\ examples' = examples /\ threshold' = threshold
      /\ start < Len(decisions)
    BY DEF OpenWindow
<1>2. /\ Len(decisions) \in Nat /\ start \in Nat /\ start + 1 \in 1..Len(decisions)
      /\ decisions[start + 1].before \in States
    BY <1>1, PlaceFacts DEF ChainInv
<1>3. ChainTypeOK'
    <2>1. hp' \in [Policies -> [Uids -> Nat]]
        BY <1>1, <1>2, OpenedFacts DEF Opened
    <2>2. invalid' \in [Policies -> Nat]
        BY <1>1
    <2>. QED BY <1>1, <1>2, <2>1, <2>2 DEF ChainInv, ChainTypeOK
<1>4. Chained'
    BY <1>1 DEF ChainInv, Chained
<1>5. InWindow'
    <2>1. Available(start + 1) > 0 /\ Available(start + 1) \in Int
        BY <1>2, AvailableFacts
    <2>2. Available(start)' = Available(start + 1)
        BY <1>1 DEF Available
    <2>3. offset' <= Available(start)'
        BY <1>1, <2>1, <2>2
    <2>4. start' # 0
        BY <1>1, <1>2
    <2>. QED BY <2>3, <2>4 DEF InWindow
<1>6. Follows'
    <2>1. Opened(start)' = Opened(start + 1)
        BY <1>1 DEF Opened
    <2>2. ~(offset' > 0)
        BY <1>1
    <2>3. hp' = Opened(start)'
        BY <1>1, <2>1
    <2>. QED BY <2>2, <2>3 DEF Follows, UntouchedAreObserved
<1>7. WindowCounted'
    <2>1. AttacksIn(start, offset)' = {}
        <3>1. \A j \in (start + 1)..(start + 1 + 0 - 1) : FALSE
            BY <1>2
        <3>. QED BY <1>1, <3>1 DEF AttacksIn
    <2>2. Cardinality({}) = 0
        BY FS_EmptySet
    <2>3. modeled' = Cardinality(AttacksIn(start, offset)')
        BY <1>1, <2>1, <2>2
    <2>4. \A p \in Policies : invalid'[p] <= modeled'
        BY <1>1
    <2>. QED BY <2>3, <2>4 DEF WindowCounted
<1>8. SamplesCounted'
    <2> SUFFICES ASSUME NEW n \in Horizons
                 PROVE  MeasuredStarts(n)' = MeasuredStarts(n)
        BY <1>1, SamplesKept DEF ChainInv
    <2>1. n \in Nat /\ n > 0
        BY ChainAssumption
    <2>2. \A k \in Int : AttacksIn(k, n)' = AttacksIn(k, n)
        BY <1>1 DEF AttacksIn
    <2>3. ASSUME start > 0, start + n - 1 <= Len(decisions) PROVE n <= offset
        BY <2>3, LongEnough DEF OpenWindow
    <2>4. ASSUME NEW k \in 1..Len(decisions), k + n - 1 <= Len(decisions)
          PROVE  (k < start + 1 \/ (k = start + 1 /\ n <= 0)) <=> (k < start \/ (k = start /\ n <= offset))
        BY <1>2, <2>1, <2>3, <2>4
    <2>. QED BY <1>1, <2>2, <2>4 DEF MeasuredStarts
<1>9. Fitted'
    BY <1>1 DEF ChainInv, Fitted
<1>. QED BY <1>3, <1>4, <1>5, <1>6, <1>7, <1>8, <1>9 DEF ChainInv

-----------------------------------------------------------------------------

\* One decision of a window: what is known of the state after it.
LEMMA StepWindowFacts ==
    ASSUME ChainInv, StepWindow
    PROVE  \E generic \in BOOLEAN, sample \in Sample, row \in Row :
              /\ start > 0 /\ start + offset <= Len(decisions) /\ offset + 1 <= Available(start)
              /\ row = decisions[start + offset]
              /\ hp' \in [Policies -> [Uids -> Nat]]
              /\ \A p \in Policies : hp'[p] = Advance(p, row, hp[p], generic)
              /\ modeled' = modeled + (IF IsModeled(row) THEN 1 ELSE 0)
              /\ invalid' \in [Policies -> Nat]
              /\ \A p \in Policies : invalid'[p] <= modeled'
              /\ offset' = offset + 1
              /\ sample.start = start /\ sample.modeled = modeled' /\ sample.invalid = invalid'
              /\ samples' = IF Measured(offset + 1, modeled')
                            THEN [samples EXCEPT ![offset + 1] = Append(samples[offset + 1], sample)]
                            ELSE samples
              /\ UNCHANGED <<decisions, start, examples, threshold>>
<1> DEFINE row == decisions[start + offset]
           count == modeled + (IF IsModeled(row) THEN 1 ELSE 0)
           wrong == [p \in Policies |-> invalid[p] + (IF IsInvalid(p, row, hp[p]) THEN 1 ELSE 0)]
           moved(generic) == [p \in Policies |-> Advance(p, row, hp[p], generic)]
           sample(generic) == [start |-> start, modeled |-> count,
                         generic  |-> Distance1(moved(generic)["generic"], HpMap(row.after)),
                         ensemble |-> EnsembleError(moved(generic), HpMap(row.after)),
                         invalid  |-> wrong]
<1>1. PICK generic \in BOOLEAN :
          /\ hp' = moved(generic) /\ modeled' = count /\ invalid' = wrong /\ offset' = offset + 1
          /\ samples' = IF Measured(offset + 1, count)
                        THEN [samples EXCEPT ![offset + 1] = Append(samples[offset + 1], sample(generic))]
                        ELSE samples
    BY DEF StepWindow
<1>2. /\ start > 0 /\ offset < Available(start)
      /\ UNCHANGED <<decisions, start, examples, threshold>>
    BY DEF StepWindow
<1>3. /\ Len(decisions) \in Nat /\ start \in Nat /\ offset \in Nat /\ start <= Len(decisions)
      /\ hp \in [Policies -> [Uids -> Nat]] /\ modeled \in Nat /\ invalid \in [Policies -> Nat]
    BY PlaceFacts DEF ChainInv, ChainTypeOK
<1>4. Available(start) \in Int /\ Available(start) <= Len(decisions) - start + 1
    BY <1>3, AvailableFacts
<1>5. start + offset \in 1..Len(decisions) /\ offset + 1 <= Available(start)
    BY <1>2, <1>3, <1>4
<1>6. row \in Row /\ row.after \in States
    BY <1>5, PlaceFacts DEF ChainInv
<1> HIDE DEF row
<1>7. moved(generic) \in [Policies -> [Uids -> Nat]]
    <2>1. ASSUME NEW p \in Policies PROVE Advance(p, row, hp[p], generic) \in [Uids -> Nat]
        BY <1>3, <1>6, AdvanceFacts
    <2>. QED BY <2>1
<1>8. count \in Nat
    BY <1>3
<1>9. wrong \in [Policies -> Nat]
    BY <1>3
<1>10. \A p \in Policies : wrong[p] <= count
    <2> SUFFICES ASSUME NEW p \in Policies PROVE wrong[p] <= count
        OBVIOUS
    <2>1. invalid[p] <= modeled /\ invalid[p] \in Nat
        BY <1>3 DEF ChainInv, WindowCounted
    <2>2. IsInvalid(p, row, hp[p]) => IsModeled(row)
        BY DEF IsInvalid
    <2>. QED BY <1>3, <2>1, <2>2
<1>11. sample(generic) \in Sample
    <2>1. HpMap(row.after) \in [Uids -> Nat]
        BY <1>6, HpMapFacts
    <2>2. moved(generic)["generic"] \in [Uids -> Nat]
        BY <1>7 DEF Policies
    <2>3. /\ moved(generic)["generic"] \in [Uids -> Int]
          /\ HpMap(row.after) \in [Uids -> Int]
        BY <2>1, <2>2
    <2> HIDE DEF moved, count, wrong
    <2>4. Distance1(moved(generic)["generic"], HpMap(row.after)) \in Nat
        BY <2>3, DistanceFacts
    <2>5. EnsembleError(moved(generic), HpMap(row.after)) \in Nat
        BY <1>7, <2>1, EnsembleErrorFacts
    <2>. QED BY <1>3, <1>8, <1>9, <2>4, <2>5 DEF Sample
<1>12. /\ sample(generic).start = start /\ sample(generic).modeled = count
       /\ sample(generic).invalid = wrong
    OBVIOUS
<1>13. \A p \in Policies : moved(generic)[p] = Advance(p, row, hp[p], generic)
    OBVIOUS
<1> DEFINE s == sample(generic)
           m == moved(generic)
<1> HIDE DEF moved, wrong, sample
<1>14. /\ samples' = IF Measured(offset + 1, modeled')
                     THEN [samples EXCEPT ![offset + 1] = Append(samples[offset + 1], s)] ELSE samples
       /\ s \in Sample /\ s.start = start /\ s.modeled = modeled' /\ s.invalid = invalid'
    BY <1>1, <1>11, <1>12
<1>15. hp' = m /\ m \in [Policies -> [Uids -> Nat]]
       /\ \A p \in Policies : m[p] = Advance(p, row, hp[p], generic)
    BY <1>1, <1>7, <1>13
<1>16. /\ invalid' \in [Policies -> Nat] /\ \A p \in Policies : invalid'[p] <= modeled'
       /\ modeled' = count /\ offset' = offset + 1
    BY <1>1, <1>9, <1>10
<1>17. start + offset <= Len(decisions) /\ row = decisions[start + offset]
    BY <1>5 DEF row
<1> HIDE DEF s, m
<1>. QED BY <1>2, <1>5, <1>6, <1>14, <1>15, <1>16, <1>17

LEMMA StepWindowStep ==
    ASSUME ChainInv, StepWindow
    PROVE  ChainInv'
<1>1. PICK generic \in BOOLEAN, sample \in Sample, row \in Row :
              /\ start > 0 /\ start + offset <= Len(decisions) /\ offset + 1 <= Available(start)
              /\ row = decisions[start + offset]
              /\ hp' \in [Policies -> [Uids -> Nat]]
              /\ \A p \in Policies : hp'[p] = Advance(p, row, hp[p], generic)
              /\ modeled' = modeled + (IF IsModeled(row) THEN 1 ELSE 0)
              /\ invalid' \in [Policies -> Nat]
              /\ \A p \in Policies : invalid'[p] <= modeled'
              /\ offset' = offset + 1
              /\ sample.start = start /\ sample.modeled = modeled' /\ sample.invalid = invalid'
              /\ samples' = IF Measured(offset + 1, modeled')
                            THEN [samples EXCEPT ![offset + 1] = Append(samples[offset + 1], sample)]
                            ELSE samples
              /\ UNCHANGED <<decisions, start, examples, threshold>>
    BY StepWindowFacts
<1>2. /\ Len(decisions) \in Nat /\ start \in Nat /\ offset \in Nat /\ start <= Len(decisions)
      /\ hp \in [Policies -> [Uids -> Nat]] /\ modeled \in Nat
      /\ samples \in [Horizons -> Seq(Sample)]
      /\ start > 0 /\ start + offset <= Len(decisions)
      /\ decisions' = decisions /\ start' = start /\ offset' = offset + 1
      /\ examples' = examples /\ threshold' = threshold
    BY <1>1, PlaceFacts DEF ChainInv, ChainTypeOK
<1>3. modeled' = Cardinality(AttacksIn(start, offset + 1)) /\ modeled' \in Nat
    <2>1. modeled = Cardinality(AttacksIn(start, offset))
        BY <1>2 DEF ChainInv, WindowCounted
    <2>2. Cardinality(AttacksIn(start, offset + 1)) = Cardinality(AttacksIn(start, offset))
                      + (IF IsModeled(decisions[start + offset]) THEN 1 ELSE 0)
        <3>1. start \in Int /\ offset \in Nat
            BY <1>2
        <3>. QED BY <3>1, AttacksGrow, Zenon
    <2>3. modeled' = modeled + (IF IsModeled(decisions[start + offset]) THEN 1 ELSE 0)
        BY <1>1
    <2>4. modeled \in Nat
        BY <1>2
    <2>5. modeled' \in Nat
        BY <2>3, <2>4
    <2>. QED BY <2>1, <2>2, <2>3, <2>4, <2>5
<1>4. ASSUME NEW n \in Horizons
      PROVE  samples'[n] = IF n = offset + 1 /\ modeled' > 0
                           THEN Append(samples[n], sample) ELSE samples[n]
    BY <1>1, <1>2 DEF Measured
<1>5. samples' \in [Horizons -> Seq(Sample)]
    <2>1. CASE Measured(offset + 1, modeled')
        <3>1. Append(samples[offset + 1], sample) \in Seq(Sample)
            BY <1>2, <2>1, AppendProperties DEF Measured
        <3>. QED BY <1>1, <1>2, <2>1, <3>1
    <2>2. CASE ~Measured(offset + 1, modeled')
        BY <1>1, <1>2, <2>2
    <2>. QED BY <2>1, <2>2
<1>6. ChainTypeOK'
    BY <1>1, <1>2, <1>3, <1>5 DEF ChainInv, ChainTypeOK
<1>7. Chained'
    BY <1>2 DEF ChainInv, Chained
<1>8. InWindow'
    <2>1. Available(start)' = Available(start)
        BY <1>2 DEF Available
    <2>. QED BY <1>1, <1>2, <2>1 DEF InWindow
<1>9. Follows'
    <2> SUFFICES ASSUME NEW p \in Policies, NEW u \in Uids \ Targets'
                 PROVE  hp'[p][u] = HpEquivalent(decisions[start + offset].after[u])
        <3>1. start' + offset' - 1 = start + offset
            BY <1>2
        <3>. QED BY <1>2, <3>1 DEF Follows, UntouchedAreObserved, Uids
    <2>1. u \in Uids /\ ~(IsModeled(row) /\ u = row.target)
        <3>1. start + offset \in start'..(start' + offset' - 1)
            BY <1>2
        <3>. QED BY <1>1, <1>2, <3>1 DEF Targets
    <2>2. \A i \in start..(start + offset - 1) : IsModeled(decisions[i]) => decisions[i].target # u
        <3>1. start..(start + offset - 1) \subseteq start'..(start' + offset' - 1)
            BY <1>2
        <3>. QED BY <1>2, <3>1 DEF Targets
    <2>3. u \notin Targets
        BY <2>2 DEF Targets
    <2>4. hp[p] \in [Uids -> Nat]
        BY <1>2
    <2>5. hp[p][u] = HpEquivalent(row.before[u])
        <3>1. CASE offset = 0
            <4>1. hp[p] = HpMap(row.before)
                BY <1>1, <1>2, <3>1 DEF ChainInv, Follows, Opened
            <4>2. row.before \in States
                BY DEF Row
            <4>. QED BY <2>1, <4>1, <4>2, HpMapFacts
        <3>2. CASE offset > 0
            <4>1. hp[p][u] = HpEquivalent(decisions[start + offset - 1].after[u])
                BY <1>2, <2>1, <2>3, <3>2 DEF ChainInv, Follows, UntouchedAreObserved, Uids
            <4>2. row.before = decisions[start + offset - 1].after
                <5>1. start + offset - 1 \in 1..(Len(decisions) - 1)
                    BY <1>2, <3>2
                <5>2. (start + offset - 1) + 1 = start + offset
                    BY <1>2
                <5>. QED BY <1>1, <5>1, <5>2 DEF ChainInv, Chained
            <4>. QED BY <4>1, <4>2
        <3>. QED BY <1>2, <3>1, <3>2
    <2>6. hp'[p][u] = TeacherForced(row, hp[p])[u]
        BY <1>1, <2>1, <2>4, AdvanceFacts
    <2>. QED BY <1>1, <2>1, <2>4, <2>5, <2>6, ForcedFacts
<1>10. WindowCounted'
    <2>1. AttacksIn(start, offset)' = AttacksIn(start, offset + 1)
        BY <1>2 DEF AttacksIn
    <2>. QED BY <1>1, <1>3, <2>1 DEF WindowCounted
<1>11. SamplesCounted'
    <2>1. \A k \in Int, n \in Nat : AttacksIn(k, n)' = AttacksIn(k, n)
        BY <1>2 DEF AttacksIn
    <2>2. ASSUME NEW n \in Horizons, ~(n = offset + 1 /\ modeled' > 0)
          PROVE  MeasuredStarts(n)' = MeasuredStarts(n) /\ samples'[n] = samples[n]
        <3>1. n \in Nat /\ samples'[n] = samples[n]
            BY <1>4, <2>2, ChainAssumption
        <3>2. n = offset + 1 => AttacksIn(start, n) = {}
            <4>1. IsFiniteSet(AttacksIn(start, offset + 1))
                BY <1>2, AttacksFinite
            <4>2. n = offset + 1 => Cardinality(AttacksIn(start, offset + 1)) = 0
                BY <1>3, <2>2
            <4>. QED BY <4>1, <4>2, FS_EmptySet
        <3>3. ASSUME NEW k \in 1..Len(decisions), AttacksIn(k, n) # {}
              PROVE  (k < start \/ (k = start /\ n <= offset + 1)) <=> (k < start \/ (k = start /\ n <= offset))
            BY <1>2, <3>1, <3>2, <3>3
        <3>. QED BY <1>2, <2>1, <3>1, <3>3 DEF MeasuredStarts
    <2>3. ASSUME NEW n \in Horizons, n = offset + 1, modeled' > 0
          PROVE  /\ MeasuredStarts(n)' = MeasuredStarts(n) \cup {start}
                 /\ start \notin MeasuredStarts(n)
                 /\ samples'[n] = Append(samples[n], sample)
        <3>1. n \in Nat /\ samples'[n] = Append(samples[n], sample)
            <4>1. n \in Nat
                BY ChainAssumption
            <4>2. samples'[n] = IF n = offset + 1 /\ modeled' > 0 THEN Append(samples[n], sample) ELSE samples[n]
                BY <1>4
            <4>. QED BY <2>3, <4>1, <4>2
        <3>2. AttacksIn(start, n) # {}
            <4>1. Cardinality(AttacksIn(start, n)) # 0
                BY <1>3, <2>3
            <4>2. Cardinality({}) = 0
                BY FS_EmptySet
            <4>. QED BY <4>1, <4>2
        <3>3. start \in 1..Len(decisions) /\ start + n - 1 <= Len(decisions)
            BY <1>2, <2>3
        <3>4. \A k \in 1..Len(decisions) :
                 (k < start \/ (k = start /\ n <= offset + 1)) <=> (k < start \/ (k = start /\ n <= offset) \/ k = start)
            BY <1>2, <2>3
        <3>. QED BY <1>2, <2>1, <2>3, <3>1, <3>2, <3>3, <3>4 DEF MeasuredStarts
    <2>4. ASSUME NEW n \in Horizons
          PROVE  /\ {samples[n][i].start : i \in DOMAIN samples[n]}' = MeasuredStarts(n)'
                 /\ (\A i, j \in DOMAIN samples[n] : samples[n][i].start = samples[n][j].start => i = j)'
                 /\ (\A i \in DOMAIN samples[n] : Counts(samples[n][i], n))'
        <3>1. /\ {samples[n][i].start : i \in DOMAIN samples[n]} = MeasuredStarts(n)
              /\ \A i, j \in DOMAIN samples[n] : samples[n][i].start = samples[n][j].start => i = j
              /\ \A i \in DOMAIN samples[n] : Counts(samples[n][i], n)
            BY DEF ChainInv, SamplesCounted
        <3>2. /\ samples[n] \in Seq(Sample) /\ Len(samples[n]) \in Nat
              /\ DOMAIN samples[n] = 1..Len(samples[n])
              /\ \A i \in 1..Len(samples[n]) : samples[n][i] \in Sample
            BY <1>2, LenProperties, ElementOfSeq
        <3>3. n \in Nat
            BY ChainAssumption
        <3>4. \A s \in Sample : Counts(s, n) => Counts(s, n)'
            <4> SUFFICES ASSUME NEW s \in Sample, Counts(s, n) PROVE Counts(s, n)'
                OBVIOUS
            <4>1. s.start \in Nat
                BY DEF Sample
            <4>2. AttacksIn(s.start, n)' = AttacksIn(s.start, n)
                BY <2>1, <3>3, <4>1
            <4>. QED BY <4>2 DEF Counts
        <3>5. CASE ~(n = offset + 1 /\ modeled' > 0)
            BY <2>2, <3>1, <3>2, <3>4, <3>5
        <3>6. CASE n = offset + 1 /\ modeled' > 0
            <4> DEFINE L == Len(samples[n])
                       t == samples'[n]
            <4>1. /\ MeasuredStarts(n)' = MeasuredStarts(n) \cup {start}
                  /\ start \notin MeasuredStarts(n) /\ t = Append(samples[n], sample)
                BY <2>3, <3>6
            <4>2. /\ DOMAIN t = 1..L + 1 /\ t[L + 1] = sample
                  /\ \A i \in 1..L : t[i] = samples[n][i]
                BY <3>2, <4>1, AppendProperties
            <4>3. \A i \in DOMAIN t : i \in 1..L \/ i = L + 1
                BY <3>2, <4>2
            <4>4. sample.start = start /\ \A i \in 1..L : samples[n][i].start # start
                BY <1>1, <3>1, <3>2, <4>1
            <4>5. {t[i].start : i \in DOMAIN t} = MeasuredStarts(n)'
                <5>1. {t[i].start : i \in DOMAIN t} = {samples[n][i].start : i \in 1..L} \cup {start}
                    <6> HIDE DEF t, L
                    <6>1. 1..L \subseteq DOMAIN t /\ L + 1 \in DOMAIN t
                        BY <3>2, <4>2 DEF L
                    <6>. QED BY <4>2, <4>3, <4>4, <6>1
                <5>. QED BY <3>1, <3>2, <4>1, <5>1
            <4>6. \A i, j \in DOMAIN t : t[i].start = t[j].start => i = j
                <5> HIDE DEF t
                <5>. QED BY <3>1, <3>2, <4>2, <4>3, <4>4
            <4>7. Counts(sample, n)
                BY <1>1, <1>3, <3>6 DEF Counts
            <4>8. (\A i \in DOMAIN samples[n] : Counts(samples[n][i], n))'
                <5> SUFFICES ASSUME NEW i \in DOMAIN t PROVE Counts(samples[n][i], n)'
                    OBVIOUS
                <5>1. t[i] \in Sample /\ Counts(t[i], n)
                    BY <3>1, <3>2, <4>2, <4>3, <4>7
                <5>2. PICK s \in Sample : s = t[i] /\ Counts(s, n)
                    BY <5>1
                <5>3. Counts(s, n)'
                    BY <3>4, <5>2
                <5>. QED BY <5>2, <5>3 DEF Counts, AttacksIn
            <4>. QED BY <4>5, <4>6, <4>8
        <3>. QED BY <3>5, <3>6
    <2>. QED BY <2>4 DEF SamplesCounted
<1>12. Fitted'
    BY <1>2 DEF ChainInv, Fitted
<1>. QED BY <1>6, <1>7, <1>8, <1>9, <1>10, <1>11, <1>12 DEF ChainInv

-----------------------------------------------------------------------------

LEMMA LeastNat ==
    ASSUME NEW S \in SUBSET Nat, S # {}
    PROVE  \E x \in S : \A y \in S : x <= y
<1> DEFINE F == {0..x : x \in S}
<1>1. F # {} /\ \A T \in F : IsFiniteSet(T)
    <2>1. \A x \in S : 0 \in Int /\ x \in Int
        OBVIOUS
    <2>2. \A x \in S : IsFiniteSet(0..x)
        BY <2>1, FS_Interval
    <2>. QED BY <2>2
<1> HIDE DEF F
<1>2. PICK T \in F : \A U \in F : ~(U \subseteq T /\ U # T)
    BY <1>1, LeastFiniteSet
<1>3. PICK x \in S : T = 0..x
    BY DEF F
<1>4. ASSUME NEW y \in S, y < x PROVE FALSE
    <2>1. x \in Nat /\ y \in Nat
        OBVIOUS
    <2>2. 0..y \subseteq 0..x /\ x \in 0..x /\ x \notin 0..y
        BY <1>4, <2>1
    <2>3. 0..y \in F
        BY DEF F
    <2>. QED BY <1>2, <1>3, <2>2, <2>3
<1>. QED BY <1>4

\* What is least by two measures and then by itself exists.
LEMMA LeastByTwo ==
    ASSUME NEW C \in SUBSET Nat, C # {}, NEW a \in [C -> Nat], NEW b \in [C -> Nat]
    PROVE  \E t \in C : \A u \in C :
              \/ a[t] < a[u]
              \/ a[t] = a[u] /\ b[t] < b[u]
              \/ a[t] = a[u] /\ b[t] = b[u] /\ t <= u
<1>1. PICK m \in {a[t] : t \in C} : \A y \in {a[t] : t \in C} : m <= y
    <2> DEFINE S == {a[t] : t \in C}
    <2>1. S \in SUBSET Nat /\ S # {}
        OBVIOUS
    <2> HIDE DEF S
    <2>2. \E x \in S : \A y \in S : x <= y
        BY <2>1, LeastNat
    <2>. QED BY <2>2 DEF S
<1> DEFINE C1 == {t \in C : a[t] = m}
<1>2. PICK k \in {b[t] : t \in C1} : \A y \in {b[t] : t \in C1} : k <= y
    <2> DEFINE S == {b[t] : t \in C1}
    <2>1. S \in SUBSET Nat /\ S # {}
        BY <1>1
    <2> HIDE DEF S
    <2>2. \E x \in S : \A y \in S : x <= y
        BY <2>1, LeastNat
    <2>. QED BY <2>2 DEF S
<1> DEFINE C2 == {t \in C1 : b[t] = k}
<1>3. PICK t \in C2 : \A y \in C2 : t <= y
    <2>1. C2 \in SUBSET Nat /\ C2 # {}
        BY <1>2
    <2> HIDE DEF C2
    <2>. QED BY <2>1, LeastNat
<1>4. t \in C /\ a[t] = m /\ b[t] = k
    BY <1>3
<1>5. ASSUME NEW u \in C
      PROVE  \/ a[t] < a[u]
             \/ a[t] = a[u] /\ b[t] < b[u]
             \/ a[t] = a[u] /\ b[t] = b[u] /\ t <= u
    <2>1. a[u] \in Nat /\ b[u] \in Nat /\ m \in Nat /\ k \in Nat /\ m <= a[u]
        BY <1>1, <1>4
    <2>2. a[u] = m => k <= b[u]
        BY <1>2
    <2>3. a[u] = m /\ b[u] = k => t <= u
        BY <1>3
    <2>. QED BY <1>4, <2>1, <2>2, <2>3
<1>. QED BY <1>4, <1>5

LEMMA ErrorFacts ==
    ASSUME NEW list \in Seq(Errors), NEW t \in Int
    PROVE  /\ SelectedError(list, t) \in Nat
           /\ GenericUses(list, t) \in Nat
<1>1. /\ Len(list) \in Nat /\ DOMAIN list = 1..Len(list) /\ IsFiniteSet(DOMAIN list)
      /\ \A i \in DOMAIN list : list[i] \in Errors
    BY LenProperties, ElementOfSeq, FS_Interval
<1> DEFINE S == DOMAIN list
           f == [i \in S |-> IF ChoosesGeneric(list[i], t) THEN list[i].generic ELSE list[i].ensemble]
           U == {i \in S : ChoosesGeneric(list[i], t)}
<1>2. f \in [S -> Nat] /\ SelectedError(list, t) = Total(f)
    BY <1>1 DEF SelectedError, Errors
<1>3. U \in SUBSET S /\ GenericUses(list, t) = Cardinality(U)
    BY DEF GenericUses
<1> HIDE DEF S, f, U
<1>4. Total(f) \in Nat
    BY <1>1, <1>2, TotalFacts DEF S
<1>5. IsFiniteSet(U)
    BY <1>1, <1>3, FS_Subset DEF S
<1>. QED BY <1>2, <1>3, <1>4, <1>5, FS_CardinalityType

\* There is a j-th probability in the order of size, and the next is no less.
LEMMA RankedFacts ==
    ASSUME NEW list \in Seq(Errors), NEW j \in Int, j < Len(list)
    PROVE  /\ Ranked(list, j) \in 0..Certain
           /\ \A k \in Int : j <= k /\ k < Len(list) => Ranked(list, j) <= Ranked(list, k)
<1> DEFINE Upto(p) == {i \in DOMAIN list : list[i].p <= p}
           From(k) == {p \in 0..Certain : Cardinality(Upto(p)) > k}
<1>1. /\ Len(list) \in Nat /\ DOMAIN list = 1..Len(list) /\ Certain \in Nat
      /\ \A i \in DOMAIN list : list[i].p \in 0..Certain
    <2>1. Len(list) \in Nat /\ DOMAIN list = 1..Len(list) /\ Certain \in Nat
        BY LenProperties, CalibrationAssumption
    <2>2. \A i \in DOMAIN list : list[i] \in Errors
        BY <2>1, ElementOfSeq
    <2>. QED BY <2>1, <2>2 DEF Errors
<1>2. Cardinality(Upto(Certain)) = Len(list)
    <2>1. Upto(Certain) = 1..Len(list)
        BY <1>1
    <2>2. Cardinality(1..Len(list)) = Len(list)
        <3>1. \A n \in Nat : Cardinality(1..n) = IF 1 > n THEN 0 ELSE n - 1 + 1
            BY FS_Interval
        <3>. QED BY <1>1, <3>1
    <2> HIDE DEF Upto
    <2>. QED BY <2>1, <2>2
<1>3. \A p \in 0..Certain : Cardinality(Upto(p)) \in Nat
    <2>1. ASSUME NEW p \in 0..Certain PROVE Cardinality(Upto(p)) \in Nat
        <3>1. IsFiniteSet(DOMAIN list) /\ Upto(p) \in SUBSET DOMAIN list
            BY <1>1, FS_Interval
        <3> HIDE DEF Upto
        <3>. QED BY <3>1, FS_Subset, FS_CardinalityType
    <2>. QED BY <2>1
<1>4. \A k \in Int : Ranked(list, k) = Min(From(k))
    BY DEF Ranked
<1> HIDE DEF Upto
<1>5. ASSUME NEW k \in Int, k < Len(list)
      PROVE  Min(From(k)) \in From(k) /\ \A p \in From(k) : Min(From(k)) <= p
    <2>1. Certain \in From(k) /\ From(k) \in SUBSET Nat
        BY <1>1, <1>2, <1>5
    <2> HIDE DEF From
    <2>2. \E x \in From(k) : \A y \in From(k) : x <= y
        BY <2>1, LeastNat
    <2>. QED BY <2>2 DEF Min
<1>6. ASSUME NEW k \in Int, j <= k, k < Len(list)
      PROVE  Ranked(list, j) <= Ranked(list, k)
    <2>1. Min(From(k)) \in From(j)
        <3>1. Min(From(k)) \in From(k)
            BY <1>5, <1>6
        <3>. QED BY <1>3, <1>6, <3>1
    <2>. QED BY <1>4, <1>5, <2>1
<1>7. Ranked(list, j) \in 0..Certain
    <2>1. Min(From(j)) \in From(j)
        BY <1>5
    <2>. QED BY <1>4, <2>1
<1>. QED BY <1>6, <1>7

\* What is known of a quotient.
LEMMA Quotient ==
    ASSUME NEW a \in Nat, NEW m \in Nat \ {0}
    PROVE  /\ a \div m \in Nat /\ a % m \in 0..(m - 1)
           /\ a = m * (a \div m) + (a % m)
<1> DEFINE q == a \div m
           e == a % m
<1>1. q \in Int /\ e \in 0..(m - 1)
    OBVIOUS
<1>2. a = m * q + e
    OBVIOUS
<1> HIDE DEF q, e
<1>3. ASSUME q < 0 PROVE FALSE
    <2>1. PICK d \in Nat : q = -1 - d
        BY <1>1, <1>3, -1 - q \in Nat
    <2>2. m * q = -m - m * d /\ m * d \in Nat
        BY <2>1
    <2>. QED BY <1>1, <1>2, <2>2
<1>4. q \in Nat /\ e \in 0..(m - 1) /\ a = m * q + e
    BY <1>1, <1>2, <1>3
<1>. QED BY <1>4 DEF q, e

\* Products with the same factor are ordered as the other factors are.
LEMMA Multiples ==
    ASSUME NEW m \in Nat, NEW a \in Nat, NEW b \in Nat, a <= b
    PROVE  m * a \in Nat /\ m * b \in Nat /\ m * a <= m * b
<1>1. PICK d \in Nat : b = a + d
    BY b - a \in Nat
<1>2. m * b = m * a + m * d /\ m * a \in Nat /\ m * d \in Nat
    BY <1>1
<1>. QED BY <1>2

\* A share of a difference, rounded, is no more than the difference.
LEMMA RoundedFacts ==
    ASSUME NEW n \in Nat \ {0}, NEW part \in 0..(n - 1), NEW d \in Nat
    PROVE  Rounded(part * d, n) \in 0..d
<1> DEFINE a == part * d
           b == n * d
           q == (2 * a + n) \div (2 * n)
<1>1. a \in Nat /\ b \in Nat /\ a <= b
    BY Multiples
<1>2. q = Rounded(part * d, n)
    BY DEF Rounded
<1>3. n * (d + 1) = b + n
    OBVIOUS
<1> HIDE DEF a, b
<1>4. 2 * a + n \in Nat /\ 2 * n \in Nat \ {0}
    BY <1>1
<1>5. q \in Nat /\ (2 * n) * q <= 2 * a + n
    <2> DEFINE c == 2 * a + n
               m == 2 * n
    <2>1. c \in Nat /\ m \in Nat \ {0} /\ q = c \div m
        BY <1>4
    <2> HIDE DEF c, m, q
    <2>2. q \in Nat /\ c % m \in 0..(m - 1) /\ c = m * q + (c % m)
        BY <2>1, Quotient
    <2>3. m * q \in Nat
        BY <2>1, <2>2
    <2>. QED BY <2>1, <2>2, <2>3 DEF c, m
<1> HIDE DEF q
<1>6. ASSUME d + 1 <= q PROVE FALSE
    <2>1. n * (d + 1) <= n * q /\ n * q \in Nat
        BY <1>5, <1>6, Multiples
    <2>2. (2 * n) * q = 2 * (n * q)
        BY <1>5
    <2>. QED BY <1>1, <1>3, <1>5, <2>1, <2>2
<1>. QED BY <1>2, <1>5, <1>6

\* The places of the quantiles are places of examples.
LEMMA PlaceOfQuantile ==
    ASSUME NEW n \in Nat, NEW m \in Nat \ {0}, NEW k \in 0..m
    PROVE  LET below == (k * n) \div m  part == (k * n) % m
           IN  /\ below \in 0..n /\ part \in 0..(m - 1)
               /\ part # 0 => below < n
<1> DEFINE a == k * n
           below == a \div m
           part == a % m
<1>1. a \in Nat /\ m * n \in Nat /\ a <= m * n
    BY Multiples
<1> HIDE DEF a
<1>2. below \in Nat /\ part \in 0..(m - 1) /\ a = m * below + part
    BY <1>1, Quotient
<1> HIDE DEF below, part
<1>3. m * below \in Nat /\ m * (n + 1) = m * n + m
    BY <1>2
<1>4. ASSUME n + 1 <= below PROVE FALSE
    <2>1. m * (n + 1) <= m * below
        BY <1>2, <1>4, Multiples
    <2>. QED BY <1>1, <1>2, <1>3, <2>1
<1>5. ASSUME part # 0, below >= n PROVE FALSE
    <2>1. m * n <= m * below
        BY <1>2, <1>5, Multiples
    <2>. QED BY <1>1, <1>2, <1>3, <1>5, <2>1
<1>. QED BY <1>2, <1>4, <1>5 DEF below, part, a

\* Every candidate is a threshold, and both extremes are candidates.
LEMMA CandidateFacts ==
    ASSUME NEW list \in Seq(Errors), list # << >>
    PROVE  /\ Candidates(list) \subseteq 0..Certain
           /\ 0 \in Candidates(list) /\ Certain \in Candidates(list)
<1>1. ASSUME NEW k \in 0..Intervals PROVE Quantile(list, k) \in 0..Certain
    <2> DEFINE n     == Len(list) - 1
               below == (k * n) \div Intervals
               part  == (k * n) % Intervals
               low   == Ranked(list, below)
               high  == IF part = 0 THEN low ELSE Ranked(list, below + 1)
    <2>1. n \in Nat /\ Len(list) = n + 1
        BY LenProperties, EmptySeq
    <2> HIDE DEF n
    <2>2. /\ below \in 0..n /\ part \in 0..(Intervals - 1)
          /\ part # 0 => below < n
        BY <1>1, <2>1, CalibrationAssumption, PlaceOfQuantile
    <2>3. Quantile(list, k) = low + Rounded(part * (high - low), Intervals)
        BY DEF Quantile, n
    <2> HIDE DEF below, part
    <2>4. low \in 0..Certain /\ high \in 0..Certain /\ low <= high
        BY <2>1, <2>2, RankedFacts, CalibrationAssumption
    <2> HIDE DEF low, high
    <2>5. high - low \in Nat
        BY <2>4, CalibrationAssumption
    <2>6. Rounded(part * (high - low), Intervals) \in 0..(high - low)
        BY <2>2, <2>5, RoundedFacts, CalibrationAssumption
    <2>. QED BY <2>3, <2>4, <2>6, CalibrationAssumption
<1>. QED BY <1>1, CalibrationAssumption DEF Candidates

\* The threshold that is chosen is a candidate and the best of them.
LEMMA ChosenIsBest ==
    ASSUME NEW list \in Seq(Errors), list # << >>
    PROVE  /\ ChooseThreshold(list) \in 0..Certain
           /\ \A u \in Candidates(list) :
                 SelectedError(list, ChooseThreshold(list)) <= SelectedError(list, u)
<1> DEFINE C == Candidates(list)
           a == [t \in C |-> SelectedError(list, t)]
           b == [t \in C |-> GenericUses(list, t)]
           Best(t, u) == \/ SelectedError(list, t) < SelectedError(list, u)
                         \/ /\ SelectedError(list, t) = SelectedError(list, u)
                            /\ GenericUses(list, t) < GenericUses(list, u)
                         \/ /\ SelectedError(list, t) = SelectedError(list, u)
                            /\ GenericUses(list, t) = GenericUses(list, u)
                            /\ t <= u
<1>1. C \in SUBSET Nat /\ C # {} /\ C \subseteq 0..Certain
    BY CandidateFacts, CalibrationAssumption
<1>2. \A t \in C : SelectedError(list, t) \in Nat /\ GenericUses(list, t) \in Nat
    BY <1>1, ErrorFacts
<1>3. a \in [C -> Nat] /\ b \in [C -> Nat]
    BY <1>2
<1>4. \E t \in C : \A u \in C : Best(t, u)
    <2>1. \A t \in C : a[t] = SelectedError(list, t) /\ b[t] = GenericUses(list, t)
        OBVIOUS
    <2> HIDE DEF C, a, b
    <2>2. PICK t \in C : \A u \in C :
              \/ a[t] < a[u]
              \/ a[t] = a[u] /\ b[t] < b[u]
              \/ a[t] = a[u] /\ b[t] = b[u] /\ t <= u
        BY <1>1, <1>3, LeastByTwo
    <2>. QED BY <2>1, <2>2
<1>5. ChooseThreshold(list) = CHOOSE t \in C : \A u \in C : Best(t, u)
    BY DEF ChooseThreshold
<1> DEFINE r == ChooseThreshold(list)
<1> HIDE DEF C
<1>6. r \in C /\ \A u \in C : Best(r, u)
    BY <1>4, <1>5
<1>7. ASSUME NEW u \in C PROVE SelectedError(list, r) <= SelectedError(list, u)
    <2>1. Best(r, u) /\ SelectedError(list, r) \in Nat /\ SelectedError(list, u) \in Nat
        BY <1>2, <1>6
    <2>. QED BY <2>1
<1>. QED BY <1>1, <1>6, <1>7 DEF C

\* Two candidates are the policies without a selector.
LEMMA ExtremeThresholds ==
    ASSUME NEW list \in Seq(Errors)
    PROVE  /\ SelectedError(list, 0) = GenericError(list)
           /\ (\A i \in DOMAIN list : list[i].p < Certain)
                 => SelectedError(list, Certain) = LearnedError(list)
<1>1. \A i \in DOMAIN list : list[i].p \in Nat
    <2>1. \A i \in DOMAIN list : list[i] \in Errors
        BY LenProperties, ElementOfSeq
    <2>. QED BY <2>1, CalibrationAssumption DEF Errors
<1>2. SelectedError(list, 0) = GenericError(list)
    BY <1>1 DEF SelectedError, GenericError, ChoosesGeneric
<1>3. ASSUME \A i \in DOMAIN list : list[i].p < Certain
      PROVE  SelectedError(list, Certain) = LearnedError(list)
    <2>1. \A i \in DOMAIN list : ~(list[i].p >= Certain)
        BY <1>1, <1>3, CalibrationAssumption
    <2>. QED BY <2>1 DEF SelectedError, LearnedError, ChoosesGeneric
<1>. QED BY <1>2, <1>3

LEMMA NoWorseThanEither ==
    ASSUME NEW list \in Seq(Errors), list # << >>, NEW t, t = ChooseThreshold(list)
    PROVE  /\ SelectedError(list, t) <= GenericError(list)
           /\ (\A i \in DOMAIN list : list[i].p < Certain)
                 => SelectedError(list, t) <= LearnedError(list)
<1>1. 0 \in Candidates(list) /\ Certain \in Candidates(list)
    BY CandidateFacts
<1>2. \A u \in Candidates(list) : SelectedError(list, t) <= SelectedError(list, u)
    BY ChosenIsBest
<1>. QED BY <1>1, <1>2, ExtremeThresholds

-----------------------------------------------------------------------------

LEMMA OneStepFacts ==
    ASSUME NEW row \in Row, Attack(row), NEW q \in Probabilities
    PROVE  OneStep(row, q) \in Errors
<1> DEFINE h == HpMap(row.before)
<1>1. h \in [Uids -> Nat] /\ q \in 0..Certain /\ ObservedDamage(row) \in Int
    BY HpMapFacts, ObservedFacts, ChainAssumption DEF Row
<1> HIDE DEF h
<1>2. PrimaryDamage("generic", row, h, TRUE) \in Int /\ PrimaryDamage("mean", row, h, FALSE) \in Int
    BY <1>1, PrimaryFacts DEF Policies
<1>3. /\ Far(PrimaryDamage("generic", row, h, TRUE), ObservedDamage(row)) \in Nat
      /\ Far(PrimaryDamage("mean", row, h, FALSE), ObservedDamage(row)) \in Nat
    BY <1>1, <1>2, FarFacts
<1>. QED BY <1>1, <1>3 DEF OneStep, Errors, h

LEMMA CalibrateStep ==
    ASSUME ChainInv, Calibrate
    PROVE  ChainInv'
<1>1. /\ decisions' = decisions /\ start' = start /\ offset' = offset /\ hp' = hp
      /\ modeled' = modeled /\ invalid' = invalid /\ samples' = samples
      /\ threshold' = ChooseThreshold(examples')
    BY DEF Calibrate
<1>2. examples' \in Seq(Errors) /\ examples' # << >>
    <2> DEFINE rows == Attacks(decisions)
    <2>1. PICK ps \in [DOMAIN rows -> Probabilities] :
              examples' = [i \in DOMAIN ps |-> OneStep(rows[i], ps[i])]
        BY DEF Calibrate
    <2>2. rows \in Seq(ModeledRow)
        BY AttacksFacts DEF ChainInv, ChainTypeOK
    <2> HIDE DEF rows
    <2>3. Len(rows) \in Nat /\ DOMAIN rows = 1..Len(rows) /\ \A i \in DOMAIN rows : rows[i] \in ModeledRow
        BY <2>2, LenProperties, ElementOfSeq
    <2>4. \A i \in DOMAIN rows : OneStep(rows[i], ps[i]) \in Errors
        BY <2>1, <2>3, OneStepFacts DEF ModeledRow, IsModeled
    <2>5. examples' \in [1..Len(rows) -> Errors]
        BY <2>1, <2>3, <2>4
    <2>6. examples' \in Seq(Errors) /\ Len(examples') = Len(rows)
        BY <2>3, <2>5
    <2>7. Len(rows) # 0
        BY <2>2, EmptySeq DEF Calibrate, rows
    <2>. QED BY <2>6, <2>7
<1>3. threshold' \in 0..Certain
    BY <1>1, <1>2, ChosenIsBest
<1>4. ChainTypeOK'
    BY <1>1, <1>2, <1>3 DEF ChainInv, ChainTypeOK
<1>5. Chained' /\ InWindow'
    BY <1>1 DEF ChainInv, Chained, InWindow, Available
<1>6. Follows'
    BY <1>1 DEF ChainInv, Follows, Opened, UntouchedAreObserved, Targets
<1>7. WindowCounted'
    BY <1>1 DEF ChainInv, WindowCounted, AttacksIn
<1>8. SamplesCounted'
    <2>1. \A n \in Horizons : MeasuredStarts(n)' = MeasuredStarts(n)
        BY <1>1 DEF MeasuredStarts, AttacksIn
    <2>. QED BY <1>1, <2>1, SamplesKept DEF ChainInv
<1>9. Fitted'
    BY <1>1, <1>2 DEF Fitted
<1>. QED BY <1>4, <1>5, <1>6, <1>7, <1>8, <1>9 DEF ChainInv

LEMMA UnchangedStep ==
    ASSUME ChainInv, UNCHANGED vars
    PROVE  ChainInv'
<1>1. /\ decisions' = decisions /\ start' = start /\ offset' = offset /\ hp' = hp
      /\ modeled' = modeled /\ invalid' = invalid /\ samples' = samples
      /\ examples' = examples /\ threshold' = threshold
    BY DEF vars
<1>2. ChainTypeOK' /\ Chained' /\ InWindow'
    BY <1>1 DEF ChainInv, ChainTypeOK, Chained, InWindow, Available
<1>3. Follows'
    BY <1>1 DEF ChainInv, Follows, Opened, UntouchedAreObserved, Targets
<1>4. WindowCounted'
    BY <1>1 DEF ChainInv, WindowCounted, AttacksIn
<1>5. SamplesCounted'
    <2>1. \A n \in Horizons : MeasuredStarts(n)' = MeasuredStarts(n)
        BY <1>1 DEF MeasuredStarts, AttacksIn
    <2>. QED BY <1>1, <2>1, SamplesKept DEF ChainInv
<1>6. Fitted'
    BY <1>1 DEF ChainInv, Fitted
<1>. QED BY <1>2, <1>3, <1>4, <1>5, <1>6 DEF ChainInv

\* The invariant of the evaluation: types, a recording without gaps, policies that leave
\* it at the targets of attacks only, and windows that are counted once.
THEOREM ChainInvariant == Spec => []ChainInv
<1>1. Init => ChainInv
    BY ChainInit
<1>2. ChainInv /\ [Next]_vars => ChainInv'
    BY RecordStep, OpenWindowStep, StepWindowStep, CalibrateStep, UnchangedStep DEF Next
<1>. QED BY <1>1, <1>2, PTL DEF Spec

\* Every stack that no attack of the window was aimed at has the recorded hit points.
THEOREM OthersFollowTheRecording == Spec => []UntouchedAreObserved
<1>1. ChainInv => UntouchedAreObserved
    BY DEF ChainInv, Follows
<1>. QED BY <1>1, ChainInvariant, PTL

\* Every horizon is measured once for every window with an attack that is long enough.
THEOREM WindowsAreCountedOnce == Spec => []WindowsAreCounted
<1>1. ChainInv => WindowsAreCounted
    <2> SUFFICES ASSUME ChainInv, Done PROVE WindowsAreCounted
        BY DEF WindowsAreCounted
    <2>1. ASSUME NEW n \in Horizons
          PROVE  MeasuredStarts(n) = {k \in 1..Len(decisions) : k + n - 1 <= Len(decisions)
                                                                /\ AttacksIn(k, n) # {}}
        <3>1. /\ n \in Nat /\ Len(decisions) \in Nat /\ offset \in Nat
              /\ start = Len(decisions) /\ start > 0
            BY ChainAssumption, PlaceFacts DEF ChainInv, Done
        <3>2. ASSUME start + n - 1 <= Len(decisions) PROVE n <= offset
            BY <3>1, <3>2, LongEnough DEF Done
        <3>3. \A k \in 1..Len(decisions) : k + n - 1 <= Len(decisions)
                 => (k < start \/ (k = start /\ n <= offset))
            BY <3>1, <3>2
        <3>. QED BY <3>3 DEF MeasuredStarts
    <2>2. ASSUME NEW n \in Horizons
          PROVE  /\ {samples[n][i].start : i \in DOMAIN samples[n]} = MeasuredStarts(n)
                 /\ \A i, j \in DOMAIN samples[n] : samples[n][i].start = samples[n][j].start => i = j
                 /\ \A i \in DOMAIN samples[n] : Counts(samples[n][i], n)
        BY DEF ChainInv, SamplesCounted
    <2>. QED BY <2>1, <2>2 DEF WindowsAreCounted, Counts, AttacksIn
<1>. QED BY <1>1, ChainInvariant, PTL

\* The fitted threshold is no worse on its examples than the two policies without a
\* selector.  (It is not claimed to be the best threshold: only quantiles are tried.)
THEOREM FittedThresholdIsNoWorse == Spec => []CalibratedIsNoWorse
<1>1. ChainInv => CalibratedIsNoWorse
    <2> SUFFICES ASSUME ChainInv, threshold # NoThreshold PROVE CalibratedIsNoWorse
        BY DEF CalibratedIsNoWorse
    <2>1. examples \in Seq(Errors) /\ examples # << >> /\ threshold = ChooseThreshold(examples)
        BY DEF ChainInv, ChainTypeOK, Fitted
    <2>. QED BY <2>1, NoWorseThanEither DEF CalibratedIsNoWorse
<1>. QED BY <1>1, ChainInvariant, PTL

\* A policy on the recording that predicts what was observed stays on the recording.
THEOREM RightPredictionsStay == Spec => RightPredictionsAgree
<1> DEFINE On(p) == /\ IsModeled(decisions[start + offset])
                          => PrimaryDamage(p, decisions[start + offset], hp[p], FALSE)
                                 = ObservedDamage(decisions[start + offset])
                    /\ hp[p] = HpMap(decisions[start + offset].before)
           Stays(p) == On(p) => hp'[p] = HpMap(decisions[start + offset].after)
           Agree == (start > 0 /\ start' = start /\ offset' > offset)
                       => \A p \in Members \cup {"generic"} : Stays(p)
<1>1. ASSUME ChainInv, [Next]_vars PROVE Agree
    <2> SUFFICES ASSUME start > 0, start' = start, offset' > offset,
                        NEW p \in Members \cup {"generic"}, On(p)
                 PROVE  hp'[p] = HpMap(decisions[start + offset].after)
        OBVIOUS
    <2>1. StepWindow
        <3>1. start \in Nat /\ offset \in Nat
            BY <1>1, PlaceFacts DEF ChainInv
        <3>2. ~Record /\ ~OpenWindow /\ ~Calibrate /\ ~UNCHANGED vars
            BY <3>1 DEF Record, OpenWindow, Calibrate, vars
        <3>. QED BY <1>1, <3>2 DEF Next
    <2>2. PICK generic \in BOOLEAN, row \in Row :
              /\ row = decisions[start + offset]
              /\ \A q \in Policies : hp'[q] = Advance(q, row, hp[q], generic)
        BY <1>1, <2>1, StepWindowFacts
    <2>3. p \in Policies /\ hp[p] \in [Uids -> Nat] /\ row.before \in States /\ row.after \in States
        BY <1>1 DEF ChainInv, ChainTypeOK, Policies, Row
    <2>4. IsModeled(row) => PrimaryDamage(p, row, hp[p], generic) = ObservedDamage(row)
        <3>1. PrimaryDamage(p, row, hp[p], generic) = PrimaryDamage(p, row, hp[p], FALSE)
            BY ChainAssumption DEF PrimaryDamage
        <3>. QED BY <2>2, <3>1
    <2>5. \A u \in Uids : hp[p][u] = HpEquivalent(row.before[u])
        BY <2>2, <2>3, HpMapFacts
    <2> DEFINE moved == Advance(p, row, hp[p], generic)
    <2>6. moved \in [Uids -> Nat] /\ \A u \in Uids : moved[u] = TeacherForced(row, hp[p])[u]
        BY <2>3, <2>4, AdvanceFacts
    <2>7. \A u \in Uids : TeacherForced(row, hp[p])[u] = HpEquivalent(row.after[u])
        BY <2>3, <2>5, ForcedFacts
    <2>8. HpMap(row.after) \in [Uids -> Nat] /\ \A u \in Uids : HpMap(row.after)[u] = HpEquivalent(row.after[u])
        BY <2>3, HpMapFacts
    <2>9. moved = HpMap(row.after)
        <3> HIDE DEF moved
        <3>. QED BY <2>6, <2>7, <2>8
    <2>. QED BY <2>2, <2>3, <2>9
<1>2. Agree <=> ((start > 0 /\ start' = start /\ offset' > offset) =>
        LET row == decisions[start + offset]
        IN  \A p \in Members \cup {"generic"} :
                /\ IsModeled(row) => PrimaryDamage(p, row, hp[p], FALSE) = ObservedDamage(row)
                /\ hp[p] = HpMap(row.before)
                => hp'[p] = HpMap(row.after))
    OBVIOUS
<1> HIDE DEF Agree
<1>. QED BY <1>1, <1>2, ChainInvariant, PTL DEF Spec, RightPredictionsAgree
=============================================================================
