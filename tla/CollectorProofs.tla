-------------------------- MODULE CollectorProofs --------------------------
(***************************************************************************)
(* Proofs about Collector, for every list of links and any number of runs  *)
(* that stop anywhere: what a metadata file says and what the summary of a *)
(* run counts.                                                             *)
(*                                                                         *)
(* A recursive function is shown to exist by induction over a finite       *)
(* interval, which is drawn from the well-founded order of finite sets     *)
(* under inclusion: no library theorem with an operator parameter is used. *)
(***************************************************************************)
EXTENDS Collector, FiniteSetTheorems, SequenceTheorems, WellFoundedInduction, TLAPS

\* A non-empty family of finite sets has a member with no smaller one in it.
LEMMA LeastFiniteSet ==
    ASSUME NEW F, F # {}, \A T \in F : IsFiniteSet(T)
    PROVE  \E T \in F : \A U \in F : ~(U \subseteq T /\ U # T)
<1> DEFINE S == UNION F
<1>1. IsWellFoundedOn(StrictSubsetOrdering(S), FiniteSubsetsOf(S))
    BY FS_StrictSubsetOrderingWellFounded
<1>2. F \subseteq FiniteSubsetsOf(S)
    BY DEF FiniteSubsetsOf
<1>3. PICK T \in F : \A U \in F : ~(<<U, T>> \in StrictSubsetOrdering(S))
    <2> HIDE DEF S
    <2>. QED BY <1>1, <1>2, WFMin
<1>4. ASSUME NEW U \in F, U \subseteq T, U # T PROVE FALSE
    BY <1>3, <1>4 DEF StrictSubsetOrdering
<1>. QED BY <1>4

\* Induction from 0 to n.
LEMMA Induct ==
    ASSUME NEW n \in Nat, NEW S, 0 \in S,
           \A i \in 0..(n - 1) : i \in S => i + 1 \in S
    PROVE  \A i \in 0..n : i \in S
<1> SUFFICES ASSUME NEW k \in 0..n, k \notin S PROVE FALSE
    OBVIOUS
<1> DEFINE F == {0..i : i \in (0..n) \ S}
<1>1. F # {} /\ \A T \in F : IsFiniteSet(T)
    BY FS_Interval
<1> HIDE DEF F
<1>2. PICK T \in F : \A U \in F : ~(U \subseteq T /\ U # T)
    BY <1>1, LeastFiniteSet
<1> USE DEF F
<1>3. PICK i \in (0..n) \ S : T = 0..i
    BY <1>2
<1>4. i # 0 /\ i - 1 \in (0..n) \ S
    BY <1>3
<1>5. /\ 0..(i - 1) \in F /\ 0..(i - 1) \subseteq 0..i
      /\ i \in 0..i /\ i \notin 0..(i - 1)
    BY <1>3, <1>4
<1>. QED BY <1>2, <1>3, <1>5

\* f begins with x0 and goes by "step" from each index to the next, up to n.
Recurs(f, n, X, x0, step) ==
    /\ f \in [0..n -> X]
    /\ f[0] = x0
    /\ \A i \in 1..n : f[i] = step[<<f[i - 1], i>>]

\* What a start and a step define exists.
LEMMA Recursion ==
    ASSUME NEW n \in Nat, NEW X, NEW x0 \in X,
           NEW step \in [X \X (1..n) -> X]
    PROVE  \E f : Recurs(f, n, X, x0, step)
<1> DEFINE S == {k \in 0..n : \E f \in [0..k -> X] :
                     f[0] = x0 /\ \A i \in 1..k : f[i] = step[<<f[i - 1], i>>]}
<1>1. 0 \in S
    <2> DEFINE f == [i \in 0..0 |-> x0]
    <2>1. f \in [0..0 -> X] /\ f[0] = x0 /\ \A i \in 1..0 : FALSE
        OBVIOUS
    <2> HIDE DEF f
    <2>2. \A i \in 1..0 : f[i] = step[<<f[i - 1], i>>]
        BY <2>1
    <2>. QED BY <2>1, <2>2
<1>2. ASSUME NEW k \in 0..(n - 1), k \in S PROVE k + 1 \in S
    <2>1. PICK f \in [0..k -> X] :
              f[0] = x0 /\ \A i \in 1..k : f[i] = step[<<f[i - 1], i>>]
        BY <1>2
    <2> DEFINE e == step[<<f[k], k + 1>>]
               g == [i \in 0..(k + 1) |-> IF i = k + 1 THEN e ELSE f[i]]
    <2>2. e \in X
        <3>1. f[k] \in X /\ k + 1 \in 1..n
            BY <2>1
        <3>. QED BY <3>1
    <2> HIDE DEF e
    <2>3. g \in [0..(k + 1) -> X]
        BY <2>1, <2>2
    <2>4. g[k + 1] = e /\ \A i \in 0..k : g[i] = f[i]
        OBVIOUS
    <2> HIDE DEF g
    <2>5. g[0] = x0
        BY <2>1, <2>4
    <2>6. ASSUME NEW i \in 1..(k + 1) PROVE g[i] = step[<<g[i - 1], i>>]
        <3>1. CASE i = k + 1
            BY <2>4, <3>1 DEF e
        <3>2. CASE i \in 1..k
            BY <2>1, <2>4, <3>2
        <3>. QED BY <3>1, <3>2
    <2>7. k + 1 \in 0..n
        OBVIOUS
    <2>. QED BY <2>3, <2>5, <2>6, <2>7
<1> HIDE DEF S
<1>3. n \in S
    BY <1>1, <1>2, Induct
<1>. QED BY <1>3 DEF S, Recurs

-----------------------------------------------------------------------------

\* No battle twice.
Distinct(list) ==
    \A i, j \in 1..Len(list) : list[i].battle = list[j].battle => i = j

\* Adding a link adds at most its battle and no battle twice.
LEMMA AddedFacts ==
    ASSUME NEW list \in Seq(Links), NEW url \in Links
    PROVE  /\ Added(list, url) \in Seq(Links)
           /\ Distinct(list) => Distinct(Added(list, url))
<1>1. CASE \E k \in 1..Len(list) : list[k].battle = url.battle
    BY <1>1 DEF Added
<1>2. CASE ~ \E k \in 1..Len(list) : list[k].battle = url.battle
    <2>1. Added(list, url) = Append(list, url)
        BY <1>2 DEF Added
    <2>2. /\ Append(list, url) \in Seq(Links)
          /\ Len(Append(list, url)) = Len(list) + 1 /\ Len(list) \in Nat
          /\ \A i \in 1..Len(list) : Append(list, url)[i] = list[i]
          /\ Append(list, url)[Len(list) + 1] = url
        BY AppendProperties, LenProperties
    <2>3. \A i \in 1..Len(list) + 1 : i \in 1..Len(list) \/ i = Len(list) + 1
        BY <2>2
    <2>4. Distinct(list) => Distinct(Append(list, url))
        BY <1>2, <2>2, <2>3 DEF Distinct
    <2>. QED BY <2>1, <2>2, <2>4
<1>. QED BY <1>1, <1>2

\* The list of links, as the recursion that reads it.
LEMMA LoadUrlsFacts ==
    LoadUrls(Urls) \in Seq(Links) /\ Distinct(LoadUrls(Urls))
<1> DEFINE n == Len(Urls)
           X == {list \in Seq(Links) : Distinct(list)}
           step == [p \in X \X (1..n) |-> Added(p[1], Urls[p[2]])]
           load == CHOOSE f : f = [i \in 0..n |-> IF i = 0 THEN << >>
                                                 ELSE Added(f[i - 1], Urls[i])]
<1>1. n \in Nat /\ Urls \in Seq(Links)
    BY CollectorAssumption, LenProperties
<1>2. << >> \in X
    BY DEF Distinct
<1>3. step \in [X \X (1..n) -> X]
    <2>1. ASSUME NEW list \in X, NEW i \in 1..n PROVE Added(list, Urls[i]) \in X
        <3>1. Urls[i] \in Links
            BY <1>1, ElementOfSeq
        <3>. QED BY <3>1, AddedFacts
    <2> HIDE DEF X
    <2>. QED BY <2>1
<1>4. \A list \in X, i \in 1..n : step[<<list, i>>] = Added(list, Urls[i])
    <2> HIDE DEF X
    <2>. QED OBVIOUS
<1>5. PICK f \in [0..n -> X] :
          f[0] = << >> /\ \A i \in 1..n : f[i] = step[<<f[i - 1], i>>]
    <2> DEFINE x0 == << >>
    <2>1. n \in Nat /\ x0 \in X /\ step \in [X \X (1..n) -> X]
        BY <1>1, <1>2, <1>3
    <2> HIDE DEF n, X, step, load, x0
    <2>2. \E f : Recurs(f, n, X, x0, step)
        BY <2>1, Recursion
    <2>. QED BY <2>2 DEF x0, Recurs
<1>6. f = [i \in 0..n |-> IF i = 0 THEN << >> ELSE Added(f[i - 1], Urls[i])]
    <2> HIDE DEF X, step
    <2>1. \A i \in 1..n : f[i] = Added(f[i - 1], Urls[i])
        BY <1>1, <1>4, <1>5
    <2>2. f = [i \in 0..n |-> f[i]]
        BY <1>5
    <2>. QED BY <1>1, <1>5, <2>1, <2>2
<1>7. load = [i \in 0..n |-> IF i = 0 THEN << >> ELSE Added(load[i - 1], Urls[i])]
    BY <1>6
<1>8. \A i \in 0..n : load[i] \in X
    <2> DEFINE S == {i \in 0..n : load[i] \in X}
    <2> HIDE DEF load, X
    <2>1. load[0] = << >> /\ \A i \in 1..n : load[i] = Added(load[i - 1], Urls[i])
        BY <1>1, <1>7
    <2>2. 0 \in S
        BY <1>1, <1>2, <2>1
    <2>3. ASSUME NEW i \in 0..(n - 1), i \in S PROVE i + 1 \in S
        <3>1. i + 1 \in 1..n /\ i + 1 - 1 = i /\ load[i] \in X
            BY <1>1, <2>3
        <3>2. load[i + 1] = step[<<load[i], i + 1>>]
            BY <1>4, <2>1, <3>1
        <3>3. load[i + 1] \in X
            BY <1>3, <3>1, <3>2
        <3>. QED BY <3>1, <3>3
    <2> HIDE DEF S
    <2>4. \A i \in 0..n : i \in S
        BY <1>1, <2>2, <2>3, Induct
    <2>. QED BY <2>4 DEF S
<1>9. LoadUrls(Urls) = load[n]
    BY DEF LoadUrls
<1>. QED BY <1>1, <1>8, <1>9

-----------------------------------------------------------------------------

FileKinds == {"none", "cut", "whole"}
MetaKinds == {"none", "cut", "ok", "error"}

Running == phase \in {"next", "fetch", "write", "describe", "done"}
AtBattle == phase \in {"fetch", "write", "describe"}

\* The places up to n whose battle has no payload, and those whose battle has.
Missing(n) == {i \in 1..n : data[rows[i].battle] = "none"}
Present(n) == {i \in 1..n : data[rows[i].battle] # "none"}

CollectorTypeOK ==
    /\ data \in [AllBattles -> FileKinds] /\ meta \in [AllBattles -> MetaKinds]
    /\ rows \in Seq(Links) /\ Distinct(rows)
    /\ place \in 1..Len(rows) + 1
    /\ phase \in {"idle", "next", "fetch", "write", "describe", "done"}
    /\ status \in {"none", "ok", "error"}
    /\ ok \in Nat /\ failed \in Nat /\ skipped \in Nat

\* What is known of the battle the run is at.
AtPlace ==
    /\ AtBattle => place <= Len(rows)
    /\ phase \in {"fetch", "write"} => data[Battle] = "none"
    /\ phase = "describe" => \/ status = "ok" /\ data[Battle] = "whole"
                             \/ status = "error" /\ data[Battle] = "none"
    /\ phase = "done" => place = Len(rows) + 1

\* The counters are those of the places behind, and of the one the run is at
\* when its metadata is all that is left to write.
Counted ==
    Running =>
        /\ ok = Cardinality(Present(place - 1))
                 + (IF phase = "describe" /\ status = "ok" THEN 1 ELSE 0)
        /\ failed = Cardinality(Missing(place - 1))
                     + (IF phase = "describe" /\ status = "error" THEN 1 ELSE 0)
        /\ skipped <= ok
        /\ \A i \in Missing(place - 1) : meta[rows[i].battle] = "error"

CollectorInv == CollectorTypeOK /\ AtPlace /\ Counted /\ DescribedIsWhole

-----------------------------------------------------------------------------

\* Before the first run nothing is on disk and nothing counted.
LEMMA CollectorInvInit == Init => CollectorInv
<1> SUFFICES ASSUME Init PROVE CollectorInv
    OBVIOUS
<1>1. << >> \in Seq(Links) /\ Len(<< >>) = 0 /\ Distinct(<< >>)
    BY DEF Distinct
<1>. QED BY <1>1
         DEF Init, CollectorInv, CollectorTypeOK, AtPlace, Counted, Running,
             AtBattle, DescribedIsWhole, FileKinds, MetaKinds

\* A limited list is a part of the list.
LEMMA LimitedFacts ==
    ASSUME NEW list \in Seq(Links), Distinct(list), NEW n \in Nat
    PROVE  Limited(list, n) \in Seq(Links) /\ Distinct(Limited(list, n))
<1>1. Len(list) \in Nat
    BY LenProperties
<1>2. CASE n = 0 \/ n > Len(list)
    BY <1>2 DEF Limited
<1>3. CASE ~(n = 0 \/ n > Len(list))
    <2>1. Limited(list, n) = SubSeq(list, 1, n)
        BY <1>3 DEF Limited
    <2>2. \A i \in 1..n : list[i] \in Links
        BY <1>1, <1>3, ElementOfSeq
    <2>3. /\ SubSeq(list, 1, n) \in Seq(Links)
          /\ Len(SubSeq(list, 1, n)) = n
          /\ \A i \in 1..n : SubSeq(list, 1, n)[i] = list[i]
        <3>1. /\ SubSeq(list, 1, n) \in Seq(Links)
              /\ Len(SubSeq(list, 1, n)) = IF 1 <= n THEN n - 1 + 1 ELSE 0
              /\ \A i \in 1..(n - 1 + 1) : SubSeq(list, 1, n)[i] = list[1 + i - 1]
            BY <1>1, <2>2, SubSeqProperties
        <3>. QED BY <1>3, <3>1
    <2>4. \A i \in 1..n : i \in 1..Len(list)
        BY <1>1, <1>3
    <2>. QED BY <2>1, <2>3, <2>4 DEF Distinct
<1>. QED BY <1>2, <1>3

\* The links of a run are links to battles.
LEMMA RowFacts ==
    ASSUME CollectorTypeOK
    PROVE  /\ Len(rows) \in Nat /\ place \in Nat \ {0} /\ place - 1 \in Nat
           /\ \A i \in 1..Len(rows) : rows[i].battle \in AllBattles
           /\ place <= Len(rows) => place \in 1..Len(rows) /\ Battle \in AllBattles
           /\ place <= Len(rows) => \A i \in 1..place - 1 : rows[i].battle # Battle
<1>1. rows \in Seq(Links) /\ Len(rows) \in Nat /\ place \in Nat \ {0}
    BY LenProperties DEF CollectorTypeOK
<1>2. \A i \in 1..Len(rows) : rows[i] \in Links
    BY <1>1, ElementOfSeq
<1>3. \A i \in 1..Len(rows) : rows[i].battle \in AllBattles
    BY <1>2 DEF Links
<1>4. ASSUME place <= Len(rows), NEW i \in 1..place - 1
      PROVE  rows[i].battle # rows[place].battle
    <2>1. i \in 1..Len(rows) /\ place \in 1..Len(rows) /\ i # place
        BY <1>1, <1>4
    <2>. QED BY <2>1 DEF CollectorTypeOK, Distinct
<1>. QED BY <1>1, <1>3, <1>4 DEF Battle

\* Counting the place the run is at.
LEMMA PlaceCounted ==
    ASSUME CollectorTypeOK, place <= Len(rows)
    PROVE  /\ Cardinality(Missing(place - 1)) \in Nat
           /\ Cardinality(Present(place - 1)) \in Nat
           /\ data[Battle] = "none" =>
                 /\ Cardinality(Missing(place)) = Cardinality(Missing(place - 1)) + 1
                 /\ Present(place) = Present(place - 1)
                 /\ Missing(place) \subseteq Missing(place - 1) \cup {place}
           /\ data[Battle] # "none" =>
                 /\ Cardinality(Present(place)) = Cardinality(Present(place - 1)) + 1
                 /\ Missing(place) = Missing(place - 1)
<1> DEFINE A == Missing(place - 1)
           B == Missing(place)
           C == Present(place - 1)
           D == Present(place)
<1>1. place - 1 \in Nat /\ place = (place - 1) + 1 /\ place \in Nat
    BY RowFacts
<1>2. IsFiniteSet(A) /\ IsFiniteSet(C)
    <2>1. IsFiniteSet(1..(place - 1))
        BY <1>1, FS_Interval
    <2>2. A \in SUBSET (1..(place - 1)) /\ C \in SUBSET (1..(place - 1))
        BY DEF Missing, Present
    <2>. QED BY <2>1, <2>2, FS_Subset
<1>3. \A i : i \in 1..place <=> i \in 1..(place - 1) \/ i = place
    BY <1>1
<1>4. data[Battle] = "none" => B = A \cup {place} /\ place \notin A /\ D = C
    BY <1>1, <1>3 DEF Missing, Present, Battle
<1>5. data[Battle] # "none" => D = C \cup {place} /\ place \notin C /\ B = A
    BY <1>1, <1>3 DEF Missing, Present, Battle
<1> HIDE DEF A, B, C, D
<1>6. data[Battle] = "none" => Cardinality(B) = Cardinality(A) + 1
    BY <1>2, <1>4, FS_AddElement
<1>7. data[Battle] # "none" => Cardinality(D) = Cardinality(C) + 1
    BY <1>2, <1>5, FS_AddElement
<1>8. Cardinality(A) \in Nat /\ Cardinality(C) \in Nat
    BY <1>2, FS_CardinalityType
<1>. QED BY <1>4, <1>5, <1>6, <1>7, <1>8 DEF A, B, C, D

\* The collector is started, for the first time or again.
LEMMA CollectorStart == ASSUME CollectorInv, Start PROVE CollectorInv'
<1>1. PICK n \in Limits : rows' = Limited(LoadUrls(Urls), n)
    BY DEF Start
<1>2. rows' \in Seq(Links) /\ Distinct(rows')
    BY <1>1, LoadUrlsFacts, LimitedFacts, CollectorAssumption
<1>3. /\ place' = 1 /\ phase' = "next" /\ status' = "none"
      /\ ok' = 0 /\ failed' = 0 /\ skipped' = 0 /\ data' = data /\ meta' = meta
    BY DEF Start, disk
<1>4. Len(rows') \in Nat
    BY <1>2, LenProperties
<1>5. CollectorTypeOK'
    BY <1>2, <1>3, <1>4 DEF CollectorInv, CollectorTypeOK, Distinct
<1>6. AtPlace' /\ DescribedIsWhole'
    BY <1>3 DEF CollectorInv, AtPlace, AtBattle, DescribedIsWhole
<1>7. Counted'
    <2>1. Missing(place - 1)' = {} /\ Present(place - 1)' = {}
        BY <1>3 DEF Missing, Present
    <2>2. Cardinality({}) = 0
        BY FS_EmptySet
    <2>. QED BY <1>3, <2>1, <2>2 DEF Counted
<1>. QED BY <1>5, <1>6, <1>7 DEF CollectorInv

\* A battle whose payload is there is counted and left.
LEMMA CollectorSkip == ASSUME CollectorInv, Skip PROVE CollectorInv'
<1>1. /\ phase = "next" /\ place <= Len(rows) /\ data[Battle] # "none"
      /\ ok' = ok + 1 /\ skipped' = skipped + 1 /\ place' = place + 1
      /\ data' = data /\ meta' = meta /\ rows' = rows
      /\ phase' = phase /\ status' = status /\ failed' = failed
    BY DEF Skip, disk
<1>2. CollectorTypeOK /\ Len(rows) \in Nat /\ place \in Nat \ {0}
    BY RowFacts DEF CollectorInv
<1>3. CollectorTypeOK'
    BY <1>1, <1>2 DEF CollectorTypeOK, Distinct
<1>4. AtPlace' /\ DescribedIsWhole'
    BY <1>1 DEF CollectorInv, AtPlace, AtBattle, DescribedIsWhole
<1>5. Counted'
    <2>1. place' - 1 = place
        BY <1>1, <1>2
    <2>2. Missing(place - 1)' = Missing(place) /\ Present(place - 1)' = Present(place)
        BY <1>1, <2>1 DEF Missing, Present
    <2>3. /\ Cardinality(Present(place)) = Cardinality(Present(place - 1)) + 1
          /\ Missing(place) = Missing(place - 1)
          /\ Cardinality(Present(place - 1)) \in Nat
          /\ Cardinality(Missing(place - 1)) \in Nat
        BY <1>1, <1>2, PlaceCounted
    <2>4. /\ ok = Cardinality(Present(place - 1))
          /\ failed = Cardinality(Missing(place - 1)) /\ skipped <= ok
          /\ \A i \in Missing(place - 1) : meta[rows[i].battle] = "error"
        BY <1>1, <2>3 DEF CollectorInv, Counted, Running
    <2>5. skipped + 1 <= ok + 1
        BY <1>2, <2>4 DEF CollectorTypeOK
    <2>. QED BY <1>1, <1>2, <2>2, <2>3, <2>4, <2>5 DEF Counted, CollectorTypeOK
<1>. QED BY <1>3, <1>4, <1>5 DEF CollectorInv

\* The steps that fetch change neither the disk nor the counters of a battle
\* that is behind.
LEMMA CollectorFetch ==
    ASSUME CollectorInv, Begin \/ Miss \/ Hit \/ GiveUp \/ Finish
    PROVE  CollectorInv'
<1>1. /\ data' = data /\ meta' = meta /\ rows' = rows /\ place' = place
      /\ ok' = ok /\ skipped' = skipped
    BY DEF Begin, Miss, Hit, GiveUp, Finish, disk, counters
<1>2. /\ CollectorTypeOK /\ Len(rows) \in Nat /\ place \in Nat \ {0}
      /\ Battle' = Battle
    BY <1>1, RowFacts DEF CollectorInv, Battle
<1>3. Missing(place - 1)' = Missing(place - 1) /\ Present(place - 1)' = Present(place - 1)
    BY <1>1 DEF Missing, Present
<1>4. DescribedIsWhole'
    BY <1>1 DEF CollectorInv, DescribedIsWhole
<1>5. CASE Begin \/ Miss \/ Hit \/ Finish
    <2>1. failed' = failed /\ status' = status
        BY <1>5 DEF Begin, Miss, Hit, Finish, counters
    <2>2. \/ phase = "next" /\ phase' \in {"fetch", "done"}
          \/ phase = "fetch" /\ phase' \in {"fetch", "write"}
        BY <1>5 DEF Begin, Miss, Hit, Finish
    <2>3. CollectorTypeOK'
        BY <1>1, <1>2, <2>1, <2>2 DEF CollectorTypeOK, Distinct
    <2>4. AtPlace'
        BY <1>1, <1>2, <1>5, <2>1, <2>2
           DEF Begin, Miss, Hit, Finish, CollectorInv, CollectorTypeOK, AtPlace,
               AtBattle
    <2>5. Counted'
        BY <1>1, <1>3, <2>1, <2>2 DEF CollectorInv, Counted, Running
    <2>. QED BY <1>4, <2>3, <2>4, <2>5 DEF CollectorInv
<1>6. CASE GiveUp
    <2>1. /\ phase = "fetch" /\ phase' = "describe" /\ status' = "error"
          /\ failed' = failed + 1
        BY <1>6 DEF GiveUp
    <2>2. CollectorTypeOK'
        BY <1>1, <1>2, <2>1 DEF CollectorTypeOK, Distinct
    <2>3. AtPlace'
        BY <1>1, <1>2, <2>1 DEF CollectorInv, AtPlace, AtBattle
    <2>4. Counted'
        <3>1. place <= Len(rows)
            BY <2>1 DEF CollectorInv, AtPlace, AtBattle
        <3>2. /\ Cardinality(Present(place - 1)) \in Nat
              /\ Cardinality(Missing(place - 1)) \in Nat
            BY <1>2, <3>1, PlaceCounted
        <3>. QED BY <1>1, <1>3, <2>1, <3>2 DEF CollectorInv, Counted, Running
    <2>. QED BY <1>4, <2>2, <2>3, <2>4 DEF CollectorInv
<1>. QED BY <1>5, <1>6

\* The payload is written, and the battle counted.
LEMMA CollectorWriteData == ASSUME CollectorInv, WriteData PROVE CollectorInv'
<1>1. /\ phase = "write" /\ data' = [data EXCEPT ![Battle] = "whole"]
      /\ phase' = "describe" /\ status' = "ok" /\ ok' = ok + 1
      /\ meta' = meta /\ rows' = rows /\ place' = place
      /\ failed' = failed /\ skipped' = skipped
    BY DEF WriteData
<1>2. /\ CollectorTypeOK /\ place <= Len(rows) /\ data[Battle] = "none"
    BY <1>1 DEF CollectorInv, AtPlace, AtBattle
<1>3. /\ Battle \in AllBattles /\ Battle' = Battle
      /\ place - 1 \in Nat /\ place <= Len(rows)
      /\ \A i \in 1..place - 1 : rows[i].battle # Battle
      /\ \A i \in 1..Len(rows) : rows[i].battle \in AllBattles
    BY <1>1, <1>2, RowFacts DEF Battle
<1>4. data'[Battle] = "whole" /\ \A b \in AllBattles : b # Battle => data'[b] = data[b]
    BY <1>1, <1>2, <1>3 DEF CollectorTypeOK
<1>5. CollectorTypeOK'
    <2>1. data' \in [AllBattles -> FileKinds]
        BY <1>1, <1>2, <1>3 DEF CollectorTypeOK, FileKinds
    <2>2. /\ phase' = "describe" /\ status' = "ok" /\ ok' = ok + 1
          /\ meta' = meta /\ rows' = rows /\ place' = place
          /\ failed' = failed /\ skipped' = skipped
        BY <1>1
    <2>. QED BY <1>2, <2>1, <2>2 DEF CollectorTypeOK, Distinct
<1>6. AtPlace'
    <2>1. phase' = "describe" /\ status' = "ok" /\ data'[Battle'] = "whole"
        BY <1>1, <1>3, <1>4
    <2>2. place' <= Len(rows')
        BY <1>1, <1>3
    <2>. QED BY <2>1, <2>2 DEF AtPlace, AtBattle
<1>7. DescribedIsWhole'
    BY <1>1, <1>4 DEF CollectorInv, DescribedIsWhole
<1>8. Missing(place - 1)' = Missing(place - 1) /\ Present(place - 1)' = Present(place - 1)
    <2>1. \A i \in 1..place - 1 : data'[rows[i].battle] = data[rows[i].battle]
        <3>1. \A i \in 1..place - 1 : i \in 1..Len(rows)
            BY <1>2, RowFacts
        <3>. QED BY <1>3, <1>4, <3>1
    <2>. QED BY <1>1, <2>1 DEF Missing, Present
<1>9. Counted'
    <2>1. /\ Cardinality(Present(place - 1)) \in Nat
          /\ Cardinality(Missing(place - 1)) \in Nat
        BY <1>2, PlaceCounted
    <2>2. ok \in Nat /\ skipped \in Nat /\ failed \in Nat
        BY <1>2 DEF CollectorTypeOK
    <2>. QED BY <1>1, <1>8, <2>1, <2>2 DEF CollectorInv, Counted, Running
<1>. QED BY <1>5, <1>6, <1>7, <1>9 DEF CollectorInv

\* The metadata is written, and the battle left.
LEMMA CollectorWriteMeta == ASSUME CollectorInv, WriteMeta PROVE CollectorInv'
<1>1. /\ phase = "describe" /\ meta' = [meta EXCEPT ![Battle] = status]
      /\ phase' = "next" /\ place' = place + 1
      /\ data' = data /\ rows' = rows /\ status' = status
      /\ ok' = ok /\ failed' = failed /\ skipped' = skipped
    BY DEF WriteMeta, counters
<1>2. /\ CollectorTypeOK /\ place <= Len(rows)
      /\ \/ status = "ok" /\ data[Battle] = "whole"
         \/ status = "error" /\ data[Battle] = "none"
    BY <1>1 DEF CollectorInv, AtPlace, AtBattle
<1>3. /\ Battle \in AllBattles /\ Battle = rows[place].battle
      /\ place - 1 \in Nat /\ place \in Nat /\ Len(rows) \in Nat
      /\ \A i \in 1..place - 1 : rows[i].battle # Battle
      /\ \A i \in 1..Len(rows) : rows[i].battle \in AllBattles
    BY <1>2, RowFacts DEF Battle
<1>4. meta'[Battle] = status /\ \A b \in AllBattles : b # Battle => meta'[b] = meta[b]
    BY <1>1, <1>2, <1>3 DEF CollectorTypeOK
<1>5. CollectorTypeOK'
    BY <1>1, <1>2, <1>3 DEF CollectorTypeOK, Distinct, MetaKinds
<1>6. AtPlace'
    BY <1>1 DEF AtPlace, AtBattle
<1>7. DescribedIsWhole'
    BY <1>1, <1>2, <1>4 DEF CollectorInv, DescribedIsWhole
<1>8. Missing(place - 1)' = Missing(place) /\ Present(place - 1)' = Present(place)
    <2>1. place' - 1 = place
        BY <1>1, <1>3
    <2>. QED BY <1>1, <2>1 DEF Missing, Present
<1>9. \A i \in Missing(place - 1) : meta'[rows[i].battle] = "error"
    <2> TAKE i \in Missing(place - 1)
    <2>1. i \in 1..place - 1 /\ i \in 1..Len(rows)
        BY <1>2, <1>3 DEF Missing
    <2>2. meta[rows[i].battle] = "error"
        BY <1>1 DEF CollectorInv, Counted, Running
    <2>. QED BY <1>3, <1>4, <2>1, <2>2
<1>10. /\ Cardinality(Present(place - 1)) \in Nat
       /\ Cardinality(Missing(place - 1)) \in Nat
       /\ data[Battle] = "none" =>
             /\ Cardinality(Missing(place)) = Cardinality(Missing(place - 1)) + 1
             /\ Present(place) = Present(place - 1)
             /\ Missing(place) \subseteq Missing(place - 1) \cup {place}
       /\ data[Battle] # "none" =>
             /\ Cardinality(Present(place)) = Cardinality(Present(place - 1)) + 1
             /\ Missing(place) = Missing(place - 1)
    BY <1>2, PlaceCounted
<1>11. /\ ok = Cardinality(Present(place - 1)) + (IF status = "ok" THEN 1 ELSE 0)
       /\ failed = Cardinality(Missing(place - 1)) + (IF status = "error" THEN 1 ELSE 0)
       /\ skipped <= ok
    BY <1>1 DEF CollectorInv, Counted, Running
<1>12. ok \in Nat /\ failed \in Nat
    BY <1>2 DEF CollectorTypeOK
<1>13. Counted'
    <2>1. CASE status = "ok" /\ data[Battle] = "whole"
        <3>1. ok = Cardinality(Present(place)) /\ failed = Cardinality(Missing(place))
              /\ skipped <= ok
            BY <1>10, <1>11, <2>1
        <3>2. \A i \in Missing(place) : meta'[rows[i].battle] = "error"
            BY <1>9, <1>10, <2>1
        <3>. QED BY <1>1, <1>8, <1>12, <3>1, <3>2 DEF Counted
    <2>2. CASE status = "error" /\ data[Battle] = "none"
        <3>1. ok = Cardinality(Present(place)) /\ failed = Cardinality(Missing(place))
              /\ skipped <= ok
            BY <1>10, <1>11, <2>2
        <3>2. \A i \in Missing(place) : meta'[rows[i].battle] = "error"
            BY <1>3, <1>4, <1>9, <1>10, <2>2
        <3>. QED BY <1>1, <1>8, <1>12, <3>1, <3>2 DEF Counted
    <2>. QED BY <1>2, <2>1, <2>2
<1>. QED BY <1>5, <1>6, <1>7, <1>13 DEF CollectorInv

\* The run stops, perhaps inside a write.
LEMMA CollectorStop == ASSUME CollectorInv, Stop PROVE CollectorInv'
<1>1. /\ phase \in {"next", "fetch", "write", "describe"} /\ phase' = "idle"
      /\ rows' = rows /\ place' = place /\ status' = status
      /\ ok' = ok /\ failed' = failed /\ skipped' = skipped
      /\ IF phase = "write"
         THEN \E d \in {"none", "cut", "whole"} : data' = [data EXCEPT ![Battle] = d]
         ELSE data' = data
      /\ IF phase = "describe"
         THEN \E m \in {meta[Battle], "cut", status} : meta' = [meta EXCEPT ![Battle] = m]
         ELSE meta' = meta
    BY DEF Stop, counters
<1>2. CollectorTypeOK
    BY DEF CollectorInv
<1>3. AtBattle => Battle \in AllBattles
    BY <1>2, RowFacts DEF CollectorInv, AtPlace
<1>4. data' \in [AllBattles -> FileKinds]
    BY <1>1, <1>2, <1>3 DEF CollectorTypeOK, FileKinds, AtBattle
<1>5. meta' \in [AllBattles -> MetaKinds]
    <2>1. CASE phase = "describe"
        <3>1. meta[Battle] \in MetaKinds /\ status \in MetaKinds
            BY <1>2, <1>3, <2>1 DEF CollectorTypeOK, MetaKinds, AtBattle
        <3>2. \A m \in {meta[Battle], "cut", status} : m \in MetaKinds
            BY <3>1 DEF MetaKinds
        <3>. QED BY <1>1, <1>2, <2>1, <3>2 DEF CollectorTypeOK
    <2>2. CASE phase # "describe"
        BY <1>1, <1>2, <2>2 DEF CollectorTypeOK
    <2>. QED BY <2>1, <2>2
<1>6. CollectorTypeOK'
    BY <1>1, <1>2, <1>4, <1>5 DEF CollectorTypeOK, Distinct
<1>7. AtPlace' /\ Counted'
    BY <1>1 DEF AtPlace, AtBattle, Counted, Running
<1>8. DescribedIsWhole'
    <2>1. CASE phase = "write"
        <3>1. data[Battle] = "none" /\ Battle \in AllBattles /\ meta' = meta
            BY <1>1, <1>3, <2>1 DEF CollectorInv, AtPlace, AtBattle
        <3>2. meta[Battle] # "ok"
            BY <3>1 DEF CollectorInv, DescribedIsWhole
        <3>3. \A b \in AllBattles : b # Battle => data'[b] = data[b]
            BY <1>1, <1>2, <2>1 DEF CollectorTypeOK
        <3>. QED BY <3>1, <3>2, <3>3 DEF CollectorInv, DescribedIsWhole
    <2>2. CASE phase = "describe"
        <3>1. /\ data' = data /\ Battle \in AllBattles
              /\ status = "ok" => data[Battle] = "whole"
            BY <1>1, <1>3, <2>2 DEF CollectorInv, AtPlace, AtBattle
        <3>2. /\ \A b \in AllBattles : b # Battle => meta'[b] = meta[b]
              /\ meta'[Battle] \in {meta[Battle], "cut", status}
            BY <1>1, <1>2, <2>2, <3>1 DEF CollectorTypeOK
        <3>. QED BY <3>1, <3>2 DEF CollectorInv, DescribedIsWhole
    <2>3. CASE phase \notin {"write", "describe"}
        BY <1>1, <2>3 DEF CollectorInv, DescribedIsWhole
    <2>. QED BY <2>1, <2>2, <2>3
<1>. QED BY <1>6, <1>7, <1>8 DEF CollectorInv

\* CollectorInv is an invariant, over any number of runs that stop anywhere.
THEOREM CollectorInvariant == Spec => []CollectorInv
<1>1. Init => CollectorInv
    BY CollectorInvInit
<1>2. CollectorInv /\ [Next]_vars => CollectorInv'
    <2> SUFFICES ASSUME CollectorInv, [Next]_vars PROVE CollectorInv'
        OBVIOUS
    <2>1. CASE UNCHANGED vars
        BY <2>1 DEF vars, disk, counters, CollectorInv, CollectorTypeOK, AtPlace,
               AtBattle, Battle, Counted, Running, Missing, Present, Distinct,
               DescribedIsWhole
    <2>. QED BY <2>1, CollectorStart, CollectorSkip, CollectorFetch,
                CollectorWriteData, CollectorWriteMeta, CollectorStop DEF Next
<1>. QED BY <1>1, <1>2, PTL DEF Spec

\* No metadata file says "ok" of a payload that is missing or cut.
THEOREM DescribedPayloadsAreWhole == Spec => []DescribedIsWhole
<1>1. CollectorInv => DescribedIsWhole
    BY DEF CollectorInv
<1>. QED BY <1>1, CollectorInvariant, PTL

-----------------------------------------------------------------------------

\* Distinct links lead to as many battles as they are.
LEMMA DistinctBattles ==
    ASSUME CollectorTypeOK, NEW I, I \subseteq 1..Len(rows)
    PROVE  Cardinality({rows[i].battle : i \in I}) = Cardinality(I)
<1> DEFINE B == {rows[i].battle : i \in I}
           f == [i \in I |-> rows[i].battle]
<1>1. f \in [I -> B]
    OBVIOUS
<1>2. \A x, y \in I : f[x] = f[y] => x = y
    BY DEF CollectorTypeOK, Distinct
<1>3. \A z \in B : \E x \in I : f[x] = z
    OBVIOUS
<1>4. f \in Bijection(I, B)
    BY <1>1, <1>2, <1>3 DEF Bijection, Injection, Surjection, IsInjective
<1>5. ExistsBijection(I, B)
    BY <1>4 DEF ExistsBijection
<1>6. IsFiniteSet(I)
    <2>1. Len(rows) \in Nat
        BY RowFacts
    <2>2. IsFiniteSet(1..Len(rows)) /\ I \in SUBSET (1..Len(rows))
        BY <2>1, FS_Interval
    <2>. QED BY <2>2, FS_Subset
<1>. QED BY <1>5, <1>6, FS_Bijection

\* Every battle of a run that ends is counted once: with the payloads there
\* are or with the failures, and every failure has metadata that says so.
THEOREM EveryBattleIsCounted == Spec => []RunAccountsForAll
<1>1. CollectorInv => RunAccountsForAll
    <2> SUFFICES ASSUME CollectorInv, phase = "done" PROVE RunAccountsForAll
        BY DEF RunAccountsForAll
    <2> DEFINE n         == Len(rows)
               requested == {rows[i].battle : i \in 1..n}
               missing   == {b \in requested : data[b] = "none"}
    <2>1. /\ CollectorTypeOK /\ n \in Nat /\ place = n + 1 /\ place - 1 = n
        BY RowFacts DEF CollectorInv, AtPlace
    <2>2. /\ ok = Cardinality(Present(n)) + 0 /\ failed = Cardinality(Missing(n)) + 0
          /\ skipped <= ok /\ ok \in Nat /\ failed \in Nat
          /\ \A i \in Missing(n) : meta[rows[i].battle] = "error"
        <3>1. Running /\ phase # "describe"
            BY DEF Running
        <3>. QED BY <2>1, <3>1 DEF CollectorInv, CollectorTypeOK, Counted
    <2>3. missing = {rows[i].battle : i \in Missing(n)}
        BY DEF Missing
    <2>4. requested \ missing = {rows[i].battle : i \in Present(n)}
        BY DEF Present
    <2>5. Missing(n) \subseteq 1..n /\ Present(n) \subseteq 1..n
        BY DEF Missing, Present
    <2>6. IsFiniteSet(Missing(n)) /\ IsFiniteSet(Present(n))
        <3> HIDE DEF n
        <3>1. IsFiniteSet(1..n) /\ 1 \in Int /\ n \in Int
            BY <2>1, FS_Interval
        <3>2. Missing(n) \in SUBSET (1..n) /\ Present(n) \in SUBSET (1..n)
            BY <2>5
        <3>. QED BY <3>1, <3>2, FS_Subset
    <2>7. /\ Cardinality(Missing(n)) \in Nat /\ Cardinality(Present(n)) \in Nat
        BY <2>6, FS_CardinalityType
    <2>8. Cardinality(Missing(n)) + Cardinality(Present(n)) = n
        <3>1. Missing(n) \cap Present(n) = {} /\ Missing(n) \cup Present(n) = 1..n
            BY DEF Missing, Present
        <3>2. Cardinality(1..n) = n
            <4> HIDE DEF n
            <4>. QED BY <2>1, FS_Interval
        <3>3. Cardinality(Missing(n) \cup Present(n)) =
                  Cardinality(Missing(n)) + Cardinality(Present(n))
                      - Cardinality(Missing(n) \cap Present(n))
            <4> DEFINE A == Missing(n)
                       B == Present(n)
            <4>1. IsFiniteSet(A) /\ IsFiniteSet(B)
                BY <2>6
            <4> HIDE DEF A, B
            <4>2. Cardinality(A \cup B) = Cardinality(A) + Cardinality(B) - Cardinality(A \cap B)
                BY <4>1, FS_Union
            <4>. QED BY <4>2 DEF A, B
        <3>4. Cardinality(Missing(n) \cap Present(n)) = 0
            BY <3>1, FS_EmptySet
        <3>5. Cardinality(Missing(n) \cup Present(n)) = n
            BY <3>1, <3>2
        <3> HIDE DEF n
        <3>6. n = Cardinality(Missing(n)) + Cardinality(Present(n)) - 0
            BY <3>3, <3>4, <3>5
        <3>. QED BY <2>7, <3>6
    <2>9. /\ Cardinality(missing) = Cardinality(Missing(n))
          /\ Cardinality(requested \ missing) = Cardinality(Present(n))
        <3> HIDE DEF missing, requested
        <3>. QED BY <2>1, <2>3, <2>4, <2>5, DistinctBattles
    <2>10. \A b \in missing : meta[b] = "error"
        BY <2>2, <2>3
    <2>11. ok = Cardinality(requested \ missing) /\ failed = Cardinality(missing)
           /\ ok + failed = n /\ skipped <= ok
        <3> HIDE DEF missing, requested, n
        <3>. QED BY <2>1, <2>2, <2>7, <2>8, <2>9
    <2>. QED BY <2>10, <2>11 DEF RunAccountsForAll
<1>. QED BY <1>1, CollectorInvariant, PTL
=============================================================================
