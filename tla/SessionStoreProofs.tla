------------------------- MODULE SessionStoreProofs -------------------------
(***************************************************************************)
(* Proofs about SessionStore, for every set of battles, half-turns, bodies *)
(* and capture times.  First lemmas about the decoder's continuity gate    *)
(* (TurnStream): what counting and skipping half-turns return, and what one*)
(* decoded payload preserves.  Then the inductive invariant StoreInv, the  *)
(* invariants it implies, recovery from a gap, and the refinement of       *)
(* TrustedLog.                                                             *)
(***************************************************************************)
EXTENDS SessionStore, FiniteSetTheorems, SequenceTheorems, FunctionTheorems,
        TLAPS

\* What holds of every state the decoder returns for battle b: its counters
\* are those of the whole log, and its verdicts follow from them.
StateOK(s, b) ==
    /\ s.battle = b
    /\ s.unknown = Count(Dirty, s.log)
    /\ s.unresolved = Count(Rough, s.log)
    /\ s.seen = Len(s.log)
    /\ s.contig => Gapless(s.log)
    /\ s.ready => s.contig /\ s.unknown = 0 /\ s.log \notin Corrupt
    /\ s.safe => s.ready /\ WithinRisk(s.unresolved, s.seen)

-----------------------------------------------------------------------------

\* Counting the half-turns of a run in S gives a number.
LEMMA CountType ==
    ASSUME NEW S, NEW run, Len(run) \in Nat
    PROVE  /\ IsFiniteSet({i \in 1..Len(run) : run[i] \in S})
           /\ Count(S, run) \in Nat
<1>1. IsFiniteSet(1..Len(run))
    BY FS_Interval
<1>2. {i \in 1..Len(run) : run[i] \in S} \in SUBSET (1..Len(run))
    OBVIOUS
<1>3. IsFiniteSet({i \in 1..Len(run) : run[i] \in S})
    BY <1>1, <1>2, FS_Subset
<1>. QED BY <1>3, FS_CardinalityType DEF Count

\* A run counts no half-turn of S when none of its half-turns is in S.
LEMMA CountZero ==
    ASSUME NEW S, NEW run, Len(run) \in Nat
    PROVE  Count(S, run) = 0 <=> \A i \in 1..Len(run) : run[i] \notin S
<1>1. Count(S, run) = 0 <=> {i \in 1..Len(run) : run[i] \in S} = {}
    BY CountType, FS_EmptySet DEF Count
<1>. QED BY <1>1

\* Shifting indices does not change how many there are.
LEMMA ShiftedCount ==
    ASSUME NEW A, A \subseteq Int, IsFiniteSet(A), NEW k \in Int,
           NEW B, B = {i \in Int : i - k \in A}
    PROVE  IsFiniteSet(B) /\ Cardinality(B) = Cardinality(A)
<1> DEFINE f == [i \in A |-> i + k]
<1>1. f \in [A -> B]
    OBVIOUS
<1>2. \A x, y \in A : f[x] = f[y] => x = y
    OBVIOUS
<1>3. \A z \in B : \E x \in A : f[x] = z
    <2> TAKE z \in B
    <2>1. z - k \in A /\ z \in Int
        OBVIOUS
    <2>2. f[z - k] = z
        BY <2>1
    <2>. QED BY <2>1, <2>2
<1>4. f \in Bijection(A, B)
    BY <1>1, <1>2, <1>3 DEF Bijection, Injection, Surjection, IsInjective
<1>5. ExistsBijection(A, B)
    BY <1>4 DEF ExistsBijection
<1>. QED BY <1>5, FS_Bijection

\* The counters decode_update accumulates are those of the whole history.
LEMMA CountConcat ==
    ASSUME NEW S, NEW T, NEW p \in Seq(T), NEW q \in Seq(T)
    PROVE  Count(S, p \o q) = Count(S, p) + Count(S, q)
<1> DEFINE A == {i \in 1..Len(p) : p[i] \in S}
           B == {i \in 1..Len(q) : q[i] \in S}
           C == {i \in Int : i - Len(p) \in B}
           D == {i \in 1..Len(p \o q) : (p \o q)[i] \in S}
<1>1. Len(p) \in Nat /\ Len(q) \in Nat
    BY LenProperties
<1>2. IsFiniteSet(A) /\ IsFiniteSet(B)
    BY <1>1, CountType
<1>3. IsFiniteSet(C) /\ Cardinality(C) = Cardinality(B)
    <2>1. B \subseteq Int
        OBVIOUS
    <2>2. Len(p) \in Int /\ IsFiniteSet(B)
        BY <1>1, <1>2
    <2> HIDE DEF B
    <2>. QED BY <2>1, <2>2, ShiftedCount
<1>4. A \cap C = {}
    BY <1>1
<1>5. D = A \cup C
    <2>1. \A i \in 1..Len(p) + Len(q) :
              (p \o q)[i] = IF i <= Len(p) THEN p[i] ELSE q[i - Len(p)]
        BY ConcatProperties
    <2>2. Len(p \o q) = Len(p) + Len(q)
        BY ConcatProperties
    <2>3. ASSUME NEW i \in D PROVE i \in A \cup C
        <3>1. i \in 1..Len(p) + Len(q)
            BY <2>2
        <3>2. CASE i <= Len(p)
            BY <3>1, <3>2, <2>1, <1>1
        <3>3. CASE ~(i <= Len(p))
            <4>1. i - Len(p) \in 1..Len(q) /\ i \in Int
                BY <3>1, <3>3, <1>1
            <4>2. q[i - Len(p)] \in S
                BY <3>1, <3>3, <2>1
            <4>. QED BY <4>1, <4>2
        <3>. QED BY <3>2, <3>3
    <2>4. ASSUME NEW i \in A PROVE i \in D
        <3>1. i \in 1..Len(p) + Len(q) /\ i <= Len(p)
            BY <1>1
        <3>. QED BY <3>1, <2>1, <2>2
    <2>5. ASSUME NEW i \in C PROVE i \in D
        <3>1. i \in 1..Len(p) + Len(q) /\ ~(i <= Len(p))
            BY <1>1
        <3>2. q[i - Len(p)] \in S
            OBVIOUS
        <3>. QED BY <3>1, <3>2, <2>1, <2>2
    <2>. QED BY <2>3, <2>4, <2>5
<1>6. Cardinality(A \cup C) = Cardinality(A) + Cardinality(C)
    <2>1. Cardinality(A \cap C) = 0
        BY <1>4, FS_EmptySet
    <2>2. Cardinality(A) \in Nat /\ Cardinality(C) \in Nat
        BY <1>2, <1>3, FS_CardinalityType
    <2> HIDE DEF A, C
    <2>3. Cardinality(A \cup C) =
              Cardinality(A) + Cardinality(C) - Cardinality(A \cap C)
        BY <1>2, <1>3, FS_Union
    <2>. QED BY <2>1, <2>2, <2>3
<1>. QED BY <1>3, <1>5, <1>6 DEF Count

-----------------------------------------------------------------------------

\* The half-turn of a state is a number, 0 for the static snapshot.
LEMMA HalfType == ASSUME NEW s \in State PROVE Half(s) \in Nat
<1>1. s.log \in Seq(Turns)
    BY DEF State
<1>2. CASE s.log = <<>>
    BY <1>2 DEF Half
<1>3. CASE s.log # <<>>
    <2>1. Len(s.log) \in 1..Len(s.log)
        BY <1>1, <1>3, EmptySeq
    <2>2. s.log[Len(s.log)] \in Turns
        BY <1>1, <2>1, ElementOfSeq
    <2>. QED BY <1>3, <2>2, TurnStreamAssumption DEF Half
<1>. QED BY <1>2, <1>3

\* What is not skipped is the part of the run behind the skipped slices.
LEMMA FreshProperties ==
    ASSUME NEW h \in Nat, NEW run \in Run
    PROVE  /\ Fresh(h, run) \in Seq(Turns)
           /\ Len(Fresh(h, run)) \in 0..Len(run)
<1> DEFINE skipped == Cardinality({i \in 1..Len(run) : run[i] <= h})
<1>1. run \in Seq(Turns) /\ Len(run) \in Nat
    BY LenProperties DEF Run
<1>2. skipped \in Nat
    <2>1. IsFiniteSet(1..Len(run))
        BY <1>1, FS_Interval
    <2>2. {i \in 1..Len(run) : run[i] <= h} \in SUBSET (1..Len(run))
        OBVIOUS
    <2>3. IsFiniteSet({i \in 1..Len(run) : run[i] <= h})
        BY <2>1, <2>2, FS_Subset
    <2>. QED BY <2>3, FS_CardinalityType
<1> HIDE DEF skipped
<1>3. \A i \in 1 + skipped .. Len(run) : run[i] \in Turns
    BY <1>1, <1>2, ElementOfSeq
<1>4. /\ SubSeq(run, 1 + skipped, Len(run)) \in Seq(Turns)
      /\ Len(SubSeq(run, 1 + skipped, Len(run))) =
           IF 1 + skipped <= Len(run) THEN Len(run) - (1 + skipped) + 1 ELSE 0
    BY <1>1, <1>2, <1>3, SubSeqProperties
<1>5. Fresh(h, run) = SubSeq(run, 1 + skipped, Len(run))
    BY DEF Fresh, skipped
<1>. QED BY <1>1, <1>2, <1>4, <1>5

\* decode_initial returns a state whose verdicts and counters are consistent.
LEMMA InitialOK ==
    ASSUME NEW b \in Battles
    PROVE  /\ Initial(b) \in State
           /\ Initial(b) # NoState
           /\ StateOK(Initial(b), b)
<1>1. <<>> \in Seq(Turns) /\ Len(<<>>) = 0
    BY EmptySeq
<1>2. Initial(b) \in State
    BY <1>1 DEF Initial, State
<1>3. Count(Dirty, <<>>) = 0 /\ Count(Rough, <<>>) = 0
    BY <1>1, CountZero
<1>. QED BY <1>1, <1>2, <1>3, TurnStreamAssumption DEF Initial, StateOK, Gapless

\* A contiguous payload extends a gapless log to a gapless log.
LEMMA GaplessConcat ==
    ASSUME NEW p \in Seq(Turns), NEW q \in Seq(Turns), Gapless(p),
           \A i \in 1..Len(q) : q[i] = Len(p) + i
    PROVE  Gapless(p \o q)
<1>1. Len(p) \in Nat /\ Len(q) \in Nat
    BY LenProperties
<1>2. /\ Len(p \o q) = Len(p) + Len(q)
      /\ \A i \in 1..Len(p) + Len(q) :
            (p \o q)[i] = IF i <= Len(p) THEN p[i] ELSE q[i - Len(p)]
    BY ConcatProperties
<1>3. ASSUME NEW i \in 1..Len(p) + Len(q) PROVE (p \o q)[i] = i
    <2>1. CASE i <= Len(p)
        BY <2>1, <1>1, <1>2 DEF Gapless
    <2>2. CASE ~(i <= Len(p))
        <3>1. i - Len(p) \in 1..Len(q)
            BY <2>2, <1>1
        <3>. QED BY <3>1, <2>2, <1>1, <1>2
    <2>. QED BY <2>1, <2>2
<1>. QED BY <1>2, <1>3 DEF Gapless

\* A gapless history ends in the half-turn of its length.
LEMMA HalfOfGapless ==
    ASSUME NEW s \in State, Gapless(s.log)
    PROVE  Half(s) = Len(s.log)
<1>1. s.log \in Seq(Turns)
    BY DEF State
<1>2. CASE s.log = <<>>
    BY <1>2, EmptySeq DEF Half
<1>3. CASE s.log # <<>>
    <2>1. Len(s.log) \in 1..Len(s.log)
        BY <1>1, <1>3, EmptySeq
    <2>. QED BY <1>3, <2>1 DEF Half, Gapless
<1>. QED BY <1>2, <1>3

\* decode_update keeps the verdicts and the counters of a state consistent.
LEMMA AdvanceOK ==
    ASSUME NEW b \in Battles, NEW s \in State, StateOK(s, b), NEW run \in Run
    PROVE  /\ Advance(s, run) \in State
           /\ Advance(s, run) # NoState
           /\ StateOK(Advance(s, run), b)
<1> DEFINE fresh == Fresh(Half(s), run)
           log   == s.log \o fresh
           r     == Advance(s, run)
<1>1. s.log \in Seq(Turns) /\ fresh \in Seq(Turns) /\ Half(s) \in Nat
    BY HalfType, FreshProperties DEF State
<1>2. CASE fresh = <<>>
    <2>1. r = s
        BY <1>2 DEF Advance
    <2>. QED BY <2>1, TurnStreamAssumption
<1>3. CASE fresh # <<>>
    <2>1. /\ log \in Seq(Turns)
          /\ Len(log) = Len(s.log) + Len(fresh)
        BY <1>1, ConcatProperties
    <2>2. /\ Count(Dirty, log) = Count(Dirty, s.log) + Count(Dirty, fresh)
          /\ Count(Rough, log) = Count(Rough, s.log) + Count(Rough, fresh)
        BY <1>1, CountConcat
    <2>3. /\ Len(log) \in Nat /\ Len(fresh) \in Nat
          /\ Count(Dirty, log) \in Nat /\ Count(Rough, log) \in Nat
        BY <1>1, <2>1, LenProperties, CountType
    <2>4. Continues(s, run) => Gapless(log)
        <3> SUFFICES ASSUME Continues(s, run) PROVE Gapless(log)
            OBVIOUS
        <3>1. Gapless(s.log)
            <4>1. CASE s.log = <<>>
                BY <4>1, EmptySeq DEF Gapless
            <4>2. CASE s.log # <<>>
                BY <4>2 DEF Continues, StateOK
            <4>. QED BY <4>1, <4>2
        <3>2. \A i \in 1..Len(fresh) : fresh[i] = Len(s.log) + i
            BY <3>1, HalfOfGapless DEF Continues
        <3>. QED BY <1>1, <3>1, <3>2, GaplessConcat
    <2> DEFINE unknown    == s.unknown + Count(Dirty, fresh)
               seen       == s.seen + Len(fresh)
               unresolved == s.unresolved + Count(Rough, fresh)
               ready      == Continues(s, run) /\ unknown = 0 /\ log \notin Corrupt
    <2>5. r = [battle |-> s.battle, log |-> log, contig |-> Continues(s, run),
               ready |-> ready, safe |-> ready /\ WithinRisk(unresolved, seen),
               unknown |-> unknown, seen |-> seen, unresolved |-> unresolved]
        BY <1>3 DEF Advance, Unresolved
    <2>6. /\ unknown = Count(Dirty, log) /\ unresolved = Count(Rough, log)
          /\ seen = Len(log)
        BY <2>1, <2>2 DEF StateOK
    <2>7. Continues(s, run) \in BOOLEAN
        <3>1. s.contig \in BOOLEAN
            BY DEF State
        <3>. QED BY <3>1 DEF Continues
    <2>8. s.battle \in Battles
        BY DEF State
    <2> HIDE DEF log, unknown, seen, unresolved
    <2>9. r \in State
        <3>1. /\ unknown \in Nat /\ seen \in Nat /\ unresolved \in Nat
            BY <2>3, <2>6
        <3>2. ready \in BOOLEAN /\ (ready /\ WithinRisk(unresolved, seen)) \in BOOLEAN
            BY <2>7
        <3> HIDE DEF ready
        <3>. QED BY <2>1, <2>5, <2>7, <2>8, <3>1, <3>2 DEF State
    <2>10. StateOK(r, b)
        <3> HIDE DEF r
        <3>1. /\ r.battle = s.battle /\ r.log = log
              /\ r.contig = Continues(s, run) /\ r.ready = ready
              /\ r.safe = (ready /\ WithinRisk(unresolved, seen))
              /\ r.unknown = unknown /\ r.seen = seen /\ r.unresolved = unresolved
            BY <2>5
        <3>2. s.battle = b
            BY DEF StateOK
        <3>. QED BY <2>4, <2>6, <3>1, <3>2 DEF StateOK
    <2>. QED BY <2>9, <2>10, TurnStreamAssumption
<1>. QED BY <1>2, <1>3

\* Whatever decode_update returns, it is a state of the same battle whose
\* verdicts follow from its whole log.
LEMMA DecodeUpdateOK ==
    ASSUME NEW b \in Battles, NEW s \in State, StateOK(s, b), NEW body \in Body,
           DecodeUpdate(s, body) # NoState
    PROVE  /\ DecodeUpdate(s, body) \in State
           /\ StateOK(DecodeUpdate(s, body), b)
           /\ \/ body.kind = "static" /\ DecodeUpdate(s, body) = Initial(b)
              \/ DecodeUpdate(s, body) = Advance(s, body.turns)
<1>1. s.battle = b /\ body.turns \in Run
    BY DEF StateOK, Body
<1>2. CASE body.kind = "static"
    BY <1>1, <1>2, InitialOK DEF DecodeUpdate, DecodeInitial
<1>3. CASE body.kind \notin {"static", "broken"}
    BY <1>1, <1>3, AdvanceOK DEF DecodeUpdate
<1>4. CASE body.kind = "broken"
    BY <1>4 DEF DecodeUpdate, DecodeInitial
<1>. QED BY <1>2, <1>3, <1>4

\* A ready state is never advanced to a different history, only to a longer
\* one.
LEMMA AdvanceExtends ==
    ASSUME NEW s \in State, NEW run \in Run
    PROVE  Advance(s, run) = s \/ Len(Advance(s, run).log) > Len(s.log)
<1> DEFINE fresh == Fresh(Half(s), run)
<1>1. s.log \in Seq(Turns) /\ fresh \in Seq(Turns)
    BY HalfType, FreshProperties DEF State
<1>2. CASE fresh = <<>>
    BY <1>2 DEF Advance
<1>3. CASE fresh # <<>>
    <2>1. Advance(s, run).log = s.log \o fresh
        BY <1>3 DEF Advance
    <2>2. Len(fresh) \in Nat \ {0} /\ Len(s.log) \in Nat
        BY <1>1, <1>3, EmptySeq, LenProperties
    <2>. QED BY <1>1, <2>1, <2>2, ConcatProperties
<1>. QED BY <1>2, <1>3

\* A state with consistent verdicts that is protocol_ready is sound.
LEMMA ReadySound ==
    ASSUME NEW b, NEW s \in State, StateOK(s, b), s.ready
    PROVE  Sound(s.log)
<1>1. Len(s.log) \in Nat
    BY LenProperties DEF State
<1>2. Count(Dirty, s.log) = 0
    BY DEF StateOK
<1>. QED BY <1>1, <1>2, CountZero DEF StateOK, Sound

\* The numbers 1..k are k numbers.
LEMMA CardinalityUpTo == ASSUME NEW k \in Nat PROVE Cardinality(1..k) = k
BY FS_Interval

\* Of a gapless run, exactly the first h half-turns are skipped.
LEMMA FreshOfGapless ==
    ASSUME NEW h \in Nat, NEW run \in Run, Gapless(run)
    PROVE  /\ Len(run) <= h => Fresh(h, run) = <<>>
           /\ Len(run) > h => /\ Len(Fresh(h, run)) = Len(run) - h
                              /\ \A i \in 1..Len(run) - h :
                                    Fresh(h, run)[i] = h + i
<1> DEFINE n == Len(run)
           S == {i \in 1..n : run[i] <= h}
<1>1. run \in Seq(Turns) /\ n \in Nat
    BY LenProperties DEF Run
<1>2. S = {i \in 1..n : i <= h}
    BY DEF Gapless
<1>3. CASE n <= h
    <2>1. S = 1..n
        BY <1>1, <1>2, <1>3
    <2>2. Cardinality(S) = n
        <3>1. Cardinality(1..n) = n
            BY <1>1, CardinalityUpTo
        <3> HIDE DEF S
        <3>. QED BY <2>1, <3>1
    <2>3. Fresh(h, run) = SubSeq(run, 1 + n, n)
        BY <2>2 DEF Fresh
    <2>. QED BY <1>1, <1>3, <2>3, SubSeqEmpty
<1>4. CASE n > h
    <2>1. S = 1..h
        BY <1>1, <1>2, <1>4
    <2>2. Cardinality(S) = h
        <3>1. Cardinality(1..h) = h
            BY CardinalityUpTo
        <3> HIDE DEF S
        <3>. QED BY <2>1, <3>1
    <2>3. Fresh(h, run) = SubSeq(run, 1 + h, n)
        BY <2>2 DEF Fresh
    <2>4. \A i \in 1 + h .. n : run[i] \in Turns
        BY <1>1, ElementOfSeq
    <2>5. /\ Len(SubSeq(run, 1 + h, n)) =
               IF 1 + h <= n THEN n - (1 + h) + 1 ELSE 0
          /\ \A i \in 1 .. n - (1 + h) + 1 :
                SubSeq(run, 1 + h, n)[i] = run[1 + h + i - 1]
        BY <1>1, <2>4, SubSeqProperties
    <2>6. ASSUME NEW i \in 1..n - h PROVE Fresh(h, run)[i] = h + i
        <3>1. h + i \in 1..n /\ i \in 1 .. n - (1 + h) + 1 /\ 1 + h + i - 1 = h + i
            BY <1>1
        <3>2. run[h + i] = h + i
            BY <3>1 DEF Gapless
        <3>. QED BY <2>3, <2>5, <3>1, <3>2
    <2>7. Len(Fresh(h, run)) = n - h
        BY <1>1, <1>4, <2>3, <2>5
    <2>. QED BY <1>1, <1>4, <2>6, <2>7
<1>. QED BY <1>1, <1>3, <1>4

\* A sound full stream makes a pristine or ready state ready.
LEMMA FullStreamReady ==
    ASSUME NEW b \in Battles, NEW s \in State, StateOK(s, b),
           s.ready \/ s.log = <<>>, NEW body \in Body, FullSound(body)
    PROVE  Advance(s, body.turns).ready
<1> DEFINE run   == body.turns
           m     == Len(s.log)
           fresh == Fresh(Half(s), run)
           r     == Advance(s, run)
<1>1. /\ run \in Run /\ run \in Seq(Turns) /\ Len(run) \in Nat \ {0}
      /\ Gapless(run) /\ run[1] = 1
    <2>1. run \in Run /\ run \in Seq(Turns) /\ run # <<>> /\ Gapless(run)
        BY DEF Body, Run, FullSound, Sound
    <2>2. Len(run) \in Nat \ {0}
        BY <2>1, EmptySeq
    <2>. QED BY <2>1, <2>2 DEF Gapless
<1>2. s.log \in Seq(Turns) /\ m \in Nat
    BY LenProperties DEF State
<1>3. Gapless(s.log)
    <2>1. CASE s.log = <<>>
        BY <2>1, EmptySeq DEF Gapless
    <2>2. CASE s.ready
        BY <2>2 DEF StateOK
    <2>. QED BY <2>1, <2>2
<1>4. Half(s) = m
    BY <1>3, HalfOfGapless
<1>5. CASE Len(run) <= m
    <2>1. s.log # <<>>
        BY <1>1, <1>2, <1>5, EmptySeq
    <2>2. fresh = <<>>
        BY <1>1, <1>2, <1>4, <1>5, FreshOfGapless
    <2>. QED BY <2>1, <2>2 DEF Advance
<1>6. CASE Len(run) > m
    <2>1. /\ Len(fresh) = Len(run) - m
          /\ \A i \in 1..Len(run) - m : fresh[i] = m + i
        <3>1. /\ Len(Fresh(m, run)) = Len(run) - m
              /\ \A i \in 1..Len(run) - m : Fresh(m, run)[i] = m + i
            BY <1>1, <1>2, <1>6, FreshOfGapless
        <3>. QED BY <1>4, <3>1
    <2>2. fresh \in Seq(Turns) /\ fresh # <<>>
        <3>1. Fresh(m, run) \in Seq(Turns)
            BY <1>1, <1>2, FreshProperties
        <3>2. Len(fresh) # 0
            BY <1>1, <1>2, <1>6, <2>1
        <3>. QED BY <1>4, <3>1, <3>2, EmptySeq
    <2>3. s.log \o fresh = run
        <3>1. /\ s.log \o fresh \in Seq(Turns)
              /\ Len(s.log \o fresh) = Len(run)
            <4>1. /\ s.log \o fresh \in Seq(Turns)
                  /\ Len(s.log \o fresh) = Len(s.log) + Len(fresh)
                BY <1>2, <2>2, ConcatProperties
            <4>. QED BY <1>1, <1>2, <2>1, <4>1
        <3>2. Gapless(s.log \o fresh)
            BY <1>2, <1>3, <2>1, <2>2, GaplessConcat
        <3>. QED BY <1>1, <3>1, <3>2, SeqEqual DEF Gapless
    <2>4. Continues(s, run)
        <3>1. IF s.log = <<>> THEN run # <<>> /\ run[1] = 1 ELSE s.contig
            BY <1>1, EmptySeq DEF StateOK
        <3>. QED BY <1>4, <2>1, <3>1 DEF Continues
    <2>5. /\ r.log = run
          /\ r.ready = (Continues(s, run)
                        /\ s.unknown + Count(Dirty, fresh) = 0
                        /\ run \notin Corrupt)
          /\ r.unknown = s.unknown + Count(Dirty, fresh)
        BY <2>2, <2>3 DEF Advance
    <2>6. r.unknown = Count(Dirty, run)
        BY <1>1, <2>5, AdvanceOK DEF StateOK
    <2>7. Count(Dirty, run) = 0 /\ run \notin Corrupt
        BY <1>1, CountZero DEF FullSound, Sound
    <2>. QED BY <2>4, <2>5, <2>6, <2>7
<1>. QED BY <1>1, <1>2, <1>5, <1>6

-----------------------------------------------------------------------------
(* The session store.                                                       *)

\* The strengthening that is inductive.  The two facts the code never states
\* and everything rests on: the retained baseline is the pristine state of
\* the current battle whenever there is a state at all, and the counters of
\* the state are those of its whole log.
StoreInv ==
    /\ StoreTypeOK
    /\ battleId = NoBattle => state = NoState /\ pending = <<>>
    /\ state = NoState => initial = NoState /\ ~replaying
    /\ state # NoState => /\ StateOK(state, battleId)
                          /\ initial = Initial(battleId)
    /\ \A i \in 1..Len(pending) : pending[i].battle = battleId
    /\ replaying => pending # <<>>
    /\ BufferDrained

-----------------------------------------------------------------------------

\* Push keeps the bound of pending_updates_ and adds only the new payload.
LEMMA PushProperties ==
    ASSUME NEW queue \in Seq(Buffered), Len(queue) <= PendingCap,
           NEW item \in Buffered
    PROVE  /\ Push(queue, item) \in Seq(Buffered)
           /\ Len(Push(queue, item)) <= PendingCap
           /\ \A i \in 1..Len(Push(queue, item)) :
                 \/ Push(queue, item)[i] = item
                 \/ \E j \in 1..Len(queue) : Push(queue, item)[i] = queue[j]
<1> DEFINE q == IF Len(queue) >= PendingCap THEN Tail(queue) ELSE queue
<1>1. Len(queue) \in Nat /\ PendingCap \in Nat \ {0}
    BY LenProperties, SessionStoreAssumption
<1>2. /\ q \in Seq(Buffered) /\ Len(q) \in Nat /\ Len(q) + 1 <= PendingCap
      /\ \A i \in 1..Len(q) : \E j \in 1..Len(queue) : q[i] = queue[j]
    <2>1. CASE Len(queue) >= PendingCap
        <3>1. queue # <<>>
            BY <1>1, <2>1, EmptySeq
        <3>2. /\ Tail(queue) \in Seq(Buffered)
              /\ Len(Tail(queue)) = Len(queue) - 1
              /\ \A i \in 1..Len(Tail(queue)) : Tail(queue)[i] = queue[i + 1]
            BY <3>1, HeadTailProperties
        <3>3. \A i \in 1..Len(Tail(queue)) : i + 1 \in 1..Len(queue)
            BY <1>1, <3>2
        <3>4. Len(queue) - 1 \in Nat
            BY <1>1, <2>1
        <3>. QED BY <1>1, <2>1, <3>2, <3>3, <3>4
    <2>2. CASE ~(Len(queue) >= PendingCap)
        BY <1>1, <2>2
    <2>. QED BY <2>1, <2>2
<1>3. Push(queue, item) = Append(q, item)
    BY DEF Push
<1> HIDE DEF q
<1>4. /\ Append(q, item) \in Seq(Buffered)
      /\ Len(Append(q, item)) = Len(q) + 1
      /\ \A i \in 1..Len(q) : Append(q, item)[i] = q[i]
      /\ Append(q, item)[Len(q) + 1] = item
    BY <1>2, AppendProperties
<1>5. ASSUME NEW i \in 1..Len(q) + 1
      PROVE  \/ Append(q, item)[i] = item
             \/ \E j \in 1..Len(queue) : Append(q, item)[i] = queue[j]
    <2>1. i \in 1..Len(q) \/ i = Len(q) + 1
        BY <1>2
    <2>. QED BY <1>2, <1>4, <2>1
<1>. QED BY <1>2, <1>3, <1>4, <1>5

\* What an envelope that passes the early returns is ingested into.
LEMMA IngestFacts ==
    ASSUME StoreInv, NEW e \in Envelopes, ~Refused(e)
    PROVE  /\ Target(e) \in Battles /\ e.body \in Body /\ e.at \in Nat
           /\ KeptAt(e) \in Nat
           /\ KeptPending(e) \in Seq(Buffered)
           /\ Len(KeptPending(e)) <= PendingCap
           /\ \A i \in 1..Len(KeptPending(e)) :
                 KeptPending(e)[i].battle = Target(e)
           /\ KeptState(e) = NoState => KeptInitial(e) = NoState
           /\ KeptState(e) # NoState =>
                 /\ ~Resets(e) /\ Target(e) = battleId
                 /\ KeptState(e) = state
                 /\ KeptInitial(e) = initial
                 /\ KeptPending(e) = pending
<1>1. e.battle \in Battles \cup {NoBattle} /\ e.body \in Body /\ e.at \in Nat
    BY SessionStoreAssumption DEF Envelopes
<1>2. Target(e) \in Battles
    BY <1>1 DEF Refused, Unusable, Target, StoreInv, StoreTypeOK
<1>3. <<>> \in Seq(Buffered) /\ Len(<<>>) = 0
    BY EmptySeq
<1>4. KeptAt(e) \in Nat
    BY DEF KeptAt, StoreInv, StoreTypeOK
<1>5. /\ KeptPending(e) \in Seq(Buffered)
      /\ Len(KeptPending(e)) <= PendingCap
    BY <1>3, SessionStoreAssumption DEF KeptPending, StoreInv, StoreTypeOK
<1>6. \A i \in 1..Len(KeptPending(e)) : KeptPending(e)[i].battle = Target(e)
    <2>1. CASE Resets(e) \/ battleId = NoBattle
        <3>1. KeptPending(e) = <<>>
            BY <2>1 DEF KeptPending, StoreInv
        <3>. QED BY <1>3, <3>1
    <2>2. CASE ~Resets(e) /\ battleId # NoBattle
        BY <2>2 DEF Resets, KeptPending, StoreInv
    <2>. QED BY <2>1, <2>2
<1>7. KeptState(e) = NoState => KeptInitial(e) = NoState
    BY DEF KeptState, KeptInitial, StoreInv
<1>8. ASSUME KeptState(e) # NoState
      PROVE  /\ ~Resets(e) /\ Target(e) = battleId
             /\ KeptState(e) = state
             /\ KeptInitial(e) = initial
             /\ KeptPending(e) = pending
    <2>1. ~Resets(e) /\ state # NoState
        BY <1>8 DEF KeptState
    <2>2. battleId # NoBattle
        BY <2>1 DEF StoreInv
    <2>. QED BY <2>1, <2>2 DEF Resets, KeptState, KeptInitial, KeptPending
<1>. QED BY <1>1, <1>2, <1>4, <1>5, <1>6, <1>7, <1>8

\* What a published payload decodes to.
LEMMA DecodeFacts ==
    ASSUME StoreInv, NEW e \in Envelopes, ~Refused(e), Decode(e) # NoState
    PROVE  /\ Decode(e) \in State
           /\ StateOK(Decode(e), Target(e))
           /\ KeptState(e) = NoState => Decode(e) = Initial(Target(e))
           /\ KeptState(e) # NoState =>
                /\ initial = Initial(battleId)
                /\ Decode(e) = IF FullStream(e.body) /\ ~state.ready
                               THEN DecodeUpdate(initial, e.body)
                               ELSE DecodeUpdate(state, e.body)
<1>1. Target(e) \in Battles /\ e.body \in Body
    BY IngestFacts
<1>2. CASE KeptState(e) = NoState
    <2>1. Decode(e) = Initial(Target(e))
        BY <1>2 DEF Decode, DecodeInitial
    <2>. QED BY <1>1, <1>2, <2>1, InitialOK
<1>3. CASE KeptState(e) # NoState
    <2>1. /\ Target(e) = battleId /\ KeptState(e) = state
          /\ KeptInitial(e) = initial /\ state # NoState
        BY <1>3, IngestFacts
    <2>2. /\ state \in State /\ StateOK(state, battleId)
          /\ initial = Initial(battleId)
        BY <2>1 DEF StoreInv, StoreTypeOK
    <2>3. /\ initial \in State /\ initial # NoState
          /\ StateOK(initial, battleId)
        BY <1>1, <2>1, <2>2, InitialOK
    <2>4. Decode(e) = IF FullStream(e.body) /\ ~state.ready
                      THEN DecodeUpdate(initial, e.body)
                      ELSE DecodeUpdate(state, e.body)
        BY <1>3, <2>1, <2>3 DEF Decode
    <2>5. /\ DecodeUpdate(initial, e.body) # NoState =>
                /\ DecodeUpdate(initial, e.body) \in State
                /\ StateOK(DecodeUpdate(initial, e.body), battleId)
          /\ DecodeUpdate(state, e.body) # NoState =>
                /\ DecodeUpdate(state, e.body) \in State
                /\ StateOK(DecodeUpdate(state, e.body), battleId)
        BY <1>1, <2>1, <2>2, <2>3, DecodeUpdateOK
    <2>. QED BY <1>3, <2>1, <2>2, <2>4, <2>5
<1>. QED BY <1>2, <1>3

\* With a state, only a payload whose M record does not parse decodes to none.
LEMMA BrokenFacts ==
    ASSUME StoreInv, NEW e \in Envelopes, ~Refused(e), Decode(e) = NoState,
           KeptState(e) # NoState
    PROVE  e.body.kind = "broken"
<1>1. /\ Target(e) \in Battles /\ e.body \in Body /\ e.body.turns \in Run
      /\ Target(e) = battleId /\ KeptState(e) = state
      /\ KeptInitial(e) = initial /\ state # NoState
    BY IngestFacts DEF Body
<1>2. /\ state \in State /\ StateOK(state, battleId)
      /\ initial = Initial(battleId) /\ initial \in State
      /\ StateOK(initial, battleId)
    BY <1>1, InitialOK DEF StoreInv, StoreTypeOK
<1>3. \A s \in {state, initial} :
          DecodeUpdate(s, e.body) = NoState => e.body.kind = "broken"
    <2> TAKE s \in {state, initial}
    <2>1. s \in State /\ s.battle \in Battles /\ StateOK(s, battleId)
        BY <1>2 DEF State
    <2>2. Initial(s.battle) # NoState /\ Advance(s, e.body.turns) # NoState
        BY <1>1, <2>1, InitialOK, AdvanceOK
    <2>. QED BY <2>2 DEF DecodeUpdate, DecodeInitial
<1>. QED BY <1>1, <1>3 DEF Decode

-----------------------------------------------------------------------------

\* A daemon that has just started satisfies the invariant.
LEMMA InvInit == StoreInit => StoreInv
<1> SUFFICES ASSUME StoreInit PROVE StoreInv
    OBVIOUS
<1>1. <<>> \in Seq(Buffered) /\ Len(<<>>) = 0 /\ <<>> \in Run
    <2>1. <<>> \in Seq(Buffered) /\ <<>> \in Seq(Turns) /\ Len(<<>>) = 0
        BY EmptySeq
    <2>. QED BY <2>1 DEF Run
<1>2. NoBody \in Body
    BY <1>1 DEF NoBody, Body, Kinds
<1>3. /\ battleId = NoBattle /\ state = NoState /\ initial = NoState
      /\ pending = <<>> /\ lastBody = NoBody /\ lastAt = 0
      /\ revision = 0 /\ replaying = FALSE
    BY DEF StoreInit
<1>4. StoreTypeOK
    <2>1. 0 \in 0..MaxRevision /\ 0 <= PendingCap
        BY SessionStoreAssumption
    <2>. QED BY <1>1, <1>2, <1>3, <2>1 DEF StoreTypeOK
<1>. QED BY <1>1, <1>3, <1>4 DEF StoreInv, BufferDrained

\* capture() preserves the invariant when the payload decodes to a state.
LEMMA InvPublished ==
    ASSUME StoreInv, NEW e \in Envelopes, CapturePublished(e)
    PROVE  StoreInv'
<1> DEFINE d == Decode(e)
           b == Target(e)
<1>1. /\ ~Refused(e) /\ ~replaying /\ Decode(e) # NoState
      /\ revision < MaxRevision /\ battleId' = b /\ state' = d
      /\ lastBody' = e.body
      /\ lastAt' = IF e.at # 0 THEN e.at ELSE KeptAt(e)
      /\ initial' = IF KeptInitial(e) = NoState /\ Half(d) = 0
                    THEN d ELSE KeptInitial(e)
      /\ pending' = KeptPending(e) /\ revision' = revision + 1
      /\ replaying' = (KeptPending(e) # <<>> /\ ~d.ready)
    BY DEF CapturePublished, Ingest, StartsReplay
<1>2. /\ b \in Battles /\ e.body \in Body /\ lastAt' \in Nat
      /\ KeptPending(e) \in Seq(Buffered)
      /\ Len(KeptPending(e)) <= PendingCap
      /\ \A i \in 1..Len(KeptPending(e)) : KeptPending(e)[i].battle = b
    BY <1>1, IngestFacts
<1>3. /\ d \in State /\ StateOK(d, b) /\ d # NoState
      /\ KeptState(e) = NoState => d = Initial(b)
    BY <1>1, DecodeFacts
<1>4. initial' = Initial(b)
    <2>1. CASE KeptState(e) = NoState
        <3>1. KeptInitial(e) = NoState
            BY <1>1, <2>1, IngestFacts
        <3>2. Half(Initial(b)) = 0
            BY DEF Half, Initial
        <3>. QED BY <1>1, <1>3, <2>1, <3>1, <3>2
    <2>2. CASE KeptState(e) # NoState
        <3>1. KeptInitial(e) = Initial(b)
            BY <1>1, <2>2, IngestFacts, DecodeFacts
        <3>. QED BY <1>1, <1>2, <3>1, InitialOK
    <2>. QED BY <2>1, <2>2
<1>5. StoreTypeOK'
    <2>1. revision + 1 \in 0..MaxRevision
        BY <1>1, SessionStoreAssumption DEF StoreInv, StoreTypeOK
    <2>. QED BY <1>1, <1>2, <1>3, <1>4, <2>1, InitialOK DEF StoreTypeOK
<1>6. BufferDrained'
    <2>1. CASE KeptPending(e) = <<>>
        BY <1>1, <2>1, EmptySeq DEF BufferDrained
    <2>2. CASE KeptPending(e) # <<>> /\ d.ready
        <3>1. KeptState(e) # NoState
            BY <1>3, <2>2 DEF Initial
        <3>2. KeptPending(e) = pending /\ state # NoState
            BY <1>1, <3>1, IngestFacts
        <3>. QED BY <1>1, <3>2 DEF StoreInv, BufferDrained
    <2>3. CASE KeptPending(e) # <<>> /\ ~d.ready
        BY <1>1, <2>3 DEF BufferDrained
    <2>. QED BY <2>1, <2>2, <2>3
<1>7. b # NoBattle
    BY <1>2, TurnStreamAssumption
<1>8. StateOK(state', battleId')
    BY <1>1, <1>3
<1>. QED BY <1>1, <1>2, <1>3, <1>4, <1>5, <1>6, <1>7, <1>8 DEF StoreInv, StateOK

\* capture() preserves the invariant when the payload decodes to no state.
LEMMA InvBuffered ==
    ASSUME StoreInv, NEW e \in Envelopes, CaptureBuffered(e)
    PROVE  StoreInv'
<1> DEFINE b    == Target(e)
           item == [battle |-> b, body |-> e.body]
<1>1. /\ ~Refused(e) /\ ~replaying /\ Decode(e) = NoState
      /\ battleId' = b /\ lastBody' = e.body
      /\ lastAt' = IF e.at # 0 THEN e.at ELSE KeptAt(e)
      /\ state' = KeptState(e) /\ initial' = KeptInitial(e)
      /\ pending' = IF e.body.turns # <<>>
                    THEN Push(KeptPending(e), item) ELSE KeptPending(e)
      /\ revision' = revision /\ replaying' = FALSE
    BY DEF CaptureBuffered, Ingest, StoreInv, StoreTypeOK
<1>2. /\ b \in Battles /\ e.body \in Body /\ lastAt' \in Nat
      /\ KeptPending(e) \in Seq(Buffered)
      /\ Len(KeptPending(e)) <= PendingCap
      /\ \A i \in 1..Len(KeptPending(e)) : KeptPending(e)[i].battle = b
    BY <1>1, IngestFacts
<1>3. item \in Buffered /\ item.battle = b /\ item.body = e.body
    BY <1>2 DEF Buffered
<1> HIDE DEF item
<1>4. /\ pending' \in Seq(Buffered) /\ Len(pending') <= PendingCap
      /\ \A i \in 1..Len(pending') :
            \/ pending'[i] = item
            \/ \E j \in 1..Len(KeptPending(e)) :
                   pending'[i] = KeptPending(e)[j]
    <2>1. CASE e.body.turns # <<>>
        BY <1>1, <1>2, <1>3, <2>1, PushProperties
    <2>2. CASE e.body.turns = <<>>
        BY <1>1, <1>2, <2>2
    <2>. QED BY <2>1, <2>2
<1>5. \A i \in 1..Len(pending') : pending'[i].battle = b
    BY <1>2, <1>3, <1>4
<1>6. b # NoBattle
    BY <1>2, TurnStreamAssumption
<1>7. CASE KeptState(e) = NoState
    <2>1. state' = NoState /\ initial' = NoState
        BY <1>1, <1>7, IngestFacts
    <2>2. StoreTypeOK'
        BY <1>1, <1>2, <1>4, <2>1 DEF StoreInv, StoreTypeOK
    <2>. QED BY <1>1, <1>5, <1>6, <2>1, <2>2 DEF StoreInv, BufferDrained
<1>8. CASE KeptState(e) # NoState
    <2>1. /\ state' = state /\ initial' = initial /\ battleId' = battleId
          /\ KeptPending(e) = pending /\ state # NoState
        BY <1>1, <1>8, IngestFacts
    <2>2. StoreTypeOK'
        BY <1>1, <1>2, <1>4, <2>1 DEF StoreInv, StoreTypeOK
    <2>3. \A i \in 1..Len(pending) : pending[i].body.kind = "broken"
        BY <1>1, <2>1 DEF StoreInv, BufferDrained
    <2>4. item.body.kind = "broken"
        BY <1>1, <1>3, <1>8, BrokenFacts
    <2>5. BufferDrained'
        BY <1>4, <2>1, <2>3, <2>4 DEF BufferDrained
    <2>6. StateOK(state', battleId') /\ initial' = Initial(battleId')
        BY <2>1 DEF StoreInv
    <2>. QED BY <1>1, <1>5, <1>6, <2>1, <2>2, <2>5, <2>6
             DEF StoreInv, StateOK, Initial
<1>. QED BY <1>7, <1>8

\* One iteration of the replay loop of capture() preserves the invariant.
LEMMA InvReplay ==
    ASSUME StoreInv, ReplayPending
    PROVE  StoreInv'
<1> DEFINE head == Head(pending).body
<1>1. /\ state # NoState /\ pending # <<>> /\ battleId # NoBattle
      /\ pending \in Seq(Buffered) /\ Len(pending) <= PendingCap
      /\ state \in State /\ StateOK(state, battleId)
      /\ initial = Initial(battleId) /\ battleId \in Battles
    BY DEF ReplayPending, StoreInv, StoreTypeOK
<1>2. /\ Head(pending) \in Buffered
      /\ Tail(pending) \in Seq(Buffered)
      /\ Len(Tail(pending)) = Len(pending) - 1
      /\ \A i \in 1..Len(Tail(pending)) : Tail(pending)[i] = pending[i + 1]
    BY <1>1, HeadTailProperties
<1>3. Len(pending) \in Nat /\ PendingCap \in Nat
    BY <1>1, LenProperties, SessionStoreAssumption
<1>4. state' \in State /\ StateOK(state', battleId) /\ state' # NoState
    <2>1. head \in Body
        BY <1>2 DEF Buffered
    <2>2. CASE DecodeUpdate(state, head) = NoState
        BY <1>1, <2>2 DEF ReplayPending
    <2>3. CASE DecodeUpdate(state, head) # NoState
        BY <1>1, <2>1, <2>3, DecodeUpdateOK DEF ReplayPending
    <2>. QED BY <2>2, <2>3
<1>5. /\ pending' = Tail(pending) /\ replaying' = (Tail(pending) # <<>>)
      /\ battleId' = battleId /\ initial' = initial
      /\ lastBody' = lastBody /\ lastAt' = lastAt /\ revision' = revision
    BY DEF ReplayPending
<1>6. StoreTypeOK'
    BY <1>2, <1>3, <1>4, <1>5 DEF StoreInv, StoreTypeOK
<1>7. BufferDrained'
    <2>1. CASE Tail(pending) = <<>>
        <3>1. Len(pending') = 0
            BY <1>5, <2>1, EmptySeq
        <3>. QED BY <3>1 DEF BufferDrained
    <2>2. CASE Tail(pending) # <<>>
        <3>1. replaying'
            BY <2>2 DEF ReplayPending
        <3>. QED BY <3>1 DEF BufferDrained
    <2>. QED BY <2>1, <2>2
<1>8. \A i \in 1..Len(pending') : pending'[i].battle = battleId'
    BY <1>2, <1>3, <1>5 DEF StoreInv
<1>9. StateOK(state', battleId') /\ initial' = Initial(battleId')
    BY <1>1, <1>4, <1>5
<1>. QED BY <1>1, <1>4, <1>5, <1>6, <1>7, <1>8, <1>9 DEF StoreInv, StateOK, Initial

\* Every step of a daemon without the debug routes preserves the invariant.
LEMMA InvNext ==
    ASSUME StoreInv, [StoreNext]_storeVars
    PROVE  StoreInv'
<1>1. CASE UNCHANGED storeVars
    BY <1>1 DEF storeVars, StoreInv, StoreTypeOK, BufferDrained, StateOK
<1>2. ASSUME NEW e \in Envelopes, CaptureRefused(e) PROVE StoreInv'
    BY <1>1, <1>2 DEF CaptureRefused
<1>3. ASSUME NEW e \in Envelopes, CapturePublished(e) PROVE StoreInv'
    BY <1>3, InvPublished
<1>4. ASSUME NEW e \in Envelopes, CaptureBuffered(e) PROVE StoreInv'
    BY <1>4, InvBuffered
<1>5. CASE ReplayPending
    BY <1>5, InvReplay
<1>. QED BY <1>1, <1>2, <1>3, <1>4, <1>5 DEF StoreNext

\* StoreInv is an invariant of a daemon without the debug routes.
THEOREM StoreInvariant == StoreSpec => []StoreInv
<1>1. StoreInit => StoreInv
    BY InvInit
<1>2. StoreInv /\ [StoreNext]_storeVars => StoreInv'
    BY InvNext
<1>. QED BY <1>1, <1>2, PTL DEF StoreSpec

\* Type correctness; in particular the buffer never holds more than the 16
\* payloads the code allows (PendingCap), whatever arrives.
THEOREM StoreTypeCorrect ==
    StoreSpec => []StoreTypeOK
<1>1. StoreInv => StoreTypeOK
    BY DEF StoreInv
<1>. QED BY <1>1, StoreInvariant, PTL

\* The two states a session keeps, as StoreInv knows them.
LEMMA KeptStates ==
    ASSUME StoreInv, NEW s \in {state, initial} \ {NoState}
    PROVE  s \in State /\ StateOK(s, battleId)
<1>1. state # NoState
    BY DEF StoreInv
<1>2. /\ state \in State /\ StateOK(state, battleId)
      /\ initial = Initial(battleId) /\ battleId \in Battles
    BY <1>1 DEF StoreInv, StoreTypeOK
<1>3. initial \in State /\ StateOK(initial, battleId)
    BY <1>2, InitialOK
<1>. QED BY <1>2, <1>3

\* A state the session calls protocol_ready is the complete, understood and
\* consistent history of its battle, for any number of half-turns, any
\* captures and any order of arrival.
THEOREM ReadyStatesAreSound ==
    StoreSpec => []ReadyIsSound
<1>1. StoreInv => ReadyIsSound
    <2> SUFFICES ASSUME StoreInv, NEW s \in {state, initial} \ {NoState}, s.ready
                 PROVE  Sound(s.log)
        BY DEF ReadyIsSound
    <2>. QED BY KeptStates, ReadySound
<1>. QED BY <1>1, StoreInvariant, PTL

\* recommendation_safe is granted on the unresolved share of the whole history.
THEOREM SafeStatesAreWithinRisk ==
    StoreSpec => []SafeIsWithinRisk
<1>1. StoreInv => SafeIsWithinRisk
    <2> SUFFICES ASSUME StoreInv, NEW s \in {state, initial} \ {NoState}, s.safe
                 PROVE  s.ready /\ WithinRisk(Count(Rough, s.log), Len(s.log))
        BY DEF SafeIsWithinRisk
    <2>. QED BY KeptStates DEF StateOK
<1>. QED BY <1>1, StoreInvariant, PTL

\* Nothing of another battle survives a reset or arrives late.
THEOREM OneBattleOnly ==
    StoreSpec => []OneBattle
<1>1. StoreInv => OneBattle
    <2> SUFFICES ASSUME StoreInv PROVE OneBattle
        OBVIOUS
    <2>1. \A s \in {state, initial} \ {NoState} : s.battle = battleId
        BY KeptStates DEF StateOK
    <2>. QED BY <2>1 DEF StoreInv, OneBattle
<1>. QED BY <1>1, StoreInvariant, PTL

\* Turns that overtook their static payload are all replayed.
THEOREM NoTurnsLeftBehind ==
    StoreSpec => []BufferDrained
<1>1. StoreInv => BufferDrained
    BY DEF StoreInv
<1>. QED BY <1>1, StoreInvariant, PTL

-----------------------------------------------------------------------------

\* A published capture of the current battle decodes on top of the current
\* state or of the pristine baseline.
LEMMA RecoveryStep ==
    ASSUME StoreInv, NEW e \in Envelopes, CapturePublished(e),
           Target(e) = battleId, state # NoState, FullSound(e.body)
    PROVE  Decode(e).ready
<1>1. ~Refused(e) /\ Decode(e) # NoState
    BY DEF CapturePublished, Ingest
<1>2. /\ KeptState(e) = state /\ battleId \in Battles
      /\ e.body \in Body
    BY <1>1, IngestFacts DEF KeptState, Resets
<1>3. /\ initial = Initial(battleId)
      /\ Decode(e) = IF FullStream(e.body) /\ ~state.ready
                     THEN DecodeUpdate(initial, e.body)
                     ELSE DecodeUpdate(state, e.body)
    BY <1>1, <1>2, DecodeFacts
<1>4. /\ state \in State /\ StateOK(state, battleId)
      /\ initial \in State /\ StateOK(initial, battleId)
      /\ initial.log = <<>>
    BY <1>2, <1>3, InitialOK DEF StoreInv, StoreTypeOK, Initial
<1>5. FullStream(e.body) /\ e.body.kind = "turns"
    <2>1. e.body.turns \in Seq(Turns) /\ e.body.turns # <<>>
        BY <1>2 DEF Body, Run, FullSound
    <2>2. 1 \in 1..Len(e.body.turns)
        BY <2>1, EmptySeq, LenProperties
    <2>. QED BY <2>1, <2>2 DEF FullSound, Sound, Gapless, FullStream
<1>6. \A s \in State : DecodeUpdate(s, e.body) = Advance(s, e.body.turns)
    BY <1>5 DEF DecodeUpdate
<1>7. CASE state.ready
    <2>1. Decode(e) = Advance(state, e.body.turns)
        BY <1>3, <1>4, <1>6, <1>7
    <2>. QED BY <1>2, <1>4, <1>7, <2>1, FullStreamReady
<1>8. CASE ~state.ready
    <2>1. Decode(e) = Advance(initial, e.body.turns)
        BY <1>3, <1>4, <1>5, <1>6, <1>8
    <2>. QED BY <1>2, <1>4, <2>1, FullStreamReady
<1>. QED BY <1>7, <1>8

\* Whatever gap, unknown command or broken invariant a session is stuck
\* behind, one accepted sound full stream makes it ready.
THEOREM RecoveryFromAnyGap ==
    StoreSpec => FullStreamRecovers
<1> DEFINE Recovered ==
        (/\ revision' # revision /\ battleId' = battleId /\ state # NoState
         /\ FullSound(lastBody'))
        => state'.ready
<1>1. StoreInv /\ [StoreNext]_storeVars => [Recovered]_storeVars
    <2> SUFFICES ASSUME StoreInv, StoreNext,
                        revision' # revision, battleId' = battleId,
                        state # NoState, FullSound(lastBody')
                 PROVE  state'.ready
        OBVIOUS
    <2>1. PICK e \in Envelopes : CapturePublished(e)
        BY DEF StoreNext, CaptureRefused, CaptureBuffered, ReplayPending,
               storeVars
    <2>2. battleId' = Target(e) /\ state' = Decode(e) /\ lastBody' = e.body
        BY <2>1 DEF CapturePublished, Ingest
    <2>. QED BY <2>1, <2>2, RecoveryStep
<1>2. FullStreamRecovers <=> [][Recovered]_storeVars
    BY DEF FullStreamRecovers
<1> HIDE DEF Recovered
<1>. QED BY <1>1, <1>2, StoreInvariant, PTL DEF StoreSpec

-----------------------------------------------------------------------------

\* A decode of a state of the current battle keeps, extends or withdraws what
\* the session vouches for.
LEMMA VouchedStep ==
    ASSUME NEW b \in Battles, NEW s \in State, StateOK(s, b), s.ready,
           NEW body \in Body, DecodeUpdate(s, body) # NoState,
           DecodeUpdate(s, body).ready
    PROVE  \/ DecodeUpdate(s, body).log = s.log
           \/ Len(DecodeUpdate(s, body).log) > Len(s.log)
<1>1. body.turns \in Run /\ ~Initial(b).ready
    BY DEF Body, Initial
<1>2. DecodeUpdate(s, body) = Advance(s, body.turns)
    BY <1>1, DecodeUpdateOK
<1>. QED BY <1>1, <1>2, AdvanceExtends

\* The step of the session, seen through what it vouches for.
LEMMA PromiseStep ==
    ASSUME NEW b \in Battles, battleId' = b,
           StoreInv, StoreInv',
           \/ b # battleId /\ (state' # NoState => ~state'.ready)
           \/ /\ b = battleId
              /\ (state # NoState /\ state.ready /\ state' # NoState /\ state'.ready)
                    => \/ state'.log = state.log
                       \/ Len(state'.log) > Len(state.log)
    PROVE  [Promise!Next]_<<battleId, Vouched>>
<1>1. ASSUME state' # NoState, state'.ready
      PROVE  /\ Vouched' = state'.log /\ Vouched' # NoState
             /\ Promise!Prefix(Vouched')
    <2>1. state' \in State /\ StateOK(state', b)
        BY <1>1 DEF StoreInv, StoreTypeOK
    <2>2. state'.log # NoState
        BY <2>1, TurnStreamAssumption DEF State
    <2>3. Gapless(state'.log)
        BY <1>1, <2>1 DEF StateOK
    <2>. QED BY <1>1, <2>2, <2>3 DEF Vouched, Gapless, Promise!Prefix
<1>2. ~(state' # NoState /\ state'.ready) => Vouched' = NoState
    BY DEF Vouched
<1>3. ~(state # NoState /\ state.ready) => Vouched = NoState
    BY DEF Vouched
<1>4. ASSUME state # NoState, state.ready
      PROVE  Vouched = state.log /\ Vouched # NoState
    <2>1. state \in State
        BY <1>4 DEF StoreInv, StoreTypeOK
    <2>. QED BY <1>4, <2>1, TurnStreamAssumption DEF Vouched, State
<1>5. CASE b # battleId /\ (state' # NoState => ~state'.ready)
    BY <1>2, <1>5 DEF Promise!Next, Promise!Open
<1>6. CASE /\ b = battleId
           /\ (state # NoState /\ state.ready /\ state' # NoState /\ state'.ready)
                 => \/ state'.log = state.log
                    \/ Len(state'.log) > Len(state.log)
    <2>1. CASE state' # NoState /\ state'.ready
        <3>1. CASE state # NoState /\ state.ready
            <4>1. CASE state'.log = state.log
                BY <1>1, <1>4, <1>6, <2>1, <3>1, <4>1
            <4>2. CASE Len(state'.log) > Len(state.log)
                BY <1>1, <1>4, <1>6, <2>1, <3>1, <4>2
                   DEF Promise!Next, Promise!Vouch
            <4>. QED BY <1>6, <2>1, <3>1, <4>1, <4>2
        <3>2. CASE ~(state # NoState /\ state.ready)
            BY <1>1, <1>3, <1>6, <2>1, <3>2 DEF Promise!Next, Promise!Vouch
        <3>. QED BY <3>1, <3>2
    <2>2. CASE ~(state' # NoState /\ state'.ready)
        <3>1. CASE state # NoState /\ state.ready
            BY <1>2, <1>4, <1>6, <2>2, <3>1 DEF Promise!Next, Promise!Withdraw
        <3>2. CASE ~(state # NoState /\ state.ready)
            BY <1>2, <1>3, <1>6, <2>2, <3>2
        <3>. QED BY <3>1, <3>2
    <2>. QED BY <2>1, <2>2
<1>. QED BY <1>5, <1>6

\* The session store implements TrustedLog: readers see no copy, or the
\* half-turns 1..n of the current battle, growing until it is withdrawn.
THEOREM KeepsItsPromise ==
    StoreSpec => KeepsPromise
<1>1. StoreInit => Promise!Init
    BY DEF StoreInit, Promise!Init, Vouched
<1>2. StoreInv /\ StoreInv' /\ [StoreNext]_storeVars
      => [Promise!Next]_<<battleId, Vouched>>
    <2> SUFFICES ASSUME StoreInv, StoreInv', [StoreNext]_storeVars
                 PROVE  [Promise!Next]_<<battleId, Vouched>>
        OBVIOUS
    <2>1. CASE UNCHANGED storeVars
        BY <2>1 DEF storeVars, Vouched
    <2>2. ASSUME NEW e \in Envelopes, CaptureRefused(e)
          PROVE  [Promise!Next]_<<battleId, Vouched>>
        BY <2>1, <2>2 DEF CaptureRefused
    <2>3. ASSUME NEW e \in Envelopes, CapturePublished(e)
          PROVE  [Promise!Next]_<<battleId, Vouched>>
        <3>1. /\ ~Refused(e) /\ Decode(e) # NoState
              /\ battleId' = Target(e) /\ state' = Decode(e)
            BY <2>3 DEF CapturePublished, Ingest
        <3>2. Target(e) \in Battles /\ e.body \in Body
            BY <3>1, IngestFacts
        <3>3. CASE KeptState(e) = NoState
            <4>1. ~state'.ready
                BY <3>1, <3>3, DecodeFacts DEF Initial
            <4>. QED BY <3>1, <3>2, <4>1, PromiseStep
        <3>4. CASE KeptState(e) # NoState
            <4>1. Target(e) = battleId /\ state # NoState
                BY <3>1, <3>4, IngestFacts
            <4>2. state \in State /\ StateOK(state, battleId)
                BY <4>1 DEF StoreInv, StoreTypeOK
            <4>3. state.ready => Decode(e) = DecodeUpdate(state, e.body)
                BY <3>1, <3>4, DecodeFacts
            <4>4. (state.ready /\ state'.ready) =>
                      \/ state'.log = state.log
                      \/ Len(state'.log) > Len(state.log)
                BY <3>1, <3>2, <4>1, <4>2, <4>3, VouchedStep
            <4>. QED BY <3>1, <3>2, <4>1, <4>4, PromiseStep
        <3>. QED BY <3>3, <3>4
    <2>4. ASSUME NEW e \in Envelopes, CaptureBuffered(e)
          PROVE  [Promise!Next]_<<battleId, Vouched>>
        <3>1. ~Refused(e) /\ battleId' = Target(e) /\ state' = KeptState(e)
            BY <2>4 DEF CaptureBuffered, Ingest
        <3>2. Target(e) \in Battles
            BY <3>1, IngestFacts
        <3>3. CASE KeptState(e) = NoState
            BY <3>1, <3>2, <3>3, PromiseStep
        <3>4. CASE KeptState(e) # NoState
            <4>1. Target(e) = battleId /\ KeptState(e) = state
                BY <3>1, <3>4, IngestFacts
            <4>. QED BY <3>1, <3>2, <4>1, PromiseStep
        <3>. QED BY <3>3, <3>4
    <2>5. CASE ReplayPending
        <3>1. /\ state # NoState /\ pending # <<>> /\ battleId' = battleId
              /\ state \in State /\ StateOK(state, battleId)
              /\ battleId \in Battles /\ pending \in Seq(Buffered)
            BY <2>5 DEF ReplayPending, StoreInv, StoreTypeOK
        <3>2. Head(pending).body \in Body
            <4>1. Head(pending) \in Buffered
                BY <3>1, HeadTailProperties
            <4>. QED BY <4>1 DEF Buffered
        <3>3. \/ state' = state
              \/ /\ state' = DecodeUpdate(state, Head(pending).body)
                 /\ DecodeUpdate(state, Head(pending).body) # NoState
            BY <2>5 DEF ReplayPending
        <3>4. (state.ready /\ state'.ready) =>
                  \/ state'.log = state.log
                  \/ Len(state'.log) > Len(state.log)
            BY <3>1, <3>2, <3>3, VouchedStep
        <3>. QED BY <3>1, <3>4, PromiseStep
    <2>. QED BY <2>1, <2>2, <2>3, <2>4, <2>5 DEF StoreNext
<1>3. KeepsPromise <=> Promise!Init /\ [][Promise!Next]_<<battleId, Vouched>>
    BY DEF KeepsPromise, Promise!Spec
<1>. QED BY <1>1, <1>2, <1>3, StoreInvariant, PTL DEF StoreSpec
=============================================================================
