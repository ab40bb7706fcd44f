-------------------------- MODULE PageLoadsProofs --------------------------
(***************************************************************************)
(* Proofs about PageLoads: after a page load whose payloads all arrive, the*)
(* daemon has the whole battle, for any number of half-turns, loads,       *)
(* restarts and losses, and whatever the session was before.               *)
(***************************************************************************)
EXTENDS PageLoads, SessionStoreProofs

\* The half-turns 1..n in order: what the server serves after n of them.
UpTo(n) == [i \in 1..n |-> i]

\* What a page has posted by the time n half-turns are played.
PageBodies(n) == {StaticBody} \cup {Stream(m) : m \in 1..n}
                 \cup {Poll(m) : m \in 2..n}

\* protocol_ready is exactly the gate at the end of decode_update.
Exact(s) == s.ready <=> s.contig /\ s.unknown = 0 /\ s.log \notin Corrupt

\* No half-turn beyond the n-th.
Within(log, n) == \A i \in 1..Len(log) : log[i] <= n

\* The daemon has the first n half-turns and nothing else.
Tracked(n) == state # NoState /\ state.log = UpTo(n) /\ state.contig

\* The pending buffer of a session that the stream reached first.
Waiting == <<[battle |-> PageBattle, body |-> Stream(played)]>>

Clean   == whole /\ (ordered \/ intoEmpty)
Polling == played > 1 /\ due = {Poll(played)}

\* What the page knows of the session, besides StoreInv.
PageTypeOK ==
    /\ played \in 1..MaxHalf
    /\ due \in SUBSET {StaticBody, Stream(played)} \/ Polling
    /\ whole \in BOOLEAN /\ intoEmpty \in BOOLEAN /\ ordered \in BOOLEAN
    /\ battleId \in {NoBattle, PageBattle}
    /\ lastAt \in {0, LoadTime}
    /\ lastBody \in PageBodies(played) \cup {NoBody}
    /\ \A i \in 1..Len(pending) :
           pending[i].body \in PageBodies(played) \ {StaticBody}
    /\ state # NoState => Exact(state) /\ Within(state.log, played)

\* Why no payload of a load is taken for a repetition of an earlier one.
NotRepeated ==
    /\ lastBody = StaticBody => state # NoState
    /\ state = NoState /\ pending = <<>> => lastBody = NoBody
    /\ Polling => lastBody # Poll(played) /\ ~replaying
    /\ whole /\ due = {Stream(played)} /\ ~Polling => lastBody = StaticBody

\* How far the session has come since a load that lost nothing.
Progress ==
    /\ StaticBody \in due => ~ordered
    /\ Clean /\ due = {} /\ ~replaying => Tracked(played)
    /\ Clean /\ due = {} /\ replaying =>
           /\ ~ordered /\ state = Initial(PageBattle) /\ pending = Waiting
    /\ Clean /\ Polling => Tracked(played - 1)
    /\ whole /\ intoEmpty /\ due = {StaticBody} =>
           state = NoState /\ pending = Waiting
    /\ whole /\ intoEmpty /\ due = {StaticBody, Stream(played)} =>
           state = NoState /\ pending = <<>>

PageInv == StoreInv /\ PageTypeOK /\ NotRepeated /\ Progress

-----------------------------------------------------------------------------

\* The history 1..n is a run the server may send.
LEMMA UpToFacts ==
    ASSUME NEW n \in Nat, 1..n \subseteq Turns
    PROVE  /\ UpTo(n) \in Run /\ UpTo(n) \in Seq(Turns)
           /\ Len(UpTo(n)) = n /\ Gapless(UpTo(n)) /\ Within(UpTo(n), n)
           /\ n > 0 => UpTo(n) # <<>> /\ UpTo(n)[1] = 1
<1>1. UpTo(n) \in Seq(Turns) /\ Len(UpTo(n)) = n
    <2>1. UpTo(n) \in [1..n -> Turns]
        BY DEF UpTo
    <2>2. UpTo(n) \in Seq(Turns)
        BY <2>1, SeqDef
    <2>3. DOMAIN UpTo(n) = 1..n /\ DOMAIN UpTo(n) = 1..Len(UpTo(n))
              /\ Len(UpTo(n)) \in Nat
        BY <2>2, LenProperties DEF UpTo
    <2>. QED BY <2>2, <2>3
<1>2. \A i \in 1..n : UpTo(n)[i] = i
    BY DEF UpTo
<1>3. DOMAIN UpTo(n) = 1..n
    BY DEF UpTo
<1>. QED BY <1>1, <1>2, <1>3, EmptySeq DEF Run, Gapless, Within

\* The three shapes of payload are distinct.
LEMMA PageBodyFacts ==
    ASSUME NEW n \in 1..MaxHalf
    PROVE  /\ PageBodies(n) \subseteq Bodies
           /\ StaticBody.kind = "static" /\ StaticBody.turns = <<>>
           /\ StaticBody # NoBody
           /\ Stream(n).kind = "turns" /\ Stream(n).turns = UpTo(n)
           /\ Stream(n) # StaticBody /\ Stream(n) # NoBody
           /\ Poll(n).kind = "turns" /\ Poll(n).turns = <<n>>
           /\ Poll(n) # StaticBody /\ Poll(n) # NoBody
<1>1. \A m \in 1..n : m \in 1..MaxHalf
    BY PageLoadsAssumption
<1>2. \A m \in 2..n : m \in 1..MaxHalf
    BY PageLoadsAssumption
<1>3. PageBodies(n) \subseteq Bodies
    BY <1>1, <1>2, PageLoadsAssumption DEF PageBodies
<1>. QED BY <1>3 DEF StaticBody, Stream, Poll, NoBody, UpTo

\* A poll is not taken for a stream, once there are two half-turns.
LEMMA PollIsNotStream ==
    ASSUME NEW n \in 1..MaxHalf, n > 1
    PROVE  Poll(n) # Stream(n)
<1>1. 2 \in DOMAIN [i \in 1..n |-> i] /\ 2 \notin DOMAIN <<n>>
    BY PageLoadsAssumption
<1>. QED BY <1>1 DEF Poll, Stream

\* A gapless history is one of the histories 1..n.
LEMMA GaplessIsUpTo ==
    ASSUME NEW log \in Seq(Turns), Gapless(log)
    PROVE  log = UpTo(Len(log))
<1>1. Len(log) \in Nat /\ DOMAIN log = 1..Len(log)
    BY LenProperties
<1>2. log = [i \in 1..Len(log) |-> log[i]]
    BY <1>1, LenProperties
<1>. QED BY <1>2 DEF Gapless, UpTo

\* The decoder's verdict is exact in every state it returns.
LEMMA ExactAfterAdvance ==
    ASSUME NEW s \in State, NEW run \in Run, Exact(s)
    PROVE  Exact(Advance(s, run))
<1>1. CASE Fresh(Half(s), run) = <<>>
    BY <1>1 DEF Advance
<1>2. CASE Fresh(Half(s), run) # <<>>
    <2> DEFINE fresh == Fresh(Half(s), run)
               log   == s.log \o fresh
               r     == Advance(s, run)
    <2>1. /\ r.log = log /\ r.contig = Continues(s, run)
          /\ r.unknown = s.unknown + Count(Dirty, fresh)
          /\ r.ready = (Continues(s, run) /\ s.unknown + Count(Dirty, fresh) = 0
                        /\ log \notin Corrupt)
        BY <1>2 DEF Advance
    <2>. QED BY <2>1 DEF Exact
<1>. QED BY <1>1, <1>2

\* A payload brings no half-turn it does not name.
LEMMA WithinAfterAdvance ==
    ASSUME NEW s \in State, NEW run \in Run, NEW n \in Nat,
           Within(s.log, n), Within(run, n)
    PROVE  Within(Advance(s, run).log, n)
<1> DEFINE fresh == Fresh(Half(s), run)
           k     == Cardinality({i \in 1..Len(run) : run[i] <= Half(s)})
<1>1. /\ s.log \in Seq(Turns) /\ fresh \in Seq(Turns)
      /\ run \in Seq(Turns) /\ Len(run) \in Nat
    BY HalfType, FreshProperties, LenProperties DEF State, Run
<1>2. k \in Nat
    <2>1. {i \in 1..Len(run) : run[i] <= Half(s)} \in SUBSET (1..Len(run))
        OBVIOUS
    <2>2. IsFiniteSet(1..Len(run))
        BY <1>1, FS_Interval
    <2>3. IsFiniteSet({i \in 1..Len(run) : run[i] <= Half(s)})
        BY <2>1, <2>2, FS_Subset
    <2>. QED BY <2>3, FS_CardinalityType
<1> HIDE DEF k
<1>3. \A i \in 1..Len(fresh) : fresh[i] <= n
    <2>1. fresh = SubSeq(run, 1 + k, Len(run))
        BY DEF Fresh, k
    <2>2. \A i \in 1 + k .. Len(run) : run[i] \in Turns
        BY <1>1, <1>2, ElementOfSeq
    <2>3. /\ Len(fresh) = IF 1 + k <= Len(run) THEN Len(run) - (1 + k) + 1 ELSE 0
          /\ \A i \in 1 .. Len(run) - (1 + k) + 1 : fresh[i] = run[1 + k + i - 1]
        BY <1>1, <1>2, <2>1, <2>2, SubSeqProperties
    <2> TAKE i \in 1..Len(fresh)
    <2>4. i \in 1 .. Len(run) - (1 + k) + 1 /\ 1 + k + i - 1 \in 1..Len(run)
        BY <1>1, <1>2, <2>3
    <2>. QED BY <2>3, <2>4 DEF Within
<1>4. CASE fresh = <<>>
    BY <1>4 DEF Advance
<1>5. CASE fresh # <<>>
    <2>1. Advance(s, run).log = s.log \o fresh
        BY <1>5 DEF Advance
    <2>2. /\ Len(s.log \o fresh) = Len(s.log) + Len(fresh)
          /\ \A i \in 1..Len(s.log) + Len(fresh) : (s.log \o fresh)[i] =
                 IF i <= Len(s.log) THEN s.log[i] ELSE fresh[i - Len(s.log)]
        BY <1>1, ConcatProperties
    <2>3. Len(s.log) \in Nat /\ Len(fresh) \in Nat
        BY <1>1, LenProperties
    <2>4. ASSUME NEW i \in 1..Len(s.log) + Len(fresh)
          PROVE  (s.log \o fresh)[i] <= n
        <3>1. CASE i <= Len(s.log)
            BY <2>2, <2>3, <3>1 DEF Within
        <3>2. CASE ~(i <= Len(s.log))
            <4>1. i - Len(s.log) \in 1..Len(fresh)
                BY <2>3, <3>2
            <4>. QED BY <1>3, <2>2, <3>2, <4>1
        <3>. QED BY <3>1, <3>2
    <2>. QED BY <2>1, <2>2, <2>4 DEF Within
<1>. QED BY <1>4, <1>5

\* The stream of all half-turns completes any gapless history it contains.
LEMMA StreamCompletes ==
    ASSUME NEW n \in Nat \ {0}, 1..n \subseteq Turns,
           NEW s \in State, Gapless(s.log), Len(s.log) <= n,
           s.log = <<>> \/ s.contig
    PROVE  /\ Advance(s, UpTo(n)).log = UpTo(n)
           /\ Advance(s, UpTo(n)).contig
<1> DEFINE run   == UpTo(n)
           m     == Len(s.log)
           fresh == Fresh(m, run)
           r     == Advance(s, run)
<1>1. /\ run \in Run /\ run \in Seq(Turns) /\ Len(run) = n /\ Gapless(run)
      /\ run # <<>> /\ run[1] = 1
    BY UpToFacts
<1>2. s.log \in Seq(Turns) /\ m \in Nat /\ Half(s) = m
    BY LenProperties, HalfOfGapless DEF State
<1> HIDE DEF run
<1>3. CASE m = n
    <2>1. fresh = <<>>
        BY <1>1, <1>2, <1>3, FreshOfGapless
    <2>2. r = s
        BY <1>2, <2>1 DEF Advance
    <2>3. s.log = UpTo(n) /\ s.log # <<>>
        BY <1>2, <1>3, GaplessIsUpTo, EmptySeq
    <2>. QED BY <2>2, <2>3 DEF run
<1>4. CASE m < n
    <2>1. /\ Len(fresh) = n - m /\ fresh \in Seq(Turns)
          /\ \A i \in 1..n - m : fresh[i] = m + i
        BY <1>1, <1>2, <1>4, FreshOfGapless, FreshProperties
    <2> HIDE DEF fresh
    <2>2. fresh # <<>>
        BY <1>2, <1>4, <2>1, EmptySeq
    <2>3. Continues(s, run)
        BY <1>1, <1>2, <2>1 DEF Continues, fresh
    <2>4. r.log = s.log \o fresh /\ r.contig = Continues(s, run)
        BY <1>2, <2>2 DEF Advance, fresh
    <2>5. Gapless(s.log \o fresh)
        BY <1>2, <2>1, GaplessConcat
    <2>6. s.log \o fresh \in Seq(Turns) /\ Len(s.log \o fresh) = n
        <3>1. /\ s.log \o fresh \in Seq(Turns)
              /\ Len(s.log \o fresh) = Len(s.log) + Len(fresh)
            BY <1>2, <2>1, ConcatProperties
        <3>. QED BY <1>2, <2>1, <3>1
    <2>. QED BY <2>3, <2>4, <2>5, <2>6, GaplessIsUpTo DEF run
<1>. QED BY <1>2, <1>3, <1>4

\* The poll of the next half-turn extends the history by it.
LEMMA PollExtends ==
    ASSUME NEW n \in Nat, n > 1, 1..n \subseteq Turns,
           NEW s \in State, s.log = UpTo(n - 1), s.contig
    PROVE  /\ Advance(s, <<n>>).log = UpTo(n)
           /\ Advance(s, <<n>>).contig
<1> DEFINE run   == <<n>>
           fresh == Fresh(n - 1, run)
           r     == Advance(s, run)
<1>1. /\ s.log \in Seq(Turns) /\ Len(s.log) = n - 1 /\ Gapless(s.log)
      /\ s.log # <<>> /\ Half(s) = n - 1
    <2>1. n - 1 \in Nat /\ 1..n - 1 \subseteq Turns /\ n - 1 > 0
        OBVIOUS
    <2>2. /\ s.log \in Seq(Turns) /\ Len(s.log) = n - 1 /\ Gapless(s.log)
          /\ s.log # <<>>
        BY <2>1, UpToFacts
    <2>. QED BY <2>2, HalfOfGapless
<1>2. run \in Seq(Turns) /\ Len(run) = 1 /\ run[1] = n
    OBVIOUS
<1>3. fresh = run
    <2>1. {i \in 1..Len(run) : run[i] <= n - 1} = {}
        BY <1>2
    <2>2. Cardinality({i \in 1..Len(run) : run[i] <= n - 1}) = 0
        BY <2>1, FS_EmptySet
    <2>3. 1 + Cardinality({i \in 1..Len(run) : run[i] <= n - 1}) = 1
        BY <2>2
    <2>4. fresh = SubSeq(run, 1, Len(run))
        BY <2>3, Zenon DEF Fresh
    <2>. QED BY <1>2, <2>4
<1>4. run # <<>>
    OBVIOUS
<1> HIDE DEF fresh, run
<1>5. Continues(s, run)
    BY <1>1, <1>2, <1>3 DEF Continues, fresh
<1>6. r.log = s.log \o run /\ r.contig = Continues(s, run)
    BY <1>1, <1>3, <1>4 DEF Advance, fresh
<1>7. Gapless(s.log \o run)
    BY <1>1, <1>2, GaplessConcat
<1>8. s.log \o run \in Seq(Turns) /\ Len(s.log \o run) = n
    BY <1>1, <1>2, ConcatProperties
<1>. QED BY <1>5, <1>6, <1>7, <1>8, GaplessIsUpTo DEF run

-----------------------------------------------------------------------------

\* An envelope of the page.
PageEnvelope(body) == [battle |-> PageBattle, at |-> LoadTime, body |-> body]

\* What may be on its way, and what it is.
LEMMA DueFacts ==
    ASSUME PageInv, NEW body \in due
    PROVE  /\ body \in PageBodies(played) /\ body \in Bodies /\ body \in Body
           /\ body # NoBody /\ body.kind \in {"static", "turns"}
           /\ \/ body = StaticBody /\ ~Polling
              \/ body = Stream(played) /\ ~Polling /\ body # StaticBody
              \/ body = Poll(played) /\ Polling /\ body # StaticBody
           /\ ~Polling => due \subseteq {StaticBody, Stream(played)}
<1>1. played \in 1..MaxHalf /\ played \in Nat
    BY PageLoadsAssumption DEF PageInv, PageTypeOK
<1>2. CASE Polling
    <2>1. body = Poll(played) /\ played \in 2..played
        BY <1>1, <1>2 DEF Polling
    <2>. QED BY <1>1, <1>2, <2>1, PageBodyFacts, SessionStoreAssumption
             DEF PageBodies
<1>3. CASE ~Polling
    <2>1. due \subseteq {StaticBody, Stream(played)} /\ played \in 1..played
        BY <1>1, <1>3 DEF PageInv, PageTypeOK
    <2>. QED BY <1>1, <1>3, <2>1, PageBodyFacts, SessionStoreAssumption
             DEF PageBodies
<1>. QED BY <1>2, <1>3

\* The page has one battle, so nothing it posts resets the session, and of
\* the early returns only the one for a repeated payload can be taken.
LEMMA EnvelopeFacts ==
    ASSUME PageInv, NEW body \in due, NEW e, e = PageEnvelope(body)
    PROVE  /\ e \in Envelopes /\ e.body = body
           /\ Target(e) = PageBattle
           /\ KeptState(e) = state /\ KeptInitial(e) = initial
           /\ KeptPending(e) = pending /\ KeptAt(e) = lastAt
           /\ Refused(e) <=> lastBody = body
<1>1. /\ body \in Bodies /\ body # NoBody /\ body.kind \in {"static", "turns"}
    BY DueFacts
<1>2. /\ e.battle = PageBattle /\ e.at = LoadTime /\ e.body = body
      /\ PageBattle \in Battles /\ PageBattle # NoBattle
    BY PageLoadsAssumption, TurnStreamAssumption DEF PageEnvelope
<1>3. e \in Envelopes
    BY <1>1, PageLoadsAssumption DEF PageEnvelope, Envelopes
<1>4. Target(e) = PageBattle /\ ~Resets(e)
    BY <1>2 DEF Target, Resets, PageInv, PageTypeOK
<1>5. KeptAt(e) = lastAt /\ ~OutOfOrder(e)
    <2>1. lastAt \in {0, LoadTime} /\ LoadTime \in Nat /\ Tolerance \in Nat
        BY PageLoadsAssumption, SessionStoreAssumption DEF PageInv, PageTypeOK
    <2>2. KeptAt(e) = lastAt
        BY <1>4 DEF KeptAt
    <2>. QED BY <1>2, <2>1, <2>2 DEF OutOfOrder
<1>6. ~Unusable(e)
    BY <1>1, <1>2, <1>4 DEF Unusable
<1>7. Refused(e) <=> lastBody = body
    BY <1>1, <1>2, <1>4, <1>5, <1>6 DEF Refused, Duplicate
<1>. QED BY <1>2, <1>3, <1>4, <1>5, <1>7 DEF KeptState, KeptInitial, KeptPending

\* Once there is a state and the mutex is free, nothing waits in the buffer.
LEMMA NothingWaits ==
    ASSUME PageInv, state # NoState, ~replaying
    PROVE  pending = <<>>
<1>1. played \in 1..MaxHalf /\ \A m \in 1..played : m \in 1..MaxHalf
    BY PageLoadsAssumption DEF PageInv, PageTypeOK
<1>2. \A b \in PageBodies(played) : b.kind # "broken"
    <2>1. \A m \in 2..played : m \in 1..played
        BY <1>1
    <2>. QED BY <1>1, <2>1, PageBodyFacts DEF PageBodies
<1>3. pending \in Seq(Buffered) /\ Len(pending) \in Nat
    BY LenProperties DEF PageInv, StoreInv, StoreTypeOK
<1>4. ~(\E i \in 1..Len(pending) : TRUE)
    BY <1>2 DEF PageInv, PageTypeOK, StoreInv, BufferDrained
<1>5. Len(pending) = 0
    BY <1>3, <1>4
<1>. QED BY <1>3, <1>5, EmptySeq

\* The state's own facts.
LEMMA StateFacts ==
    ASSUME PageInv, state # NoState
    PROVE  /\ state \in State /\ StateOK(state, PageBattle)
           /\ battleId = PageBattle /\ initial = Initial(PageBattle)
           /\ PageBattle \in Battles
           /\ Exact(state) /\ Within(state.log, played)
           /\ state.ready => /\ Gapless(state.log) /\ state.contig
                             /\ Len(state.log) <= played
<1>1. /\ state \in State /\ battleId = PageBattle /\ StateOK(state, battleId)
      /\ initial = Initial(battleId)
    BY DEF PageInv, PageTypeOK, StoreInv, StoreTypeOK
<1>2. Exact(state) /\ Within(state.log, played) /\ played \in Nat
    BY PageLoadsAssumption DEF PageInv, PageTypeOK
<1>3. ASSUME state.ready
      PROVE  Gapless(state.log) /\ state.contig /\ Len(state.log) <= played
    <2>1. state.contig /\ Gapless(state.log)
        BY <1>1, <1>3 DEF StateOK
    <2>2. state.log \in Seq(Turns) /\ Len(state.log) \in Nat
        BY <1>1, LenProperties DEF State
    <2>3. CASE Len(state.log) = 0
        BY <1>2, <2>1, <2>3
    <2>4. CASE Len(state.log) # 0
        <3>1. Len(state.log) \in 1..Len(state.log)
            BY <2>2, <2>4
        <3>2. state.log[Len(state.log)] = Len(state.log)
            BY <2>1, <3>1 DEF Gapless
        <3>3. state.log[Len(state.log)] <= played
            BY <1>2, <3>1 DEF Within
        <3>. QED BY <2>1, <3>2, <3>3
    <2>. QED BY <2>3, <2>4
<1>. QED BY <1>1, <1>2, <1>3, PageLoadsAssumption

\* The runs the page posts are within what is played.
LEMMA PostedWithin ==
    ASSUME PageInv, NEW body \in PageBodies(played)
    PROVE  body.turns \in Run /\ Within(body.turns, played)
<1>1. played \in 1..MaxHalf /\ played \in Nat /\ 1..MaxHalf \subseteq Turns
    BY PageLoadsAssumption DEF PageInv, PageTypeOK
<1>2. body \in Body
    BY <1>1, PageBodyFacts, SessionStoreAssumption
<1>3. body.turns \in Run
    BY <1>2 DEF Body
<1>4. CASE body = StaticBody
    BY <1>3, <1>4 DEF StaticBody, Within
<1>5. ASSUME NEW m \in 1..played, body = Stream(m)
      PROVE  Within(body.turns, played)
    <2>1. m \in 1..MaxHalf /\ m \in Nat /\ 1..m \subseteq Turns
        BY <1>1, PageLoadsAssumption
    <2>2. body.turns = UpTo(m)
        BY <1>5, <2>1, PageBodyFacts
    <2>3. Len(UpTo(m)) = m /\ \A i \in 1..m : UpTo(m)[i] <= m
        BY <2>1, UpToFacts DEF Within
    <2>. QED BY <1>1, <2>1, <2>2, <2>3 DEF Within, UpTo
<1>6. ASSUME NEW m \in 2..played, body = Poll(m)
      PROVE  Within(body.turns, played)
    <2>1. body.turns = <<m>>
        BY <1>6 DEF Poll
    <2>. QED BY <2>1 DEF Within
<1>. QED BY <1>3, <1>4, <1>5, <1>6 DEF PageBodies

\* The pristine state is exact and holds nothing.
LEMMA InitialExact ==
    ASSUME NEW b \in Battles, NEW n \in Nat
    PROVE  /\ Initial(b) \in State /\ Initial(b) # NoState
           /\ StateOK(Initial(b), b) /\ ~Initial(b).ready
           /\ Initial(b).log = <<>> /\ Exact(Initial(b))
           /\ Within(Initial(b).log, n) /\ Gapless(Initial(b).log)
<1>1. Len(<<>>) = 0
    OBVIOUS
<1>. QED BY <1>1, InitialOK DEF Initial, Exact, Within, Gapless

\* What a published payload of the page leaves.
LEMMA PublishedFacts ==
    ASSUME PageInv, NEW body \in due, CapturePublished(PageEnvelope(body))
    PROVE  /\ lastBody # body /\ ~replaying
           /\ battleId' = PageBattle /\ lastBody' = body /\ lastAt' = LoadTime
           /\ pending' = pending /\ state' # NoState
           /\ Exact(state') /\ Within(state'.log, played)
           /\ body = StaticBody => /\ state' = Initial(PageBattle)
                                   /\ replaying' = (pending # <<>>)
           /\ body # StaticBody => /\ state # NoState /\ pending = <<>>
                                   /\ replaying' = FALSE
           /\ \/ body = Stream(played) /\ ~Polling
              \/ Polling /\ Tracked(played - 1)
              => state'.log = UpTo(played) /\ state'.contig
<1> DEFINE e == PageEnvelope(body)
           d == Decode(e)
<1>1. /\ e \in Envelopes /\ e.body = body /\ e.at = LoadTime
      /\ Target(e) = PageBattle
      /\ KeptState(e) = state /\ KeptInitial(e) = initial
      /\ KeptPending(e) = pending /\ KeptAt(e) = lastAt
      /\ Refused(e) <=> lastBody = body
    BY EnvelopeFacts DEF PageEnvelope
<1> HIDE DEF e
<1>2. /\ ~Refused(e) /\ ~replaying /\ d # NoState
      /\ battleId' = PageBattle /\ state' = d /\ lastBody' = body
      /\ lastAt' = (IF LoadTime # 0 THEN LoadTime ELSE lastAt)
      /\ pending' = pending
      /\ replaying' = (pending # <<>> /\ ~d.ready)
    <2>1. CapturePublished(e)
        BY DEF e
    <2>. QED BY <1>1, <2>1 DEF CapturePublished, Ingest, StartsReplay
<1>3. lastAt' = LoadTime
    BY <1>2 DEF PageInv, PageTypeOK
<1>4. /\ played \in 1..MaxHalf /\ played \in Nat \ {0}
      /\ 1..played \subseteq Turns /\ PageBattle \in Battles
    BY PageLoadsAssumption DEF PageInv, PageTypeOK
<1>5. /\ body \in PageBodies(played) /\ body.kind \in {"static", "turns"}
      /\ body.turns \in Run /\ Within(body.turns, played)
    BY DueFacts, PostedWithin
<1>6. CASE body = StaticBody
    <2>1. body.kind = "static" /\ body.turns = <<>> /\ ~FullStream(body)
        BY <1>6 DEF StaticBody, FullStream
    <2>2. d = Initial(PageBattle)
        <3>1. CASE state = NoState
            BY <1>1, <2>1, <3>1 DEF Decode, DecodeInitial
        <3>2. CASE state # NoState
            <4>1. state.battle = PageBattle
                BY <3>2, StateFacts DEF StateOK
            <4>. QED BY <1>1, <2>1, <3>2, <4>1
                     DEF Decode, DecodeUpdate, DecodeInitial
        <3>. QED BY <3>1, <3>2
    <2>3. body # Stream(played) /\ ~Polling
        BY <1>4, <1>6, DueFacts, PageBodyFacts
    <2>. QED BY <1>1, <1>2, <1>3, <1>4, <1>6, <2>2, <2>3, InitialExact
<1>7. CASE body # StaticBody
    <2>1. body.kind = "turns"
        <3>1. body = Stream(played) \/ body = Poll(played)
            BY <1>7, DueFacts
        <3>. QED BY <1>4, <3>1, PageBodyFacts
    <2>2. state # NoState
        BY <1>1, <1>2, <2>1 DEF Decode, DecodeInitial
    <2>3. pending = <<>>
        BY <1>2, <2>2, NothingWaits
    <2>4. /\ state \in State /\ StateOK(state, PageBattle)
          /\ Exact(state) /\ Within(state.log, played)
          /\ initial = Initial(PageBattle)
          /\ state.ready => /\ Gapless(state.log) /\ state.contig
                            /\ Len(state.log) <= played
        BY <2>2, StateFacts
    <2>5. d = IF FullStream(body) /\ ~state.ready
              THEN Advance(initial, body.turns) ELSE Advance(state, body.turns)
        <3>1. initial # NoState
            BY <1>4, <2>4, InitialExact
        <3>. QED BY <1>1, <2>1, <2>2, <3>1 DEF Decode, DecodeUpdate
    <2>6. Exact(d) /\ Within(d.log, played)
        <3>1. \A s \in State : Exact(s) /\ Within(s.log, played) =>
                  Exact(Advance(s, body.turns))
                  /\ Within(Advance(s, body.turns).log, played)
            BY <1>4, <1>5, ExactAfterAdvance, WithinAfterAdvance
        <3>2. initial \in State /\ Exact(initial) /\ Within(initial.log, played)
            BY <1>4, <2>4, InitialExact
        <3>. QED BY <2>4, <2>5, <3>1, <3>2
    <2>7. ASSUME body = Stream(played)
          PROVE  d.log = UpTo(played) /\ d.contig
        <3>1. body.turns = UpTo(played) /\ FullStream(body)
            BY <1>4, <2>7, PageBodyFacts, UpToFacts DEF FullStream
        <3>2. CASE state.ready
            BY <1>4, <2>4, <2>5, <3>1, <3>2, StreamCompletes
        <3>3. CASE ~state.ready
            <4>1. /\ initial \in State /\ initial.log = <<>>
                  /\ Gapless(initial.log) /\ Len(initial.log) <= played
                <5>1. Len(<<>>) = 0
                    OBVIOUS
                <5>. QED BY <1>4, <2>4, <5>1, InitialExact
            <4>. QED BY <1>4, <2>5, <3>1, <3>3, <4>1, StreamCompletes
        <3>. QED BY <3>2, <3>3
    <2>8. ASSUME Polling, Tracked(played - 1)
          PROVE  d.log = UpTo(played) /\ d.contig
        <3>1. body = Poll(played) /\ played > 1
            BY <2>8 DEF Polling
        <3>2. body.turns = <<played>> /\ ~FullStream(body)
            BY <1>4, <3>1, PageBodyFacts DEF FullStream
        <3>. QED BY <1>4, <2>4, <2>5, <2>8, <3>1, <3>2, PollExtends DEF Tracked
    <2>. QED BY <1>1, <1>2, <1>3, <1>7, <2>2, <2>3, <2>6, <2>7, <2>8
<1>. QED BY <1>6, <1>7

\* What a payload that decodes to no state leaves: a session that has none.
LEMMA BufferedFacts ==
    ASSUME PageInv, NEW body \in due, CaptureBuffered(PageEnvelope(body))
    PROVE  /\ lastBody # body /\ ~replaying /\ replaying' = FALSE
           /\ battleId' = PageBattle /\ lastBody' = body /\ lastAt' = LoadTime
           /\ body # StaticBody /\ state = NoState /\ state' = NoState
           /\ pending' # <<>>
           /\ pending = <<>> => pending' =
                   <<[battle |-> PageBattle, body |-> body]>>
           /\ \A i \in 1..Len(pending') :
                  pending'[i].body \in PageBodies(played) \ {StaticBody}
<1> DEFINE e    == PageEnvelope(body)
           item == [battle |-> PageBattle, body |-> body]
<1>1. /\ e \in Envelopes /\ e.body = body /\ e.at = LoadTime
      /\ Target(e) = PageBattle
      /\ KeptState(e) = state /\ KeptInitial(e) = initial
      /\ KeptPending(e) = pending /\ KeptAt(e) = lastAt
      /\ Refused(e) <=> lastBody = body
    BY EnvelopeFacts DEF PageEnvelope
<1> HIDE DEF e
<1>2. /\ ~Refused(e) /\ ~replaying /\ Decode(e) = NoState
      /\ battleId' = PageBattle /\ state' = state /\ lastBody' = body
      /\ lastAt' = (IF LoadTime # 0 THEN LoadTime ELSE lastAt)
      /\ pending' = (IF body.turns # <<>> THEN Push(pending, item) ELSE pending)
      /\ replaying' = replaying
    <2>1. CaptureBuffered(e)
        BY DEF e
    <2>. QED BY <1>1, <2>1 DEF CaptureBuffered, Ingest
<1>3. lastAt' = LoadTime /\ replaying' = FALSE
    BY <1>2 DEF PageInv, PageTypeOK, StoreInv, StoreTypeOK
<1>4. /\ played \in 1..MaxHalf /\ played \in Nat \ {0}
      /\ 1..played \subseteq Turns /\ PageBattle \in Battles
    BY PageLoadsAssumption DEF PageInv, PageTypeOK
<1>5. /\ body \in PageBodies(played) /\ body.kind \in {"static", "turns"}
      /\ body \in Body
    BY DueFacts
<1>6. state = NoState
    <2>1. SUFFICES ASSUME state # NoState PROVE FALSE
        OBVIOUS
    <2>2. body.kind = "broken"
        BY <1>1, <1>2, <2>1, BrokenFacts DEF PageInv
    <2>. QED BY <1>5, <2>2
<1>7. body # StaticBody
    <2>1. SUFFICES ASSUME body = StaticBody PROVE FALSE
        OBVIOUS
    <2>2. Decode(e) = Initial(PageBattle)
        BY <1>1, <1>6, <2>1 DEF Decode, DecodeInitial, StaticBody
    <2>. QED BY <1>2, <1>4, <2>2, InitialExact
<1>8. body.turns # <<>>
    <2>1. body = Stream(played) \/ body = Poll(played)
        BY <1>7, DueFacts
    <2>2. UpTo(played) # <<>> /\ <<played>> # <<>>
        BY <1>4, UpToFacts
    <2>. QED BY <1>4, <2>1, <2>2, PageBodyFacts
<1>9. /\ pending \in Seq(Buffered) /\ Len(pending) <= PendingCap
      /\ item \in Buffered /\ item.body = body
    BY <1>4, <1>5 DEF Buffered, PageInv, StoreInv, StoreTypeOK
<1>10. pending' # <<>> /\ (pending = <<>> => pending' = <<item>>)
    <2>1. Len(<<>>) = 0 /\ ~(0 >= PendingCap)
        BY SessionStoreAssumption
    <2>2. pending' = Append(IF Len(pending) >= PendingCap
                            THEN Tail(pending) ELSE pending, item)
        BY <1>2, <1>8 DEF Push
    <2>3. pending = <<>> => pending' = <<item>>
        BY <2>1, <2>2
    <2>4. pending # <<>> => Tail(pending) \in Seq(Buffered)
        BY <1>9, HeadTailProperties
    <2>5. pending' # <<>>
        <3>1. CASE pending = <<>>
            BY <2>3, <3>1
        <3>2. CASE pending # <<>>
            <4> DEFINE q == IF Len(pending) >= PendingCap
                            THEN Tail(pending) ELSE pending
            <4>1. q \in Seq(Buffered) /\ pending' = Append(q, item)
                BY <1>9, <2>2, <2>4, <3>2
            <4> HIDE DEF q, item
            <4>2. Len(Append(q, item)) = Len(q) + 1 /\ Len(q) \in Nat
                BY <1>9, <4>1, AppendProperties, LenProperties
            <4>. QED BY <2>1, <4>1, <4>2
        <3>. QED BY <3>1, <3>2
    <2>. QED BY <2>3, <2>5
<1>11. ASSUME NEW i \in 1..Len(pending')
       PROVE  pending'[i].body \in PageBodies(played) \ {StaticBody}
    <2>1. pending' = Push(pending, item)
        BY <1>2, <1>8
    <2>2. \/ pending'[i] = item
          \/ \E j \in 1..Len(pending) : pending'[i] = pending[j]
        BY <1>9, <2>1, PushProperties
    <2>. QED BY <1>5, <1>7, <1>9, <2>2 DEF PageInv, PageTypeOK
<1>. QED BY <1>1, <1>2, <1>3, <1>6, <1>7, <1>10, <1>11

-----------------------------------------------------------------------------

\* A page that has not been opened yet satisfies the invariant.
LEMMA PageInvInit == PageInit => PageInv
<1> SUFFICES ASSUME PageInit PROVE PageInv
    OBVIOUS
<1>1. /\ StoreInit /\ played = 1 /\ due = {} /\ whole = FALSE
      /\ intoEmpty = FALSE /\ ordered = FALSE
    BY DEF PageInit
<1>2. StoreInv
    BY <1>1, InvInit
<1>3. /\ battleId = NoBattle /\ state = NoState /\ pending = <<>>
      /\ lastBody = NoBody /\ lastAt = 0
    BY <1>1 DEF StoreInit
<1>4. 1 \in 1..MaxHalf /\ Len(<<>>) = 0
    BY PageLoadsAssumption
<1>5. ~Polling
    BY <1>1 DEF Polling
<1>6. lastBody # StaticBody
    BY <1>3, <1>4, PageBodyFacts
<1>7. PageTypeOK
    <2>1. \A i \in 1..Len(pending) :
              pending[i].body \in PageBodies(played) \ {StaticBody}
        BY <1>3, <1>4
    <2>2. due \in SUBSET {StaticBody, Stream(played)}
        BY <1>1
    <2>3. lastBody \in PageBodies(played) \cup {NoBody}
        BY <1>3
    <2>. QED BY <1>1, <1>3, <1>4, <2>1, <2>2, <2>3 DEF PageTypeOK
<1>8. NotRepeated /\ Progress
    BY <1>1, <1>3, <1>5, <1>6 DEF NotRepeated, Progress, Clean
<1>. QED BY <1>2, <1>7, <1>8 DEF PageInv

\* Opening or reloading the page.
LEMMA PageInvLoad == ASSUME PageInv, Load PROVE PageInv'
<1>1. /\ due = {} /\ ~replaying /\ due' = {StaticBody, Stream(played)}
      /\ whole' = TRUE /\ intoEmpty' = (state = NoState /\ pending = <<>>)
      /\ ordered' = FALSE /\ played' = played
    BY DEF Load
<1>2. UNCHANGED storeVars
    BY DEF Load
<1>3. StoreInv'
    BY <1>2, InvNext DEF PageInv
<1>4. played \in 1..MaxHalf
    BY DEF PageInv, PageTypeOK
<1>5. /\ Stream(played) # StaticBody /\ Poll(played) # StaticBody
    BY <1>4, PageBodyFacts
<1>6. ~Polling'
    BY <1>1, <1>5 DEF Polling
<1>7. PageTypeOK'
    BY <1>1, <1>2 DEF PageInv, PageTypeOK, storeVars, Exact, Within
<1>8. NotRepeated'
    BY <1>1, <1>2, <1>5, <1>6 DEF PageInv, NotRepeated, storeVars
<1>9. Progress'
    BY <1>1, <1>2, <1>5, <1>6 DEF Progress, storeVars
<1>. QED BY <1>3, <1>7, <1>8, <1>9 DEF PageInv

\* The poll of a new half-turn repeats nothing the page has posted.
LEMMA NewPoll ==
    ASSUME NEW n \in Nat \ {0}
    PROVE  /\ Poll(n + 1) \notin PageBodies(n) \cup {NoBody}
           /\ PageBodies(n) \subseteq PageBodies(n + 1)
           /\ Poll(n + 1) # Stream(n + 1)
<1>1. Poll(n + 1) # StaticBody /\ Poll(n + 1) # NoBody
    BY DEF Poll, StaticBody, NoBody
<1>2. ASSUME NEW m \in 1..n + 1 PROVE Poll(n + 1) # Stream(m)
    <2>1. CASE m = 1
        <3>1. <<n + 1>>[1] = n + 1 /\ [i \in 1..m |-> i][1] = 1
            BY <2>1
        <3>2. n + 1 # 1
            OBVIOUS
        <3>. QED BY <3>1, <3>2 DEF Poll, Stream
    <2>2. CASE m # 1
        <3>1. 2 \in DOMAIN [i \in 1..m |-> i] /\ 2 \notin DOMAIN <<n + 1>>
            BY <2>2
        <3>. QED BY <3>1 DEF Poll, Stream
    <2>. QED BY <2>1, <2>2
<1>3. ASSUME NEW m \in 2..n PROVE Poll(n + 1) # Poll(m)
    <2>1. <<n + 1>>[1] = n + 1 /\ <<m>>[1] = m /\ m # n + 1
        OBVIOUS
    <2>. QED BY <2>1 DEF Poll
<1>4. 1..n \subseteq 1..n + 1 /\ 2..n \subseteq 2..n + 1
    OBVIOUS
<1>5. n + 1 \in 1..n + 1
    OBVIOUS
<1>. QED BY <1>1, <1>2, <1>3, <1>4, <1>5 DEF PageBodies

\* A half-turn is resolved and its poll is on the way.
LEMMA PageInvPlay == ASSUME PageInv, Play PROVE PageInv'
<1> DEFINE n == played + 1
<1>1. /\ played < MaxHalf /\ due = {} /\ ~replaying
      /\ played' = n /\ due' = {Poll(n)}
      /\ whole' = whole /\ intoEmpty' = intoEmpty /\ ordered' = ordered
    BY DEF Play
<1>2. UNCHANGED storeVars
    BY DEF Play
<1>3. StoreInv'
    BY <1>2, InvNext DEF PageInv
<1>4. /\ played \in Nat \ {0} /\ n \in 1..MaxHalf /\ n > 1 /\ n - 1 = played
    BY <1>1, PageLoadsAssumption DEF PageInv, PageTypeOK
<1>5. /\ Poll(n) \notin PageBodies(played) \cup {NoBody}
      /\ PageBodies(played) \subseteq PageBodies(n)
      /\ Poll(n) # Stream(n) /\ Poll(n) # StaticBody
    BY <1>4, NewPoll, PageBodyFacts
<1> HIDE DEF n
<1>6. Polling' /\ (\E b \in due' : TRUE) /\ StaticBody \notin due'
    BY <1>1, <1>4, <1>5 DEF Polling
<1>7. Clean' = Clean
    BY <1>1 DEF Clean
<1>8. PageTypeOK'
    <2>1. \A log : (\A i \in 1..Len(log) : log[i] <= played) /\ log \in Seq(Turns)
                   => Within(log, n)
        <3> TAKE log
        <3> HAVE (\A i \in 1..Len(log) : log[i] <= played) /\ log \in Seq(Turns)
        <3>1. \A i \in 1..Len(log) : log[i] \in Nat
            BY ElementOfSeq, TurnStreamAssumption
        <3>. QED BY <1>4, <3>1 DEF Within
    <2>2. state # NoState => state.log \in Seq(Turns)
        BY DEF PageInv, StoreInv, StoreTypeOK, State
    <2>3. state' # NoState => Exact(state') /\ Within(state'.log, played')
        BY <1>1, <1>2, <2>1, <2>2 DEF PageInv, PageTypeOK, storeVars, Within
    <2>4. \A i \in 1..Len(pending') :
              pending'[i].body \in PageBodies(played') \ {StaticBody}
        BY <1>1, <1>2, <1>5 DEF PageInv, PageTypeOK, storeVars
    <2>5. lastBody' \in PageBodies(played') \cup {NoBody}
        BY <1>1, <1>2, <1>5 DEF PageInv, PageTypeOK, storeVars
    <2>. QED BY <1>1, <1>2, <1>4, <1>6, <2>3, <2>4, <2>5
             DEF PageInv, PageTypeOK, storeVars
<1>9. NotRepeated'
    <2>1. lastBody' # Poll(played')
        BY <1>1, <1>2, <1>5 DEF PageInv, PageTypeOK, storeVars
    <2>. QED BY <1>1, <1>2, <1>6, <2>1 DEF PageInv, NotRepeated, storeVars
<1>10. Progress'
    <2>1. Clean => Tracked(played)
        BY <1>1 DEF PageInv, Progress
    <2>2. played' - 1 = played
        BY <1>1, <1>4
    <2>3. Clean' => Tracked(played - 1)'
        BY <1>2, <1>7, <2>1, <2>2 DEF Tracked, storeVars
    <2>4. due' # {} /\ due' # {StaticBody} /\ due' # {StaticBody, Stream(played)}'
        BY <1>6
    <2>. QED BY <1>6, <2>3, <2>4 DEF Progress
<1>. QED BY <1>3, <1>8, <1>9, <1>10 DEF PageInv

\* What is on the way is lost.
LEMMA PageInvLose ==
    ASSUME PageInv, NEW body \in due, Lose(body) PROVE PageInv'
<1>1. /\ due' = due \ {body} /\ whole' = FALSE /\ played' = played
      /\ intoEmpty' = intoEmpty /\ ordered' = ordered
    BY DEF Lose
<1>2. UNCHANGED storeVars
    BY DEF Lose
<1>3. StoreInv'
    BY <1>2, InvNext DEF PageInv
<1>4. played \in 1..MaxHalf
    BY DEF PageInv, PageTypeOK
<1>5. Stream(played) # StaticBody /\ Poll(played) # StaticBody
    BY <1>4, PageBodyFacts
<1>6. due' \subseteq {StaticBody, Stream(played)} /\ (Polling' => Polling)
    <2>1. CASE Polling
        BY <1>1, <2>1 DEF Polling
    <2>2. CASE ~Polling
        <3>1. due' \subseteq {StaticBody, Stream(played)}
            BY <1>1, <2>2, DueFacts
        <3>2. played > 1 => Poll(played) # Stream(played)
            BY <1>4, PollIsNotStream
        <3>. QED BY <1>1, <1>5, <3>1, <3>2 DEF Polling
    <2>. QED BY <2>1, <2>2
<1>7. PageTypeOK'
    BY <1>1, <1>2, <1>6 DEF PageInv, PageTypeOK, storeVars, Exact, Within
<1>8. NotRepeated'
    BY <1>1, <1>2, <1>6 DEF PageInv, NotRepeated, storeVars
<1>9. Progress'
    BY <1>1, <1>2 DEF PageInv, Progress, Clean
<1>. QED BY <1>3, <1>7, <1>8, <1>9 DEF PageInv

\* POST /capture of a payload of the page.
LEMMA PageInvDeliver ==
    ASSUME PageInv, NEW body \in due, Deliver(body) PROVE PageInv'
<1> DEFINE e == PageEnvelope(body)
<1>1. /\ due' = due \ {body} /\ whole' = whole /\ played' = played
      /\ intoEmpty' = intoEmpty
      /\ ordered' = (ordered \/ (body = StaticBody /\ due' # {}))
      /\ CaptureRefused(e) \/ CapturePublished(e) \/ CaptureBuffered(e)
    BY DEF Deliver, PageEnvelope
<1>2. StoreInv'
    <2>1. e \in Envelopes
        BY EnvelopeFacts
    <2>2. StoreNext
        BY <1>1, <2>1 DEF StoreNext
    <2>. QED BY <2>2, InvNext DEF PageInv
<1>3. /\ played \in 1..MaxHalf /\ played \in Nat /\ PageBattle \in Battles
    BY PageLoadsAssumption DEF PageInv, PageTypeOK
<1>4. /\ Stream(played) # StaticBody /\ Poll(played) # StaticBody
      /\ played > 1 => Poll(played) # Stream(played)
    BY <1>3, PageBodyFacts, PollIsNotStream
<1>5. /\ body \in PageBodies(played) /\ body # NoBody
      /\ \/ body = StaticBody /\ ~Polling
         \/ body = Stream(played) /\ ~Polling /\ body # StaticBody
         \/ body = Poll(played) /\ Polling /\ body # StaticBody
      /\ ~Polling => due \subseteq {StaticBody, Stream(played)}
    BY DueFacts
<1>6. /\ ~Polling' /\ due' \subseteq {StaticBody, Stream(played)}
      /\ Polling => due' = {}
    BY <1>1, <1>4, <1>5 DEF Polling
<1>7. ~Polling =>
          \/ due = {body} /\ due' = {}
          \/ /\ due = {StaticBody, Stream(played)}
             /\ \/ body = StaticBody /\ due' = {Stream(played)}
                \/ body = Stream(played) /\ due' = {StaticBody}
    <2>1. CASE body = StaticBody /\ ~Polling
        BY <1>1, <1>4, <1>5, <2>1
    <2>2. CASE body = Stream(played) /\ ~Polling
        BY <1>1, <1>4, <1>5, <2>2
    <2>. QED BY <1>5, <2>1, <2>2
<1>8. StaticBody \in due => ~ordered
    BY DEF PageInv, Progress
<1>9. StaticBody \in due' => ~ordered'
    BY <1>1, <1>5, <1>7, <1>8, <1>6
<1>10. CASE CaptureRefused(e)
    <2>1. UNCHANGED storeVars /\ lastBody = body /\ ~replaying
        BY <1>10, EnvelopeFacts DEF CaptureRefused
    <2>2. ~Polling
        BY <1>5, <2>1 DEF PageInv, NotRepeated
    <2>3. PageTypeOK'
        BY <1>1, <1>6, <2>1 DEF PageInv, PageTypeOK, storeVars, Exact, Within
    <2>4. CASE body = StaticBody
        <3>1. state # NoState /\ lastBody = StaticBody
            BY <2>1, <2>4 DEF PageInv, NotRepeated
        <3>2. NotRepeated'
            BY <1>6, <2>1, <3>1 DEF NotRepeated, storeVars
        <3>3. due' = {} => ~Clean'
            BY <1>1, <1>7, <1>8, <2>2, <2>4, <3>1 DEF PageInv, Progress, Clean
        <3>4. StaticBody \notin due'
            BY <1>1, <2>4
        <3>5. Progress'
            BY <1>6, <3>3, <3>4 DEF Progress
        <3>. QED BY <1>2, <2>3, <3>2, <3>5 DEF PageInv
    <2>5. CASE body = Stream(played) /\ body # StaticBody
        <3>1. due = {body} => ~whole
            BY <2>1, <2>2, <2>5 DEF PageInv, NotRepeated
        <3>2. due = {StaticBody, Stream(played)} => ~(whole /\ intoEmpty)
            BY <1>5, <2>1, <2>5 DEF PageInv, NotRepeated, Progress
        <3>3. due' = {} => ~Clean'
            BY <1>1, <1>7, <2>2, <2>5, <3>1 DEF Clean
        <3>4. NotRepeated'
            BY <1>1, <1>4, <1>6, <1>7, <2>1, <2>2, <2>5
               DEF PageInv, NotRepeated, storeVars
        <3>5. due' # {} => due' = {StaticBody} /\ ~(whole /\ intoEmpty)'
            BY <1>1, <1>7, <2>2, <2>5, <3>2
        <3>6. Progress'
            BY <1>4, <1>6, <1>9, <3>3, <3>5 DEF Progress
        <3>. QED BY <1>2, <2>3, <3>4, <3>6 DEF PageInv
    <2>. QED BY <1>5, <2>2, <2>4, <2>5
<1>11. CASE CapturePublished(e)
    <2>1. /\ lastBody # body /\ ~replaying
          /\ battleId' = PageBattle /\ lastBody' = body /\ lastAt' = LoadTime
          /\ pending' = pending /\ state' # NoState
          /\ Exact(state') /\ Within(state'.log, played)
          /\ body = StaticBody => /\ state' = Initial(PageBattle)
                                  /\ replaying' = (pending # <<>>)
          /\ body # StaticBody => /\ state # NoState /\ pending = <<>>
                                  /\ replaying' = FALSE
        BY <1>11, PublishedFacts
    <2>2. \/ body = Stream(played) /\ ~Polling
          \/ Polling /\ Tracked(played - 1)
          => Tracked(played)'
        BY <1>1, <1>11, <2>1, PublishedFacts DEF Tracked, UpTo
    <2>3. PageTypeOK'
        <3>1. state' # NoState => Exact(state') /\ Within(state'.log, played')
            BY <1>1, <2>1
        <3>. QED BY <1>1, <1>5, <1>6, <2>1, <3>1 DEF PageInv, PageTypeOK
    <2>4. NotRepeated'
        <3>1. due' = {Stream(played)} => body = StaticBody
            BY <1>1, <1>5, <1>6, <1>7, <1>4
        <3>. QED BY <1>1, <1>6, <2>1, <3>1 DEF NotRepeated
    <2>5. CASE body = StaticBody
        <3>1. ~Polling /\ StaticBody \notin due' /\ StaticBody \in due
            BY <1>1, <1>5, <2>5
        <3>2. ASSUME Clean', due' = {}
              PROVE  /\ replaying' /\ ~ordered' /\ state' = Initial(PageBattle)
                     /\ pending' = Waiting'
            <4>1. due = {StaticBody} /\ ~ordered /\ ~ordered'
                BY <1>1, <1>7, <1>8, <2>5, <3>1, <3>2
            <4>2. whole /\ intoEmpty
                BY <1>1, <3>2, <4>1 DEF Clean
            <4>3. pending = Waiting /\ Waiting' = Waiting
                BY <1>1, <4>1, <4>2 DEF PageInv, Progress, Waiting, Stream
            <4>4. pending # <<>>
                BY <4>3 DEF Waiting
            <4>. QED BY <2>1, <2>5, <4>1, <4>3, <4>4
        <3>3. Progress'
            BY <1>6, <3>1, <3>2 DEF Progress
        <3>. QED BY <1>2, <2>3, <2>4, <3>3 DEF PageInv
    <2>6. CASE body # StaticBody
        <3>1. due' = {StaticBody} => ~(whole /\ intoEmpty)'
            BY <1>1, <1>4, <1>6, <1>7, <2>1, <2>6 DEF PageInv, Progress
        <3>2. due' = {} /\ Clean' => Tracked(played)'
            <4>1. SUFFICES ASSUME due' = {}, Clean' PROVE Tracked(played)'
                OBVIOUS
            <4>2. Clean
                BY <1>1, <2>6, <4>1 DEF Clean
            <4>3. Polling => Tracked(played - 1)
                BY <4>2 DEF PageInv, Progress
            <4>. QED BY <1>5, <2>2, <2>6, <4>3
        <3>3. due' # {StaticBody, Stream(played)}
            BY <1>1, <1>4, <1>6, <1>7
        <3>4. Progress'
            BY <1>1, <1>6, <1>9, <2>1, <2>6, <3>1, <3>2, <3>3 DEF Progress, Stream
        <3>. QED BY <1>2, <2>3, <2>4, <3>4 DEF PageInv
    <2>. QED BY <2>5, <2>6
<1>12. CASE CaptureBuffered(e)
    <2>1. /\ lastBody # body /\ ~replaying /\ replaying' = FALSE
          /\ battleId' = PageBattle /\ lastBody' = body /\ lastAt' = LoadTime
          /\ body # StaticBody /\ state = NoState /\ state' = NoState
          /\ pending' # <<>>
          /\ pending = <<>> => pending' =
                  <<[battle |-> PageBattle, body |-> body]>>
          /\ \A i \in 1..Len(pending') :
                 pending'[i].body \in PageBodies(played) \ {StaticBody}
        BY <1>12, BufferedFacts
    <2>2. PageTypeOK'
        BY <1>1, <1>5, <1>6, <2>1 DEF PageInv, PageTypeOK
    <2>3. whole => due # {Stream(played)} \/ Polling
        BY <2>1 DEF PageInv, NotRepeated
    <2>4. NotRepeated'
        BY <1>1, <1>4, <1>5, <1>6, <1>7, <2>1 DEF NotRepeated
    <2>5. due' = {} => ~Clean'
        <3>1. Polling => ~Clean
            BY <2>1 DEF PageInv, Progress, Tracked
        <3>2. Clean' => Clean
            BY <1>1, <2>1 DEF Clean
        <3>3. ~Polling /\ due' = {} => due = {Stream(played)}
            BY <1>5, <1>7, <2>1
        <3>4. Clean => whole
            BY DEF Clean
        <3>. QED BY <2>3, <3>1, <3>2, <3>3, <3>4
    <2>6. ASSUME due' = {StaticBody}, whole', intoEmpty'
          PROVE  state' = NoState /\ pending' = Waiting'
        <3>1. due = {StaticBody, Stream(played)} /\ body = Stream(played)
            BY <1>4, <1>6, <1>7, <2>1, <2>6
        <3>2. pending = <<>>
            BY <1>1, <2>6, <3>1 DEF PageInv, Progress
        <3>. QED BY <1>1, <2>1, <3>1, <3>2 DEF Waiting, Stream
    <2>7. due' # {StaticBody, Stream(played)}
        BY <1>1, <1>4, <1>6, <1>7
    <2>8. Progress'
        BY <1>1, <1>6, <1>9, <2>5, <2>6, <2>7 DEF Progress, Stream
    <2>. QED BY <1>2, <2>2, <2>4, <2>8 DEF PageInv
<1>. QED BY <1>1, <1>10, <1>11, <1>12

\* A daemon that is started again satisfies StoreInv, as at first.
LEMMA InvAfterStart == StoreInit' => StoreInv'
<1>1. StoreInit => StoreInv
    BY InvInit
<1>. QED BY <1>1, PTL

\* The daemon is restarted under the open page.
LEMMA PageInvRestart == ASSUME PageInv, Restart PROVE PageInv'
<1>1. /\ battleId' = NoBattle /\ state' = NoState /\ initial' = NoState
      /\ pending' = <<>> /\ lastBody' = NoBody /\ lastAt' = 0
      /\ revision' = 0 /\ replaying' = FALSE /\ whole' = FALSE
      /\ UNCHANGED <<played, due, loads, intoEmpty, ordered>>
    BY DEF Restart
<1>2. StoreInv'
    <2>1. StoreInit'
        BY <1>1 DEF StoreInit
    <2>. QED BY <2>1, InvAfterStart
<1>3. /\ played \in 1..MaxHalf /\ Len(<<>>) = 0
    BY DEF PageInv, PageTypeOK
<1>4. NoBody # StaticBody /\ NoBody # Poll(played)
    BY <1>3, PageBodyFacts
<1>5. PageTypeOK'
    <2>1. \A i \in 1..Len(pending') :
              pending'[i].body \in PageBodies(played') \ {StaticBody}
        BY <1>1, <1>3
    <2>2. lastBody' \in PageBodies(played') \cup {NoBody}
        BY <1>1
    <2>3. Polling' = Polling
        BY <1>1 DEF Polling
    <2>. QED BY <1>1, <2>1, <2>2, <2>3 DEF PageInv, PageTypeOK
<1>6. NotRepeated' /\ Progress'
    BY <1>1, <1>4 DEF PageInv, NotRepeated, Progress, Clean, Poll
<1>. QED BY <1>2, <1>5, <1>6 DEF PageInv

\* One iteration of the loop that replays what overtook the static payload.
LEMMA PageInvReplay ==
    ASSUME PageInv, ReplayPending /\ UNCHANGED pageVars PROVE PageInv'
<1> DEFINE head == Head(pending).body
<1>1. /\ replaying /\ pending' = Tail(pending)
      /\ replaying' = (Tail(pending) # <<>>)
      /\ state' = IF DecodeUpdate(state, head) = NoState THEN state
                  ELSE DecodeUpdate(state, head)
      /\ UNCHANGED <<battleId, initial, lastBody, lastAt, revision>>
      /\ UNCHANGED pageVars
    BY DEF ReplayPending
<1>2. StoreInv'
    <2>1. StoreNext
        BY DEF StoreNext
    <2>. QED BY <2>1, InvNext DEF PageInv
<1>3. /\ state # NoState /\ pending # <<>> /\ pending \in Seq(Buffered)
    BY <1>1 DEF PageInv, StoreInv, StoreTypeOK
<1>4. /\ played \in 1..MaxHalf /\ played \in Nat \ {0}
      /\ 1..played \subseteq Turns /\ PageBattle \in Battles
    BY PageLoadsAssumption DEF PageInv, PageTypeOK
<1>5. /\ Head(pending) = pending[1] /\ 1 \in 1..Len(pending)
      /\ Tail(pending) \in Seq(Buffered)
      /\ Len(Tail(pending)) = Len(pending) - 1
      /\ \A i \in 1..Len(Tail(pending)) : Tail(pending)[i] = pending[i + 1]
      /\ Len(pending) \in Nat
    <2>1. Len(pending) \in Nat /\ Len(pending) # 0
        BY <1>3, LenProperties, EmptySeq
    <2>. QED BY <1>3, <2>1, HeadTailProperties
<1>6. head \in PageBodies(played) \ {StaticBody} /\ head.kind = "turns"
      /\ head.turns \in Run /\ Within(head.turns, played)
    <2>1. head \in PageBodies(played) \ {StaticBody}
        BY <1>5 DEF PageInv, PageTypeOK
    <2>2. \A b \in PageBodies(played) \ {StaticBody} : b.kind = "turns"
        BY DEF PageBodies, Stream, Poll
    <2>. QED BY <2>1, <2>2, PostedWithin
<1>7. /\ state \in State /\ StateOK(state, PageBattle)
      /\ Exact(state) /\ Within(state.log, played)
    BY <1>3, StateFacts
<1>8. state' = Advance(state, head.turns) /\ state' # NoState
    BY <1>1, <1>4, <1>6, <1>7, AdvanceOK DEF DecodeUpdate
<1>9. Exact(state') /\ Within(state'.log, played)
    BY <1>4, <1>6, <1>7, <1>8, ExactAfterAdvance, WithinAfterAdvance
<1>10. \A i \in 1..Len(pending') :
           pending'[i].body \in PageBodies(played) \ {StaticBody}
    <2> SUFFICES ASSUME NEW i \in 1..Len(Tail(pending))
                 PROVE  Tail(pending)[i].body
                            \in PageBodies(played) \ {StaticBody}
        BY <1>1
    <2>1. i + 1 \in 1..Len(pending) /\ Tail(pending)[i] = pending[i + 1]
        BY <1>5
    <2>. QED BY <2>1 DEF PageInv, PageTypeOK
<1>11. ~Polling
    BY <1>1 DEF PageInv, NotRepeated
<1>12. /\ played' = played /\ due' = due /\ whole' = whole
       /\ intoEmpty' = intoEmpty /\ ordered' = ordered
       /\ battleId' = battleId /\ lastBody' = lastBody /\ lastAt' = lastAt
       /\ Polling' = Polling /\ Clean' = Clean
    BY <1>1 DEF pageVars, Polling, Clean
<1>13. PageTypeOK'
    BY <1>9, <1>10, <1>11, <1>12 DEF PageInv, PageTypeOK, Exact, Within
<1>14. NotRepeated'
    BY <1>8, <1>11, <1>12 DEF PageInv, NotRepeated, Stream
<1>15. Clean /\ due = {} => replaying' = FALSE /\ Tracked(played)'
    <2>1. SUFFICES ASSUME Clean, due = {}
                   PROVE  replaying' = FALSE /\ Tracked(played)'
        OBVIOUS
    <2>2. state = Initial(PageBattle) /\ pending = Waiting
        BY <1>1, <2>1 DEF PageInv, Progress
    <2>3. head = Stream(played) /\ Tail(pending) = <<>>
        BY <2>2 DEF Waiting
    <2>4. head.turns = UpTo(played)
        BY <1>4, <2>3, PageBodyFacts
    <2>5. /\ state.log = <<>> /\ Gapless(state.log) /\ Len(state.log) <= played
        <3>1. Len(<<>>) = 0
            OBVIOUS
        <3>. QED BY <1>4, <2>2, <3>1, InitialExact
    <2>6. state'.log = UpTo(played) /\ state'.contig
        BY <1>4, <1>7, <1>8, <2>4, <2>5, StreamCompletes
    <2>. QED BY <1>1, <1>8, <1>12, <2>3, <2>6 DEF Tracked, UpTo
<1>16. Progress'
    <2>1. whole /\ intoEmpty => due # {StaticBody} /\ due # {StaticBody, Stream(played)}
        BY <1>3 DEF PageInv, Progress
    <2>2. StaticBody \in due => ~ordered
        BY DEF PageInv, Progress
    <2>. QED BY <1>11, <1>12, <1>15, <2>1, <2>2 DEF Progress, Stream
<1>. QED BY <1>2, <1>13, <1>14, <1>16 DEF PageInv

\* Every step of the page, the network and the daemon preserves it.
LEMMA PageInvNext == ASSUME PageInv, [PageNext]_pvars PROVE PageInv'
<1>1. CASE UNCHANGED pvars
    <2>1. UNCHANGED storeVars /\ UNCHANGED pageVars
        BY <1>1 DEF pvars
    <2>2. StoreInv'
        BY <2>1, InvNext DEF PageInv
    <2>. QED BY <2>1, <2>2
             DEF PageInv, PageTypeOK, NotRepeated, Progress, Polling, Clean,
                 Tracked, Waiting, Exact, Within, storeVars, pageVars,
                 Stream, Poll, UpTo, PageBodies
<1>2. CASE Load
    BY <1>2, PageInvLoad
<1>3. CASE Play
    BY <1>3, PageInvPlay
<1>4. CASE Restart
    BY <1>4, PageInvRestart
<1>5. ASSUME NEW body \in due, Deliver(body) PROVE PageInv'
    BY <1>5, PageInvDeliver
<1>6. ASSUME NEW body \in due, Lose(body) PROVE PageInv'
    BY <1>6, PageInvLose
<1>7. CASE ReplayPending /\ UNCHANGED pageVars
    BY <1>7, PageInvReplay
<1>. QED BY <1>1, <1>2, <1>3, <1>4, <1>5, <1>6, <1>7 DEF PageNext

\* PageInv is an invariant of a page that feeds a daemon.
THEOREM PageInvariant == PageSpec => []PageInv
<1>1. PageInit => PageInv
    BY PageInvInit
<1>2. PageInv /\ [PageNext]_pvars => PageInv'
    BY PageInvNext
<1>. QED BY <1>1, <1>2, PTL DEF PageSpec

\* A session that has all half-turns may be planned on if they are sound.
LEMMA TrackedIsComplete ==
    ASSUME PageInv, Tracked(played), Sound([i \in 1..played |-> i])
    PROVE  Complete
<1>1. /\ state \in State /\ StateOK(state, PageBattle) /\ Exact(state)
    BY StateFacts DEF Tracked
<1>2. state.log = [i \in 1..played |-> i] /\ state.contig /\ state # NoState
    BY DEF Tracked, UpTo
<1>3. state.unknown = 0
    <2>1. Len(state.log) \in Nat
        BY <1>1, LenProperties DEF State
    <2>. QED BY <1>1, <1>2, <2>1, CountZero DEF Sound, StateOK
<1>. QED BY <1>1, <1>2, <1>3 DEF Complete, Exact, Sound

\* Reloading the page repairs a session, whatever it was before: when every
\* payload since the load has arrived and the static one came first, the
\* daemon has the whole battle and may plan on it.
THEOREM ReloadAlwaysRecovers == PageSpec => []ReloadRecovers
<1>1. PageInv => ReloadRecovers
    BY TrackedIsComplete DEF PageInv, Progress, Clean, ReloadRecovers, Settled
<1>. QED BY <1>1, PageInvariant, PTL

\* A load that finds the daemon empty succeeds in either order of arrival:
\* the stream waits for the static payload and is replayed.
THEOREM FirstLoadNeedsNoOrder == PageSpec => []FirstLoadInAnyOrder
<1>1. PageInv => FirstLoadInAnyOrder
    BY TrackedIsComplete
       DEF PageInv, Progress, Clean, FirstLoadInAnyOrder, Settled
<1>. QED BY <1>1, PageInvariant, PTL
=============================================================================
