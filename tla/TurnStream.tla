----------------------------- MODULE TurnStream -----------------------------
(***************************************************************************)
(* The continuity and readiness gate of the raw-protocol decoder           *)
(* (ProtocolDecoder::decode_initial and ::decode_update).                  *)
(*                                                                         *)
(* A captured body is either a static snapshot of the battlefield (the     *)
(* lastturn=-3 payload) or a run of numbered half-turns.  What the commands*)
(* of a half-turn do to the stacks is a function of the half-turns applied *)
(* so far, so the reconstructed battlefield is represented by the sequence *)
(* `log' of half-turn numbers that were applied to the static snapshot, and*)
(* what the decoder learns from a half-turn's commands by membership of its*)
(* number, or of the whole log, in constant sets.                          *)
(***************************************************************************)
EXTENDS Integers, Sequences, FiniteSets

CONSTANTS
    Battles,    \* battle identifiers
    NoBattle,   \* the empty battle_id string
    NoState,    \* std::nullopt / a decode without entities
    Turns,      \* half-turn numbers the server may send
    Dirty,      \* half-turns with a command the tokenizer does not know
    Rough,      \* half-turns with a known command of unresolved semantics
    Corrupt     \* logs after which validate() reports a broken invariant

Kinds == {"empty", "heartbeat", "static", "broken", "turns"}

\* Strictly increasing runs: the server numbers half-turns consecutively and
\* prints them in order (all captured battles of the repository do).
Run == {r \in Seq(Turns) : \A i, j \in DOMAIN r : i < j => r[i] < r[j]}

\* "broken" is a body with the static markers and no parseable M record.
Body == [kind : Kinds, turns : Run]

State == [battle : Battles, log : Seq(Turns), contig : BOOLEAN,
          ready : BOOLEAN, safe : BOOLEAN,
          unknown : Nat, seen : Nat, unresolved : Nat]

ASSUME TurnStreamAssumption ==
    /\ NoBattle \notin Battles
    /\ NoState \notin State /\ NoState \notin Seq(Turns)
    /\ Turns \subseteq Nat \ {0}

-----------------------------------------------------------------------------

\* BattleState::halfturn
Half(s) == IF s.log = <<>> THEN 0 ELSE s.log[Len(s.log)]

\* The number of half-turns of run that are members of S.
Count(S, run) == Cardinality({i \in 1..Len(run) : run[i] \in S})

\* kDefaultSemanticRiskLimit = 0.30
WithinRisk(unresolved, seen) == 10 * unresolved <= 3 * seen

\* decode_initial on a payload with entities: the pristine static state.
Initial(b) == [battle |-> b, log |-> <<>>, contig |-> FALSE,
               ready |-> FALSE, safe |-> FALSE,
               unknown |-> 0, seen |-> 0, unresolved |-> 0]

\* decode_initial: only a static section yields a state.
DecodeInitial(body, b) == IF body.kind = "static" THEN Initial(b) ELSE NoState

\* The slices the loop does not skip as already applied.
Fresh(h, run) ==
    SubSeq(run, 1 + Cardinality({i \in 1..Len(run) : run[i] <= h}), Len(run))

\* Faulty: once the gap is past, the chain is trusted again.
ContinuesForgetful(s, run) ==
    \A i \in 1..Len(Fresh(Half(s), run)) :
        Fresh(Half(s), run)[i] = Half(s) + i

\* Does the payload continue state s without a hole?
Continues(s, run) ==
    /\ IF s.log = <<>> THEN run # <<>> /\ run[1] = 1 ELSE s.contig
    /\ \A i \in 1..Len(Fresh(Half(s), run)) :
          Fresh(Half(s), run)[i] = Half(s) + i

\* Faulty: the risk of the last payload only.
UnresolvedLatest(s, fresh) == Count(Rough, fresh)

\* semantic_unresolved_records, cumulative since the static snapshot.
Unresolved(s, fresh) == s.unresolved + Count(Rough, fresh)

\* decode_update on a payload without a static section.
Advance(s, run) ==
    LET fresh      == Fresh(Half(s), run)
        log        == s.log \o fresh
        contig     == Continues(s, run)
        unknown    == s.unknown + Count(Dirty, fresh)
        seen       == s.seen + Len(fresh)
        unresolved == Unresolved(s, fresh)
        ready      == contig /\ unknown = 0 /\ log \notin Corrupt
    IN  IF fresh = <<>>
        THEN s          \* a replay of what is already applied changes nothing
        ELSE [battle |-> s.battle, log |-> log, contig |-> contig,
              ready |-> ready, safe |-> ready /\ WithinRisk(unresolved, seen),
              unknown |-> unknown, seen |-> seen, unresolved |-> unresolved]

\* decode_update: a static section restarts the battle from its beginning.
DecodeUpdate(s, body) ==
    IF body.kind \in {"static", "broken"}
    THEN DecodeInitial(body, s.battle)
    ELSE Advance(s, body.turns)

-----------------------------------------------------------------------------
(* Vocabulary of the properties.                                            *)

\* The half-turns 1..n, each once and in order.
Gapless(log) == \A i \in 1..Len(log) : log[i] = i

\* The reconstruction from log is complete, understood and consistent.
Sound(log) == /\ Gapless(log)
              /\ \A i \in 1..Len(log) : log[i] \notin Dirty
              /\ log \notin Corrupt

\* A payload that carries a sound history from the first half-turn on.
FullSound(body) ==
    body.kind = "turns" /\ body.turns # <<>> /\ Sound(body.turns)
=============================================================================
