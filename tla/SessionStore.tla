---------------------------- MODULE SessionStore ----------------------------
(***************************************************************************)
(* SessionStore (cpp/src/session.cpp): the daemon's one battle session.    *)
(* Captured payloads arrive from the browser in any order, repeated, late, *)
(* after a page reload or for another battle; capture() decodes them into  *)
(* the canonical state under the mutex mu_ and names every publication by  *)
(* a revision that other threads read without the mutex.                   *)
(*                                                                         *)
(* A capture is one step, linearised at the revision increment, except for *)
(* the replay of buffered payloads: each iteration of that loop is a step  *)
(* of its own, `replaying' says that its capture still holds mu_, and every*)
(* other operation that takes mu_ waits for it.                            *)
(***************************************************************************)
EXTENDS TurnStream

CONSTANTS
    DemoBattle,     \* battle_id of POST /debug/demo-state
    DebugEnabled,   \* HWM_ENABLE_DEBUG=1
    Bodies,         \* the bodies a producer may post
    Times,          \* captured_at_ms values; 0 when the producer sent none
    Tolerance,      \* the 1000 ms of the ordering check
    PendingCap,     \* the 16 payloads kept before the static state arrives
    MaxRevision     \* bound of the model on revision_

ASSUME SessionStoreAssumption ==
    /\ DemoBattle \in Battles
    /\ DebugEnabled \in BOOLEAN
    /\ Bodies \subseteq Body
    /\ Times \subseteq Nat
    /\ Tolerance \in Nat
    /\ PendingCap \in Nat \ {0}
    /\ MaxRevision \in Nat

VARIABLES
    battleId,   \* battle_id_
    state,      \* state_
    initial,    \* initial_state_
    pending,    \* pending_updates_
    lastBody,   \* the body whose hash is last_raw_hash_ (NoBody: empty hash)
    lastAt,     \* last_capture_ms_
    revision,   \* revision_
    replaying   \* mu_ is held by a capture inside its replay loop

storeVars == <<battleId, state, initial, pending, lastBody, lastAt,
               revision, replaying>>

Envelopes == [battle : Battles \cup {NoBattle}, at : Times, body : Bodies]
NoBody    == [kind |-> "empty", turns |-> <<>>]
Buffered  == [battle : Battles, body : Body]

StoreTypeOK ==
    /\ battleId \in Battles \cup {NoBattle}
    /\ state \in State \cup {NoState}
    /\ initial \in State \cup {NoState}
    /\ pending \in Seq(Buffered) /\ Len(pending) <= PendingCap
    /\ lastBody \in Body
    /\ lastAt \in Nat
    /\ revision \in 0..MaxRevision
    /\ replaying \in BOOLEAN

StoreInit ==
    /\ battleId = NoBattle /\ state = NoState /\ initial = NoState
    /\ pending = <<>> /\ lastBody = NoBody /\ lastAt = 0
    /\ revision = 0 /\ replaying = FALSE

-----------------------------------------------------------------------------
(* capture()                                                                *)

\* An envelope without a battle_id belongs to the current battle.
Target(e) == IF e.battle = NoBattle THEN battleId ELSE e.battle

\* The session this envelope is ingested into: another battle's is emptied.
Resets(e)      == battleId # NoBattle /\ Target(e) # battleId
KeptState(e)   == IF Resets(e) THEN NoState ELSE state
KeptInitialStale(e) == initial     \* faulty: initial_state_ survives
KeptInitial(e) == IF Resets(e) THEN NoState ELSE initial
KeptPendingStale(e) == pending     \* faulty: pending_updates_ survives
KeptPending(e) == IF Resets(e) THEN <<>> ELSE pending
KeptAt(e)      == IF Resets(e) THEN 0 ELSE lastAt

Unusable(e)   == Target(e) = NoBattle \/ e.body.kind \in {"empty", "heartbeat"}
Duplicate(e)  == ~Resets(e) /\ lastBody # NoBody /\ e.body = lastBody
OutOfOrder(e) == /\ KeptAt(e) # 0 /\ e.at # 0
                 /\ e.at + Tolerance < KeptAt(e)
Refused(e)    == Unusable(e) \/ Duplicate(e) \/ OutOfOrder(e)

\* "turns=>1:" occurs in the body.
FullStream(body) == body.turns # <<>> /\ body.turns[1] = 1

\* Faulty: every payload is applied to the current state.
DecodeIncremental(e) ==
    IF KeptState(e) = NoState
    THEN DecodeInitial(e.body, Target(e))
    ELSE DecodeUpdate(KeptState(e), e.body)

\* Faulty: a full stream rebuilds a trusted state as well.
DecodeRebuilding(e) ==
    IF KeptState(e) = NoState
    THEN DecodeInitial(e.body, Target(e))
    ELSE IF KeptInitial(e) # NoState /\ FullStream(e.body)
         THEN DecodeUpdate(KeptInitial(e), e.body)
         ELSE DecodeUpdate(KeptState(e), e.body)

\* A full stream rebuilds an untrusted state from the retained baseline.
Decode(e) ==
    IF KeptState(e) = NoState
    THEN DecodeInitial(e.body, Target(e))
    ELSE IF /\ KeptInitial(e) # NoState
            /\ FullStream(e.body)
            /\ ~KeptState(e).ready
         THEN DecodeUpdate(KeptInitial(e), e.body)
         ELSE DecodeUpdate(KeptState(e), e.body)

\* The early returns: none of the modelled state changes.
CaptureRefused(e) ==
    /\ ~replaying
    /\ Refused(e)
    /\ UNCHANGED storeVars

Ingest(e) ==
    /\ ~replaying
    /\ ~Refused(e)
    /\ battleId' = Target(e)
    /\ lastBody' = e.body
    /\ lastAt' = IF e.at # 0 THEN e.at ELSE KeptAt(e)

\* Faulty: the sense of the readiness test is inverted.
StartsReplayReady(e) == KeptPending(e) # <<>> /\ Decode(e).ready

\* Turns were buffered before this first state: replay them now.
StartsReplay(e) == KeptPending(e) # <<>> /\ ~Decode(e).ready

\* The payload decodes to a state: publish it under a new revision.
CapturePublished(e) ==
    /\ revision < MaxRevision
    /\ Decode(e) # NoState
    /\ Ingest(e)
    /\ state' = Decode(e)
    /\ initial' = IF KeptInitial(e) = NoState /\ Half(Decode(e)) = 0
                  THEN Decode(e) ELSE KeptInitial(e)
    /\ pending' = KeptPending(e)
    /\ revision' = revision + 1
    /\ replaying' = StartsReplay(e)

\* Faulty: nothing is evicted.
PushUnbounded(queue, item) == Append(queue, item)

\* Keep the newest PendingCap payloads.
Push(queue, item) ==
    Append(IF Len(queue) >= PendingCap THEN Tail(queue) ELSE queue, item)

\* No state yet: keep the turns for when the static payload arrives.
CaptureBuffered(e) ==
    /\ Decode(e) = NoState
    /\ Ingest(e)
    /\ state' = KeptState(e)
    /\ initial' = KeptInitial(e)
    /\ pending' = IF e.body.turns # <<>>
                  THEN Push(KeptPending(e),
                            [battle |-> Target(e), body |-> e.body])
                  ELSE KeptPending(e)
    /\ UNCHANGED <<revision, replaying>>

\* One iteration of the loop that replays pending_updates_.
ReplayPending ==
    /\ replaying
    /\ state' = IF DecodeUpdate(state, Head(pending).body) = NoState
                THEN state
                ELSE DecodeUpdate(state, Head(pending).body)
    /\ pending' = Tail(pending)
    /\ replaying' = (Tail(pending) # <<>>)
    /\ UNCHANGED <<battleId, initial, lastBody, lastAt, revision>>

-----------------------------------------------------------------------------
(* set_state(), reached from the demo route only: a step of PlanService, not *)
(* of StoreNext                                                              *)

DemoState == [Initial(DemoBattle) EXCEPT !.ready = TRUE, !.safe = TRUE]

SetState ==
    /\ DebugEnabled
    /\ ~replaying
    /\ revision < MaxRevision
    /\ battleId' = DemoBattle
    /\ state' = DemoState
    /\ revision' = revision + 1
    /\ UNCHANGED <<initial, pending, lastBody, lastAt, replaying>>

\* The steps of a daemon without the debug routes.
StoreNext ==
    \/ \E e \in Envelopes : CaptureRefused(e)
    \/ \E e \in Envelopes : CapturePublished(e)
    \/ \E e \in Envelopes : CaptureBuffered(e)
    \/ ReplayPending

\* The replay loop is sequential code inside one critical section.
StoreFairness == WF_storeVars(ReplayPending)

StoreSpec == StoreInit /\ [][StoreNext]_storeVars /\ StoreFairness

-----------------------------------------------------------------------------
(* Properties.  The demo route installs a state that no stream produced, so *)
(* they are promised by a daemon that runs without the debug routes.        *)

\* A state offered as ready for planning is the complete, fully understood
\* and consistent history of its battle, whatever was lost, repeated or
\* reordered on the way (the gate at the end of decode_update).
ReadyIsSound ==
    \A s \in {state, initial} \ {NoState} : s.ready => Sound(s.log)

\* The strict semantic gate looks at the whole history since the static
\* snapshot, not at the last payload only.
SafeIsWithinRisk ==
    \A s \in {state, initial} \ {NoState} :
        s.safe => s.ready /\ WithinRisk(Count(Rough, s.log), Len(s.log))

\* No half-turn of one battle can reach the state of another: everything the
\* session keeps belongs to battle_id_, across resets and late payloads.
OneBattle ==
    /\ \A s \in {state, initial} \ {NoState} : s.battle = battleId
    /\ \A i \in 1..Len(pending) : pending[i].battle = battleId

\* Turns that overtook their static payload are not forgotten: once a state
\* exists and the mutex is free, none of them waits in the buffer.
BufferDrained ==
    state # NoState /\ ~replaying =>
        \A i \in 1..Len(pending) : pending[i].body.kind = "broken"

\* After any gap or rejected state, one sound full stream is enough: once it
\* is accepted the state is ready, because the baseline was kept pristine.
FullStreamRecovers ==
    [][ (/\ revision' # revision /\ battleId' = battleId /\ state # NoState
         /\ FullSound(lastBody'))
        => state'.ready ]_storeVars

\* The demo route replaces the state but neither the baseline nor the buffer
\* of the battle it interrupts, so that a demo session may mix battles; the
\* next real battle must still start without a trace of either.
DemoLeavesNoTrace == battleId # DemoBattle => OneBattle

\* The store implements the abstract promise of TrustedLog.
Vouched == IF state # NoState /\ state.ready THEN state.log ELSE NoState

Promise == INSTANCE TrustedLog WITH
               battle <- battleId, copy <- Vouched, NoCopy <- NoState

KeepsPromise == Promise!Spec
=============================================================================
