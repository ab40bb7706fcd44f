------------------------- MODULE PlanServiceProofs -------------------------
(***************************************************************************)
(* Proofs about PlanService, for any number of concurrent requests, any    *)
(* captures and any simulation budget.  The argument: a revision number is *)
(* never reused for another state, and while the replay loop changes the   *)
(* state under one number, no request can read that number.                *)
(***************************************************************************)
EXTENDS PlanService, SessionStoreProofs

\* What a snapshot must be for a search on it to mean anything.
GoodSnapshot(s) ==
    /\ s \in State /\ StateOK(s, s.battle)
    /\ s.ready /\ s.log \in Ours \ Over

\* RevisionNamesState, made inductive: nobody holds the number under which a
\* replay is still changing the state, and no number is from the future.
RevisionInv ==
    \A t \in Threads : snap[t] # NoState =>
        /\ rev[t] <= revision
        /\ rev[t] = revision => ~replaying /\ state \in {snap[t], NoState}

\* search_mutex_ is held by whoever is between taking and releasing it.
OwnerInv ==
    \A t \in Threads : pc[t] \in {"locked", "search"} => owner = t

\* What a request has passed on its way to where it is.
SnapshotInv ==
    \A t \in Threads :
        /\ pc[t] \in {"entry", "waiting", "locked", "search"} => GoodSnapshot(snap[t])
        /\ pc[t] \in {"waiting", "locked", "search"} => Plannable(snap[t])
        /\ status[t] = "ok" => /\ pc[t] \in {"returned", "done"}
                               /\ GoodSnapshot(snap[t]) /\ Plannable(snap[t])

\* The types of the requests' own variables.
RequestTypeOK ==
    /\ pc \in [Threads -> Places]
    /\ snap \in [Threads -> State \cup {NoState}]
    /\ rev \in [Threads -> 0..MaxRevision]
    /\ sims \in [Threads -> 0..SimBudget]
    /\ status \in [Threads -> Statuses]
    /\ owner \in Threads \cup {NoThread}

\* The inductive invariant.
PlanInv == /\ StoreInv /\ RequestTypeOK
           /\ RevisionInv /\ PlansAgree /\ OwnerInv /\ SnapshotInv

-----------------------------------------------------------------------------

\* A step of the store publishes under a new number, or continues a replay,
\* or leaves the state as it is or empties it.
LEMMA StoreStepRevision ==
    ASSUME StoreInv, [StoreNext]_storeVars
    PROVE  /\ revision \in Nat /\ revision' \in Nat
           /\ \/ revision' > revision
              \/ revision' = revision /\ replaying
              \/ /\ revision' = revision /\ ~replaying /\ ~replaying'
                 /\ state' \in {state, NoState}
              \/ UNCHANGED storeVars
<1>1. revision \in Nat /\ replaying \in BOOLEAN /\ revision' \in Nat
    <2>1. StoreInv'
        BY InvNext
    <2>. QED BY <2>1, SessionStoreAssumption DEF StoreInv, StoreTypeOK
<1>2. ASSUME NEW e \in Envelopes, CapturePublished(e) PROVE revision' > revision
    BY <1>1, <1>2 DEF CapturePublished
<1>3. ASSUME NEW e \in Envelopes, CaptureBuffered(e)
      PROVE  /\ revision' = revision /\ ~replaying /\ ~replaying'
             /\ state' \in {state, NoState}
    BY <1>1, <1>3 DEF CaptureBuffered, Ingest, KeptState
<1>4. CASE ReplayPending
    BY <1>1, <1>4 DEF ReplayPending
<1>. QED BY <1>1, <1>2, <1>3, <1>4 DEF StoreNext, CaptureRefused

\* Captures do not disturb what the requests rely on.
LEMMA StoreStepKeepsPlans ==
    ASSUME PlanInv, [StoreNext]_storeVars, UNCHANGED planVars
    PROVE  PlanInv'
<1>1. StoreInv'
    BY InvNext DEF PlanInv
<1>2. UNCHANGED <<pc, snap, rev, sims, status, owner>>
    BY DEF planVars
<1>3. RevisionInv'
    <2> SUFFICES ASSUME NEW t \in Threads, snap'[t] # NoState
                 PROVE  /\ rev'[t] <= revision'
                        /\ rev'[t] = revision' =>
                              ~replaying' /\ state' \in {snap'[t], NoState}
        BY DEF RevisionInv
    <2>1. /\ rev[t] <= revision /\ rev[t] \in Nat
          /\ rev[t] = revision => ~replaying /\ state \in {snap[t], NoState}
        BY <1>2, SessionStoreAssumption DEF PlanInv, RevisionInv, RequestTypeOK
    <2>2. /\ revision \in Nat /\ revision' \in Nat
          /\ \/ revision' > revision
             \/ revision' = revision /\ replaying
             \/ /\ revision' = revision /\ ~replaying /\ ~replaying'
                /\ state' \in {state, NoState}
             \/ UNCHANGED storeVars
        BY StoreStepRevision DEF PlanInv
    <2>. QED BY <1>2, <2>1, <2>2 DEF storeVars
<1>4. RequestTypeOK' /\ PlansAgree' /\ OwnerInv' /\ SnapshotInv'
    BY <1>2 DEF PlanInv, RequestTypeOK, PlansAgree, OwnerInv, SnapshotInv,
                GoodSnapshot, Plannable
<1>. QED BY <1>1, <1>3, <1>4 DEF PlanInv

\* A request is admitted with a snapshot that its revision names.
LEMMA AdmissionKeepsPlans ==
    ASSUME PlanInv, NEW t \in Threads, RecommendAdmitted(t)
    PROVE  PlanInv'
<1>1. /\ pc[t] = "idle" /\ pc' = [pc EXCEPT ![t] = "entry"]
      /\ snap' = [snap EXCEPT ![t] = state]
      /\ rev' = [rev EXCEPT ![t] = revision]
      /\ UNCHANGED <<sims, status, owner>> /\ UNCHANGED storeVars
      /\ ~replaying /\ Admissible(state)
    BY DEF RecommendAdmitted, MayRead, Move
<1>2. StoreInv'
    BY <1>1 DEF PlanInv, StoreInv, StoreTypeOK, BufferDrained, storeVars, StateOK
<1>3. state \in State /\ StateOK(state, state.battle) /\ revision \in 0..MaxRevision
    <2>1. state \in State /\ StateOK(state, battleId) /\ revision \in 0..MaxRevision
        BY <1>1 DEF Admissible, PlanInv, StoreInv, StoreTypeOK
    <2>. QED BY <2>1 DEF StateOK
<1>4. GoodSnapshot(state)
    BY <1>1, <1>3 DEF GoodSnapshot, Admissible
<1>5. /\ pc \in [Threads -> Places] /\ snap \in [Threads -> State \cup {NoState}]
      /\ rev \in [Threads -> 0..MaxRevision]
    BY DEF PlanInv, RequestTypeOK
<1>6. RequestTypeOK'
    BY <1>1, <1>3, <1>5 DEF PlanInv, RequestTypeOK, Places
<1>7. RevisionInv'
    <2> SUFFICES ASSUME NEW u \in Threads, snap'[u] # NoState
                 PROVE  /\ rev'[u] <= revision'
                        /\ rev'[u] = revision' =>
                              ~replaying' /\ state' \in {snap'[u], NoState}
        BY DEF RevisionInv
    <2>1. CASE u = t
        BY <1>1, <1>3, <1>5, <2>1, SessionStoreAssumption DEF storeVars
    <2>2. CASE u # t
        BY <1>1, <1>5, <2>2 DEF storeVars, PlanInv, RevisionInv
    <2>. QED BY <2>1, <2>2
<1>8. PlansAgree'
    <2> SUFFICES ASSUME NEW u \in Threads, NEW v \in Threads,
                        snap'[u] # NoState, snap'[v] # NoState, rev'[u] = rev'[v]
                 PROVE  snap'[u] = snap'[v]
        BY DEF PlansAgree
    <2>1. \A w \in Threads : w # t /\ snap[w] # NoState /\ rev[w] = revision
                             => snap[w] = state
        BY <1>1 DEF PlanInv, RevisionInv, Admissible
    <2>2. CASE u # t /\ v # t
        BY <1>1, <1>5, <2>2 DEF PlanInv, PlansAgree
    <2>3. CASE u = t \/ v = t
        BY <1>1, <1>5, <2>1, <2>3
    <2>. QED BY <2>2, <2>3
<1>9. OwnerInv'
    BY <1>1, <1>5 DEF PlanInv, OwnerInv
<1>10. SnapshotInv'
    <2> SUFFICES ASSUME NEW u \in Threads
                 PROVE  /\ pc'[u] \in {"entry", "waiting", "locked", "search"} =>
                              GoodSnapshot(snap'[u])
                        /\ pc'[u] \in {"waiting", "locked", "search"} =>
                              Plannable(snap'[u])
                        /\ status'[u] = "ok" =>
                              /\ pc'[u] \in {"returned", "done"}
                              /\ GoodSnapshot(snap'[u]) /\ Plannable(snap'[u])
        BY DEF SnapshotInv, GoodSnapshot, Plannable
    <2>1. CASE u = t
        <3>1. status[t] # "ok"
            BY <1>1 DEF PlanInv, SnapshotInv
        <3>. QED BY <1>1, <1>4, <1>5, <2>1, <3>1
    <2>2. CASE u # t
        BY <1>1, <1>5, <2>2 DEF PlanInv, SnapshotInv
    <2>. QED BY <2>1, <2>2
<1>. QED BY <1>2, <1>6, <1>7, <1>8, <1>9, <1>10 DEF PlanInv

\* A step of a request that reads nothing new moves one program counter; what
\* it must show is that the place it reaches is one its snapshot allows.
LEMMA RequestKeepsPlans ==
    ASSUME PlanInv, NEW t \in Threads, UNCHANGED <<storeVars, snap, rev>>,
           RequestTypeOK',
           \A u \in Threads \ {t} : pc'[u] = pc[u] /\ status'[u] = status[u],
           pc'[t] \in {"locked", "search"} => owner' = t,
           owner' = owner \/ owner = t \/ owner = NoThread,
           pc'[t] # "idle",
           pc'[t] = "entry" => pc[t] = "entry",
           pc'[t] = "waiting" => pc[t] = "entry" /\ Plannable(snap[t]),
           pc'[t] \in {"locked", "search"} => pc[t] \in {"waiting", "locked", "search"},
           status'[t] = "ok" => /\ pc'[t] \in {"returned", "done"}
                                /\ status[t] = "ok" \/ pc[t] = "search"
    PROVE  PlanInv'
<1>1. /\ storeVars' = storeVars /\ snap' = snap /\ rev' = rev
    OBVIOUS
<1>2. StoreInv'
    BY <1>1 DEF PlanInv, StoreInv, StoreTypeOK, BufferDrained, storeVars, StateOK
<1>3. RevisionInv' /\ PlansAgree'
    BY <1>1 DEF PlanInv, RevisionInv, PlansAgree, storeVars
<1>4. OwnerInv'
    <2> SUFFICES ASSUME NEW u \in Threads, pc'[u] \in {"locked", "search"}
                 PROVE  owner' = u
        BY DEF OwnerInv
    <2>1. CASE u = t
        BY <2>1
    <2>2. CASE u # t
        <3>1. owner = u
            BY <2>2 DEF PlanInv, OwnerInv
        <3>. QED BY <2>2, <3>1, PlanServiceAssumption
    <2>. QED BY <2>1, <2>2
<1>5. SnapshotInv'
    <2> SUFFICES ASSUME NEW u \in Threads
                 PROVE  /\ pc'[u] \in {"entry", "waiting", "locked", "search"} =>
                              GoodSnapshot(snap[u])
                        /\ pc'[u] \in {"waiting", "locked", "search"} =>
                              Plannable(snap[u])
                        /\ status'[u] = "ok" =>
                              /\ pc'[u] \in {"returned", "done"}
                              /\ GoodSnapshot(snap[u]) /\ Plannable(snap[u])
        BY <1>1 DEF SnapshotInv, GoodSnapshot, Plannable
    <2>1. /\ pc[u] \in {"entry", "waiting", "locked", "search"} =>
                 GoodSnapshot(snap[u])
          /\ pc[u] \in {"waiting", "locked", "search"} => Plannable(snap[u])
          /\ status[u] = "ok" => /\ pc[u] \in {"returned", "done"}
                                 /\ GoodSnapshot(snap[u]) /\ Plannable(snap[u])
        BY DEF PlanInv, SnapshotInv
    <2>2. CASE u = t
        <3>1. ASSUME pc'[t] \in {"entry", "waiting", "locked", "search"}
              PROVE  GoodSnapshot(snap[t])
            <4>1. pc[t] \in {"entry", "waiting", "locked", "search"}
                BY <3>1
            <4>. QED BY <2>1, <2>2, <4>1
        <3>2. ASSUME pc'[t] \in {"waiting", "locked", "search"}
              PROVE  Plannable(snap[t])
            <4>1. pc[t] \in {"waiting", "locked", "search"} \/ Plannable(snap[t])
                BY <3>2
            <4>. QED BY <2>1, <2>2, <4>1
        <3>3. ASSUME status'[t] = "ok"
              PROVE  /\ pc'[t] \in {"returned", "done"}
                     /\ GoodSnapshot(snap[t]) /\ Plannable(snap[t])
            <4>1. /\ pc'[t] \in {"returned", "done"}
                  /\ status[t] = "ok" \/ pc[t] = "search"
                BY <3>3
            <4>. QED BY <2>1, <2>2, <4>1
        <3>. QED BY <2>2, <3>1, <3>2, <3>3
    <2>3. CASE u # t
        <3>1. pc'[u] = pc[u] /\ status'[u] = status[u]
            BY <2>3
        <3>. QED BY <2>1, <3>1
    <2>. QED BY <2>2, <2>3
<1>. QED BY <1>2, <1>3, <1>4, <1>5 DEF PlanInv

\* Every step of a request preserves the invariant.
LEMMA PlanStepKeepsPlans ==
    ASSUME PlanInv, NEW t \in Threads, RecommendRefused(t) \/ PlanStep(t)
    PROVE  PlanInv'
<1>1. /\ pc \in [Threads -> Places] /\ status \in [Threads -> Statuses]
      /\ snap \in [Threads -> State \cup {NoState}]
      /\ rev \in [Threads -> 0..MaxRevision]
      /\ sims \in [Threads -> 0..SimBudget]
      /\ owner \in Threads \cup {NoThread}
      /\ status[t] = "ok" => pc[t] \in {"returned", "done"}
      /\ pc[t] \in {"locked", "search"} => owner = t
    BY DEF PlanInv, RequestTypeOK, SnapshotInv, OwnerInv
<1>2. CASE RecommendRefused(t)
    <2>1. /\ pc[t] = "idle" /\ pc' = [pc EXCEPT ![t] = "done"]
          /\ \E word \in {"finished", "not_ready"} :
                status' = [status EXCEPT ![t] = word]
          /\ UNCHANGED <<storeVars, snap, rev, sims, owner>>
        BY <1>2 DEF RecommendRefused, Move, Say
    <2>2. RequestTypeOK'
        BY <1>1, <2>1 DEF RequestTypeOK, Places, Statuses
    <2>. QED BY <1>1, <2>1, <2>2, RequestKeepsPlans
<1>3. CASE PlanRefused(t)
    <2>1. /\ pc[t] = "entry" /\ pc' = [pc EXCEPT ![t] = "returned"]
          /\ \E word \in {"cancelled", "not_ready"} :
                status' = [status EXCEPT ![t] = word]
          /\ UNCHANGED <<storeVars, snap, rev, sims, owner>>
        BY <1>3 DEF PlanRefused, Move, Say
    <2>2. RequestTypeOK'
        BY <1>1, <2>1 DEF RequestTypeOK, Places, Statuses
    <2>. QED BY <1>1, <2>1, <2>2, RequestKeepsPlans
<1>4. CASE PlanAccepted(t)
    <2>1. /\ pc[t] = "entry" /\ pc' = [pc EXCEPT ![t] = "waiting"]
          /\ Plannable(snap[t])
          /\ UNCHANGED <<storeVars, snap, rev, sims, status, owner>>
        BY <1>4 DEF PlanAccepted, Move
    <2>2. RequestTypeOK'
        BY <1>1, <2>1 DEF RequestTypeOK, Places
    <2>. QED BY <1>1, <2>1, <2>2, RequestKeepsPlans
<1>5. CASE Acquire(t)
    <2>1. /\ pc[t] = "waiting" /\ pc' = [pc EXCEPT ![t] = "locked"]
          /\ owner = NoThread /\ owner' = t
          /\ UNCHANGED <<storeVars, snap, rev, sims, status>>
        BY <1>5 DEF Acquire, Move, SearchFree
    <2>2. RequestTypeOK'
        BY <1>1, <2>1 DEF RequestTypeOK, Places
    <2>. QED BY <1>1, <2>1, <2>2, RequestKeepsPlans
<1>6. ASSUME NEW from \in {"locked", "search"}, NEW word \in {"cancelled", "ok"},
             Return(t, from, word), word = "ok" => from = "search"
      PROVE  PlanInv'
    <2>1. /\ pc[t] = from /\ pc' = [pc EXCEPT ![t] = "returned"]
          /\ status' = [status EXCEPT ![t] = word]
          /\ owner' = NoThread /\ sims' = [sims EXCEPT ![t] = 0]
          /\ UNCHANGED <<storeVars, snap, rev>>
        BY <1>6 DEF Return, Move, Say
    <2>2. RequestTypeOK'
        BY <1>1, <2>1, PlanServiceAssumption DEF RequestTypeOK, Places, Statuses
    <2>3. owner = t
        BY <1>1, <2>1
    <2>. QED BY <1>1, <1>6, <2>1, <2>2, <2>3, RequestKeepsPlans
<1>7. CASE CancelledAfterWait(t)
    BY <1>6, <1>7 DEF CancelledAfterWait
<1>8. CASE StartSearch(t)
    <2>1. /\ pc[t] = "locked" /\ pc' = [pc EXCEPT ![t] = "search"]
          /\ UNCHANGED <<storeVars, snap, rev, sims, status, owner>>
        BY <1>8 DEF StartSearch, Move
    <2>2. RequestTypeOK'
        BY <1>1, <2>1 DEF RequestTypeOK, Places
    <2>. QED BY <1>1, <2>1, <2>2, RequestKeepsPlans
<1>9. CASE Simulate(t)
    <2>1. /\ pc[t] = "search" /\ pc' = [pc EXCEPT ![t] = "search"]
          /\ sims[t] < SimBudget /\ sims' = [sims EXCEPT ![t] = @ + 1]
          /\ UNCHANGED <<storeVars, snap, rev, status, owner>>
        BY <1>9 DEF Simulate, Move, BudgetLeft
    <2>2. sims[t] + 1 \in 0..SimBudget
        BY <1>1, <2>1, PlanServiceAssumption
    <2>3. RequestTypeOK'
        BY <1>1, <2>1, <2>2 DEF RequestTypeOK, Places
    <2>. QED BY <1>1, <2>1, <2>3, RequestKeepsPlans
<1>10. CASE SearchCancelled(t)
    BY <1>6, <1>10 DEF SearchCancelled
<1>11. CASE SearchFinished(t)
    BY <1>6, <1>11 DEF SearchFinished
<1>12. CASE Answer(t) \/ AnswerStale(t)
    <2>1. /\ pc[t] \in {"returned", "latest"} /\ pc' = [pc EXCEPT ![t] = "done"]
          /\ UNCHANGED <<storeVars, snap, rev, sims, status, owner>>
        BY <1>12 DEF Answer, AnswerStale, Move
    <2>2. RequestTypeOK'
        BY <1>1, <2>1 DEF RequestTypeOK, Places
    <2>. QED BY <1>1, <2>1, <2>2, RequestKeepsPlans
<1>13. CASE Discard(t)
    <2>1. /\ pc[t] = "returned" /\ pc' = [pc EXCEPT ![t] = "latest"]
          /\ status' = [status EXCEPT ![t] = "stale"]
          /\ UNCHANGED <<storeVars, snap, rev, sims, owner>>
        BY <1>13 DEF Discard, Move, Say
    <2>2. RequestTypeOK'
        BY <1>1, <2>1 DEF RequestTypeOK, Places, Statuses
    <2>. QED BY <1>1, <2>1, <2>2, RequestKeepsPlans
<1>. QED BY <1>2, <1>3, <1>4, <1>5, <1>7, <1>8, <1>9, <1>10, <1>11, <1>12, <1>13
         DEF PlanStep

-----------------------------------------------------------------------------

\* Every step of the daemon preserves the invariant.
LEMMA PlanInvNext ==
    ASSUME ~DebugEnabled, PlanInv, [Next]_vars
    PROVE  PlanInv'
<1>1. CASE UNCHANGED vars
    <2>1. UNCHANGED storeVars /\ UNCHANGED planVars
        BY <1>1 DEF vars
    <2>. QED BY <2>1, StoreStepKeepsPlans
<1>2. CASE StoreNext /\ UNCHANGED planVars
    BY <1>2, StoreStepKeepsPlans
<1>3. ~SetState
    BY DEF SetState
<1>4. ASSUME NEW t \in Threads, Request(t) \/ PlanStep(t)
      PROVE  PlanInv'
    BY <1>4, AdmissionKeepsPlans, PlanStepKeepsPlans DEF Request
<1>. QED BY <1>1, <1>2, <1>3, <1>4 DEF Next

\* PlanInv is an invariant of a daemon without the debug routes.
THEOREM PlanInvariant == ASSUME ~DebugEnabled PROVE Spec => []PlanInv
<1>1. Init => PlanInv
    <2> SUFFICES ASSUME Init PROVE PlanInv
        OBVIOUS
    <2>1. StoreInv
        BY InvInit DEF Init
    <2>2. /\ pc = [t \in Threads |-> "idle"] /\ snap = [t \in Threads |-> NoState]
          /\ rev = [t \in Threads |-> 0] /\ sims = [t \in Threads |-> 0]
          /\ status = [t \in Threads |-> "none"] /\ owner = NoThread
        BY DEF Init
    <2>3. RequestTypeOK
        BY <2>2, SessionStoreAssumption, PlanServiceAssumption
           DEF RequestTypeOK, Places, Statuses
    <2>4. RevisionInv /\ PlansAgree /\ OwnerInv /\ SnapshotInv
        BY <2>2 DEF RevisionInv, PlansAgree, OwnerInv, SnapshotInv
    <2>. QED BY <2>1, <2>3, <2>4 DEF PlanInv
<1>2. PlanInv /\ [Next]_vars => PlanInv'
    BY PlanInvNext
<1>. QED BY <1>1, <1>2, PTL DEF Spec

\* Type correctness of the requests and of the store beside them.
THEOREM PlanTypeCorrect == ASSUME ~DebugEnabled PROVE Spec => []PlanTypeOK
<1>1. PlanInv => PlanTypeOK
    BY DEF PlanInv, StoreInv, RequestTypeOK, PlanTypeOK
<1>. QED BY <1>1, PlanInvariant, PTL

\* As long as the revision a request has read is current, the store holds the
\* state it has read, or has just been emptied: what makes the lock-free
\* cancellation test of the search sound.
THEOREM RevisionsNameStates ==
    ASSUME ~DebugEnabled PROVE Spec => []RevisionNamesState
<1>1. PlanInv => RevisionNamesState
    BY DEF PlanInv, RevisionInv, RevisionNamesState
<1>. QED BY <1>1, PlanInvariant, PTL

\* Requests that name the same revision in their answers answer about the same
\* state, however many run and whenever they were admitted.
THEOREM PlansOfOneRevisionAgree ==
    ASSUME ~DebugEnabled PROVE Spec => []PlansAgree
<1>1. PlanInv => PlansAgree
    BY DEF PlanInv
<1>. QED BY <1>1, PlanInvariant, PTL

\* The shared search tree has one user at a time.
THEOREM SearchIsExclusive ==
    ASSUME ~DebugEnabled PROVE Spec => []SearchExclusive
<1>1. PlanInv => SearchExclusive
    BY DEF PlanInv, OwnerInv, SearchExclusive
<1>. QED BY <1>1, PlanInvariant, PTL

\* A move is recommended only on a complete, understood history within the
\* semantic risk limit, in a battle that goes on and in our turn.
THEOREM RecommendationsAreTrusted ==
    ASSUME ~DebugEnabled PROVE Spec => []OkIsTrusted
<1>1. PlanInv => OkIsTrusted
    <2> SUFFICES ASSUME PlanInv, NEW t \in Threads, status[t] = "ok"
                 PROVE  /\ Sound(snap[t].log)
                        /\ \/ AllowDegraded
                           \/ WithinRisk(Count(Rough, snap[t].log), Len(snap[t].log))
                        /\ snap[t].log \in Ours \ (Over \cup NoMoves)
        BY DEF OkIsTrusted
    <2>1. GoodSnapshot(snap[t]) /\ Plannable(snap[t])
        BY DEF PlanInv, SnapshotInv
    <2>2. snap[t] \in State /\ StateOK(snap[t], snap[t].battle) /\ snap[t].ready
        BY <2>1 DEF GoodSnapshot
    <2>3. Sound(snap[t].log)
        BY <2>2, ReadySound
    <2>4. AllowDegraded \/ WithinRisk(Count(Rough, snap[t].log), Len(snap[t].log))
        BY <2>1, <2>2 DEF Plannable, StateOK
    <2>. QED BY <2>1, <2>3, <2>4 DEF GoodSnapshot, Plannable
<1>. QED BY <1>1, PlanInvariant, PTL

\* The moment a move is answered, the state it was planned on is the published
\* one, or the session has just been emptied.
THEOREM AnswersDescribeThePublishedState ==
    ASSUME ~DebugEnabled PROVE Spec => OkDescribesPublished
<1> DEFINE Described ==
        \A t \in Threads :
            (pc[t] # "done" /\ pc'[t] = "done" /\ status'[t] = "ok")
            => state \in {snap[t], NoState}
<1>1. PlanInv /\ [Next]_vars => [Described]_vars
    <2> SUFFICES ASSUME PlanInv, Next, NEW t \in Threads,
                        pc[t] # "done", pc'[t] = "done", status'[t] = "ok"
                 PROVE  state \in {snap[t], NoState}
        OBVIOUS
    <2>1. PICK u \in Threads : Request(u) \/ PlanStep(u)
        BY DEF Next, planVars
    <2>2. u = t
        <3> SUFFICES ASSUME u # t PROVE pc'[t] = pc[t]
            OBVIOUS
        <3>1. pc \in [Threads -> Places]
            BY DEF PlanInv, RequestTypeOK
        <3>. QED BY <2>1, <3>1
                 DEF Request, PlanStep, RecommendRefused, RecommendAdmitted,
                     PlanRefused, PlanAccepted, Acquire, CancelledAfterWait,
                     StartSearch, Simulate, SearchCancelled, SearchFinished,
                     Answer, Discard, AnswerStale, Return, Move
    <2>3. status \in [Threads -> Statuses] /\ pc \in [Threads -> Places]
        BY DEF PlanInv, RequestTypeOK
    <2>4. Answer(t) \/ AnswerStale(t)
        BY <2>1, <2>2, <2>3
           DEF Request, PlanStep, RecommendRefused, RecommendAdmitted,
               PlanRefused, PlanAccepted, Acquire, CancelledAfterWait,
               StartSearch, Simulate, SearchCancelled, SearchFinished,
               Discard, Return, Move, Say
    <2>5. status[t] = "ok" /\ pc[t] # "latest"
        <3>1. status[t] = "ok"
            BY <2>4 DEF Answer, AnswerStale
        <3>. QED BY <3>1 DEF PlanInv, SnapshotInv
    <2>6. Answer(t)
        BY <2>4, <2>5 DEF AnswerStale, Move
    <2>7. snap[t] # NoState /\ rev[t] = revision
        <3>1. GoodSnapshot(snap[t])
            BY <2>5 DEF PlanInv, SnapshotInv
        <3>. QED BY <2>6, <3>1, TurnStreamAssumption
                 DEF Answer, Stale, Cancelled, GoodSnapshot
    <2>. QED BY <2>7 DEF PlanInv, RevisionInv
<1>2. OkDescribesPublished <=> [][Described]_vars
    BY DEF OkDescribesPublished
<1> HIDE DEF Described
<1>. QED BY <1>1, <1>2, PlanInvariant, PTL DEF Spec

-----------------------------------------------------------------------------
(* The demo route: nothing is assumed of DebugEnabled from here on.          *)

\* Whatever a payload makes of a state, demo state or not, is of its battle.
LEMMA DecodeKeepsBattle ==
    ASSUME NEW s, NEW body, DecodeUpdate(s, body) # NoState
    PROVE  DecodeUpdate(s, body).battle = s.battle
<1>1. Initial(s.battle).battle = s.battle
    BY DEF Initial
<1>2. Advance(s, body.turns).battle = s.battle
    <2>1. CASE Fresh(Half(s), body.turns) = <<>>
        BY <2>1 DEF Advance
    <2>2. CASE Fresh(Half(s), body.turns) # <<>>
        BY <2>2 DEF Advance
    <2>. QED BY <2>1, <2>2
<1>. QED BY <1>1, <1>2 DEF DecodeUpdate, DecodeInitial

\* DemoLeavesNoTrace, made inductive: a session without a battle is empty, and
\* a replay has a state to apply the buffered turns to.
DemoInv ==
    /\ battleId \in Battles \cup {NoBattle}
    /\ pending \in Seq(Buffered) /\ Len(pending) <= PendingCap
    /\ battleId = NoBattle => state = NoState /\ initial = NoState /\ pending = <<>>
    /\ replaying => state # NoState /\ pending # <<>>
    /\ DemoLeavesNoTrace

\* What an envelope that passes the early returns is ingested into: nothing of
\* another battle, unless it is ingested into the demo battle.
LEMMA DemoIngestFacts ==
    ASSUME DemoInv, NEW e \in Envelopes, ~Refused(e)
    PROVE  /\ Target(e) \in Battles /\ e.body \in Body
           /\ KeptPending(e) \in Seq(Buffered) /\ Len(KeptPending(e)) <= PendingCap
           /\ Target(e) # DemoBattle =>
                 /\ KeptState(e) # NoState => KeptState(e).battle = Target(e)
                 /\ KeptInitial(e) # NoState => KeptInitial(e).battle = Target(e)
                 /\ \A i \in 1..Len(KeptPending(e)) :
                       KeptPending(e)[i].battle = Target(e)
<1>1. e.battle \in Battles \cup {NoBattle} /\ e.body \in Body
    BY SessionStoreAssumption DEF Envelopes
<1>2. Target(e) \in Battles
    BY <1>1 DEF Refused, Unusable, Target, DemoInv
<1>3. <<>> \in Seq(Buffered) /\ Len(<<>>) = 0
    BY EmptySeq
<1>4. KeptPending(e) \in Seq(Buffered) /\ Len(KeptPending(e)) <= PendingCap
    BY <1>3, SessionStoreAssumption DEF KeptPending, DemoInv
<1>5. CASE Resets(e)
    BY <1>1, <1>2, <1>3, <1>4, <1>5 DEF KeptState, KeptInitial, KeptPending
<1>6. CASE ~Resets(e)
    <2>1. /\ KeptState(e) = state /\ KeptInitial(e) = initial
          /\ KeptPending(e) = pending
        BY <1>6 DEF KeptState, KeptInitial, KeptPending
    <2>2. CASE battleId = NoBattle
        BY <1>1, <1>2, <1>3, <1>4, <2>1, <2>2 DEF DemoInv
    <2>3. CASE battleId # NoBattle
        <3>1. Target(e) = battleId
            BY <1>6, <2>3 DEF Resets
        <3>. QED BY <1>1, <1>2, <1>4, <2>1, <3>1
                 DEF DemoInv, DemoLeavesNoTrace, OneBattle
    <2>. QED BY <2>2, <2>3
<1>. QED BY <1>5, <1>6

\* A payload published into another battle than the demo's is of that battle.
LEMMA DemoDecodeFacts ==
    ASSUME DemoInv, NEW e \in Envelopes, ~Refused(e), Decode(e) # NoState,
           Target(e) # DemoBattle
    PROVE  Decode(e).battle = Target(e)
<1>1. /\ KeptState(e) # NoState => KeptState(e).battle = Target(e)
      /\ KeptInitial(e) # NoState => KeptInitial(e).battle = Target(e)
    BY DemoIngestFacts
<1>2. CASE KeptState(e) = NoState
    <2>1. Decode(e) = Initial(Target(e))
        BY <1>2 DEF Decode, DecodeInitial
    <2>. QED BY <2>1 DEF Initial
<1>3. CASE KeptState(e) # NoState
    <2>1. \E s \in {KeptInitial(e), KeptState(e)} :
              s # NoState /\ Decode(e) = DecodeUpdate(s, e.body)
        BY <1>3 DEF Decode
    <2>. QED BY <1>1, <2>1, DecodeKeepsBattle
<1>. QED BY <1>2, <1>3

\* Captures preserve the invariant, whatever the demo route left behind.
LEMMA DemoStoreStep ==
    ASSUME DemoInv, StoreNext
    PROVE  DemoInv'
<1>1. ASSUME NEW e \in Envelopes, CaptureRefused(e) PROVE DemoInv'
    BY <1>1 DEF CaptureRefused, storeVars, DemoInv, DemoLeavesNoTrace, OneBattle
<1>2. ASSUME NEW e \in Envelopes, CapturePublished(e) PROVE DemoInv'
    <2>1. /\ ~Refused(e) /\ Decode(e) # NoState
          /\ battleId' = Target(e) /\ state' = Decode(e)
          /\ initial' \in {Decode(e), KeptInitial(e)}
          /\ pending' = KeptPending(e)
          /\ replaying' => KeptPending(e) # <<>>
        BY <1>2 DEF CapturePublished, Ingest, StartsReplay
    <2>2. Target(e) \in Battles /\ Target(e) # NoBattle
        BY <2>1, DemoIngestFacts, TurnStreamAssumption
    <2>3. pending' \in Seq(Buffered) /\ Len(pending') <= PendingCap
        BY <2>1, DemoIngestFacts
    <2>4. DemoLeavesNoTrace'
        <3> SUFFICES ASSUME battleId' # DemoBattle PROVE OneBattle'
            BY DEF DemoLeavesNoTrace
        <3>1. Decode(e).battle = Target(e)
            BY <2>1, DemoDecodeFacts
        <3>2. /\ KeptInitial(e) # NoState => KeptInitial(e).battle = Target(e)
              /\ \A i \in 1..Len(KeptPending(e)) :
                    KeptPending(e)[i].battle = Target(e)
            BY <2>1, DemoIngestFacts
        <3>. QED BY <2>1, <3>1, <3>2 DEF OneBattle
    <2>. QED BY <2>1, <2>2, <2>3, <2>4 DEF DemoInv
<1>3. ASSUME NEW e \in Envelopes, CaptureBuffered(e) PROVE DemoInv'
    <2>1. /\ ~Refused(e) /\ ~replaying'
          /\ battleId' = Target(e) /\ state' = KeptState(e)
          /\ initial' = KeptInitial(e)
        BY <1>3 DEF CaptureBuffered, Ingest
    <2> DEFINE item == [battle |-> Target(e), body |-> e.body]
    <2>2. pending' \in {KeptPending(e), Push(KeptPending(e), item)}
        BY <1>3 DEF CaptureBuffered
    <2>3. Target(e) \in Battles /\ Target(e) # NoBattle /\ e.body \in Body
        BY <2>1, DemoIngestFacts, TurnStreamAssumption
    <2>4. item \in Buffered /\ item.battle = Target(e)
        BY <2>3 DEF Buffered
    <2>5. KeptPending(e) \in Seq(Buffered) /\ Len(KeptPending(e)) <= PendingCap
        BY <2>1, DemoIngestFacts
    <2> HIDE DEF item
    <2>6. /\ Push(KeptPending(e), item) \in Seq(Buffered)
          /\ Len(Push(KeptPending(e), item)) <= PendingCap
          /\ \A i \in 1..Len(Push(KeptPending(e), item)) :
                \/ Push(KeptPending(e), item)[i] = item
                \/ \E j \in 1..Len(KeptPending(e)) :
                      Push(KeptPending(e), item)[i] = KeptPending(e)[j]
        BY <2>4, <2>5, PushProperties
    <2>7. pending' \in Seq(Buffered) /\ Len(pending') <= PendingCap
        BY <2>2, <2>5, <2>6
    <2>8. DemoLeavesNoTrace'
        <3> SUFFICES ASSUME battleId' # DemoBattle PROVE OneBattle'
            BY DEF DemoLeavesNoTrace
        <3>1. /\ KeptState(e) # NoState => KeptState(e).battle = Target(e)
              /\ KeptInitial(e) # NoState => KeptInitial(e).battle = Target(e)
              /\ \A i \in 1..Len(KeptPending(e)) :
                    KeptPending(e)[i].battle = Target(e)
            BY <2>1, DemoIngestFacts
        <3>2. \A i \in 1..Len(pending') : pending'[i].battle = Target(e)
            BY <2>2, <2>4, <2>6, <3>1
        <3>. QED BY <2>1, <3>1, <3>2 DEF OneBattle
    <2>. QED BY <2>1, <2>3, <2>7, <2>8 DEF DemoInv
<1>4. CASE ReplayPending
    <2>1. /\ replaying /\ UNCHANGED <<battleId, initial>>
          /\ state' \in {state, DecodeUpdate(state, Head(pending).body)}
          /\ state' # NoState
          /\ pending' = Tail(pending)
          /\ replaying' = (Tail(pending) # <<>>)
        BY <1>4 DEF ReplayPending, DemoInv
    <2>2. pending # <<>> /\ state # NoState
        BY <2>1 DEF DemoInv
    <2>3. battleId \in Battles
        BY <2>2 DEF DemoInv
    <2>4. /\ Tail(pending) \in Seq(Buffered)
          /\ Len(Tail(pending)) = Len(pending) - 1 /\ Len(pending) \in Nat \ {0}
          /\ \A i \in 1..Len(Tail(pending)) : Tail(pending)[i] = pending[i + 1]
        BY <2>2, HeadTailProperties, LenProperties, EmptySeq DEF DemoInv
    <2>5. Len(pending') <= PendingCap
        BY <2>1, <2>4, SessionStoreAssumption DEF DemoInv
    <2>6. DemoLeavesNoTrace'
        <3> SUFFICES ASSUME battleId' # DemoBattle PROVE OneBattle'
            BY DEF DemoLeavesNoTrace
        <3>1. OneBattle
            BY <2>1 DEF DemoInv, DemoLeavesNoTrace
        <3>2. state'.battle = battleId
            BY <2>1, <2>2, <3>1, DecodeKeepsBattle DEF OneBattle
        <3>3. \A i \in 1..Len(Tail(pending)) : i + 1 \in 1..Len(pending)
            BY <2>4
        <3>4. \A i \in 1..Len(pending') : pending'[i].battle = battleId
            BY <2>1, <2>4, <3>1, <3>3 DEF OneBattle
        <3>. QED BY <2>1, <3>1, <3>2, <3>4 DEF OneBattle
    <2>. QED BY <2>1, <2>3, <2>4, <2>5, <2>6, TurnStreamAssumption DEF DemoInv
<1>. QED BY <1>1, <1>2, <1>3, <1>4 DEF StoreNext

\* With the demo route enabled, a session may mix the demo battle with the one
\* it interrupted, but the next real battle starts without a trace of either.
THEOREM DemoIsForgotten == Spec => []DemoLeavesNoTrace
<1>1. Init => DemoInv
    BY EmptySeq, SessionStoreAssumption
       DEF Init, StoreInit, DemoInv, DemoLeavesNoTrace, OneBattle
<1>2. DemoInv /\ [Next]_vars => DemoInv'
    <2> SUFFICES ASSUME DemoInv, [Next]_vars PROVE DemoInv'
        OBVIOUS
    <2>1. CASE StoreNext
        BY <2>1, DemoStoreStep
    <2>2. CASE SetState
        BY <2>2, SessionStoreAssumption, TurnStreamAssumption
           DEF SetState, DemoInv, DemoLeavesNoTrace
    <2>3. CASE UNCHANGED storeVars
        BY <2>3 DEF storeVars, DemoInv, DemoLeavesNoTrace, OneBattle
    <2>4. ASSUME NEW t \in Threads, Request(t) \/ PlanStep(t)
          PROVE  UNCHANGED storeVars
        BY <2>4 DEF Request, PlanStep, RecommendRefused, RecommendAdmitted,
                    PlanRefused, PlanAccepted, Acquire, CancelledAfterWait,
                    StartSearch, Simulate, SearchCancelled, SearchFinished,
                    Answer, Discard, AnswerStale, Return
    <2>. QED BY <2>1, <2>2, <2>3, <2>4 DEF Next, vars
<1>3. DemoInv => DemoLeavesNoTrace
    BY DEF DemoInv
<1>. QED BY <1>1, <1>2, <1>3, PTL DEF Spec
=============================================================================
