---------------------------- MODULE PlanService ----------------------------
(***************************************************************************)
(* POST /recommend (HttpServer::handle and Planner::plan) beside the       *)
(* session store.  The server gives every connection a thread of its own,  *)
(* so a member of Threads is one request.  A request takes a snapshot of   *)
(* the state and its revision under mu_, plans on the snapshot without any *)
(* lock of the store, polls the atomic revision to notice that the battle  *)
(* has moved on, and shares one search tree under search_mutex_.           *)
(***************************************************************************)
EXTENDS SessionStore

CONSTANTS
    Threads,        \* requests
    NoThread,       \* search_mutex_ is free
    SimBudget,      \* cfg_.simulation_budget
    TimeBudgeted,   \* cfg_.time_budget_ms # 0
    PollEvery,      \* cfg_.cancellation_poll_interval, at least 1
    AllowDegraded,  \* HWM_ALLOW_SEMANTIC_DEGRADED
    Over,           \* logs after which the battle is finished
    Ours,           \* logs after which an identified stack of ours is to act
    NoMoves         \* logs after which legal_actions() is empty

ASSUME PlanServiceAssumption ==
    /\ NoThread \notin Threads
    /\ SimBudget \in Nat \ {0}
    /\ PollEvery \in Nat \ {0}
    /\ TimeBudgeted \in BOOLEAN /\ AllowDegraded \in BOOLEAN

VARIABLES
    pc,         \* where each request is
    snap,       \* its snapshot->state
    rev,        \* its requested_revision
    sims,       \* simulations done by its search loop
    status,     \* Recommendation::status, in the end that of the answer
    owner       \* the holder of search_mutex_

planVars == <<pc, snap, rev, sims, status, owner>>
vars     == <<storeVars, planVars>>

Places   == {"idle", "entry", "waiting", "locked", "search", "returned",
             "latest", "done"}
Statuses == {"none", "ok", "cancelled", "not_ready", "finished", "stale"}

PlanTypeOK ==
    /\ StoreTypeOK
    /\ pc \in [Threads -> Places]
    /\ snap \in [Threads -> State \cup {NoState}]
    /\ rev \in [Threads -> 0..MaxRevision]
    /\ sims \in [Threads -> 0..SimBudget]
    /\ status \in [Threads -> Statuses]
    /\ owner \in Threads \cup {NoThread}

Init ==
    /\ StoreInit
    /\ pc = [t \in Threads |-> "idle"]
    /\ snap = [t \in Threads |-> NoState]
    /\ rev = [t \in Threads |-> 0]
    /\ sims = [t \in Threads |-> 0]
    /\ status = [t \in Threads |-> "none"]
    /\ owner = NoThread

Move(t, from, to) == pc[t] = from /\ pc' = [pc EXCEPT ![t] = to]
Say(t, word)      == status' = [status EXCEPT ![t] = word]

\* The cancellation callback: a read of the atomic revision_, without mu_.
Cancelled(t) == revision # rev[t]

-----------------------------------------------------------------------------
(* HttpServer::handle, up to the call of plan()                             *)

\* Faulty: the state is read without the mutex.
MayReadUnlocked == TRUE

\* snapshot() and its revision are read under mu_.
MayRead == ~replaying

\* The state is one that plan() may be asked about.
Admissible(s) == s # NoState /\ s.ready /\ s.log \notin Over /\ s.log \in Ours

RecommendRefused(t) ==
    /\ MayRead
    /\ ~Admissible(state)
    /\ Move(t, "idle", "done")
    /\ Say(t, IF state # NoState /\ state.ready /\ state.log \in Over
              THEN "finished" ELSE "not_ready")
    /\ UNCHANGED <<storeVars, snap, rev, sims, owner>>

RecommendAdmitted(t) ==
    /\ MayRead
    /\ Admissible(state)
    /\ Move(t, "idle", "entry")
    /\ snap' = [snap EXCEPT ![t] = state]
    /\ rev' = [rev EXCEPT ![t] = revision]
    /\ UNCHANGED <<storeVars, sims, status, owner>>

-----------------------------------------------------------------------------
(* Planner::plan                                                            *)

\* Faulty: the strict semantic gate is forgotten.
UngatedPlannable(s) == s.ready /\ s.log \notin NoMoves

\* The gates at the top of plan().
Plannable(s) == /\ s.ready
                /\ s.safe \/ AllowDegraded
                /\ s.log \notin NoMoves

PlanRefused(t) ==
    /\ Move(t, "entry", "returned")
    /\ Cancelled(t) \/ ~Plannable(snap[t])
    /\ Say(t, IF Cancelled(t) THEN "cancelled" ELSE "not_ready")
    /\ UNCHANGED <<storeVars, snap, rev, sims, owner>>

PlanAccepted(t) ==
    /\ Move(t, "entry", "waiting")
    /\ ~Cancelled(t) /\ Plannable(snap[t])
    /\ UNCHANGED <<storeVars, snap, rev, sims, status, owner>>

\* Faulty: search_mutex_ is dropped.
SearchFreeAlways == TRUE

\* search_mutex_ can be taken.
SearchFree == owner = NoThread

Acquire(t) ==
    /\ SearchFree
    /\ Move(t, "waiting", "locked")
    /\ owner' = t
    /\ UNCHANGED <<storeVars, snap, rev, sims, status>>

\* Faulty: an early return keeps search_mutex_.
ReturnHolding(t, from, word) ==
    /\ Move(t, from, "returned")
    /\ Say(t, word)
    /\ sims' = [sims EXCEPT ![t] = 0]
    /\ UNCHANGED <<storeVars, snap, rev, owner>>

\* Leaving plan() releases search_mutex_ and ends the life of the counter.
Return(t, from, word) ==
    /\ Move(t, from, "returned")
    /\ Say(t, word)
    /\ owner' = NoThread
    /\ sims' = [sims EXCEPT ![t] = 0]
    /\ UNCHANGED <<storeVars, snap, rev>>

\* The second poll, after the wait for the search tree.
CancelledAfterWait(t) == Cancelled(t) /\ Return(t, "locked", "cancelled")

StartSearch(t) ==
    /\ ~Cancelled(t)
    /\ Move(t, "locked", "search")
    /\ UNCHANGED <<storeVars, snap, rev, sims, status, owner>>

\* This iteration of the search loop polls and sees a newer revision.
PollCancels(t) == sims[t] % PollEvery = 0 /\ Cancelled(t)

\* Faulty: one simulation more than the budget.
BudgetLeftOrSpent(t) == sims[t] <= SimBudget

\* The condition of the search loop.
BudgetLeft(t) == sims[t] < SimBudget

Simulate(t) ==
    /\ BudgetLeft(t) /\ ~PollCancels(t)
    /\ Move(t, "search", "search")
    /\ sims' = [sims EXCEPT ![t] = @ + 1]
    /\ UNCHANGED <<storeVars, snap, rev, status, owner>>

SearchCancelled(t) ==
    /\ BudgetLeft(t) /\ PollCancels(t)
    /\ Return(t, "search", "cancelled")

\* At least one simulation ran, so the root has a visited candidate.
SearchFinished(t) ==
    /\ \/ ~BudgetLeft(t)
       \/ TimeBudgeted /\ sims[t] > 0 /\ ~PollCancels(t)
    /\ Return(t, "search", "ok")

-----------------------------------------------------------------------------
(* HttpServer::handle, after plan()                                         *)

\* Faulty: what the search did not notice, nobody notices.
StaleIfCancelled(t) == status[t] = "cancelled"

\* The answer is not what the caller asked about any more.
Stale(t) == status[t] = "cancelled" \/ Cancelled(t)

Answer(t) ==
    /\ ~Stale(t)
    /\ Move(t, "returned", "done")
    /\ UNCHANGED <<storeVars, snap, rev, sims, status, owner>>

Discard(t) ==
    /\ Stale(t)
    /\ Move(t, "returned", "latest")
    /\ Say(t, "stale")
    /\ UNCHANGED <<storeVars, snap, rev, sims, owner>>

\* The stale answer names the current hash: it needs mu_ again.
AnswerStale(t) ==
    /\ MayRead
    /\ Move(t, "latest", "done")
    /\ UNCHANGED <<storeVars, snap, rev, sims, status, owner>>

-----------------------------------------------------------------------------

PlanStep(t) ==
    \/ PlanRefused(t) \/ PlanAccepted(t) \/ Acquire(t)
    \/ CancelledAfterWait(t) \/ StartSearch(t)
    \/ Simulate(t) \/ SearchCancelled(t) \/ SearchFinished(t)
    \/ Answer(t) \/ Discard(t) \/ AnswerStale(t)

Request(t) == RecommendRefused(t) \/ RecommendAdmitted(t)

Next ==
    \/ StoreNext /\ UNCHANGED planVars
    \/ SetState /\ UNCHANGED planVars
    \/ \E t \in Threads : Request(t) \/ PlanStep(t)

\* A thread that can run does run, and the replay loop ends.  The mutexes
\* need no more: each request takes search_mutex_ once, and captures that
\* keep mu_ busy are new revisions, of which there are finitely many.
Fairness ==
    /\ WF_vars(ReplayPending /\ UNCHANGED planVars)
    /\ \A t \in Threads : WF_vars(PlanStep(t))

Spec == Init /\ [][Next]_vars /\ Fairness

-----------------------------------------------------------------------------
(* Properties.                                                              *)

\* A revision names one published state: as long as the number a request has
\* read is current, the store holds the very state it has read, or none at
\* all after a reset.  The lock-free cancellation test of plan() and the
\* final test of /recommend mean nothing without it.
RevisionNamesState ==
    \A t \in Threads :
        snap[t] # NoState /\ rev[t] = revision => state \in {snap[t], NoState}

\* Two requests that read the same revision plan on the same state.
PlansAgree ==
    \A t, u \in Threads :
        snap[t] # NoState /\ snap[u] # NoState /\ rev[t] = rev[u]
        => snap[t] = snap[u]

\* A move is only ever recommended for a complete and understood history,
\* within the semantic risk limit unless degraded mode was asked for, in
\* which it is our turn and the battle goes on.
OkIsTrusted ==
    \A t \in Threads : status[t] = "ok" =>
        /\ Sound(snap[t].log)
        /\ AllowDegraded \/ WithinRisk(Count(Rough, snap[t].log), Len(snap[t].log))
        /\ snap[t].log \in Ours \ (Over \cup NoMoves)

\* The moment a move is answered, the state it was planned on is the
\* published one (or the session has just been emptied), even if revisions
\* came between two polls of the search or after its end.
OkDescribesPublished ==
    [][ \A t \in Threads :
          (pc[t] # "done" /\ pc'[t] = "done" /\ status'[t] = "ok")
          => state \in {snap[t], NoState} ]_vars

\* The search tree is only touched by the holder of search_mutex_.
SearchExclusive ==
    \A t, u \in Threads :
        pc[t] \in {"locked", "search"} /\ pc[u] \in {"locked", "search"}
        => t = u

\* Every admitted request is answered, whatever is captured meanwhile.
EveryRequestAnswered ==
    \A t \in Threads : pc[t] = "entry" ~> pc[t] = "done"

\* SPEC.md: no recommendation is given out for a stale state.
AnswerIsCurrent ==
    [][ \A t \in Threads :
          (pc[t] # "done" /\ pc'[t] = "done" /\ status'[t] = "ok")
          => state = snap[t] ]_vars
=============================================================================
