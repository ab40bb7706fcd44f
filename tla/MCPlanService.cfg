SPECIFICATION Spec
CONSTANTS
    b1 = b1
    b2 = b2
    t1 = t1
    t2 = t2
    NoBattle = NoBattle
    NoState = NoState
    NoThread = NoThread
    DemoBattle = b2
    Battles <- MCBattles
    Threads <- MCThreads
    Turns <- MCTurns
    Dirty <- MCDirty
    Rough <- MCRough
    Corrupt <- MCCorrupt
    Times <- MCTimes
    Bodies <- MCBodies
    Over <- MCOver
    Ours <- MCOurs
    NoMoves <- MCNoMoves
    DebugEnabled = TRUE
    Tolerance = 1
    PendingCap = 2
    MaxRevision = 3
    SimBudget = 2
    TimeBudgeted = TRUE
    PollEvery = 2
    AllowDegraded = FALSE
INVARIANTS
    PlanTypeOK
    RevisionNamesState
    PlansAgree
    SearchExclusive
    DemoLeavesNoTrace
    OkIsTrusted
PROPERTIES
    OkDescribesPublished
    EveryRequestAnswered
CHECK_DEADLOCK FALSE
