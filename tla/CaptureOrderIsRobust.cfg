SPECIFICATION PageSpec
CONSTANTS
    b1 = b1
    NoBattle = NoBattle
    NoState = NoState
    DemoBattle = b1
    PageBattle = b1
    LoadTime = 1
    Battles <- MCBattles
    Turns <- MCTurns
    Dirty <- MCNone
    Rough <- MCNone
    Corrupt <- MCNone
    Times <- MCTimes
    Bodies <- MCBodies
    DebugEnabled = FALSE
    Tolerance = 1
    PendingCap = 2
    MaxRevision = 9
    MaxHalf = 3
    MaxLoads = 3
INVARIANT CaptureOrderIsRobust
CHECK_DEADLOCK FALSE
