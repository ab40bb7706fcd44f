SPECIFICATION StoreSpec
CONSTANTS
    b1 = b1
    b2 = b2
    NoBattle = NoBattle
    NoState = NoState
    DemoBattle = b1
    Battles <- MCBattles
    Turns <- MCTurns
    Dirty <- MCDirty
    Rough <- MCRough
    Corrupt <- MCCorrupt
    Times <- MCTimes
    Bodies <- MCBodies
    DebugEnabled = FALSE
    Tolerance = 1
    PendingCap = 2
    MaxRevision = 6
INVARIANTS
    StoreTypeOK
    ReadyIsSound
    SafeIsWithinRisk
    OneBattle
    BufferDrained
PROPERTIES
    FullStreamRecovers
    KeepsPromise
