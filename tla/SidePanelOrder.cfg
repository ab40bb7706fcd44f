SPECIFICATION PanelSpec
CONSTANTS
    d1 = d1
    d2 = d2
    foe = foe
    ask1 = ask1
    NoView = NoView
    NoKey = NoKey
    Pending = Pending
    Idle = Idle
    Views <- TwoMoves
    Decisions <- TwoMoves
    Asks <- MCAsks
    MaxRevision = 2
    MaxCalls = 1
    MaxDue = 1
    MaxFaults = 0
PROPERTIES
    PanelKeepsNewest
CHECK_DEADLOCK FALSE
