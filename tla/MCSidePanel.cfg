SPECIFICATION PanelSpec
CONSTANTS
    d1 = d1
    d2 = d2
    foe = foe
    ask1 = ask1
    NoView = NoView
    NoKey = NoKey
    Pending = Pending
    Idle = Idle
    Views <- MCViews
    Decisions <- MCDecisions
    Asks <- MCAsks
    MaxRevision = 2
    MaxCalls = 2
    MaxDue = 1
    MaxFaults = 1
PROPERTIES
    StepsBackByPanelOnly
CHECK_DEADLOCK FALSE
