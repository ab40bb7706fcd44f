SPECIFICATION Spec
CONSTANTS
    d1 = d1
    foe = foe
    NoView = NoView
    NoKey = NoKey
    Pending = Pending
    Views <- MCViews
    Decisions <- MCDecisions
    MaxRevision = 2
    MaxCalls = 2
    MaxDue = 2
    MaxFaults = 1
INVARIANTS
    BridgeTypeOK
    ClaimIsOwned
PROPERTIES
    NewestStays
    EveryDecisionIsAdvised
CHECK_DEADLOCK FALSE
