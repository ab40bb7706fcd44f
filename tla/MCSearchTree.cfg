SPECIFICATION Spec
CONSTANTS
    s1 = s1
    s2 = s2
    s3 = s3
    s4 = s4
    s5 = s5
    s6 = s6
    x1 = x1
    n1 = n1
    n2 = n2
    n3 = n3
    n4 = n4
    n5 = n5
    w1 = w1
    NoState = NoState
    NoBattle = NoBattle
    NoKey = NoKey
    NoNode = NoNode
    States <- TheStates
    Addresses <- TheAddresses
    Moves <- TheMoves
    Results <- TheResults
    BattleOf <- TheBattles
    Forms = {1, 2}
    Summons <- TheSummons
    Sides = {"player", "pve"}
    MaxDepth = 2
    Budget = 2
    MaxPlans = 3
SYMMETRY Symmetry
INVARIANTS
    GraphIsSound
    GraphFitsRequest
PROPERTIES
    ReuseKeepsStatistics
CHECK_DEADLOCK FALSE
