SPECIFICATION Spec
CONSTANTS
    Width = 5
    Height = 4
    MaxActions = 4
CONSTANT Summons <- TheSummons
CONSTANT Battles <- TheBattles
INVARIANTS
    ReplayTypeOK
    StacksAreWhole
    TimedEffectsAreCounted
    AuditsAgree
    AuditedEffectsAreExplained
    HitPointsAreAccountedFor
PROPERTIES
    ManaIsNeverMade
    ExactIsApplied
    MeleeLandsWhereLabelled
    BashLastsUntilActivation
CHECK_DEADLOCK FALSE
