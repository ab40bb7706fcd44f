SPECIFICATION Spec
CONSTANTS
    Members = {"weak", "strong"}
    Horizons = {2, 3}
    Certain = 3
    Intervals = 2
    Probabilities = {0, 2, 3}
    MaxDecisions = 4
CONSTANT Rate <- TheRates
CONSTANT Stacks <- TheStacks
CONSTANT Deeds <- TheDeeds
INVARIANTS
    WindowsAreCounted
    CalibratedIsNoWorse
PROPERTIES
    RightPredictionsAgree
CHECK_DEADLOCK FALSE
