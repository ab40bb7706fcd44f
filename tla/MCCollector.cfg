SPECIFICATION Spec
CONSTANTS
    Limits = {0, 1}
    MaxRuns = 3
CONSTANT Urls <- TheUrls
INVARIANTS
    DescribedIsWhole
    RunAccountsForAll
CHECK_DEADLOCK FALSE
