\* Two workers and a request that names one of two datasets twice, while both
\* are created and imported into.
SPECIFICATION FairSpec
CONSTANTS
    Datasets = {"d1", "d2"}
    Lists <- MCLists
    Modes = {"car"}
    NoGraph = NoGraph
    MaxImports = 2
    Workers = {w1, w2}
    NoInput = 0
    Asked <- Twice
CHECK_DEADLOCK FALSE
INVARIANTS
    GraphsAreImports
    RefusedForAReason
    RunAccountsForInputs
    BatchAnswersAreWhole
PROPERTIES
    RunReturns
