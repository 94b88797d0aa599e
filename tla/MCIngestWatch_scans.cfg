SPECIFICATION Spec
CONSTANTS
    s1 = s1
    s2 = s2
    f1 = f1
    f2 = f2
    None = None
    Scanners = {s1, s2}
    Files = {f1, f2}
    MaxContents = 1
    MaxAssets = 3
    MaxIngest = 1
    MaxWrites = 2
    MaxFaults = 1
INVARIANTS RegisteredOnce LedgerKnowsTheFile AssetsHaveObjects NothingIsForgotten
SYMMETRY Symmetry
CHECK_DEADLOCK FALSE
