\* Two requests on three folders and two files, with every request of the API.
CONSTANTS
    Requests = {r1, r2}
    Folders = {f1, f2, f3}
    Assets = {a1, a2}
    Names = {n1, n2}
    Root = Root
    Quota = 2
    MaxCrossed = 1
SPECIFICATION Spec
SYMMETRY Interchangeable
CHECK_DEADLOCK FALSE
INVARIANTS
    TreeUnlessMovesCross
    NamesDifferUnlessCrossed
    NothingLiveUnderDeleted
    UsageCountsFiles
