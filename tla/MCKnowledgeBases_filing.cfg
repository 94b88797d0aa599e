\* Two clients side by side on the tags of a space, with every request and filing.
CONSTANTS
    Clients = {c1, c2}
    Count = 4
    Existing = {1, 2}
    Keys = {k1, k2, k3}
    Assets = {a1}
    MaxPending = 3
    MaxChanges = 2
SPECIFICATION Spec
SYMMETRY Interchangeable
CHECK_DEADLOCK FALSE
INVARIANTS
    MergesEnd
    LinksLeaveMergedTags
    PendingWithinLimit
    TreeUnlessMovesCross
    WaitCirclesHaveACause
