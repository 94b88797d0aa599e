SPECIFICATION Spec
CONSTANTS
    e1 = e1 e2 = e2 e3 = e3
    a1 = a1 a2 = a2 s1 = s1 s2 = s2
    Entities = {e1, e2, e3}
    Spellings <- MCSpellings
    Facts <- MCFacts
    Assets = {a1, a2}
    Sessions = {s1, s2}
    None = None
    MaxChanges = 5
SYMMETRY Symmetry
CHECK_DEADLOCK FALSE
INVARIANTS GraphShowsTheLiving DeletedLeaveNoEvidence LivingHaveVectors
PROPERTIES RollbackRestores MergeKeepsEvidence
