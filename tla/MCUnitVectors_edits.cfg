SPECIFICATION Spec
CONSTANTS
    u1 = u1 u2 = u2 u3 = u3 d1 = d1 d2 = d2
    r1 = r1 r2 = r2 w1 = w1 w2 = w2 t1 = t1
    Units = {u1, u2}
    Documents = {d1, d2}
    title = title body = body
    Columns = {title, body}
    Of <- MCOf
    Requests = {r1, r2}
    Workers = {w1, w2}
    Tasks = {t1}
    None = None
    MaxChanges = 3
SYMMETRY Symmetry
CHECK_DEADLOCK FALSE
INVARIANTS SearchFollowsEdits CacheFollowsEdits
PROPERTIES CancelStops
