CONSTANTS
    w = w
    h = h
    m = m
    n = n
    c1 = c1
    c2 = c2
    Nodes = {w, h}
    Warehouses = {w}
    Leftover = {w}
    Calls = {c1, c2}
    Maps = {m, n}
    Malformed = Malformed
    Empty = Empty
    None = None
    Requests <- TheRequests
    MaxEvents = 3
    MaxSeconds = 1
SPECIFICATION Spec
INVARIANTS LiveGraphIsCurrent AnswersComeFromTheMap AnswerIsStored
PROPERTIES ResultsAreKept
CHECK_DEADLOCK FALSE
