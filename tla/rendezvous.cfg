SPECIFICATION Spec
CONSTANTS
    Workers = {w1}
    Requests = {r1, r2}
    Dispatchers = {k1}
    None = None
    MaxSessions = 2
    MaxCrashes = 1
    MaxRevokes = 1
    MaxFaults = 1
INVARIANTS
    SessionsInOrder
    CommandBound
    NoGhost
PROPERTIES
    ClosedEnds
CHECK_DEADLOCK FALSE
