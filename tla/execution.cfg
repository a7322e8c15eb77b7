SPECIFICATION SystemSpec
CONSTANTS
    Requests = {w1}
    Variants = {v1}
    Clients = {k1}
    Threads = {t1}
    Bindings = {b1, b2}
    Conns = {c1}
    None = None
    Backend = "endpoint"
    MaxSubmits = 1
    MaxCrashes = 1
    MaxFaults = 1
    MaxMessages = 2
    MaxExits = 1
INVARIANTS
    CompletedIsDurable
PROPERTIES
    WorkSettles
CHECK_DEADLOCK FALSE
