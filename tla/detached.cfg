SPECIFICATION Spec
CONSTANTS
    Works = {w1}
    Variants = {v1, v2}
    Clients = {c1, c2}
    Threads = {t1, t2}
    None = None
    Backend = "rendezvous"
    MaxSubmits = 3
    MaxCrashes = 2
    MaxFaults = 1
INVARIANTS
    CarriedOnce
    NoLostWork
CHECK_DEADLOCK FALSE
