SPECIFICATION Spec
CONSTANTS
    p1 = p1
    p2 = p2
    a1 = a1
    a2 = a2
    w1 = w1
    w2 = w2
    k1 = k1
    k2 = k2
    Procs = {p1, p2}
    Auths = {a1, a2}
    Workers = {w1}
    Names = {w1, w2}
    Keys = {k1, k2}
    AnyWorker = AnyWorker
    None = None
    Expected = {w1, w2}
    Ttl = 1
    MaxTime = 1
    MaxLines = 10
    MaxStop = 3
SYMMETRY Symmetry
INVARIANTS
    ChainVerifies
    SingleUse
    EnrollmentSound
CHECK_DEADLOCK FALSE
