SPECIFICATION Spec
CONSTANTS
    None = None
    MaxAge = 0
    Workers = {1}
    Limit = 1
    Facts <- McFacts
    Policies <- McPolicies
    Requests <- McRequests
    Probed <- McProbed
    Captured = {0}
    Vouched <- McVouched
    Threads = {t1, t2}
    MaxClock = 1
    MaxOperations = 3
SYMMETRY Symmetry
INVARIANTS SlotsBalanced RunsAsAdmitted
PROPERTIES SelectedWasTrue TargetWasVouched
CHECK_DEADLOCK FALSE
