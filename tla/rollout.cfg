SPECIFICATION Spec
CONSTANTS
    None = None
    Threads = {t1, t2}
    Fleet <- MCFleet
    MaxPlans = 1
    MaxReconciles = 5
    MaxRestarts = 1
SYMMETRY MCThreads
INVARIANT CompletedIsEarned
PROPERTY CanariesFirst
CHECK_DEADLOCK FALSE
