SPECIFICATION Spec
CONSTANTS
    Threads = {t1, t2}
    Works = {1}
    Executions = {"e1", "e2"}
    Clients = {"c1", "c2"}
    Requests <- MCRequests
    Operation <- MCOperation
    Expiry <- MCExpiry
    Capacity = 2
    MaxTime = 1
    MaxArrivals = 3
    MaxFailures = 1
SYMMETRY Symmetry
CHECK_DEADLOCK FALSE
INVARIANTS
    ReplayWindow
    QueueExact
    OneEvidence
    EvidenceIsDurable
