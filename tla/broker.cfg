SPECIFICATION Spec
CONSTANTS
    l1 = l1
    e1 = e1
    w1 = w1
    Handlers = {h1}
    Requests <- MCRequests
    Plans <- MCPlans
    Profiles <- MCProfiles
    LeaseIds = {l1}
    Scopes <- MCScopes
    Experiments = {e1}
    Hosts <- MCHosts
    MaxTime = 1
    MaxFaults = 1
    MaxPlans = 1
    MaxLeaseEvents = 2
INVARIANTS
    RunsOnce
    RanUnderLease
    OneAnswer
CHECK_DEADLOCK FALSE
