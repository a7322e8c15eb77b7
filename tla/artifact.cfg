SPECIFICATION Spec
CONSTANTS
    b1 = b1
    b2 = b2
    b3 = b3
    Builds <- MCBuilds
    Factory = Factory
    Versions = {1, 2}
    VersionOf <- MCVersionOf
    SizeOf <- MCSizeOf
    None = None
    Torn = Torn
    ChunkCount = 2
    Transfers = {1, 2, 3, 4}
    MaxUpdates = 2
    MaxFaults = 2
INVARIANTS
    VerifiedIsInstalled
PROPERTIES
    UpdateSettles
CHECK_DEADLOCK FALSE
