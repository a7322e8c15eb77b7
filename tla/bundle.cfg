SPECIFICATION MCSpec
CONSTANTS
    a1 = a1
    a2 = a2
    b1 = b1
    b2 = b2
    Archives = {a1, a2}
    Bundles = {b1, b2}
    Threads = {1, 2}
    Cli = 0
    None = None
    ChunkCount = 2
    ArchiveBytes = 1
    ContentBytes = 2
    MetadataBytes = 1
    MaxCacheBytes = 7
    MaxInProgress = 2
    MaxFaults = 2
INVARIANTS
    PublishedIsVerified
    CacheBounded
PROPERTIES
    UploadSettles
CHECK_DEADLOCK FALSE
