SPECIFICATION Spec
CONSTANTS
    Workers = {w1}
    Threads = {t1, t2}
    Versions <- MCVersions
    ControllerVersion = "v2"
    Hosts <- MCHosts
    Beside <- MCBeside
    MaxChanges = 1
    MaxOperations = 3
    NoVersion = NoVersion
    None = None
INVARIANT SettledWhenSchedulable
PROPERTIES ReadyIsEarned VersionVerified
CHECK_DEADLOCK FALSE
