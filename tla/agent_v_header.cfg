\* A record can reach the dump file before its header.
CONSTANTS
    Cpus = {p1}
    Containers = {c1}
    RingCapacity = 1
    StartClock = 3
    MaxClock = 6
    MaxEvents = 3
    Durations = {1}
    SafeId <- SameSafeId
    Unmatched = {}
    ShortWindow = 1
    MinEvents = 2
    CleanupInterval = 3
    InactiveThreshold = 3
    MaxRequests = 1
SPECIFICATION Spec
INVARIANT HeaderFirst
CHECK_DEADLOCK FALSE
