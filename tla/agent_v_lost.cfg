\* A dump that starts between the cleanup's test and its erase is never
\* reported.
CONSTANTS
    Cpus = {p1}
    Containers = {c1, c2}
    RingCapacity = 1
    StartClock = 4
    MaxClock = 5
    MaxEvents = 2
    Durations = {1}
    SafeId <- SameSafeId
    Unmatched = {}
    ShortWindow = 1
    MinEvents = 2
    CleanupInterval = 1
    InactiveThreshold = 1
    MaxRequests = 1
SPECIFICATION Spec
PROPERTY DumpEndsWithNotice
CHECK_DEADLOCK FALSE
