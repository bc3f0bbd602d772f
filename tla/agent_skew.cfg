\* Two CPUs, one watched and one filtered container whose dump files have the
\* same name, overlapping dump requests, cleanups that race with them.
CONSTANTS
    Cpus = {p1, p2}
    Containers = {c1, c2}
    RingCapacity = 2
    StartClock = 4
    MaxClock = 5
    MaxEvents = 3
    Durations = {1}
    SafeId <- SameSafeId
    Unmatched = {c2}
    ShortWindow = 1
    MinEvents = 2
    CleanupInterval = 1
    InactiveThreshold = 1
    MaxRequests = 2
SYMMETRY CpuSymmetry
SPECIFICATION Spec
INVARIANTS
    TypeOK
    NoticePerDump
PROPERTIES
    DumpsFollowLife
CHECK_DEADLOCK FALSE
