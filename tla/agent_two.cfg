\* Two CPUs, two watched containers, a clock long enough for a buffer to grow
\* old: flushing and erasing across buffers, with events out of order.
CONSTANTS
    Cpus = {p1, p2}
    Containers = {c1, c2}
    RingCapacity = 2
    StartClock = 4
    MaxClock = 6
    MaxEvents = 3
    Durations = {1}
    SafeId <- SameSafeId
    Unmatched = {}
    ShortWindow = 1
    MinEvents = 2
    CleanupInterval = 1
    InactiveThreshold = 0
    MaxRequests = 1
SYMMETRY Symmetry
SPECIFICATION Spec
INVARIANTS
    EventsConserved
    FlushSpansWindow
CHECK_DEADLOCK FALSE
