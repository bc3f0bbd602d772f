\* One process that goes anywhere, an event waiting behind the one looked up.
CONSTANTS
    c1 = c1
    c2 = c2
    c3 = c3
    me = me
    g1 = g1
    g2 = g2
    g3 = g3
    i1 = i1
    i2 = i2
    Host = Host
    Gone = Gone
    Containers = {c1, c2, c3, me}
    Cgroups = {g1, g2, g3}
    Pids = {p1}
    Ids = {i1, i2}
    Low <- MCLow
    Home <- MCHome
    Pattern <- MCPattern
    Keeper <- MCKeeper
    Pods = {c2, me}
    PodUid = {c2, me}
    Self = me
    KnowsPod = TRUE
    PreferPod = TRUE
    TTL = 2
    RingCapacity = 1
SPECIFICATION FairSpec
INVARIANTS
    TypeOK
    AttributedById
PROPERTIES
    CacheRecovers
CHECK_DEADLOCK FALSE
