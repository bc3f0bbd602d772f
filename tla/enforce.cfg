\* One window posted twice, two lives of the agent, one foreign policy.
CONSTANTS
    Containers = {c1}
    Attempts = 2
    MaxWindows = 1
    MaxOthers = 1
    MaxStarts = 2
SPECIFICATION FairSpec
INVARIANTS
    TypeOK
    EnforcedWasOrdered
    AppliedMeansFile
    PoliciesPerWindow
    NoWorkAfterStop
PROPERTIES
    PostReturns
    StopReturns
CHECK_DEADLOCK FALSE
