\* read, nanosleep, and connect with a bit above the 16 that are kept; 2 ns to
\* the us, and every width scaled down to match.
CONSTANTS
    Ids = {0, 35, 554}
    NsPerUs = 2
    Mod16 = 512
    Mod32 = 4
    Mod64 = 16
    JavaIntMax = 2
    ShortWindow = 3
    MinEvents = 2
    TrainWindow = 2
    Skew = 2
    MaxTime = 9
    MaxEvents = 3
SPECIFICATION Spec
INVARIANTS
    ClassesMatchServer
CHECK_DEADLOCK FALSE
