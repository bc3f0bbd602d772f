\* Concurrent handlers of every kind, lost calls, completions at any time.
CONSTANTS
    Containers = {c1}
    Workers = {w1, w2, w3}
    Lossy = TRUE
    MaxTrainings = 2
    MaxCompletions = 2
    MaxSyncs = 1
    MaxClears = 1
    MaxPolls = 1
    MaxMlVersion = 1
SYMMETRY Symmetry
SPECIFICATION Spec
INVARIANT TypeOK
INVARIANT ClaimedOnce
INVARIANT ReadyHasCause
PROPERTY StatusMovesForward
CHECK_DEADLOCK FALSE
