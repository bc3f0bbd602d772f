\* The agent's own path for completions, and no other client.
CONSTANTS
    Containers = {c1}
    Workers = {w1}
    Lossy = FALSE
    MaxTrainings = 1
    MaxCompletions = 0
    MaxSyncs = 0
    MaxClears = 0
    MaxPolls = 0
    MaxMlVersion = 0
SPECIFICATION FairSpec
PROPERTY JobsDrain
CHECK_DEADLOCK FALSE
