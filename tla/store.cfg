\* Two worker processes; two container ids with one file name and one of its own.
CONSTANTS
    Processes = {p1, p2}
    slash = slash
    under = under
    other = other
    shared = shared
    own = own
    Containers = {slash, under, other}
    Files = {shared, own}
    FileOf <- SafeNames
    MaxVersion = 2
    MaxTrainings <- Trainings
SYMMETRY Symmetry
SPECIFICATION Spec
INVARIANTS
    TypeOK
    NamesakesOnly
    VersionsEarned
    DiskModelsScore
    DeletedStaysDeleted
