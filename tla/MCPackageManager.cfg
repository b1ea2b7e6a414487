\* Two commands and one change of the registry in every one of 196 worlds.
CONSTANTS
    Name = {1, 2, 3}
    Version = {1, 2}
    Worlds <- MCWorlds
    InitialOffers <- MCOffers
    MaxCommands = 2
    MaxChanges = 1
    MaxFailures = 1
SPECIFICATION Spec
INVARIANTS
    SolvedIsSolution
    UnsolvedMeansNone
    PinsKept
    LeavesFirst
    ProjectInStep
    OrderInv
