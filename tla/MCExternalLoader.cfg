CONSTANTS
    None = None
    InitialCommands <- MCCommands
    InitialStraps <- MCSteadyStraps
    Bases <- MCBases
    Destinations <- MCDestinations
    Requests <- MCRequests
    Surroundings <- MCSurroundings
    MaxBoots = 1
SPECIFICATION PlannedSpec
INVARIANTS
    DecodesAlone
    DmaOffWhileMoved
    FallbackIsClean
    HandoffIsReached
CHECK_DEADLOCK FALSE
