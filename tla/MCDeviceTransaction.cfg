SPECIFICATION Spec
CONSTANTS
    InitialCommands <- MCInitialCommands
    InitialStraps <- MCInitialStraps
    Requests <- MCRequests
    NoFault = NoFault
INVARIANTS
    BridgeOutlivesDevice
    RestoredOrReported
    CompletedIsProgrammed
PROPERTIES
    StrapsOnlyThroughWindow
    ImplementsPolicy
CHECK_DEADLOCK FALSE
