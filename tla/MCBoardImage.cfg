SPECIFICATION BoardSpec
CONSTANTS
    Images <- AllImages
    DriverSize = 3
    Block = 2
    PackedSizes <- SomeSizes
    VolumeHeader = 1
    FileHeader = 1
    Rules <- FourRules
    LegacyBoards <- Boards
    StaleCounts = {0, 1}
    Masked = Masked
INVARIANTS EveryDomainHasTheDriver TheRestIsKept RoundsAreProven PatchedAsSelected
CHECK_DEADLOCK FALSE
