SPECIFICATION FairSpec
CONSTANTS
    LegacyBoard = TRUE
    EarlierDriver = FALSE
    Bar0 <- TwoAddresses
    Turing = {t1}
    Native = {n1}
    NotAvailable = NotAvailable
    Disturbances <- SafeDisturbances
    MaxDisturbances = 2
    NoPlan = NoPlan
    NoIdentity = NoIdentity
    NoCommand = NoCommand
    NoPreview = NoPreview
    NoConfig = NoConfig
INVARIANTS FirmwareRebootProven ConfigurationRebootProven ApertureProven
PROPERTIES OnlyPinnedMachine ConfigForPinnedBar0 Resumable
CHECK_DEADLOCK FALSE
