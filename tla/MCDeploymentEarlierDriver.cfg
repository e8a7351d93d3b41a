SPECIFICATION Spec
CONSTANTS
    LegacyBoard = FALSE
    EarlierDriver = TRUE
    Bar0 <- OneAddress
    Turing = {t1}
    Native = {n1}
    NotAvailable = NotAvailable
    Disturbances <- Nothing
    MaxDisturbances = 0
    NoPlan = NoPlan
    NoIdentity = NoIdentity
    NoCommand = NoCommand
    NoPreview = NoPreview
    NoConfig = NoConfig
INVARIANT FirmwareRebootProven
CHECK_DEADLOCK FALSE
