SPECIFICATION FairSpec
CONSTANTS
    Profiles = {p1, p2}
    NoProfile = NoProfile
    MaxDetours = 2
    MaxMishaps = 1
INVARIANTS
    OnlyConfirmed
    ShowsTheSelected
PROPERTY
    Finishes
CHECK_DEADLOCK FALSE
