SPECIFICATION Spec
CONSTANTS
    c1 = c1
    c2 = c2
    d1 = d1
    d2 = d2
    i1 = i1
    i2 = i2
    p1 = p1
    p2 = p2
    Clients <- TwoClients
    Perseverer = c1
    Installed <- FirstRelease
    Requests <- SomeRequests
    Earlier <- EarlierProfiles
    Gpus <- OneGpu
    NamedCopy = TRUE
    Blank = Blank
    Empty = Empty
    Releases <- ThreeReleases
    MaxDisturbances = 2
    Original = Original
    Foreign = Foreign
    Damaged = Damaged
    None = None
INVARIANT PackageIsProven
PROPERTIES Prepares
CHECK_DEADLOCK FALSE
