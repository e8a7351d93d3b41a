SPECIFICATION Spec
CONSTANTS
    g1 = g1
    g2 = g2
    b1 = b1
    b2 = b2
    s1 = s1
    s2 = s2
    Gpus <- TwoGpus
    Bridges <- TwoBridges
    Buses <- TwoBuses
    Topologies <- ThreeTopologies
    Setups <- TwoSetups
    Drafts <- SomeDrafts
    MaxFaults = 1
    None = None
    Malformed = Malformed
INVARIANTS ProgramsAsSaved ThroughItsBridge
PROPERTIES LeftOutIsReported SettingsComeBack
