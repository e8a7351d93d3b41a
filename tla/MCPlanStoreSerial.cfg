SPECIFICATION SerialSpec
CONSTANTS
    c1 = c1
    c2 = c2
    v1 = v1
    v2 = v2
    NoPlan = NoPlan
    Clients <- TwoClients
    Evidence <- TwoValues
    StepCount = 3
PROPERTY ImplementsHistory
