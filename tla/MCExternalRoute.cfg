SPECIFICATION FairSpec
CONSTANTS
    m1 = m1
    m2 = m2
    w1 = w1
    w2 = w2
    Machines <- TwoMachines
    Managers <- TwoManagers
    FirstMachine = m1
    FirstManager = w1
    Foreign <- OneForeign
    Hidden <- Nobody
    MaxNumber = 9
    Databases <- SomeDatabases
    Disturbances <- Everything
    MaxDisturbances = 3
    None = None
INVARIANTS FirstIsTried
PROPERTIES ForeignUntouched Continues
CHECK_DEADLOCK FALSE
