SPECIFICATION Spec
CONSTANTS
    g1 = g1
    g2 = g2
    all = all
    Games <- TwoGames
    AllGames = all
    Databases <- TwoDatabases
    Updates <- OneUpdate
    Others <- SomeOthers
    MaxAsks = 4
    MaxDisturbances = 1
    None = None
    Damaged = Damaged
INVARIANTS CopyHasEarlierValues ShowsTheDriver
PROPERTIES UndoPutsBack UndoesWhatWasShown
CHECK_DEADLOCK FALSE
