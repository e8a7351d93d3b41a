SPECIFICATION Spec
CONSTANTS
    Machine <- TwoListed
    Sizes <- MCSizes
    Machines <- MCMachines
    Variables <- MCVariables
    Files <- MCFiles
    MaxInputs = 3
    MaxMishaps = 1
    Absent = Absent
    Garbage = Garbage
    Unreadable = Unreadable
    NoSnapshot = NoSnapshot
    NoReport = NoReport
    NoRestore = NoRestore
    NoFile = NoFile
    NoSave = NoSave
INVARIANTS ChoiceIsThatGpuOnly ShowsWhatTheDriverDoes SavedAsShown
PROPERTIES ReplacesWhatWasRead
CHECK_DEADLOCK FALSE
