CONSTANTS
    Seeds = {"id:0", "id:1", "id:2"}
    InstallSeeds = {"id:2"}
    Shortened = {"id:1"}
    Lines <- OneLine
    RqDirExists = TRUE
    Restarts = 1
    MaxRuns = 2
SPECIFICATION FairSpec
INVARIANT CovOfOneRun
INVARIANT CovOfItsEntry
PROPERTY CovIsFinal
PROPERTY EntryIsRetried
CHECK_DEADLOCK FALSE
