CONSTANTS
    Files <- MCFiles
    Lines = {0, 1}
    MAX_OPCODE_POS = 1
    MaxDepth = 2
    Limits = {0, 2}
    MaxRequests = 2
    MaxRuns = 2
SPECIFICATION Spec
INVARIANTS
    TypeOK
    CrashMeansBug
    BugIsReported
    DumpsOfOneRun
    FeedbackNamesAFile
    LimitIsFinal
