CONSTANTS
    Cores = {0, 1}
    MaxRequests = 2
    MaxChunks = 2
    RqDirExists = FALSE
SPECIFICATION Spec
INVARIANT PagesOfOwnRun
