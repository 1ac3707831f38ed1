CONSTANTS
    Cores = {0, 1}
    MaxRequests = 2
    MaxChunks = 2
    RqDirExists = TRUE
SPECIFICATION Spec
INVARIANT TypeOK
INVARIANT SeenIsReadable
PROPERTY StringsAsRequested
