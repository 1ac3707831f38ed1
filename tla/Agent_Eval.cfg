CONSTANTS
    Files <- MCFiles
    Lines = {0, 1}
    MAX_OPCODE_POS = 2
    MaxDepth = 2
    Limits = {0}
    MaxRequests = 1
    MaxRuns = 1
SPECIFICATION Spec
INVARIANTS
    NoEvalFeedback
