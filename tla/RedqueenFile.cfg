CONSTANTS
    BYTE = 6
    MAX_PAYLOAD = 7
    Strings <- MCStrings
    MaxRecords = 3
    MaxRuns = 2
SPECIFICATION Spec
INVARIANT TypeOK
INVARIANT InStep
INVARIANT ParsesAll
INVARIANT LearnsWhatWasDumped
CHECK_DEADLOCK FALSE
