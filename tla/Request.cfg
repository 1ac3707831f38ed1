CONSTANTS
    Keys <- MCKeys
    PlainMethods = {"POST"}
    ServerNames <- MCServerNames
    UploadVars <- MCUploadVars
    Values <- MCValues
    KnownKeys <- MCKnownKeys
    Seeds <- MCSeeds
    GET = 1
    BrowserNames = {"REQUEST_METHOD", "SERVER_NAME"}
SPECIFICATION Spec
INVARIANTS
    TypeOK
    NoShadowing
    ServerWhitelisted
    BodyIsRead
PROPERTIES
    TrimShrinks
