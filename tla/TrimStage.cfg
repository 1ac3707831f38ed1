CONSTANTS
    Files <- MCFiles
    Vars <- MCVars
    default_input <- MCDefault
    NUM_TRIMMING_OPERATIONS = 2
    MAX_CONCAT_FILES = 2
SPECIFICATION Spec
INVARIANTS
    TypeOK
    TrimOnlyShrinks
    LearnedFromSeeds
    StageInTrimmingMode
PROPERTIES
    StageShortens
    TrimStageEnds
