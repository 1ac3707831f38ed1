CONSTANTS
    Files <- MCFiles
    Vars <- MCVars
    default_input <- MCDefault
    NUM_TRIMMING_OPERATIONS = 1
    APPLY_REDQUEEN_AFTER = 2
    MAX_CONCAT_FILES = 2
    MAX_GLOBAL_TODO = 2
    Seeds = {"s1", "s2"}
    FirstSeed = "s1"
    RqDirExists = TRUE
    HtmlForms <- NoForms
    MaxExecutions = 5
SPECIFICATION Spec
INVARIANTS
    TypeOK
    DumpOncePerVisit
    RedqueenRequested
    ListsBounded
PROPERTY PlanInOrder
