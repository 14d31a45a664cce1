SPECIFICATION Spec
CONSTANTS
    Masters <- MasterCases
    Extensions <- ExtensionCases
    LocalCell = "home"
    OptionSets <- OptionCases
    Runs = 4
    Mishaps = 2
CHECK_DEADLOCK FALSE
INVARIANTS
    TypeOK
    FileRight
    KernelFollows
PROPERTY
    LocalKept
