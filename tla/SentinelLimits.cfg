\* A disk section with limits of its own.
SPECIFICATION Spec
CONSTANTS
    NumServers = 2
    NumDisks = 2
    Name <- MCName
    Setups <- MCSetups
    Answers <- MCAnswers
INVARIANTS
    DiskLimitsApplied
\* the user quits
CHECK_DEADLOCK FALSE
