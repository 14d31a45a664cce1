\* Two servers, two disks, five answers.
SPECIFICATION FairSpec
CONSTANTS
    NumServers = 2
    NumDisks = 2
    Name <- MCName
    Setups <- MCSetups
    Answers <- MCAnswers
INVARIANTS
    TypeOK
    WarnCountExact
    DisplayExact
    FlagsTell
PROPERTIES
    TroubleComesUp
    AllClearAtLast
\* the user quits
CHECK_DEADLOCK FALSE
