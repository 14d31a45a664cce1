\* Two seconds, two changes; a cache of two users, a table of two aliases.
SPECIFICATION Spec
CONSTANTS
    Confs <- MCConfs
    Printcaps <- MCPrintcaps
    Passwds <- MCPasswds
    Missing <- MCMissing
    NPRINTERDEFS = 2
    CACHE_SIZE = 2
    LastSecond = 3
INVARIANT TypeOK
PROPERTIES
    PrintersKnown
    LoginsRight
