\* Three partitions, five volumes, all placements of four of them.
SPECIFICATION FairSpec
CONSTANTS
    Server <- MCServer
    Partition <- MCPartition
    Volume <- MCVolume
    Cells <- MCCells
    NULL = NULL
    Word = 1024
INVARIANTS
    TypeOK
    BooksRight
    MovesReplay
    LimitsKept
    SearchComplete
PROPERTIES
    WithinPrecision
    Terminates
\* balance() returns
CHECK_DEADLOCK FALSE
