\* An agent points at a volume that another one moved.
SPECIFICATION Spec
CONSTANTS
    Server <- MCServer
    Partition <- MCPartition
    Volume <- MCVolume
    Cells <- MCCells
    NULL = NULL
    Word = 1024
INVARIANTS
    NeverPanics
\* balance() returns
CHECK_DEADLOCK FALSE
