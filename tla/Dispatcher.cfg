\* Lists of three moves, up to three slots, faults, one interrupt.
SPECIFICATION FairSpec
CONSTANTS
    Partition <- MCPartition
    Server <- MCServer
    ServerOf <- MCServerOf
    Volume <- MCVolume
    Invocations <- MCInvocations
    MaxSigint = 1
INVARIANTS
    TypeOK
    ServersExclusive
    LocksRight
    ChildrenAccounted
    OutcomeTold
PROPERTIES
    StartOrder
    ImplementsVolumeMover
    Terminates
\* the balancer exits
CHECK_DEADLOCK FALSE
