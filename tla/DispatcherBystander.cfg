\* An unrelated move renews the lock number and voids a reservation.
SPECIFICATION Spec
CONSTANTS
    Partition <- MCPartition
    Server <- MCServer
    ServerOf <- MCServerOf
    Volume <- MCVolume
    Invocations <- Bystander
    MaxSigint = 0
PROPERTIES
    SourceEmptiedFirst
\* the balancer exits
CHECK_DEADLOCK FALSE
