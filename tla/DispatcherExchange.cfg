\* Reservations that no lock change voids: the run gives up.
SPECIFICATION Spec
CONSTANTS
    Partition <- MCPartition
    Server <- MCServer
    ServerOf <- MCServerOf
    Volume <- MCVolume
    Invocations <- Exchange
    MaxSigint = 0
INVARIANTS
    ExhaustivelyTried
\* the balancer exits
CHECK_DEADLOCK FALSE
