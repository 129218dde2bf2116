SPECIFICATION FairSpec

CONSTANTS
    BatchSinks <- BothSinks
    Capacity = 1
    BatchSize = 2
    BatchCapacity = 1
    MaxItems = 4
    MaxRestarts = 1
    Faults = {"send", "long", "partial", "again", "crash"}

INVARIANTS
    TypeOK
    AtMostOnce
    Accounted
    StoredInFirstProcess
    LostAtStop
    
PROPERTIES
    ImplementsDelivery
    Flushed

\* The process ends.
CHECK_DEADLOCK FALSE
