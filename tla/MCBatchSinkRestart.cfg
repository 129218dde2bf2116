SPECIFICATION Spec

CONSTANTS
    BatchSinks <- SQSOnly
    Capacity = 1
    BatchSize = 2
    BatchCapacity = 1
    MaxItems = 2
    MaxRestarts = 1
    Faults = {}

INVARIANTS
    QueuedMeansStored

\* The process ends.
CHECK_DEADLOCK FALSE
