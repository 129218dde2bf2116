SPECIFICATION FairSpec

CONSTANTS
    w1 = w1
    w2 = w2
    w3 = w3
    Sink <- ConfiguredSink
    Writers <- ThreeWriters
    Capacity = 2
    MaxItems = 5
    Faults = {"open", "send", "refuse"}

INVARIANTS
    TypeOK
    LostAtStop
PROPERTIES
    ImplementsDelivery
    StopEnds

\* The process ends.
CHECK_DEADLOCK FALSE
