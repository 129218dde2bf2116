SPECIFICATION Spec

CONSTANTS
    x = x
    y = y
    w1 = w1
    Objects <- TwoObjects
    MaxIndex = 3
    MaxRestarts = 1
    Sink <- ConfiguredSink
    Writers <- OneWriter
    Capacity = 1
    MaxItems = 3
    Faults = {"open", "send", "refuse", "crash"}

SYMMETRY Symmetry
INVARIANTS
    TypeOK
    LossBounded
    ResumesWhereItLeftOff
PROPERTIES
    ImplementsDelivery

\* Nothing is left to do once Nomad made its last change.
CHECK_DEADLOCK FALSE
