SPECIFICATION FairSpec

CONSTANTS
    x = x
    y = y
    Objects <- TwoObjects
    Watch <- StubsWatch
    MaxIndex = 4
    MaxRestarts = 1
    InfoFaults = FALSE

INVARIANTS
    TypeOK
PROPERTIES
    EmittedInOrder
    ImplementsFeed
    EventuallyEmitted

\* Nothing is left to do once Nomad made its last change.
CHECK_DEADLOCK FALSE
