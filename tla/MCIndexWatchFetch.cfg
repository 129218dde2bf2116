SPECIFICATION FairSpec

CONSTANTS
    x = x
    y = y
    Objects <- TwoObjects
    Watch <- FetchWatch
    MaxIndex = 3
    MaxRestarts = 0
    InfoFaults = FALSE

INVARIANTS
    NothingPassedOver
PROPERTIES
    EventuallyEmitted

\* Nothing is left to do once Nomad made its last change.
CHECK_DEADLOCK FALSE
