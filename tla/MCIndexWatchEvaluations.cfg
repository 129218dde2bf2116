SPECIFICATION FairSpec

CONSTANTS
    x = x
    y = y
    Objects <- OneObject
    Watch <- EvaluationsWatch
    MaxIndex = 2
    MaxRestarts = 0
    InfoFaults = FALSE

PROPERTIES
    EventuallyEmitted

\* Nothing is left to do once Nomad made its last change.
CHECK_DEADLOCK FALSE
