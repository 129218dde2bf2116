SPECIFICATION FairSpec

CONSTANTS
    MaxEvents = 2
    MaxTime = 2
    MaxRestarts = 0

PROPERTIES
    EachEventEmitted

\* Nothing is left to do once the last event arrived.
CHECK_DEADLOCK FALSE
