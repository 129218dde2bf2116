SPECIFICATION FairSpec

CONSTANTS
    MaxEvents = 3
    MaxTime = 4
    MaxRestarts = 1

INVARIANTS
    TypeOK
    SavedMeansEmitted
PROPERTIES
    EmittedOnce
    EmittedInStep

\* Nothing is left to do once the last event arrived.
CHECK_DEADLOCK FALSE
