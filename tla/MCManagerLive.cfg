SPECIFICATION FairSpec

CONSTANTS
    a = a
    b = b
    NoOne = NoOne
    Procs <- TwoProcs
    Runner <- Allocations
    MaxIndex = 1
    MaxStarts = 2
    MaxTenures = 1
    Faults = {"release", "signal", "crash"}

INVARIANTS
    OneLeader
    NoPanic
PROPERTIES
    ImplementsLeadership
    LeaderStops
    CatchesUp

\* The processes may all be down for good, once MaxStarts is used up.
CHECK_DEADLOCK FALSE
