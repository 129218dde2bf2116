SPECIFICATION Spec

CONSTANTS
    a = a
    b = b
    NoOne = NoOne
    Procs <- TwoProcs
    Runner <- Deployments
    MaxIndex = 2
    MaxStarts = 3
    MaxTenures = 1
    Faults = {"session", "lock", "get", "put", "release", "crash"}

SYMMETRY Symmetry
INVARIANTS
    TypeOK
    NothingSkipped

\* The processes may all be down for good, once MaxStarts is used up.
CHECK_DEADLOCK FALSE
