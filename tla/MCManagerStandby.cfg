SPECIFICATION FairSpec

CONSTANTS
    a = a
    b = b
    NoOne = NoOne
    Procs <- TwoProcs
    Runner <- Evaluations
    MaxIndex = 1
    MaxStarts = 2
    MaxTenures = 1
    Faults = {"signal"}

PROPERTIES
    RunsUntilStopped

\* The processes may all be down for good, once MaxStarts is used up.
CHECK_DEADLOCK FALSE
