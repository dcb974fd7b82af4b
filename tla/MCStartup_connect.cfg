\* connect(host, port, handler) called while start or stop is between
\* stopped_ and manual_ (p2p.cpp:106/111, 289/290).
CONSTANTS
    s1 = s1  s2 = s2  s3 = s3
    Seeds <- MCSeeds
    BlockedSeeds = {s3}
    HostPoolCapacity = 100
    LoadedCounts = {0, 5}
    SeedYields = {0, 60}
    MinimumHostIncrease = 100
    MaxStarts = 2
    MaxStops = 2

SPECIFICATION Spec
INVARIANT ConnectAnswered

CHECK_DEADLOCK FALSE
