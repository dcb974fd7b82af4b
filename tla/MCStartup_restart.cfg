\* start after stop: the pending collections stopped by p2p::stop are
\* not reopened (p2p.cpp:102-108).
CONSTANTS
    s1 = s1  s2 = s2  s3 = s3
    Seeds <- MCSeeds
    BlockedSeeds = {s3}
    HostPoolCapacity = 100
    LoadedCounts = {0, 5}
    SeedYields = {0, 60}
    MinimumHostIncrease = 100
    MaxStarts = 2
    MaxStops = 2

SPECIFICATION Spec
INVARIANT RunningAccepts

CHECK_DEADLOCK FALSE
