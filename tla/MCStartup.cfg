\* Three seeds, one on a blacklisted address; a pool of exactly 100, the
\* threshold, so two seeds of 60 addresses fill it at the boundary; a host
\* file that loads empty (seeding needed) or with 5 addresses (not needed).
CONSTANTS
    s1 = s1  s2 = s2  s3 = s3
    Seeds <- MCSeeds
    BlockedSeeds = {s3}
    HostPoolCapacity = 100
    LoadedCounts = {0, 5}
    SeedYields = {0, 60}
    MinimumHostIncrease = 100
    MaxStarts = 2
    MaxStops = 2

SPECIFICATION Spec
INVARIANT FullPoolNotThrottled StopReachesSessions
PROPERTY StartAnswered
\* The start sequence ends once its handler is called.
CHECK_DEADLOCK FALSE
