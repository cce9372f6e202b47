\* Two processes whose clocks differ by as much as they may, two ticks of a minute of three.
SPECIFICATION BucketSpec
CONSTANTS
    p1 = p1
    p2 = p2
    Processes = {p1, p2}
    Skew <- Ahead
    Minute = 3
    PerMinute = 2
    Burst = 1
    LastTick = 12
    MaxLosses = 1
    MaxSetback = 4
INVARIANTS WithinRate RetryAfterServes
CHECK_DEADLOCK FALSE
