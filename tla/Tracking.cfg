\* A watched order and one read once, with a pipeline others interleave with;
\* one failed Redis call, one failed cycle in a row.
CONSTANTS
    Orders = {o1, o2}
    Watched = {o1}
    Split = {o2}
    HeartbeatTTL = 5
    LocationTTL = 8
    PollInterval = 2
    WatchGap = 2
    CycleTime = 1
    MaxMisses = 1
    MaxFaults = 1
    MaxReads = 1
SPECIFICATION FairSpec
INVARIANTS TypeOK LiveIsTracked
PROPERTIES WarmStaysWarm WatchedIsServed UnwatchedIsForgotten
