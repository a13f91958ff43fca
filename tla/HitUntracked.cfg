\* The location outlives the heartbeat, as with the defaults 120 s and 90 s; no failures.
CONSTANTS
    Orders = {o1}
    Watched = {o1}
    HeartbeatTTL = 2
    LocationTTL = 6
    PollInterval = 2
    WatchGap = 4
    CycleTime = 1
    MaxMisses = 0
    MaxFaults = 0
    MaxReads = 0
    Split = {}
SPECIFICATION Spec
PROPERTY HitIsTracked
