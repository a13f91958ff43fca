\* Calls take no time but still interleave; one failing call, any crashes and stops.
CONSTANTS
    Pods = {p1, p2}
    NoPod = NoPod
    LockTTL = 2
    RenewInterval = 1
    MaxDelay = 0
    MaxFaults = 1
SPECIFICATION FairSpec
PROPERTIES EventuallyStableLeader StopTerminates
