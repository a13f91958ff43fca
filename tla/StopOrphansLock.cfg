\* No failing call: the interleaving alone does it.
CONSTANTS
    Pods = {p1, p2}
    NoPod = NoPod
    LockTTL = 5
    RenewInterval = 2
    MaxDelay = 1
    MaxFaults = 0
SPECIFICATION Spec
INVARIANT StoppedPodHoldsNoLock
