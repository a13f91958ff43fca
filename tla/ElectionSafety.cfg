\* Two pods; LockTTL is the least value with RenewInterval + 2 MaxDelay < LockTTL.
CONSTANTS
    Pods = {p1, p2}
    NoPod = NoPod
    LockTTL = 5
    RenewInterval = 2
    MaxDelay = 1
    MaxFaults = 1
SPECIFICATION Spec
SYMMETRY PodSymmetry
INVARIANTS TypeOK LeaseCoversFlag AtMostOneLeader
PROPERTIES LeaseEndsOnlyByExpiry AbstractSpec
