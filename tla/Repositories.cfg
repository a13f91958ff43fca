\* An order of each kind and a lock of each kind; time enough for every TTL to
\* run out and be renewed.
CONSTANTS
    o1 = o1  o2 = o2
    mapping1 = mapping1  mapping2 = mapping2
    Orders = {o1, o2}
    Stray = {o2}
    Keys = {mapping1, mapping2}
    KeyTTL <- MCKeyTTL
    MappingKey <- MCMappingKey
    Values = {c1, c2}
    Pods = {p1, p2}
    Locks = {lock1, lock2}
    Reentrant = {lock2}
    HeartbeatTTL = 1
    LockTTL = 1
    MaxTime = 4
SYMMETRY Symmetry
SPECIFICATION Spec
INVARIANTS TypeOK ItemsAgree TrackingAgrees LocksAgree
