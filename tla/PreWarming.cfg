\* Three pods, two orders, two faults: half-registered orders, a pod dying on the way.
CONSTANTS
    Pods = {p1, p2, p3}
    Orders = {o1, o2}
    MaxFaults = 2
SPECIFICATION FairSpec
INVARIANTS TypeOK FlagMeansRegistered
PROPERTIES RestartsPreWarm PodServes
