\* Two orders with a courier each.  o1 and its courier are reliable; any other
\* lookup may fail, and urgent syncs of o2 run into the cycles.
CONSTANTS
    o1 = o1
    o2 = o2
    c1 = c1
    c2 = c2
    Orders = {o1, o2}
    Couriers = {c1, c2}
    CourierOf <- TwoCouriers
    Urgent = {o2}
    Reliable = {o1, c1}
    WorkerConcurrency = 1
    MaxPosition = 2
    MaxFaults = 1
SPECIFICATION FairSpec
INVARIANT TypeOK
PROPERTIES CycleStoresItsOwn ReliableIsLocated CycleTerminates
