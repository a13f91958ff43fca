\* Three orders for a queue of two and two slots: the queue overflows, the slots
\* run out; one connection, whose requests never end.
CONSTANTS
    Orders = {o1, o2, o3}
    NoOrder = NoOrder
    Probe = Probe
    Handlers = {h1}
    QueueSize = 2
    Slots = {s1, s2}
SPECIFICATION FairServing
INVARIANTS ServingTypeOK OneSyncPerOrder MarkedIffBusy ShutdownInOrder
PROPERTIES QueuedIsServed ShutdownTerminates
