CONSTANTS
    npu = npu
    accel0 = accel0
    c1 = c1
    w1 = w1
    w2 = w2
    Torn = Torn
    NoResources = NoResources
    Names = {npu}
    Nodes = {accel0}
    Devices = {npu}
    Claims = {}
    Watchers = {w1, w2}
    Faulty = FALSE
    Stoppable = FALSE
    NameOf <- OneNameOf
    NodeOf <- OneNodeOf
    Alloc <- NoEntries
    MaxClock = 1
SPECIFICATION FairDriverSpec
INVARIANTS HealthWakeup
PROPERTIES HealthConverges
