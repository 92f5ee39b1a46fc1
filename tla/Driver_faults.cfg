CONSTANTS
    npu = npu
    accel0 = accel0
    c1 = c1
    w1 = w1
    w2 = w2
    Torn = Torn
    NoResources = NoResources
    Names = {npu}
    Nodes = {accel0}
    Devices = {npu}
    Claims = {c1}
    Watchers = {}
    Faulty = TRUE
    Stoppable = TRUE
    NameOf <- OneNameOf
    NodeOf <- OneNodeOf
    Alloc <- OneAlloc
    MaxClock = 1
SPECIFICATION FairDriverSpec
INVARIANTS KickIsPending SliceIsCurrent
PROPERTIES ReleasedDeviceIsDropped ShutdownCompletes
