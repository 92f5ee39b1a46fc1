CONSTANTS
    npu = npu
    accel0 = accel0
    c1 = c1
    Torn = Torn
    NoResources = NoResources
    Names = {npu}
    Nodes = {accel0}
    Devices = {npu}
    Claims = {c1}
    NameOf <- OneNameOf
    NodeOf <- OneNodeOf
    Alloc <- OneAlloc
    MaxClock = 1
SPECIFICATION SurgeSpec
INVARIANTS PreparedKeepsSnapshot
