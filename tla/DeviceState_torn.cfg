CONSTANTS
    npu = npu
    moved = moved
    accel0 = accel0
    accel1 = accel1
    c1 = c1
    c2 = c2
    Torn = Torn
    NoResources = NoResources
    Names = {npu}
    Nodes = {accel0}
    Devices = {npu}
    Claims = {c1, c2}
    NameOf <- NPUName
    NodeOf <- NPUNode
    Alloc <- SharedAlloc
    MaxClock = 2
SPECIFICATION Spec
INVARIANTS RestartReadsCheckpoint
