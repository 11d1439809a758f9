SPECIFICATION FairSpec
CONSTANTS
    Op = {o1, o2}
    o1 = o1
    o2 = o2
    o3 = o3
    o4 = o4
    o5 = o5
    i1 = i1
    i2 = i2
    Instance = {i1}
    NoInstance = NoInstance
    NoOp = NoOp
    Target <- MCTarget
    Pid <- HostPids
    MaxCrashes = 2
    MaxFaults = 1
PROPERTIES RecordsSettle 
CHECK_DEADLOCK FALSE
