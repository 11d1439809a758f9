\* The manager as its image runs it: always the same pid, crashes, I/O errors.
SPECIFICATION Spec
CONSTANTS
    Op = {o1, o2, o3, o4}
    o1 = o1
    o2 = o2
    o3 = o3
    o4 = o4
    o5 = o5
    i1 = i1
    i2 = i2
    Instance = {i1, i2}
    NoInstance = NoInstance
    NoOp = NoOp
    Target <- MCTarget
    Pid <- ContainerPid
    MaxCrashes = 1
    MaxFaults = 2
INVARIANTS MutualExclusion AuditAgreesWithJournal
PROPERTIES KeepsPromise
CHECK_DEADLOCK FALSE
