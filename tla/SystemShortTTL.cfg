SPECIFICATION SysSpec
CONSTANTS
    i1 = i1
    i2 = i2
    NoOne = NoOne
    Gone = Gone
    Instances <- Two
    TTL = 2
    Second = 1
    Half = 1
    AcquireTimeout = 0
    ProcessingTimeout = 3
    FaultyCalls <- None
    MaxFaults = 0
    MaxCrashes = 0
    Messages <- Row
    Malformed <- None
    Poison <- None
    MaxLosses = 0
    MaxFailures = 0
INVARIANTS NoDuplicateInSystem
