SPECIFICATION FairSysSpec
CONSTANTS
    i1 = i1
    i2 = i2
    NoOne = NoOne
    Gone = Gone
    Instances <- Two
    TTL = 2
    Second = 1
    Half = 1
    AcquireTimeout = 0
    ProcessingTimeout = 1
    FaultyCalls <- AllCalls
    MaxFaults = 1
    MaxCrashes = 1
    Messages <- Row
    Malformed <- None
    Poison <- None
    MaxLosses = 1
    MaxFailures = 1
PROPERTIES SystemDispatches Delivered
