SPECIFICATION FairSpec
CONSTANTS
    i1 = i1
    i2 = i2
    NoOne = NoOne
    Gone = Gone
    Instances <- Two
    TTL <- DefaultTTL
    Second = 1
    Half <- DefaultHalf
    AcquireTimeout <- DefaultAcquire
    ProcessingTimeout <- DefaultBatch
    FaultyCalls <- ReleaseOnly
    MaxFaults = 1
    MaxCrashes = 0
PROPERTIES Failover
