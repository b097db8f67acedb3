SPECIFICATION Spec
CONSTANTS
    i1 = i1
    i2 = i2
    NoOne = NoOne
    Gone = Gone
    Instances <- Two
    TTL <- DefaultTTL
    Second = 1
    Half <- DefaultHalf
    AcquireTimeout <- DefaultAcquire
    ProcessingTimeout <- DefaultBatch
    FaultyCalls <- AllCalls
    MaxFaults = 2
    MaxCrashes = 1
INVARIANTS TypeOK KeyOutlivesBatch FlagFollowsBatch
PROPERTIES ForeignKeyUntouched OrphanExpires BatchesExclude
