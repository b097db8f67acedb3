SPECIFICATION Spec
CONSTANTS
    w1 = w1
    w2 = w2
    Workers <- TwoWorkers
    Messages <- Rows3
    Malformed <- None
    Poison <- None
    Exclusive = FALSE
    MaxFaults = 1
INVARIANTS NoLoss CacheSound
PROPERTIES KeepsOutbox
SYMMETRY WorkerSymmetry
